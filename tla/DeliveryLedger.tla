--------------------------- MODULE DeliveryLedger ---------------------------
(***************************************************************************)
(* What Kane promises about every user input it has accepted: the Agent    *)
(* adapter is asked to deliver it at most once, only after the input was   *)
(* claimed in the durable ledger, and the ledger forgets it only when the  *)
(* adapter has taken it or when the user deletes the conversation.         *)
(* No process, queue, coroutine or crash appears here: Harness.tla is      *)
(* shown to implement this specification.                                  *)
(***************************************************************************)
EXTENDS Integers

CONSTANT Inputs          \* identifiers of the user inputs

VARIABLES
    stage,               \* stage[m]: where the input stands
    deliveries           \* deliveries[m]: how often an adapter was asked to deliver it

ledgerVars == <<stage, deliveries>>

Stages == {"new", "pending", "claimed", "settled", "withdrawn"}

LedgerTypeOK ==
    /\ stage \in [Inputs -> Stages]
    /\ deliveries \in [Inputs -> Nat]

LedgerInit ==
    /\ stage = [m \in Inputs |-> "new"]
    /\ deliveries = [m \in Inputs |-> 0]

(* The input becomes durable. *)
Accept(m) ==
    /\ stage[m] = "new"
    /\ stage' = [stage EXCEPT ![m] = "pending"]
    /\ UNCHANGED deliveries

(* One party obtains the right to deliver. There is no way back. *)
Claim(m) ==
    /\ stage[m] = "pending"
    /\ stage' = [stage EXCEPT ![m] = "claimed"]
    /\ UNCHANGED deliveries

(* The claimed input is given to the adapter, and never a second time. *)
Deliver(m) ==
    /\ stage[m] = "claimed"
    /\ deliveries[m] = 0
    /\ deliveries' = [deliveries EXCEPT ![m] = 1]
    /\ UNCHANGED stage

(* The adapter took the input. *)
Settle(m) ==
    /\ stage[m] = "claimed"
    /\ deliveries[m] = 1
    /\ stage' = [stage EXCEPT ![m] = "settled"]
    /\ UNCHANGED deliveries

(* The user deletes the conversation that holds the inputs S. *)
Withdraw(S) ==
    /\ stage' = [m \in Inputs |->
                    IF m \in S /\ stage[m] # "new" THEN "withdrawn" ELSE stage[m]]
    /\ UNCHANGED deliveries

LedgerNext ==
    \/ \E m \in Inputs : Accept(m) \/ Claim(m) \/ Deliver(m) \/ Settle(m)
    \/ \E S \in SUBSET Inputs : Withdraw(S)

LedgerSpec == LedgerInit /\ [][LedgerNext]_ledgerVars

=============================================================================
