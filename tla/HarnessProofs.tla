---------------------------- MODULE HarnessProofs ----------------------------
(***************************************************************************)
(* Proofs about Harness for any number of Turns, Conversations, inputs and *)
(* crashes and for every capability an Agent can declare.                  *)
(***************************************************************************)
EXTENDS Harness, FiniteSetTheorems, SequenceTheorems, TLAPS

(* Removing an element of a sequence leaves a sequence over the same set.  *)
LEMMA RemoveAtType ==
    ASSUME NEW S, NEW s \in Seq(S), NEW i \in 1..Len(s)
    PROVE  RemoveAt(s, i) \in Seq(S)
<1>1. SubSeq(s, 1, i - 1) \in Seq(S)
  OBVIOUS
<1>2. SubSeq(s, i + 1, Len(s)) \in Seq(S)
  OBVIOUS
<1> QED
  BY <1>1, <1>2 DEF RemoveAt

(* A mailbox over the first n inputs is one over the first n + 1.          *)
LEMMA MailboxGrows ==
    ASSUME NEW k \in Nat, NEW s \in Seq(1..k)
    PROVE  s \in Seq(1..(k + 1))
<1>1. /\ Len(s) \in Nat
      /\ s \in [1..Len(s) -> 1..(k + 1)]
  OBVIOUS
<1> QED
  BY <1>1, SeqDef

(* What append_message establishes about the types.                        *)
AppendedTypes ==
    /\ n' \in 0..MaxMsgs
    /\ n' = n + 1
    /\ n + 1 \in Msgs
    /\ \A m \in Msgs : m > n' => m > n /\ m # n + 1
    /\ turnOf' \in [Msgs -> Turns \cup {NoTurn}]
    /\ \A m \in Msgs : turnOf'[m] = NoTurn <=> m > n'
    /\ kind' \in [Msgs -> {"message", "steer"}]
    /\ row' \in [Msgs -> {"none", "pending", "dispatching"}]
    /\ \A m \in Msgs : m > n' => row'[m] = "none"
    /\ mailbox \in [Turns -> Seq(1..n')]
    /\ toSettle \subseteq 1..n'
    /\ skipped \subseteq 1..n'

(* append_message keeps the types of everything it writes.                 *)
LEMMA AppendInputType ==
    ASSUME TypeOK, NEW t \in Turns, AppendInput(t, InputKind(t))
    PROVE  AppendedTypes
<1> USE HarnessAssumption
<1>1. n \in Nat /\ n < MaxMsgs /\ n' = n + 1 /\ n + 1 \in Msgs
  BY DEF TypeOK, AppendInput, Msgs
<1>2. mailbox \in [Turns -> Seq(1..n')]
  <2>1. \A u \in Turns : mailbox[u] \in Seq(1..n')
    BY <1>1, MailboxGrows DEF TypeOK
  <2> QED
    BY <2>1 DEF TypeOK
<1>3. InputKind(t) \in {"message", "steer"}
  BY DEF InputKind
<1> QED
  BY <1>1, <1>2, <1>3 DEF AppendedTypes, TypeOK, AppendInput, Msgs

(* The status values, in one place for the provers.                        *)
LEMMA StatusNames ==
    Statuses = {"none", "running", "waiting_user", "deleted", "finished",
                "failed", "interrupted"}
  BY DEF Statuses, Terminal

(* The ways in which the handlers update a stored Turn.                    *)
LEMMA TurnUpdates ==
    ASSUME turn \in [Turns -> TurnState], NEW t \in Turns
    PROVE  /\ \A s \in Statuses :
                [turn EXCEPT ![t].status = s] \in [Turns -> TurnState]
           /\ \A s \in Statuses, p \in BOOLEAN :
                [turn EXCEPT ![t].status = s, ![t].partial = p] \in [Turns -> TurnState]
           /\ [turn EXCEPT ![t].session = TRUE] \in [Turns -> TurnState]
           /\ [turn EXCEPT ![t].partial = TRUE] \in [Turns -> TurnState]
           /\ \A s \in Statuses, r \in TurnState :
                [r EXCEPT !.status = s] \in TurnState
<1>1. \A s \in Statuses : [turn EXCEPT ![t].status = s] \in [Turns -> TurnState]
  BY Zenon DEF TurnState
<1>2. \A s \in Statuses, p \in BOOLEAN :
        [turn EXCEPT ![t].status = s, ![t].partial = p] \in [Turns -> TurnState]
  BY Zenon DEF TurnState
<1>3. [turn EXCEPT ![t].session = TRUE] \in [Turns -> TurnState]
  BY Zenon DEF TurnState
<1>4. [turn EXCEPT ![t].partial = TRUE] \in [Turns -> TurnState]
  BY Zenon DEF TurnState
<1>5. \A s \in Statuses, r \in TurnState : [r EXCEPT !.status = s] \in TurnState
  BY Zenon DEF TurnState
<1> QED
  BY <1>1, <1>2, <1>3, <1>4, <1>5

(* Stopping every active Turn of the Agent, and what that leaves alone.    *)
LEMMA InterruptAllType ==
    ASSUME turn \in [Turns -> TurnState], InterruptAll
    PROVE  /\ turn' \in [Turns -> TurnState]
           /\ \A t \in Turns : turn'[t].status =
                IF Active(t) THEN "interrupted" ELSE turn[t].status
<1>1. \A t \in Turns :
        /\ [turn[t] EXCEPT !.status = "interrupted"] \in TurnState
        /\ [turn[t] EXCEPT !.status = "interrupted"].status = "interrupted"
  BY StatusNames, Zenon DEF TurnState
<1>2. \A t \in Turns :
        /\ turn'[t] \in TurnState
        /\ turn'[t].status = IF Active(t) THEN "interrupted" ELSE turn[t].status
  BY <1>1, Zenon DEF InterruptAll
<1> QED
  BY <1>2, Zenon DEF InterruptAll

-----------------------------------------------------------------------------
(* Every step keeps the types: one step per action, grouped as in Next.    *)

(* ... what users ask for, the pairing of their Agent included.            *)
LEMMA UserTypes ==
    ASSUME TypeOK, UserRequest
    PROVE  TypeOK'
<1> USE HarnessAssumption
<1> USE DEF ledgerState, controls, startup, process
<1>1. ASSUME NEW t \in Turns, CreateTurn(t)
      PROVE  TypeOK'
  BY <1>1, TurnUpdates, StatusNames DEF TypeOK, CreateTurn
<1>2. ASSUME NEW t \in Turns, EnqueueInput(t)
      PROVE  TypeOK'
  <2>1. AppendedTypes
    BY <1>2, AppendInputType DEF EnqueueInput
  <2>2. Append(mailbox[t], n + 1) \in Seq(1..n')
    BY <2>1 DEF AppendedTypes, TypeOK
  <2>3. mailbox' \in [Turns -> Seq(1..n')]
    BY <1>2, <2>1, <2>2 DEF EnqueueInput, AppendedTypes
  <2> QED
    BY <1>2, <2>1, <2>3
    DEF TypeOK, EnqueueInput, AppendedTypes
<1>3. ASSUME NEW t \in Turns, DispatchInput(t)
      PROVE  TypeOK'
  <2>1. AppendedTypes
    BY <1>3, AppendInputType DEF DispatchInput
  <2>2. call' \in [Msgs -> {"idle", "appended", "saved", "claimed", "awaiting"}]
    BY <1>3 DEF TypeOK, DispatchInput
  <2>3. \A m \in Msgs : m > n' => call'[m] = "idle"
    BY <1>3, <2>1 DEF TypeOK, DispatchInput, AppendedTypes
  <2> QED
    BY <1>3, <2>1, <2>2, <2>3
    DEF TypeOK, DispatchInput, AppendedTypes
<1>4. ASSUME NEW t \in Turns, CancelTurn(t)
      PROVE  TypeOK'
  BY <1>4 DEF TypeOK, CancelTurn
<1>5. ASSUME NEW t \in Turns, ResumeTurn(t)
      PROVE  TypeOK'
  <2>1. turn' \in [Turns -> TurnState]
    BY <1>5, TurnUpdates, StatusNames DEF TypeOK, ResumeTurn
  <2> QED
    BY <1>5, <2>1 DEF TypeOK, ResumeTurn
<1>6. ASSUME NEW c \in Conversations, DeleteConversation(c)
      PROVE  TypeOK'
  <2>1. [NoState EXCEPT !.status = "deleted"] \in TurnState
    BY Zenon DEF NoState, TurnState, Statuses
  <2> QED
    BY <1>6, <2>1 DEF TypeOK, DeleteConversation
<1>7. ASSUME DisconnectReturns
      PROVE  TypeOK'
  <2>1. turn' \in [Turns -> TurnState]
    BY <1>7, InterruptAllType DEF TypeOK, DisconnectReturns
  <2> QED
    BY <1>7, <2>1 DEF TypeOK, DisconnectReturns
<1>8. ASSUME DisconnectAgent \/ RemoveAgent
      PROVE  TypeOK'
  <2>1. CASE DisconnectAgent
    BY <2>1 DEF TypeOK, DisconnectAgent
  <2>2. CASE RemoveAgent
    BY <2>2 DEF TypeOK, RemoveAgent
  <2> QED
    BY <1>8, <2>1, <2>2
<1>9. ASSUME PairAgent
      PROVE  TypeOK'
  BY <1>9 DEF TypeOK, PairAgent
<1> QED
  BY <1>1, <1>2, <1>3, <1>4, <1>5, <1>6, <1>7, <1>8, <1>9 DEF UserRequest

(* ... what the Agent reports, and its coming and going.                   *)

LEMMA AgentTypes ==
    ASSUME TypeOK, AgentEvent
    PROVE  TypeOK'
<1> USE HarnessAssumption
<1> USE DEF ledgerState, controls, startup, process
<1>1. ASSUME NEW t \in Turns, AgentBound(t)
      PROVE  TypeOK'
  BY <1>1, TurnUpdates, StatusNames DEF TypeOK, AgentBound
<1>2. ASSUME NEW t \in Turns, AgentDelta(t)
      PROVE  TypeOK'
  BY <1>2, TurnUpdates, StatusNames DEF TypeOK, AgentDelta
<1>3. ASSUME NEW t \in Turns, AgentReplies(t)
      PROVE  TypeOK'
  BY <1>3, TurnUpdates, StatusNames DEF TypeOK, AgentReplies
<1>4. ASSUME NEW t \in Turns, AgentFinishes(t)
      PROVE  TypeOK'
  <2> DEFINE done == [turn[t] EXCEPT !.status = "finished", !.partial = FALSE]
  <2>1. done \in TurnState
    <3>1. turn[t] \in TurnState /\ "finished" \in Statuses
      BY StatusNames DEF TypeOK
    <3> QED
      BY <3>1, Zenon DEF TurnState
  <2>2. turn' \in [Turns -> TurnState]
    BY <1>4, <2>1, Zenon DEF TypeOK, AgentFinishes
  <2>3. CASE ~FollowupReady(t)
    BY <1>4, <2>2, <2>3 DEF TypeOK, AgentFinishes
  <2>4. CASE FollowupReady(t)
    <3>1. Head(mailbox[t]) \in 1..n /\ Tail(mailbox[t]) \in Seq(1..n)
      BY <2>4 DEF TypeOK, FollowupReady
    <3>2. /\ mailbox' = [mailbox EXCEPT ![t] = Tail(@)]
          /\ job' = [job EXCEPT ![Head(mailbox[t])] = "scheduled"]
          /\ snap' = [snap EXCEPT ![Head(mailbox[t])] = done]
      BY <1>4, <2>4, Zenon DEF AgentFinishes
    <3> HIDE DEF done
    <3> QED
      BY <1>4, <2>1, <2>2, <3>1, <3>2 DEF TypeOK, AgentFinishes, Msgs
  <2> QED
    BY <2>3, <2>4
<1>5. ASSUME NEW t \in Turns, AgentWaits(t)
      PROVE  TypeOK'
  <2>1. turn' \in [Turns -> TurnState]
    <3>1. turn[t] \in TurnState /\ "waiting_user" \in Statuses
      BY StatusNames DEF TypeOK
    <3>2. PICK recorded \in BOOLEAN :
            turn' = [turn EXCEPT ![t].status = "waiting_user",
                                 ![t].partial = @ /\ ~recorded]
      BY <1>5, Zenon DEF AgentWaits
    <3>3. (turn[t].partial /\ ~recorded) \in BOOLEAN
      OBVIOUS
    <3> QED
      BY <3>1, <3>2, <3>3, Zenon DEF TypeOK, TurnState
  <2> QED
    BY <1>5, <2>1 DEF TypeOK, AgentWaits
<1>6. ASSUME NEW t \in Turns, NEW e, NEW s \in Statuses, AgentMoves(t, e, s)
      PROVE  TypeOK'
  BY <1>6, TurnUpdates DEF TypeOK, AgentMoves
<1>7. ASSUME NEW t \in Turns, AgentBoundary(t)
      PROVE  TypeOK'
  <2>1. PICK i \in SteerPositions(t) :
          LET m == mailbox[t][i] IN
          /\ mailbox' = [mailbox EXCEPT ![t] = RemoveAt(@, i)]
          /\ ClaimInbound(m)
          /\ job' = [job EXCEPT ![m] = IF Claimable(m) THEN "saved" ELSE @]
    BY <1>7, Zenon DEF AgentBoundary
  <2>2. i \in 1..Len(mailbox[t]) /\ mailbox[t][i] \in 1..n
    BY <2>1 DEF SteerPositions, TypeOK
  <2>3. mailbox' \in [Turns -> Seq(1..n)]
    BY <2>1, <2>2, RemoveAtType DEF TypeOK
  <2>4. /\ row' \in [Msgs -> {"none", "pending", "dispatching"}]
        /\ job' \in [Msgs -> {"idle", "scheduled", "claimed", "saved", "awaiting"}]
        /\ \A m \in Msgs : m > n => row'[m] = "none" /\ job'[m] = "idle"
    BY <2>1, <2>2 DEF TypeOK, ClaimInbound, Claimable, Msgs
  <2> QED
    BY <1>7, <2>3, <2>4 DEF TypeOK, AgentBoundary
<1>8. ASSUME AgentDetaches
      PROVE  TypeOK'
  <2>1. turn' \in [Turns -> TurnState]
    BY <1>8, InterruptAllType DEF TypeOK, AgentDetaches
  <2> QED
    BY <1>8, <2>1 DEF TypeOK, AgentDetaches
<1>9. ASSUME AgentAttaches
      PROVE  TypeOK'
  BY <1>9 DEF TypeOK, AgentAttaches
<1> QED
  BY <1>1, <1>2, <1>3, <1>4, <1>5, <1>6, <1>7, <1>8, <1>9, StatusNames
  DEF AgentEvent, AgentResumed, AgentInterrupted, AgentFailed

(* InterruptIfActive, whatever Turn it is called for.                      *)
LEMMA InterruptType ==
    ASSUME turn \in [Turns -> TurnState], NEW t, InterruptIfActive(t)
    PROVE  turn' \in [Turns -> TurnState]
<1>1. CASE t \in Turns
  BY <1>1, StatusNames, Zenon DEF InterruptIfActive, TurnState
<1>2. CASE t \notin Turns
  BY <1>2 DEF InterruptIfActive
<1> QED
  BY <1>1, <1>2

(* ... what the event loop does by itself, reconciliation included.        *)
LEMMA LoopTypes ==
    ASSUME TypeOK, LoopStep
    PROVE  TypeOK'
<1> USE HarnessAssumption
<1> USE DEF ledgerState, controls, startup, process
<1>1. ASSUME NEW m \in Msgs, DispatchRevive(m)
      PROVE  TypeOK'
  <2>1. turnOf[m] \in Turns /\ m <= n
    BY <1>1 DEF TypeOK, DispatchRevive, Msgs
  <2>2. turn' \in [Turns -> TurnState]
    BY <1>1, <2>1, TurnUpdates, StatusNames DEF TypeOK, DispatchRevive
  <2> QED
    BY <1>1, <2>1, <2>2 DEF TypeOK, DispatchRevive
<1>2. ASSUME NEW m \in Msgs, DispatchClaim(m)
      PROVE  TypeOK'
  BY <1>2 DEF TypeOK, DispatchClaim, ClaimInbound, Claimable
<1>3. ASSUME NEW m \in Msgs, DispatchDeliver(m)
      PROVE  TypeOK'
  <2>1. turnOf[m] \in Turns
    BY <1>3 DEF TypeOK, DispatchDeliver, Msgs
  <2> QED
    BY <1>3, <2>1 DEF TypeOK, DispatchDeliver, CallAdapter
<1>4. ASSUME NEW m \in Msgs, FollowupClaim(m)
      PROVE  TypeOK'
  BY <1>4 DEF TypeOK, FollowupClaim, ClaimInbound, Claimable
<1>5. ASSUME NEW m \in Msgs, FollowupSave(m)
      PROVE  TypeOK'
  <2>1. turnOf[m] \in Turns
    BY <1>5 DEF TypeOK, FollowupSave, Msgs
  <2>2. [snap[m] EXCEPT !.status = "running"] \in TurnState
    BY <2>1, TurnUpdates, StatusNames DEF TypeOK
  <2> QED
    BY <1>5, <2>1, <2>2 DEF TypeOK, FollowupSave
<1>6. ASSUME NEW m \in Msgs, JobDeliver(m)
      PROVE  TypeOK'
  <2>1. turnOf[m] \in Turns
    BY <1>6 DEF TypeOK, JobDeliver, Msgs
  <2> QED
    BY <1>6, <2>1 DEF TypeOK, JobDeliver, CallAdapter
<1>7. ASSUME NEW m \in Msgs, SettleDispatching(m)
      PROVE  TypeOK'
  <2>1. turn' \in [Turns -> TurnState]
    BY <1>7, InterruptType DEF TypeOK, SettleDispatching
  <2> QED
    BY <1>7, <2>1 DEF TypeOK, SettleDispatching
<1>8. ASSUME NEW m \in Msgs, SettleWithoutAdapter(m)
      PROVE  TypeOK'
  <2>1. m \in 1..n
    BY <1>8 DEF SettleWithoutAdapter, NextRow, TypeOK
  <2> QED
    BY <1>8, <2>1 DEF TypeOK, SettleWithoutAdapter
<1>9. ASSUME NEW m \in Msgs, SettleByDelivery(m)
      PROVE  TypeOK'
  <2>1. turnOf[m] \in Turns /\ m <= n
    BY <1>9 DEF TypeOK, SettleByDelivery, Msgs
  <2> QED
    BY <1>9, <2>1 DEF TypeOK, SettleByDelivery, ClaimInbound, Claimable
<1>10. ASSUME NEW m \in Msgs, SettleByQueueing(m)
       PROVE  TypeOK'
  <2>1. m \in 1..n /\ turnOf[m] \in Turns
    BY <1>10 DEF SettleByQueueing, NextRow, TypeOK
  <2>2. \A s \in Seq(1..n) : Append(s, m) \in Seq(1..n)
    BY <2>1
  <2>3. mailbox' \in [Turns -> Seq(1..n)]
    BY <1>10, <2>1, <2>2 DEF SettleByQueueing, TypeOK
  <2> QED
    BY <1>10, <2>3 DEF SettleByQueueing, TypeOK
<1>11. ASSUME NEW t \in Turns, KeepUnsent(t)
      PROVE  TypeOK'
  BY <1>11 DEF TypeOK, KeepUnsent
<1>12. ASSUME NEW t \in Turns, KeepLive(t)
      PROVE  TypeOK'
  BY <1>12 DEF TypeOK, KeepLive
<1>13. ASSUME NEW t \in Turns, InterruptLost(t)
      PROVE  TypeOK'
  BY <1>13, TurnUpdates, StatusNames DEF TypeOK, InterruptLost, Interrupt
<1>14. ASSUME ListUnsettled
      PROVE  TypeOK'
  BY <1>14 DEF TypeOK, ListUnsettled
<1>15. ASSUME StartServing
      PROVE  TypeOK'
  BY <1>15 DEF TypeOK, StartServing
<1>16. ASSUME NEW m \in Msgs, FollowupFindsNoAdapter(m)
      PROVE  TypeOK'
  <2>1. NoState \in TurnState
    BY DEF NoState, TurnState, Statuses
  <2> QED
    BY <1>16, <2>1 DEF TypeOK, FollowupFindsNoAdapter, JobEnds
<1> QED
  BY <1>1, <1>2, <1>3, <1>4, <1>5, <1>6, <1>7, <1>8, <1>9, <1>10, <1>11,
     <1>12, <1>13, <1>14, <1>15, <1>16 DEF LoopStep

(* ... an adapter answering a call, or raising.                            *)
LEMMA AnswerTypes ==
    ASSUME TypeOK,
           \/ \E m \in Msgs : AdapterAnswers(m)
           \/ \E t \in Turns : ControlAnswers(t)
    PROVE  TypeOK'
<1> USE HarnessAssumption
<1> USE DEF ledgerState, controls, startup, process
<1>0. NoState \in TurnState
  BY DEF NoState, TurnState, Statuses
<1>1. ASSUME NEW m \in Msgs, DispatchAccepted(m)
      PROVE  TypeOK'
  BY <1>1 DEF TypeOK, DispatchAccepted, CompleteInbound
<1>2. ASSUME NEW m \in Msgs, DispatchFailed(m)
      PROVE  TypeOK'
  BY <1>2, InterruptType DEF TypeOK, DispatchFailed
<1>3. ASSUME NEW m \in Msgs, JobAccepted(m)
      PROVE  TypeOK'
  BY <1>3, <1>0 DEF TypeOK, JobAccepted, CompleteInbound, JobEnds
<1>4. ASSUME NEW m \in Msgs, JobFailed(m)
      PROVE  TypeOK'
  BY <1>4, <1>0, InterruptType DEF TypeOK, JobFailed, JobEnds
<1>5. ASSUME NEW t \in Turns, CancelReturns(t)
      PROVE  TypeOK'
  BY <1>5, InterruptType DEF TypeOK, CancelReturns
<1>6. ASSUME NEW t \in Turns, ResumeReturns(t)
      PROVE  TypeOK'
  BY <1>6, InterruptType DEF TypeOK, ResumeReturns
<1> QED
  BY <1>1, <1>2, <1>3, <1>4, <1>5, <1>6 DEF AdapterAnswers, ControlAnswers

(* ... and the death and restart of the process.                           *)
LEMMA RestartTypes ==
    ASSUME TypeOK, Crash \/ Restart
    PROVE  TypeOK'
<1> USE HarnessAssumption
<1> USE DEF ledgerState, controls, startup, process
<1>0. NoState \in TurnState
  BY DEF NoState, TurnState, Statuses
<1>1. ASSUME Crash
      PROVE  TypeOK'
  BY <1>1, <1>0 DEF TypeOK, Crash
<1>2. ASSUME Restart
      PROVE  TypeOK'
  BY <1>2 DEF TypeOK, Restart
<1> QED
  BY <1>1, <1>2

(* Every state the API can reach is well typed.                            *)
THEOREM TypeCorrect == Spec => []TypeOK
<1>1. Init => TypeOK
  <2>1. NoState \in TurnState
    BY DEF NoState, TurnState, Statuses
  <2> QED
    BY <2>1, HarnessAssumption DEF Init, TypeOK, Msgs
<1>2. TypeOK /\ [Next]_vars => TypeOK'
  <2>1. CASE UNCHANGED vars
    BY <2>1 DEF TypeOK, vars
  <2> QED
    BY <2>1, UserTypes, AgentTypes, LoopTypes, AnswerTypes, RestartTypes
    DEF Next
<1> QED
  BY <1>1, <1>2, PTL DEF Spec
-----------------------------------------------------------------------------
(* At most once, and no input lost: LedgerInv is inductive.                *)

(* What every step but DeleteConversation does to the Turns: none of those *)
(* that exist disappears.                                                  *)
TurnsPersist ==
    \A t \in Turns :
        /\ turn'[t].status = "deleted" <=> turn[t].status = "deleted"
        /\ turn[t].status # "none" => turn'[t].status # "none"

(* Steps that leave the Turns alone.                                       *)
LEMMA SameTurnsPersist ==
    ASSUME turn' = turn
    PROVE  TurnsPersist
BY DEF TurnsPersist

(* Steps that update one existing Turn and do not delete it.               *)
LEMMA OneTurnPersists ==
    ASSUME NEW t \in Turns, Exists(t),
           \A u \in Turns \ {t} : turn'[u] = turn[u],
           turn'[t].status \notin {"none", "deleted"}
    PROVE  TurnsPersist
BY DEF TurnsPersist, Exists

(* emit_interrupted after is_turn_active.                                  *)
LEMMA InterruptPersists ==
    ASSUME TypeOK, NEW t, InterruptIfActive(t)
    PROVE  TurnsPersist
<1>1. CASE t \in Turns
  BY <1>1 DEF TurnsPersist, TypeOK, TurnState, InterruptIfActive, Active
<1>2. CASE t \notin Turns
  BY <1>2 DEF TurnsPersist, TypeOK, InterruptIfActive
<1> QED
  BY <1>1, <1>2

(* ... for every active Turn of the Agent.                                 *)
LEMMA InterruptAllPersists ==
    ASSUME TypeOK, InterruptAll
    PROVE  TurnsPersist
<1>1. \A t \in Turns : turn'[t].status =
        IF Active(t) THEN "interrupted" ELSE turn[t].status
  BY InterruptAllType DEF TypeOK
<1> QED
  BY <1>1 DEF TurnsPersist, Active

(* The bound Turn of an accepted input.                                    *)
LEMMA BoundTurn ==
    ASSUME LedgerInv, NEW m \in Msgs,
           row[m] # "none" \/ call[m] # "idle" \/ job[m] # "idle"
    PROVE  m \in 1..n /\ turnOf[m] \in Turns
BY HarnessAssumption DEF LedgerInv, TypeOK, Msgs

(* Accepted inputs are inputs, bound to a Turn.                            *)
LEMMA AcceptedInputs ==
    ASSUME TypeOK, NEW m \in 1..n
    PROVE  m \in Msgs /\ turnOf[m] \in Turns /\ ~(m > n)
BY HarnessAssumption DEF TypeOK, Msgs

(* How a step of the harness looks in the abstract ledger.                 *)
LedgerMove == [Ledger!LedgerNext]_(Ledger!ledgerVars)

(* What is proved of every step.                                           *)
GoodStep == LedgerInv' /\ LedgerMove

(* The abstract stage of an input, read off its ledger row.                *)
LEMMA StageMeaning ==
    ASSUME LedgerInv, NEW m \in Msgs
    PROVE  /\ StageOf(m) = "new" <=> m > n
           /\ row[m] = "pending" => StageOf(m) = "pending"
           /\ row[m] = "dispatching" => StageOf(m) = "claimed"
<1>1. m \in Int /\ n \in Int
  BY HarnessAssumption DEF LedgerInv, TypeOK, Msgs
<1>2. row[m] # "none" => m \in 1..n /\ turn[turnOf[m]].status # "deleted"
  BY BoundTurn DEF LedgerInv, RowsHaveTurns, Exists
<1> QED
  BY <1>1, <1>2 DEF StageOf

(* An input whose ledger state is unchanged keeps its stage.               *)
LEMMA SameStage ==
    ASSUME LedgerInv, TurnsPersist, NEW m \in Msgs,
           n' \in Int, m > n <=> m > n',
           turnOf'[m] = turnOf[m], row'[m] = row[m]
    PROVE  StageOf(m)' = StageOf(m)
<1>1. m \in Int /\ n \in Int
  BY HarnessAssumption DEF LedgerInv, TypeOK, Msgs
<1>2. m <= n => turnOf[m] \in Turns
  BY <1>1, AcceptedInputs DEF LedgerInv, Msgs
<1>3. m <= n <=> m <= n'
  BY <1>1
<1> QED
  BY <1>1, <1>2, <1>3 DEF StageOf, TurnsPersist

(* The six steps of the abstract ledger, read off the stages: nothing,     *)
LEMMA StutterRefines ==
    ASSUME \A m \in Msgs : StageOf(m)' = StageOf(m), deliveries' = deliveries
    PROVE  LedgerMove
BY DEF LedgerMove, Ledger!ledgerVars

(* ... an input accepted,                                                  *)
LEMMA AcceptRefines ==
    ASSUME NEW m \in Msgs, StageOf(m) = "new", StageOf(m)' = "pending",
           \A k \in Msgs \ {m} : StageOf(k)' = StageOf(k),
           deliveries' = deliveries
    PROVE  LedgerMove
<1>1. Ledger!Accept(m)
  BY DEF Ledger!Accept
<1> QED
  BY <1>1 DEF LedgerMove, Ledger!LedgerNext

(* ... one claimed,                                                        *)
LEMMA ClaimRefines ==
    ASSUME NEW m \in Msgs, StageOf(m) = "pending", StageOf(m)' = "claimed",
           \A k \in Msgs \ {m} : StageOf(k)' = StageOf(k),
           deliveries' = deliveries
    PROVE  LedgerMove
<1>1. Ledger!Claim(m)
  BY DEF Ledger!Claim
<1> QED
  BY <1>1 DEF LedgerMove, Ledger!LedgerNext

(* ... one given to the adapter,                                           *)
LEMMA DeliverRefines ==
    ASSUME NEW m \in Msgs, StageOf(m) = "claimed", deliveries[m] = 0,
           \A k \in Msgs : StageOf(k)' = StageOf(k),
           deliveries' = [deliveries EXCEPT ![m] = 1]
    PROVE  LedgerMove
<1>1. Ledger!Deliver(m)
  BY DEF Ledger!Deliver
<1> QED
  BY <1>1 DEF LedgerMove, Ledger!LedgerNext

(* ... one settled,                                                        *)
LEMMA SettleRefines ==
    ASSUME NEW m \in Msgs, StageOf(m) = "claimed", StageOf(m)' = "settled",
           deliveries[m] = 1,
           \A k \in Msgs \ {m} : StageOf(k)' = StageOf(k),
           deliveries' = deliveries
    PROVE  LedgerMove
<1>1. Ledger!Settle(m)
  BY DEF Ledger!Settle
<1> QED
  BY <1>1 DEF LedgerMove, Ledger!LedgerNext

(* ... and the inputs of a deleted conversation withdrawn.                 *)
LEMMA WithdrawRefines ==
    ASSUME NEW S \in SUBSET Msgs,
           \A k \in Msgs : StageOf(k)' = IF k \in S /\ StageOf(k) # "new"
                                        THEN "withdrawn" ELSE StageOf(k),
           deliveries' = deliveries
    PROVE  LedgerMove
<1>1. Ledger!Withdraw(S)
  BY DEF Ledger!Withdraw
<1> QED
  BY <1>1 DEF LedgerMove, Ledger!LedgerNext

(* Steps that leave the ledger alone and start no delivery.                *)
CallMoves(m) ==
    \/ call'[m] \in {call[m], "idle"}
    \/ call[m] = "appended" /\ call'[m] = "saved"

JobMoves(m) ==
    \/ job'[m] \in {job[m], "idle"}
    \/ job[m] \notin {"claimed", "saved"} /\ job'[m] = "scheduled"
    \/ job[m] = "claimed" /\ job'[m] = "saved"

(* They keep the invariant and are stuttering steps of the ledger.         *)
LEMMA QuietSteps ==
    ASSUME LedgerInv, TurnsPersist, TypeOK',
           UNCHANGED <<n, turnOf, row, deliveries>>,
           \A m \in Msgs : CallMoves(m) /\ JobMoves(m),
           \A m \in Msgs : call[m] = "claimed" => job'[m] = job[m] \/ job'[m] = "idle",
           toProbe' \subseteq toProbe,
           toProbe' # {} => phase' = phase
    PROVE  GoodStep
<1>1. ClaimsAgree'
  BY DEF LedgerInv, ClaimsAgree, CallMoves, JobMoves
<1>2. \A m \in Msgs : m <= n => turnOf[m] \in Turns
  BY HarnessAssumption DEF LedgerInv, TypeOK, Msgs
<1>3. RowsHaveTurns'
  BY <1>2, HarnessAssumption
  DEF LedgerInv, RowsHaveTurns, TurnsPersist, Exists, TypeOK, Msgs
<1>4. NoLostInput'
  BY AcceptedInputs DEF LedgerInv, NoLostInput, TurnsPersist
<1>5. LedgerMove
  BY SameStage, StutterRefines DEF LedgerInv, TypeOK
<1> QED
  BY <1>1, <1>3, <1>4, <1>5 DEF LedgerInv, GoodStep

(* Steps that move rows along, and never create one.                       *)
RowMoves(m) ==
    /\ row[m] = "none" => row'[m] = "none" /\ deliveries'[m] = deliveries[m]
    /\ row'[m] = "none" => row[m] = "none" \/ deliveries[m] = 1
    /\ deliveries[m] = 1 => deliveries'[m] = 1

(* They leave every row with its Turn and lose no undelivered input.       *)
LEMMA RowSteps ==
    ASSUME LedgerInv, TypeOK',
           UNCHANGED <<turn, n, turnOf, toProbe, phase>>,
           \A m \in Msgs : RowMoves(m)
    PROVE  RowsHaveTurns' /\ NoLostInput'
<1>1. RowsHaveTurns'
  BY HarnessAssumption
  DEF LedgerInv, RowsHaveTurns, RowMoves, Exists, TypeOK, Msgs
<1>2. NoLostInput'
  <2> SUFFICES ASSUME NEW m \in 1..n, deliveries'[m] = 0,
                      turn[turnOf[m]].status # "deleted"
               PROVE  row'[m] \in {"pending", "dispatching"}
    BY DEF NoLostInput
  <2>1. m \in Msgs
    BY AcceptedInputs DEF LedgerInv
  <2>2. deliveries[m] # 1
    BY <2>1 DEF RowMoves
  <2>3. deliveries[m] = 0
    BY <2>1, <2>2 DEF LedgerInv, ClaimsAgree, TypeOK
  <2>4. row[m] # "none"
    BY <2>3 DEF LedgerInv, NoLostInput
  <2> QED
    BY <2>1, <2>2, <2>4 DEF RowMoves, TypeOK
<1> QED
  BY <1>1, <1>2

(* append_message: the new input is pending, and nobody else knows it.     *)
LEMMA AppendSteps ==
    ASSUME LedgerInv, TypeOK', NEW t \in Turns, Exists(t),
           AppendInput(t, InputKind(t)),
           UNCHANGED <<turn, job, toProbe, phase, deliveries>>,
           \/ call' = call
           \/ call' = [call EXCEPT ![n + 1] = "appended"]
    PROVE  GoodStep
<1>1. AppendedTypes
  BY AppendInputType DEF LedgerInv
<1>2. /\ \A m \in Msgs \ {n + 1} : /\ row'[m] = row[m]
                                   /\ turnOf'[m] = turnOf[m]
                                   /\ call'[m] = call[m]
      /\ row'[n + 1] = "pending"
      /\ turnOf'[n + 1] = t
      /\ call'[n + 1] \in {"idle", "appended"}
      /\ job[n + 1] = "idle"
      /\ deliveries[n + 1] = 0
  BY <1>1 DEF LedgerInv, RowsHaveTurns, TypeOK, AppendInput, AppendedTypes
<1>3. ClaimsAgree'
  BY <1>1, <1>2 DEF LedgerInv, ClaimsAgree, AppendedTypes
<1>4. \A m \in Msgs : m <= n' => m = n + 1 \/ m <= n
  BY <1>1, HarnessAssumption DEF AppendedTypes, LedgerInv, TypeOK, Msgs
<1>5. RowsHaveTurns'
  <2>1. \A m \in Msgs : m > n' => deliveries'[m] = 0
    BY <1>1 DEF LedgerInv, RowsHaveTurns, TypeOK, AppendedTypes
  <2>2. \A m \in Msgs : m <= n' => turn'[turnOf'[m]].status # "none"
    BY <1>1, <1>2, <1>4 DEF LedgerInv, RowsHaveTurns, Exists, AppendedTypes
  <2>3. \A m \in Msgs : row'[m] # "none" => Exists(turnOf[m])'
    BY <1>1, <1>2 DEF LedgerInv, RowsHaveTurns, Exists, AppendedTypes
  <2>4. \A u \in Turns : u \in toProbe' => phase' = "probing" /\ Exists(u)'
    BY <1>1 DEF LedgerInv, RowsHaveTurns, Exists, AppendedTypes
  <2> QED
    BY <2>1, <2>2, <2>3, <2>4, <1>1 DEF RowsHaveTurns, LedgerInv, TypeOK, AppendedTypes
<1>6. NoLostInput'
  <2> SUFFICES ASSUME NEW m \in 1..n', deliveries[m] = 0,
                      turn[turnOf'[m]].status # "deleted"
               PROVE  row'[m] \in {"pending", "dispatching"}
    BY DEF NoLostInput
  <2>1. CASE m = n + 1
    BY <1>2, <2>1
  <2>2. CASE m # n + 1
    <3>1. m \in 1..n
      BY <1>1, <2>2 DEF AppendedTypes, LedgerInv, TypeOK
    <3>2. m \in Msgs \ {n + 1}
      BY <2>2, <3>1, AcceptedInputs DEF LedgerInv
    <3> QED
      BY <1>2, <3>1, <3>2 DEF LedgerInv, NoLostInput
  <2> QED
    BY <2>1, <2>2
<1>7. LedgerInv'
  BY <1>3, <1>5, <1>6 DEF LedgerInv
<1>8. PICK k \in Msgs : k = n + 1
  BY <1>1 DEF AppendedTypes
<1>9. n \in Int /\ \A m \in Msgs : m \in Int
  BY HarnessAssumption DEF LedgerInv, TypeOK, Msgs
<1>10. StageOf(k) = "new"
  BY <1>8, <1>9, StageMeaning
<1>11. StageOf(k)' = "pending"
  <2>1. k <= n' /\ ~(k > n')
    BY <1>1, <1>8, <1>9 DEF AppendedTypes
  <2>2. turn'[turnOf'[k]].status # "deleted" /\ row'[k] = "pending"
    BY <1>2, <1>8 DEF Exists
  <2> QED
    BY <2>1, <2>2 DEF StageOf
<1>12. \A m \in Msgs \ {k} : StageOf(m)' = StageOf(m)
  <2> SUFFICES ASSUME NEW m \in Msgs, m # k
               PROVE  StageOf(m)' = StageOf(m)
    OBVIOUS
  <2>1. n' \in Int /\ (m > n <=> m > n')
    BY <1>1, <1>8, <1>9 DEF AppendedTypes
  <2> QED
    BY <1>2, <1>8, <2>1, SameStage, SameTurnsPersist
<1>13. LedgerMove
  BY <1>10, <1>11, <1>12, AcceptRefines
<1> QED
  BY <1>7, <1>13 DEF GoodStep

(* complete_inbound after a call that was counted.                         *)
LEMMA CompleteSteps ==
    ASSUME LedgerInv, TypeOK', NEW m \in Msgs, LoopFree, CompleteInbound(m),
           deliveries[m] = 1,
           UNCHANGED <<turn, n, turnOf, deliveries, toProbe, phase>>,
           \A k \in Msgs : call'[k] \in {call[k], "idle"},
           \A k \in Msgs : job'[k] \in {job[k], "idle"}
    PROVE  GoodStep
<1>1. ClaimsAgree'
  BY DEF LedgerInv, ClaimsAgree, CompleteInbound, LoopFree, TypeOK
<1>2. RowsHaveTurns' /\ NoLostInput'
  <2>1. \A k \in Msgs : RowMoves(k)
    BY DEF RowMoves, CompleteInbound, LedgerInv, TypeOK
  <2> QED
    BY <2>1, RowSteps
<1>3. \A k \in Msgs \ {m} : StageOf(k)' = StageOf(k)
  BY SameStage, SameTurnsPersist DEF CompleteInbound, LedgerInv, TypeOK
<1>4. CASE row[m] = "dispatching"
  <2>1. StageOf(m) = "claimed"
    BY <1>4, StageMeaning
  <2>2. m \in 1..n /\ turn[turnOf[m]].status # "deleted" /\ row'[m] = "none"
    BY <1>4, BoundTurn
    DEF CompleteInbound, LedgerInv, RowsHaveTurns, Exists, TypeOK
  <2>3. StageOf(m)' = "settled"
    BY <2>2 DEF StageOf, LedgerInv, TypeOK
  <2>4. LedgerMove
    BY <1>3, <2>1, <2>3, SettleRefines
  <2> QED
    BY <1>1, <1>2, <2>4 DEF LedgerInv, GoodStep
<1>5. CASE row[m] # "dispatching"
  <2>1. StageOf(m)' = StageOf(m)
    BY <1>5, SameStage, SameTurnsPersist DEF CompleteInbound, LedgerInv, TypeOK
  <2>2. LedgerMove
    BY <1>3, <2>1, StutterRefines
  <2> QED
    BY <1>1, <1>2, <2>2 DEF LedgerInv, GoodStep
<1> QED
  BY <1>4, <1>5

(* claim_inbound moves a pending input on, and changes nothing else.       *)
LEMMA ClaimMoves ==
    ASSUME LedgerInv, NEW m \in Msgs, ClaimInbound(m),
           UNCHANGED <<turn, n, turnOf, deliveries>>
    PROVE  LedgerMove
<1>1. \A k \in Msgs \ {m} : StageOf(k)' = StageOf(k)
  BY SameStage, SameTurnsPersist DEF ClaimInbound, LedgerInv, TypeOK
<1>2. CASE Claimable(m)
  <2>1. StageOf(m) = "pending"
    BY <1>2, StageMeaning DEF Claimable
  <2>2. m \in 1..n /\ turn[turnOf[m]].status # "deleted" /\ row'[m] = "dispatching"
    BY <1>2, BoundTurn
    DEF ClaimInbound, Claimable, LedgerInv, RowsHaveTurns, Exists, TypeOK
  <2>3. StageOf(m)' = "claimed"
    BY <2>2 DEF StageOf, LedgerInv, TypeOK
  <2> QED
    BY <1>1, <2>1, <2>3, ClaimRefines
<1>3. CASE ~Claimable(m)
  <2>1. StageOf(m)' = StageOf(m)
    BY <1>3, SameStage, SameTurnsPersist DEF ClaimInbound, LedgerInv, TypeOK
  <2> QED
    BY <1>1, <2>1, StutterRefines
<1> QED
  BY <1>2, <1>3

(* claim_inbound by the handler that appended the input ...                *)
(* dispatch_user_message claims its input, or finds it claimed already.    *)
LEMMA HandlerClaims ==
    ASSUME LedgerInv, TypeOK', NEW m \in Msgs, DispatchClaim(m)
    PROVE  GoodStep
<1>1. ClaimsAgree'
  BY DEF LedgerInv, ClaimsAgree, DispatchClaim, ClaimInbound, Claimable, TypeOK
<1>2. RowsHaveTurns' /\ NoLostInput'
  <2>1. \A k \in Msgs : RowMoves(k)
    BY DEF RowMoves, DispatchClaim, ClaimInbound, Claimable, LedgerInv, TypeOK
  <2> QED
    BY <2>1, RowSteps DEF DispatchClaim, startup, process
<1>3. LedgerMove
  BY ClaimMoves DEF DispatchClaim
<1> QED
  BY <1>1, <1>2, <1>3 DEF LedgerInv, GoodStep

(* ... and by a follow-up task, a boundary signal or reconciliation.       *)
LEMMA TaskClaims ==
    ASSUME LedgerInv, TypeOK', NEW m \in Msgs, LoopFree, ClaimInbound(m),
           NEW s \in {"claimed", "saved"}, NEW j \in {"idle", job[m]},
           job' = [job EXCEPT ![m] = IF Claimable(m) THEN s ELSE j],
           UNCHANGED <<turn, n, turnOf, deliveries, call, toProbe, phase>>
    PROVE  GoodStep
<1>1. ClaimsAgree'
  BY DEF LedgerInv, ClaimsAgree, ClaimInbound, Claimable, LoopFree, TypeOK
<1>2. RowsHaveTurns' /\ NoLostInput'
  <2>1. \A k \in Msgs : RowMoves(k)
    BY DEF RowMoves, ClaimInbound, Claimable, LedgerInv, TypeOK
  <2> QED
    BY <2>1, RowSteps
<1>3. LedgerMove
  BY ClaimMoves
<1> QED
  BY <1>1, <1>2, <1>3 DEF LedgerInv, GoodStep

(* The adapter is called by whoever holds the claim.                       *)
LEMMA DeliverSteps ==
    ASSUME LedgerInv, TypeOK', NEW m \in Msgs, CallAdapter(m),
           UNCHANGED <<turn, n, turnOf, row, toProbe, phase>>,
           \/ /\ call[m] = "claimed" /\ job' = job
              /\ call' = [call EXCEPT ![m] = "awaiting"]
           \/ /\ job[m] = "saved" /\ call' = call
              /\ job' = [job EXCEPT ![m] = "awaiting"]
    PROVE  GoodStep
<1>1. row[m] = "dispatching" /\ deliveries[m] = 0
  BY DEF LedgerInv, ClaimsAgree
<1>2. deliveries' = [deliveries EXCEPT ![m] = 1]
  BY <1>1 DEF CallAdapter, LedgerInv, TypeOK
<1>3. ClaimsAgree'
  BY <1>1, <1>2 DEF LedgerInv, ClaimsAgree, TypeOK
<1>4. RowsHaveTurns' /\ NoLostInput'
  <2>1. \A k \in Msgs : RowMoves(k)
    BY <1>1, <1>2 DEF RowMoves, LedgerInv, TypeOK
  <2> QED
    BY <2>1, RowSteps
<1>5. LedgerMove
  <2>1. \A k \in Msgs : StageOf(k)' = StageOf(k)
    BY SameStage, SameTurnsPersist DEF LedgerInv, TypeOK
  <2> QED
    BY <1>1, <1>2, <2>1, StageMeaning, DeliverRefines
<1> QED
  BY <1>3, <1>4, <1>5 DEF LedgerInv, GoodStep

(* delete_conversation takes the rows along with the Turns.                *)
LEMMA DeleteSteps ==
    ASSUME LedgerInv, TypeOK', NEW c \in Conversations, DeleteConversation(c)
    PROVE  GoodStep
<1>1. c \subseteq Turns
  BY HarnessAssumption
<1>2. /\ \A m \in Msgs : row'[m] = IF turnOf[m] \in c THEN "none" ELSE row[m]
      /\ \A t \in Turns : t \notin c => turn'[t] = turn[t]
      /\ \A t \in c : turn[t].status # "none" => turn'[t].status = "deleted"
      /\ UNCHANGED <<n, turnOf, call, job, toProbe, phase, deliveries>>
  BY <1>1 DEF DeleteConversation, Exists, NoState, startup, process
<1>3. LoopFree /\ phase = "up"
  BY DEF DeleteConversation, Serving
<1>4. ClaimsAgree'
  BY <1>2, <1>3 DEF LedgerInv, ClaimsAgree, LoopFree
<1>5. \A m \in Msgs : m <= n => turnOf[m] \in Turns
  BY HarnessAssumption DEF LedgerInv, TypeOK, Msgs
<1>6. RowsHaveTurns'
  BY <1>1, <1>2, <1>3, <1>5, HarnessAssumption
  DEF LedgerInv, RowsHaveTurns, Exists, TypeOK, Msgs
<1>7. NoLostInput'
  BY <1>1, <1>2, <1>5, HarnessAssumption
  DEF LedgerInv, NoLostInput, RowsHaveTurns, TypeOK, Msgs
<1>8. LedgerMove
  <2> DEFINE S == {m \in Msgs : turnOf[m] \in c}
  <2>1. \A m \in Msgs : StageOf(m)' = IF m \in S /\ StageOf(m) # "new"
                                      THEN "withdrawn" ELSE StageOf(m)
    <3> SUFFICES ASSUME NEW m \in Msgs
                 PROVE  StageOf(m)' = IF m \in S /\ StageOf(m) # "new"
                                      THEN "withdrawn" ELSE StageOf(m)
      OBVIOUS
    <3>1. m \in Int /\ n \in Int
      BY HarnessAssumption DEF LedgerInv, TypeOK, Msgs
    <3>2. CASE m > n
      BY <1>2, <3>1, <3>2 DEF StageOf
    <3>3. CASE m <= n /\ turnOf[m] \in c
      BY <1>1, <1>2, <1>5, <3>1, <3>3 DEF StageOf, LedgerInv, RowsHaveTurns
    <3>4. CASE m <= n /\ turnOf[m] \notin c
      BY <1>1, <1>2, <1>5, <3>1, <3>4 DEF StageOf
    <3> QED
      BY <3>1, <3>2, <3>3, <3>4
  <2> QED
    BY <1>2, <2>1, WithdrawRefines
<1> QED
  BY <1>4, <1>6, <1>7, <1>8 DEF LedgerInv, GoodStep

(* Requests of the user keep the invariant and implement the ledger.       *)
LEMMA LedgerUserStep ==
    ASSUME LedgerInv, TypeOK', UserRequest
    PROVE  GoodStep
<1> USE DEF ledgerState, startup, process
<1>1. ASSUME NEW t \in Turns, CreateTurn(t)
      PROVE  GoodStep
  <2>1. TurnsPersist
    BY <1>1 DEF CreateTurn, TurnsPersist, LedgerInv, TypeOK, TurnState
  <2> QED
    BY <1>1, <2>1, QuietSteps
    DEF CreateTurn, CallMoves, JobMoves
<1>2. ASSUME NEW t \in Turns, EnqueueInput(t)
      PROVE  GoodStep
  BY <1>2, AppendSteps DEF EnqueueInput
<1>3. ASSUME NEW t \in Turns, DispatchInput(t)
      PROVE  GoodStep
  BY <1>3, AppendSteps DEF DispatchInput
<1>4. ASSUME NEW t \in Turns, CancelTurn(t)
      PROVE  GoodStep
  <2>1. TurnsPersist
    BY <1>4, SameTurnsPersist DEF CancelTurn
  <2> QED
    BY <1>4, <2>1, QuietSteps
    DEF CancelTurn, CallMoves, JobMoves
<1>5. ASSUME NEW t \in Turns, ResumeTurn(t)
      PROVE  GoodStep
  <2>1. TurnsPersist
    BY <1>5, OneTurnPersists DEF ResumeTurn, LedgerInv, TypeOK, TurnState
  <2> QED
    BY <1>5, <2>1, QuietSteps
    DEF ResumeTurn, CallMoves, JobMoves
<1>6. ASSUME DisconnectReturns
      PROVE  GoodStep
  <2>1. TurnsPersist
    BY <1>6, InterruptAllPersists DEF DisconnectReturns, LedgerInv
  <2> QED
    BY <1>6, <2>1, QuietSteps
    DEF DisconnectReturns, CallMoves, JobMoves
<1>7. ASSUME DisconnectAgent \/ RemoveAgent \/ PairAgent
      PROVE  GoodStep
  <2>1. TurnsPersist
    BY <1>7, SameTurnsPersist DEF DisconnectAgent, RemoveAgent, PairAgent
  <2> QED
    BY <1>7, <2>1, QuietSteps
    DEF DisconnectAgent, RemoveAgent, PairAgent, CallMoves, JobMoves
<1> QED
  BY <1>1, <1>2, <1>3, <1>4, <1>5, <1>6, <1>7, DeleteSteps DEF UserRequest

(* So do the Agent's events,                                               *)
LEMMA LedgerAgentStep ==
    ASSUME LedgerInv, TypeOK', AgentEvent
    PROVE  GoodStep
<1> USE DEF ledgerState, startup, process
<1>1. ASSUME NEW t \in Turns, AgentBound(t)
      PROVE  GoodStep
  <2>1. TurnsPersist
    BY <1>1, OneTurnPersists
    DEF AgentBound, AgentSpeaks, Exists, LedgerInv, TypeOK, TurnState
  <2> QED
    BY <1>1, <2>1, QuietSteps
    DEF AgentBound, CallMoves, JobMoves
<1>2. ASSUME NEW t \in Turns, AgentDelta(t)
      PROVE  GoodStep
  <2>1. TurnsPersist
    BY <1>2, OneTurnPersists
    DEF AgentDelta, AgentSpeaks, Exists, LedgerInv, TypeOK, TurnState
  <2> QED
    BY <1>2, <2>1, QuietSteps
    DEF AgentDelta, CallMoves, JobMoves
<1>3. ASSUME NEW t \in Turns, AgentReplies(t)
      PROVE  GoodStep
  <2>1. TurnsPersist
    BY <1>3, OneTurnPersists
    DEF AgentReplies, AgentSpeaks, Exists, LedgerInv, TypeOK, TurnState
  <2> QED
    BY <1>3, <2>1, QuietSteps
    DEF AgentReplies, CallMoves, JobMoves
<1>4. ASSUME NEW t \in Turns, AgentFinishes(t)
      PROVE  GoodStep
  <2>1. turn' = [turn EXCEPT ![t] = [turn[t] EXCEPT !.status = "finished", !.partial = FALSE]]
    BY <1>4, Zenon DEF AgentFinishes
  <2>2. TurnsPersist
    BY <1>4, <2>1, OneTurnPersists
    DEF AgentFinishes, AgentSpeaks, LedgerInv, TypeOK, TurnState
  <2>3. /\ \/ job' = job
           \/ job' = [job EXCEPT ![Head(mailbox[t])] = "scheduled"]
        /\ LoopFree
        /\ UNCHANGED <<n, turnOf, row, deliveries, call, toProbe, phase>>
    BY <1>4, Zenon DEF AgentFinishes, AgentSpeaks
  <2>4. \A m \in Msgs : job'[m] \in {job[m], "scheduled"}
    BY <2>3 DEF LedgerInv, TypeOK
  <2>5. \A m \in Msgs : CallMoves(m) /\ JobMoves(m) /\ call[m] # "claimed"
    BY <2>3, <2>4 DEF CallMoves, JobMoves, LoopFree
  <2> QED
    BY <2>2, <2>3, <2>5, QuietSteps
<1>5. ASSUME NEW t \in Turns, AgentWaits(t)
      PROVE  GoodStep
  <2>1. PICK recorded \in BOOLEAN :
          turn' = [turn EXCEPT ![t].status = "waiting_user",
                               ![t].partial = @ /\ ~recorded]
    BY <1>5, Zenon DEF AgentWaits
  <2>2. /\ turn'[t].status = "waiting_user"
        /\ \A u \in Turns \ {t} : turn'[u] = turn[u]
    BY <2>1, Zenon DEF LedgerInv, TypeOK, TurnState
  <2>3. TurnsPersist
    BY <1>5, <2>2, OneTurnPersists DEF AgentWaits, AgentSpeaks
  <2> QED
    BY <1>5, <2>3, QuietSteps
    DEF AgentWaits, CallMoves, JobMoves
<1>6. ASSUME NEW t \in Turns, NEW e, NEW s \in Statuses \ {"none", "deleted"},
             AgentMoves(t, e, s)
      PROVE  GoodStep
  <2>1. TurnsPersist
    BY <1>6, OneTurnPersists
    DEF AgentMoves, AgentSpeaks, Exists, LedgerInv, TypeOK, TurnState
  <2> QED
    BY <1>6, <2>1, QuietSteps
    DEF AgentMoves, CallMoves, JobMoves
<1>7. ASSUME NEW t \in Turns, AgentBoundary(t)
      PROVE  GoodStep
  <2>1. PICK i \in SteerPositions(t) :
          LET m == mailbox[t][i] IN
          /\ ClaimInbound(m)
          /\ job' = [job EXCEPT ![m] = IF Claimable(m) THEN "saved" ELSE @]
    BY <1>7, Zenon DEF AgentBoundary
  <2>2. mailbox[t][i] \in Msgs
    BY <2>1, HarnessAssumption DEF SteerPositions, LedgerInv, TypeOK, Msgs
  <2>3. LoopFree
    BY <1>7 DEF AgentBoundary, AgentSpeaks
  <2> QED
    BY <1>7, <2>1, <2>2, <2>3, TaskClaims DEF AgentBoundary
<1>8. ASSUME AgentDetaches
      PROVE  GoodStep
  <2>1. TurnsPersist
    BY <1>8, InterruptAllPersists DEF AgentDetaches, LedgerInv
  <2> QED
    BY <1>8, <2>1, QuietSteps
    DEF AgentDetaches, CallMoves, JobMoves
<1>9. ASSUME AgentAttaches
      PROVE  GoodStep
  <2>1. TurnsPersist
    BY <1>9, SameTurnsPersist DEF AgentAttaches
  <2> QED
    BY <1>9, <2>1, QuietSteps
    DEF AgentAttaches, CallMoves, JobMoves
<1> QED
  BY <1>1, <1>2, <1>3, <1>4, <1>5, <1>6, <1>7, <1>8, <1>9, StatusNames
  DEF AgentEvent, AgentResumed, AgentInterrupted, AgentFailed

(* ... the event loop's own steps,                                         *)
LEMMA LedgerLoopStep ==
    ASSUME LedgerInv, TypeOK', LoopStep
    PROVE  GoodStep
<1> USE DEF ledgerState, startup, process
<1>1. ASSUME NEW m \in Msgs, DispatchRevive(m)
      PROVE  GoodStep
  <2>1. turnOf[m] \in Turns /\ Exists(turnOf[m])
    BY <1>1, BoundTurn DEF DispatchRevive, LedgerInv, ClaimsAgree, RowsHaveTurns
  <2>2. TurnsPersist
    BY <1>1, <2>1, OneTurnPersists
    DEF DispatchRevive, LedgerInv, TypeOK, TurnState
  <2> QED
    BY <1>1, <2>2, QuietSteps
    DEF DispatchRevive, CallMoves, JobMoves, LedgerInv, TypeOK
<1>3. ASSUME NEW m \in Msgs, DispatchDeliver(m)
      PROVE  GoodStep
  BY <1>3, DeliverSteps DEF DispatchDeliver
<1>4. ASSUME NEW m \in Msgs, FollowupClaim(m)
      PROVE  GoodStep
  BY <1>4, TaskClaims DEF FollowupClaim
<1>5. ASSUME NEW m \in Msgs, FollowupSave(m)
      PROVE  GoodStep
  <2>1. turnOf[m] \in Turns /\ Exists(turnOf[m])
    BY <1>5, BoundTurn DEF FollowupSave, LedgerInv, ClaimsAgree, RowsHaveTurns
  <2>2. /\ turn'[turnOf[m]].status = "running"
        /\ \A u \in Turns \ {turnOf[m]} : turn'[u] = turn[u]
    BY <1>5, <2>1 DEF FollowupSave, LedgerInv, TypeOK, TurnState
  <2>3. TurnsPersist
    BY <2>1, <2>2, OneTurnPersists
  <2>4. call[m] = "idle"
    BY <1>5 DEF FollowupSave, LedgerInv, ClaimsAgree
  <2> QED
    BY <1>5, <2>3, <2>4, QuietSteps
    DEF FollowupSave, CallMoves, JobMoves, LedgerInv, TypeOK
<1>6. ASSUME NEW m \in Msgs, JobDeliver(m)
      PROVE  GoodStep
  BY <1>6, DeliverSteps DEF JobDeliver
<1>7. ASSUME NEW m \in Msgs, SettleDispatching(m)
      PROVE  GoodStep
  <2>1. TurnsPersist
    BY <1>7, InterruptPersists DEF SettleDispatching, LedgerInv
  <2> QED
    BY <1>7, <2>1, QuietSteps
    DEF SettleDispatching, CallMoves, JobMoves
<1>8. ASSUME NEW m \in Msgs, SettleWithoutAdapter(m)
      PROVE  GoodStep
  <2>1. TurnsPersist
    BY <1>8, SameTurnsPersist DEF SettleWithoutAdapter
  <2> QED
    BY <1>8, <2>1, QuietSteps
    DEF SettleWithoutAdapter, CallMoves, JobMoves
<1>9. ASSUME NEW m \in Msgs, SettleByDelivery(m)
      PROVE  GoodStep
  BY <1>9, TaskClaims
  DEF SettleByDelivery, NextRow, Claimable, LedgerInv, TypeOK
<1>10. ASSUME NEW m \in Msgs, SettleByQueueing(m)
      PROVE  GoodStep
  <2>1. TurnsPersist
    BY <1>10, SameTurnsPersist DEF SettleByQueueing
  <2> QED
    BY <1>10, <2>1, QuietSteps
    DEF SettleByQueueing, CallMoves, JobMoves
<1>11. ASSUME NEW t \in Turns, KeepUnsent(t)
      PROVE  GoodStep
  <2>1. TurnsPersist
    BY <1>11, SameTurnsPersist DEF KeepUnsent
  <2> QED
    BY <1>11, <2>1, QuietSteps
    DEF KeepUnsent, CallMoves, JobMoves
<1>12. ASSUME NEW t \in Turns, KeepLive(t)
      PROVE  GoodStep
  <2>1. TurnsPersist
    BY <1>12, SameTurnsPersist DEF KeepLive
  <2> QED
    BY <1>12, <2>1, QuietSteps
    DEF KeepLive, CallMoves, JobMoves
<1>13. ASSUME NEW t \in Turns, InterruptLost(t)
      PROVE  GoodStep
  <2>1. TurnsPersist
    BY <1>13, OneTurnPersists
    DEF InterruptLost, Interrupt, LedgerInv, RowsHaveTurns, TypeOK, TurnState
  <2> QED
    BY <1>13, <2>1, QuietSteps
    DEF InterruptLost, CallMoves, JobMoves
<1>14. ASSUME ListUnsettled
      PROVE  GoodStep
  <2>1. TurnsPersist
    BY <1>14, SameTurnsPersist DEF ListUnsettled
  <2> QED
    BY <1>14, <2>1, QuietSteps
    DEF ListUnsettled, CallMoves, JobMoves
<1>15. ASSUME StartServing
       PROVE  GoodStep
  <2>1. TurnsPersist
    BY <1>15, SameTurnsPersist DEF StartServing
  <2>2. toProbe = {}
    BY <1>15 DEF StartServing, LedgerInv, RowsHaveTurns
  <2> QED
    BY <1>15, <2>1, <2>2, QuietSteps
    DEF StartServing, CallMoves, JobMoves
<1>16. ASSUME NEW m \in Msgs, FollowupFindsNoAdapter(m)
      PROVE  GoodStep
  <2>1. TurnsPersist
    BY <1>16, SameTurnsPersist DEF FollowupFindsNoAdapter
  <2> QED
    BY <1>16, <2>1, QuietSteps
    DEF FollowupFindsNoAdapter, CallMoves, JobMoves, JobEnds, LedgerInv, TypeOK
<1> QED
  BY <1>1, <1>3, <1>4, <1>5, <1>6, <1>7, <1>8, <1>9, <1>10, <1>11, <1>12,
     <1>13, <1>14, <1>15, <1>16, HandlerClaims
  DEF LoopStep

(* ... the adapter's answers,                                              *)
LEMMA LedgerAnswerStep ==
    ASSUME LedgerInv, TypeOK',
           \/ \E m \in Msgs : AdapterAnswers(m)
           \/ \E t \in Turns : ControlAnswers(t)
    PROVE  GoodStep
<1> USE DEF ledgerState, startup, process
<1>1. ASSUME NEW m \in Msgs, DispatchAccepted(m)
      PROVE  GoodStep
  BY <1>1, CompleteSteps
  DEF DispatchAccepted, LedgerInv, ClaimsAgree, TypeOK
<1>2. ASSUME NEW m \in Msgs, DispatchFailed(m)
      PROVE  GoodStep
  <2>1. TurnsPersist
    BY <1>2, InterruptPersists DEF DispatchFailed, LedgerInv
  <2> QED
    BY <1>2, <2>1, QuietSteps
    DEF DispatchFailed, CallMoves, JobMoves, LedgerInv, TypeOK
<1>3. ASSUME NEW m \in Msgs, JobAccepted(m)
      PROVE  GoodStep
  BY <1>3, CompleteSteps
  DEF JobAccepted, JobEnds, LedgerInv, ClaimsAgree, TypeOK
<1>4. ASSUME NEW m \in Msgs, JobFailed(m)
      PROVE  GoodStep
  <2>1. TurnsPersist
    BY <1>4, InterruptPersists DEF JobFailed, LedgerInv
  <2> QED
    BY <1>4, <2>1, QuietSteps
    DEF JobFailed, CallMoves, JobMoves, JobEnds, LedgerInv, TypeOK
<1>5. ASSUME NEW t \in Turns, CancelReturns(t)
      PROVE  GoodStep
  <2>1. TurnsPersist
    BY <1>5, InterruptPersists DEF CancelReturns, LedgerInv
  <2> QED
    BY <1>5, <2>1, QuietSteps
    DEF CancelReturns, CallMoves, JobMoves
<1>6. ASSUME NEW t \in Turns, ResumeReturns(t)
      PROVE  GoodStep
  <2>1. TurnsPersist
    BY <1>6, InterruptPersists, SameTurnsPersist DEF ResumeReturns, LedgerInv
  <2> QED
    BY <1>6, <2>1, QuietSteps
    DEF ResumeReturns, CallMoves, JobMoves
<1> QED
  BY <1>1, <1>2, <1>3, <1>4, <1>5, <1>6 DEF AdapterAnswers, ControlAnswers

(* ... and crashes and restarts.                                           *)
LEMMA LedgerRestartStep ==
    ASSUME LedgerInv, TypeOK', Crash \/ Restart
    PROVE  GoodStep
<1> USE DEF ledgerState, startup, process
<1>1. ASSUME Crash
      PROVE  GoodStep
  <2>1. TurnsPersist
    BY <1>1, SameTurnsPersist DEF Crash
  <2> QED
    BY <1>1, <2>1, QuietSteps
    DEF Crash, CallMoves, JobMoves
<1>2. ASSUME Restart
      PROVE  GoodStep
  <2>1. /\ UNCHANGED <<turn, n, turnOf, row, call, job, deliveries>>
        /\ phase' = "probing"
        /\ \A t \in toProbe' : Exists(t)
    BY <1>2 DEF Restart, Active, Exists
  <2>2. ClaimsAgree'
    BY <2>1 DEF LedgerInv, ClaimsAgree
  <2>3. RowsHaveTurns' /\ NoLostInput'
    BY <2>1 DEF LedgerInv, RowsHaveTurns, NoLostInput, Exists
  <2>4. LedgerMove
    BY <2>1, SameTurnsPersist, SameStage, StutterRefines DEF LedgerInv, TypeOK
  <2> QED
    BY <2>2, <2>3, <2>4 DEF LedgerInv, GoodStep
<1> QED
  BY <1>1, <1>2

(* The induction step, and the step simulation, of all that follows.       *)
LEMMA EveryStep ==
    ASSUME LedgerInv, [Next]_vars
    PROVE  GoodStep
<1>1. CASE UNCHANGED vars
  <2>1. LedgerInv'
    BY <1>1
    DEF vars, LedgerInv, TypeOK, ClaimsAgree, RowsHaveTurns, NoLostInput, Exists
  <2>2. LedgerMove
    BY <1>1, SameTurnsPersist, SameStage, StutterRefines
    DEF vars, LedgerInv, TypeOK
  <2> QED
    BY <2>1, <2>2 DEF GoodStep
<1>2. CASE Next
  <2>1. TypeOK'
    BY <1>2, UserTypes, AgentTypes, LoopTypes, AnswerTypes, RestartTypes
    DEF Next, LedgerInv
  <2> QED
    BY <1>2, <2>1, LedgerUserStep, LedgerAgentStep, LedgerLoopStep,
       LedgerAnswerStep, LedgerRestartStep
    DEF Next
<1> QED
  BY <1>1, <1>2

(* The ledger, the coroutines and the Turns agree in every reachable state, *)
(* whatever crashes, failed calls, deletions and restarts happen.          *)
THEOREM LedgerConsistent == Spec => []LedgerInv
<1>1. Init => LedgerInv
  <2> SUFFICES ASSUME Init
               PROVE  LedgerInv
    OBVIOUS
  <2>1. TypeOK
    <3>1. NoState \in TurnState
      BY DEF NoState, TurnState, Statuses
    <3> QED
      BY <3>1, HarnessAssumption DEF Init, TypeOK, Msgs
  <2> QED
    BY <2>1
    DEF Init, LedgerInv, ClaimsAgree, RowsHaveTurns, NoLostInput, Exists, Msgs
<1>2. LedgerInv /\ [Next]_vars => LedgerInv'
  BY EveryStep DEF GoodStep
<1> QED
  BY <1>1, <1>2, PTL DEF Spec

(* No input is given to the Agent twice.                                   *)
THEOREM AtMostOnceHolds == Spec => []AtMostOnce
<1>1. LedgerInv => AtMostOnce
  BY DEF LedgerInv, ClaimsAgree, AtMostOnce
<1> QED
  BY <1>1, LedgerConsistent, PTL

(* An undelivered input is found in the ledger.                            *)
THEOREM NoInputLost == Spec => []NoLostInput
<1>1. LedgerInv => NoLostInput
  BY DEF LedgerInv
<1> QED
  BY <1>1, LedgerConsistent, PTL

(* The harness implements the abstract ledger.                             *)
THEOREM LedgerImplemented == Spec => ImplementsLedger
<1>1. Init => Ledger!LedgerInit
  <2> SUFFICES ASSUME Init
               PROVE  Ledger!LedgerInit
    OBVIOUS
  <2>1. \A m \in Msgs : StageOf(m) = "new"
    BY HarnessAssumption DEF Init, StageOf, Msgs
  <2> QED
    BY <2>1 DEF Init, Ledger!LedgerInit
<1>2. LedgerInv /\ [Next]_vars => [Ledger!LedgerNext]_(Ledger!ledgerVars)
  BY EveryStep DEF GoodStep, LedgerMove
<1> QED
  BY <1>1, <1>2, LedgerConsistent, PTL
  DEF Spec, ImplementsLedger, Ledger!LedgerSpec
=============================================================================
