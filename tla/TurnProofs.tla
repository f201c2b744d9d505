----------------------------- MODULE TurnProofs -----------------------------
(***************************************************************************)
(* Proofs about Harness, concluded: which Turns may claim to be running,   *)
(* what becomes of the output an Agent streamed, and who drains the queue  *)
(* of a finished Turn.                                                     *)
(***************************************************************************)
EXTENDS MailboxProofs

(* A coroutine is about to call the adapter with m.                        *)
InFlight(m) == call[m] \in {"appended", "saved", "claimed"} \/ job[m] = "saved"
Busy(t)     == \E m \in InputsOf(t) : InFlight(m)

(* A Turn with work that counts as active is known to the Agent in this    *)
(* process, is about to be, or is still to be probed.                      *)
Backed(t)  == Active(t) /\ InputsOf(t) # {} => t \in live \/ t \in toProbe \/ Busy(t)
PhantomInv == phase # "down" => \A t \in Turns : Backed(t)

(* Nothing about t makes it lose its backing.                              *)
Keeps(t) ==
    \/ ~Active(t)'
    \/ InputsOf(t) = {}
    \/ t \in live'
    \/ Busy(t)'
    \/ Active(t) /\ (t \in toProbe => t \in toProbe')

LEMMA PhantomStep ==
    ASSUME LedgerInv, PhantomInv, UNCHANGED <<n, turnOf>>,
           phase # "down" \/ phase' = "down", live \subseteq live',
           \A m \in Msgs : InFlight(m) => InFlight(m)' \/ turnOf[m] \in live',
           \A t \in Turns : Keeps(t)
    PROVE  PhantomInv'
<1> SUFFICES ASSUME phase # "down", NEW t \in Turns, Active(t)', InputsOf(t)' # {}
             PROVE  t \in live' \/ t \in toProbe' \/ Busy(t)'
  BY DEF PhantomInv, Backed
<1>1. InputsOf(t)' = InputsOf(t)
  BY DEF InputsOf
<1>2. CASE Active(t) /\ (t \in toProbe => t \in toProbe')
  <2>1. t \in live \/ t \in toProbe \/ Busy(t)
    BY <1>1, <1>2 DEF PhantomInv, Backed
  <2>2. ASSUME Busy(t)
        PROVE  Busy(t)' \/ t \in live'
    <3>1. PICK m \in InputsOf(t) : InFlight(m)
      BY <2>2 DEF Busy
    <3>2. m \in Msgs /\ turnOf[m] = t
      BY AcceptedInputs DEF InputsOf, LedgerInv
    <3> QED
      BY <1>1, <3>1, <3>2 DEF Busy
  <2> QED
    BY <1>2, <2>1, <2>2
<1> QED
  BY <1>1, <1>2 DEF Keeps

(* Steps that leave the coroutines alone and revive no Turn.               *)
LEMMA NobodyRevived ==
    ASSUME LedgerInv, PhantomInv, UNCHANGED <<n, turnOf, call, job, phase>>,
           phase # "down", live \subseteq live',
           \A t \in Turns : /\ Active(t)' => Active(t) \/ t \in live' \/ InputsOf(t) = {}
                            /\ t \in toProbe => \/ t \in toProbe' \cup live'
                                                \/ ~Active(t)' \/ InputsOf(t) = {}
    PROVE  PhantomInv'
<1>1. \A m \in Msgs : InFlight(m) => InFlight(m)'
  BY DEF InFlight
<1>2. \A t \in Turns : Keeps(t)
  BY DEF Keeps
<1> QED
  BY <1>1, <1>2, PhantomStep

(* What interrupting does to the statuses.                                 *)
LEMMA InterruptStatus ==
    ASSUME TypeOK, NEW t, InterruptIfActive(t)
    PROVE  \A u \in Turns : Active(u)' => Active(u)
BY DEF InterruptIfActive, Active, TypeOK, TurnState

LEMMA InterruptAllStatus ==
    ASSUME TypeOK, InterruptAll
    PROVE  \A u \in Turns : Active(u)' => Active(u)
BY InterruptAllType DEF Active, TypeOK

-----------------------------------------------------------------------------
LEMMA PhantomUserStep ==
    ASSUME LedgerInv, PhantomInv,
           \/ \E t \in Turns : CreateTurn(t) \/ CancelTurn(t) \/ ResumeTurn(t)
           \/ DisconnectReturns \/ DisconnectAgent \/ RemoveAgent \/ PairAgent
           \/ \E c \in Conversations : DeleteConversation(c)
           \/ \E t \in Turns : ControlAnswers(t)
    PROVE  PhantomInv'
<1> USE DEF ledgerState, startup, process
<1>1. ASSUME NEW t \in Turns, CreateTurn(t)
      PROVE  PhantomInv'
  <2>1. InputsOf(t) = {}
    BY <1>1, AcceptedInputs DEF CreateTurn, InputsOf, LedgerInv, RowsHaveTurns
  <2>2. \A u \in Turns \ {t} : turn'[u] = turn[u]
    BY <1>1 DEF CreateTurn, LedgerInv, TypeOK
  <2>3. \A u \in Turns : Active(u)' => Active(u) \/ InputsOf(u) = {}
    BY <2>1, <2>2 DEF Active
  <2> QED
    BY <1>1, <2>3, NobodyRevived DEF CreateTurn, Serving
<1>2. ASSUME NEW t \in Turns, ResumeTurn(t)
      PROVE  PhantomInv'
  <2>1. /\ \A u \in Turns \ {t} : turn'[u] = turn[u]
        /\ t \in live'
    BY <1>2 DEF ResumeTurn, LedgerInv, TypeOK
  <2>2. \A u \in Turns : Active(u)' => Active(u) \/ u \in live'
    BY <2>1 DEF Active
  <2> QED
    BY <1>2, <2>2, NobodyRevived DEF ResumeTurn, Serving
<1>3. ASSUME NEW t \in Turns, CancelTurn(t)
      PROVE  PhantomInv'
  BY <1>3, NobodyRevived DEF CancelTurn, Serving, Active
<1>4. ASSUME DisconnectReturns
      PROVE  PhantomInv'
  <2>1. \A u \in Turns : Active(u)' => Active(u)
    BY <1>4, InterruptAllStatus DEF DisconnectReturns, LedgerInv
  <2> QED
    BY <1>4, <2>1, NobodyRevived DEF DisconnectReturns, Serving
<1>5. ASSUME DisconnectAgent \/ RemoveAgent \/ PairAgent
      PROVE  PhantomInv'
  BY <1>5, NobodyRevived DEF DisconnectAgent, RemoveAgent, PairAgent, Serving, Active
<1>6. ASSUME NEW c \in Conversations, DeleteConversation(c)
      PROVE  PhantomInv'
  <2>1. \A u \in Turns : Active(u)' => Active(u)
    BY <1>6 DEF DeleteConversation, Active, NoState
  <2> QED
    BY <1>6, <2>1, NobodyRevived DEF DeleteConversation, Serving
<1>7. ASSUME NEW t \in Turns, ControlAnswers(t)
      PROVE  PhantomInv'
  <2>1. \A u \in Turns : Active(u)' => Active(u)
    BY <1>7, InterruptStatus
    DEF ControlAnswers, CancelReturns, ResumeReturns, LedgerInv, Active
  <2>2. phase # "down" => PhantomInv'
    BY <1>7, <2>1, NobodyRevived DEF ControlAnswers, CancelReturns, ResumeReturns
  <2>3. phase' = phase
    BY <1>7 DEF ControlAnswers, CancelReturns, ResumeReturns
  <2> QED
    BY <2>2, <2>3 DEF PhantomInv
<1> QED
  BY <1>1, <1>2, <1>3, <1>4, <1>5, <1>6, <1>7

(* The Agent's events make their Turn live.                                *)
LEMMA PhantomEventStep ==
    ASSUME LedgerInv, PhantomInv, AgentEvent
    PROVE  PhantomInv'
<1> USE DEF ledgerState, startup, process
<1>1. ASSUME AgentDetaches \/ AgentAttaches
      PROVE  PhantomInv'
  <2>1. \A u \in Turns : Active(u)' => Active(u)
    BY <1>1, InterruptAllStatus DEF AgentDetaches, AgentAttaches, LedgerInv, Active
  <2> QED
    BY <1>1, <2>1, NobodyRevived DEF AgentDetaches, AgentAttaches, Serving
<1>2. ASSUME NEW t \in Turns,
             \/ AgentBound(t) \/ AgentDelta(t) \/ AgentReplies(t) \/ AgentFinishes(t)
             \/ AgentWaits(t) \/ AgentResumed(t) \/ AgentInterrupted(t)
             \/ AgentFailed(t) \/ AgentBoundary(t)
      PROVE  PhantomInv'
  <2>1. /\ UNCHANGED <<n, turnOf, call, toProbe, phase>>
        /\ live' = live \cup {t} /\ phase # "down"
    BY <1>2, Zenon
    DEF AgentBound, AgentDelta, AgentReplies, AgentFinishes, AgentWaits, AgentResumed,
        AgentInterrupted, AgentFailed, AgentMoves, AgentBoundary, AgentSpeaks
  <2>2. \A u \in Turns \ {t} : turn'[u] = turn[u]
    <3>1. \/ turn' = turn
          \/ \E s : turn' = [turn EXCEPT ![t] = s]
      <4>1. CASE AgentFinishes(t)
        BY <4>1, Zenon DEF AgentFinishes
      <4>2. CASE AgentWaits(t)
        BY <4>2, Zenon DEF AgentWaits
      <4>3. CASE AgentBoundary(t)
        BY <4>3, Zenon DEF AgentBoundary
      <4>4. CASE \/ AgentBound(t) \/ AgentDelta(t) \/ AgentReplies(t)
                 \/ AgentResumed(t) \/ AgentInterrupted(t) \/ AgentFailed(t)
        BY <4>4, Zenon
        DEF AgentBound, AgentDelta, AgentReplies, AgentResumed,
            AgentInterrupted, AgentFailed, AgentMoves
      <4> QED
        BY <1>2, <4>1, <4>2, <4>3, <4>4
    <3> QED
      BY <3>1 DEF LedgerInv, TypeOK
  <2>3. LoopFree
    BY <1>2, Zenon
    DEF AgentBound, AgentDelta, AgentReplies, AgentFinishes, AgentWaits, AgentResumed,
        AgentInterrupted, AgentFailed, AgentMoves, AgentBoundary, AgentSpeaks
  <2>4. \A m \in Msgs : ~InFlight(m)
    BY <2>3 DEF LoopFree, InFlight
  <2>5. \A u \in Turns : Keeps(u)
    BY <2>1, <2>2 DEF Keeps, Active
  <2> QED
    BY <2>1, <2>4, <2>5, PhantomStep
<1> QED
  BY <1>1, <1>2 DEF AgentEvent

(* An accepted input is about to be delivered, or is one more of a Turn    *)
(* that has its backing already.                                           *)
LEMMA PhantomAppendStep ==
    ASSUME LedgerInv, PhantomInv, NEW t \in Turns, EnqueueInput(t) \/ DispatchInput(t)
    PROVE  PhantomInv'
<1> USE DEF ledgerState, startup, process
<1>1. /\ UNCHANGED <<turn, phase, job, toProbe, live>> /\ phase = "up"
      /\ n' = n + 1 /\ n < MaxMsgs /\ n \in Nat /\ MaxMsgs \in Nat
      /\ turnOf' = [turnOf EXCEPT ![n + 1] = t]
  BY HarnessAssumption
  DEF EnqueueInput, DispatchInput, Serving, AppendInput, LedgerInv, TypeOK
<1>2. PICK x \in Msgs : x = n + 1 /\ x \in 1..n' /\ x \notin 1..n
  BY <1>1 DEF Msgs
<1>3. /\ \A m \in 1..n' : m \in 1..n \/ m = x
      /\ \A m \in 1..n : m \in 1..n' /\ m \in Msgs /\ m # x
  BY <1>1, <1>2 DEF Msgs
<1>4. turnOf'[x] = t /\ \A m \in Msgs \ {x} : turnOf'[m] = turnOf[m]
  BY <1>1, <1>2 DEF LedgerInv, TypeOK
<1>5. InputsOf(t)' = InputsOf(t) \cup {x} /\ \A u \in Turns \ {t} : InputsOf(u)' = InputsOf(u)
  BY <1>2, <1>3, <1>4 DEF InputsOf
<1>6. \A m \in 1..n : call'[m] = call[m]
  <2>1. CASE EnqueueInput(t)
    BY <2>1 DEF EnqueueInput
  <2>2. CASE DispatchInput(t)
    BY <1>2, <1>3, <2>2 DEF DispatchInput, LedgerInv, TypeOK
  <2> QED
    BY <2>1, <2>2
<1>7. \A m \in 1..n : InFlight(m) => InFlight(m)'
  BY <1>1, <1>6 DEF InFlight
<1>8. \A u \in Turns : Busy(u) => Busy(u)'
  BY <1>5, <1>7 DEF Busy, InputsOf
<1>9. \A u \in Turns \ {t} : Backed(u)'
  BY <1>1, <1>5, <1>8 DEF PhantomInv, Backed, Active
<1>10. Backed(t)'
  <2>1. CASE DispatchInput(t)
    <3>1. call'[x] = "appended"
      BY <1>2, <2>1 DEF DispatchInput, LedgerInv, TypeOK
    <3>2. InFlight(x)'
      BY <3>1 DEF InFlight
    <3> QED
      BY <1>5, <3>2 DEF Backed, Busy
  <2>2. CASE EnqueueInput(t)
    <3>1. Active(t) /\ InputsOf(t) # {}
      BY <2>2 DEF EnqueueInput, Queues, NeedsInitialSend, Active
    <3>2. t \in live \/ t \in toProbe \/ Busy(t)
      BY <1>1, <3>1 DEF PhantomInv, Backed
    <3> QED
      BY <1>1, <1>8, <3>2 DEF Backed
  <2> QED
    BY <2>1, <2>2
<1> QED
  BY <1>9, <1>10 DEF PhantomInv

(* A coroutine in its block keeps its Turn busy until the adapter is called. *)
LEMMA PhantomBlockStep ==
    ASSUME LedgerInv, PhantomInv, phase # "down", NEW m \in Msgs,
           UNCHANGED <<n, turnOf, toProbe, phase>>, live \subseteq live',
           \A k \in Msgs \ {m} : call'[k] = call[k] /\ job'[k] = job[k],
           InFlight(m) => InFlight(m)' \/ turnOf[m] \in live',
           \A t \in Turns : Active(t)' => Active(t) \/ (t = turnOf[m] /\ InFlight(m)')
    PROVE  PhantomInv'
<1>1. \A k \in Msgs : InFlight(k) => InFlight(k)' \/ turnOf[k] \in live'
  BY DEF InFlight
<1>2. ASSUME NEW t \in Turns
      PROVE  Keeps(t)
  <2>1. CASE Active(t)' /\ ~Active(t) /\ InputsOf(t) # {}
    <3>1. t = turnOf[m] /\ InFlight(m)'
      BY <2>1
    <3>2. m \in 1..n
      BY <3>1, HarnessAssumption DEF LedgerInv, TypeOK, Msgs
    <3>3. m \in InputsOf(t)'
      BY <3>1, <3>2 DEF InputsOf
    <3> QED
      BY <3>1, <3>3 DEF Keeps, Busy
  <2> QED
    BY <2>1 DEF Keeps
<1> QED
  BY <1>1, <1>2, PhantomStep

LEMMA PhantomHandlerStep ==
    ASSUME LedgerInv, OwnerInv, PhantomInv, NEW m \in Msgs,
           \/ DispatchRevive(m) \/ DispatchClaim(m) \/ DispatchDeliver(m)
           \/ DispatchAccepted(m) \/ DispatchFailed(m)
    PROVE  PhantomInv'
<1> USE DEF ledgerState, startup, process
<1>1. /\ UNCHANGED <<n, turnOf, toProbe, phase, job>> /\ phase # "down"
      /\ live \subseteq live'
      /\ \A k \in Msgs \ {m} : call'[k] = call[k] /\ job'[k] = job[k]
  BY DEF DispatchRevive, DispatchClaim, DispatchDeliver, DispatchAccepted, DispatchFailed,
         CallAdapter, OwnerInv, PhaseInv, Idle, LedgerInv, TypeOK
<1>2. CASE DispatchRevive(m)
  <2>1. call'[m] = "saved" /\ \A t \in Turns : t # turnOf[m] => turn'[t] = turn[t]
    BY <1>2 DEF DispatchRevive, LedgerInv, TypeOK
  <2> QED
    BY <1>1, <2>1, PhantomBlockStep DEF InFlight, Active
<1>3. CASE DispatchClaim(m)
  <2>1. call'[m] = "claimed" /\ turn' = turn
    BY <1>3 DEF DispatchClaim, Claimable, LedgerInv, ClaimsAgree, TypeOK
  <2> QED
    BY <1>1, <2>1, PhantomBlockStep DEF InFlight, Active
<1>4. CASE DispatchDeliver(m)
  <2>1. turnOf[m] \in live' /\ turn' = turn
    BY <1>4 DEF DispatchDeliver, CallAdapter
  <2> QED
    BY <1>1, <2>1, PhantomBlockStep DEF Active
<1>5. CASE DispatchAccepted(m) \/ DispatchFailed(m)
  <2>1. ~InFlight(m)
    BY <1>5 DEF DispatchAccepted, DispatchFailed, LoopFree, InFlight
  <2>2. \A t \in Turns : Active(t)' => Active(t)
    BY <1>5, InterruptStatus DEF DispatchAccepted, DispatchFailed, Active, LedgerInv
  <2> QED
    BY <1>1, <2>1, <2>2, PhantomBlockStep
<1> QED
  BY <1>2, <1>3, <1>4, <1>5

LEMMA PhantomTaskStep ==
    ASSUME LedgerInv, OwnerInv, PhantomInv, NEW m \in Msgs,
           \/ FollowupClaim(m) \/ FollowupSave(m) \/ FollowupFindsNoAdapter(m)
           \/ JobDeliver(m) \/ JobAccepted(m) \/ JobFailed(m)
    PROVE  PhantomInv'
<1> USE DEF ledgerState, startup, process
<1>1. /\ UNCHANGED <<n, turnOf, toProbe, phase, call>> /\ phase # "down"
      /\ live \subseteq live'
      /\ \A k \in Msgs \ {m} : call'[k] = call[k] /\ job'[k] = job[k]
  BY DEF FollowupClaim, FollowupSave, FollowupFindsNoAdapter, JobDeliver, JobAccepted,
         JobFailed, JobEnds, CallAdapter, OwnerInv, PhaseInv, Idle, LedgerInv, TypeOK
<1>2. CASE FollowupSave(m)
  <2>1. job'[m] = "saved" /\ \A t \in Turns : t # turnOf[m] => turn'[t] = turn[t]
    BY <1>2 DEF FollowupSave, LedgerInv, TypeOK
  <2> QED
    BY <1>1, <2>1, PhantomBlockStep DEF InFlight, Active
<1>3. CASE JobDeliver(m)
  <2>1. turnOf[m] \in live' /\ turn' = turn
    BY <1>3 DEF JobDeliver, CallAdapter
  <2> QED
    BY <1>1, <2>1, PhantomBlockStep DEF Active
<1>4. CASE FollowupClaim(m) \/ FollowupFindsNoAdapter(m) \/ JobAccepted(m) \/ JobFailed(m)
  <2>1. job[m] # "saved"
    BY <1>4 DEF FollowupClaim, FollowupFindsNoAdapter, JobAccepted, JobFailed
  <2>2. InFlight(m) => InFlight(m)'
    BY <1>1, <2>1 DEF InFlight
  <2>3. \A t \in Turns : Active(t)' => Active(t)
    BY <1>4, InterruptStatus
    DEF FollowupClaim, FollowupFindsNoAdapter, JobAccepted, JobFailed, Active, LedgerInv
  <2> QED
    BY <1>1, <2>2, <2>3, PhantomBlockStep
<1> QED
  BY <1>2, <1>3, <1>4

(* Reconciliation takes a Turn off its list when it was never written to,  *)
(* is vouched for, or has been interrupted.                                *)
LEMMA PhantomStartupStep ==
    ASSUME LedgerInv, OwnerInv, PhantomInv,
           \/ \E m \in Msgs : \/ SettleDispatching(m) \/ SettleWithoutAdapter(m)
                              \/ SettleByDelivery(m) \/ SettleByQueueing(m)
           \/ \E t \in Turns : KeepUnsent(t) \/ KeepLive(t) \/ InterruptLost(t)
           \/ ListUnsettled \/ StartServing \/ Crash \/ Restart
    PROVE  PhantomInv'
<1> USE DEF ledgerState, startup, process
<1>1. ASSUME NEW m \in Msgs,
             SettleDispatching(m) \/ SettleWithoutAdapter(m) \/ SettleByQueueing(m)
      PROVE  PhantomInv'
  <2>1. \A u \in Turns : Active(u)' => Active(u)
    BY <1>1, InterruptStatus
    DEF SettleDispatching, SettleWithoutAdapter, SettleByQueueing, Active, LedgerInv
  <2> QED
    BY <1>1, <2>1, NobodyRevived
    DEF SettleDispatching, SettleWithoutAdapter, SettleByQueueing, NextRow
<1>2. ASSUME NEW m \in Msgs, SettleByDelivery(m)
      PROVE  PhantomInv'
  <2>1. /\ UNCHANGED <<turn, n, turnOf, toProbe, phase, call, live>> /\ phase # "down"
        /\ job[m] = "idle" /\ \A k \in Msgs \ {m} : job'[k] = job[k]
    BY <1>2 DEF SettleByDelivery, NextRow, LedgerInv, TypeOK
  <2>2. InFlight(m) => InFlight(m)'
    BY <2>1 DEF InFlight
  <2> QED
    BY <2>1, <2>2, PhantomBlockStep DEF Active
<1>3. ASSUME NEW t \in Turns, KeepUnsent(t) \/ KeepLive(t) \/ InterruptLost(t)
      PROVE  PhantomInv'
  <2>1. /\ UNCHANGED <<n, turnOf, call, job, phase>> /\ phase = "probing"
        /\ live \subseteq live' /\ toProbe' = toProbe \ {t}
        /\ \A u \in Turns \ {t} : turn'[u] = turn[u]
    BY <1>3
    DEF KeepUnsent, KeepLive, InterruptLost, Interrupt, LedgerInv, RowsHaveTurns, TypeOK
  <2>2. t \in live' \/ ~Active(t)' \/ InputsOf(t) = {}
    <3>1. CASE KeepUnsent(t)
      BY <3>1 DEF KeepUnsent, Unsent, NeedsInitialSend
    <3>2. CASE KeepLive(t)
      BY <3>2 DEF KeepLive
    <3>3. CASE InterruptLost(t)
      BY <3>3 DEF InterruptLost, Interrupt, Active, LedgerInv, TypeOK, TurnState
    <3> QED
      BY <1>3, <3>1, <3>2, <3>3
  <2> QED
    BY <2>1, <2>2, NobodyRevived DEF Active
<1>4. ASSUME ListUnsettled \/ StartServing
      PROVE  PhantomInv'
  <2>1. /\ UNCHANGED <<turn, n, turnOf, call, job, toProbe, live>> /\ phase # "down"
    BY <1>4 DEF ListUnsettled, StartServing
  <2>2. \A m \in Msgs : InFlight(m) => InFlight(m)'
    BY <2>1 DEF InFlight
  <2>3. \A u \in Turns : Keeps(u)
    BY <2>1 DEF Keeps, Active
  <2> QED
    BY <2>1, <2>2, <2>3, PhantomStep
<1>5. ASSUME Crash
      PROVE  PhantomInv'
  BY <1>5 DEF Crash, PhantomInv
<1>6. ASSUME Restart
      PROVE  PhantomInv'
  BY <1>6 DEF Restart, PhantomInv, Backed, Active
<1> QED
  BY <1>1, <1>2, <1>3, <1>4, <1>5, <1>6

LEMMA PhantomHolds == Spec => []PhantomInv
<1>1. Init => PhantomInv
  BY DEF Init, PhantomInv, Backed, Active, NoState
<1>2. LedgerInv /\ OwnerInv /\ PhantomInv /\ [Next]_vars => PhantomInv'
  <2> SUFFICES ASSUME LedgerInv, OwnerInv, PhantomInv, [Next]_vars
               PROVE  PhantomInv'
    OBVIOUS
  <2>1. CASE UNCHANGED vars
    BY <2>1 DEF vars, PhantomInv, Backed, Active, InputsOf, Busy, InFlight
  <2>2. CASE UserRequest
    BY <2>2, PhantomUserStep, PhantomAppendStep DEF UserRequest
  <2>3. CASE AgentEvent
    BY <2>3, PhantomEventStep
  <2>4. CASE LoopStep
    BY <2>4, PhantomHandlerStep, PhantomTaskStep, PhantomStartupStep DEF LoopStep
  <2>5. CASE \E m \in Msgs : AdapterAnswers(m)
    BY <2>5, PhantomHandlerStep, PhantomTaskStep DEF AdapterAnswers
  <2>6. CASE \E t \in Turns : ControlAnswers(t)
    BY <2>6, PhantomUserStep
  <2>7. CASE Crash \/ Restart
    BY <2>7, PhantomStartupStep
  <2> QED
    BY <2>1, <2>2, <2>3, <2>4, <2>5, <2>6, <2>7 DEF Next
<1> QED
  BY <1>1, <1>2, LedgerConsistent, OwnerHolds, PTL DEF Spec

(* No Turn with work pretends to run in a process that never spoke to its  *)
(* Agent about it.                                                         *)
THEOREM NoPhantoms == Spec => []NoPhantomRun
<1>1. LedgerInv /\ PhantomInv => NoPhantomRun
  <2> SUFFICES ASSUME LedgerInv, PhantomInv, phase = "up", LoopFree,
                      NEW t \in Turns, Active(t), InputsOf(t) # {}
               PROVE  t \in live
    BY DEF NoPhantomRun
  <2>1. \A m \in InputsOf(t) : m \in Msgs
    BY AcceptedInputs DEF InputsOf, LedgerInv
  <2>2. ~Busy(t)
    BY <2>1 DEF Busy, InFlight, LoopFree
  <2>3. toProbe = {}
    BY DEF LedgerInv, RowsHaveTurns
  <2> QED
    BY <2>2, <2>3 DEF PhantomInv, Backed
<1> QED
  BY <1>1, LedgerConsistent, PhantomHolds, PTL

-----------------------------------------------------------------------------
(* Streamed output.                                                        *)

KeepsOutput ==
    \A t \in Turns :
        turn[t].partial /\ ~turn'[t].partial =>
            /\ phase \in {"up", "settling"}
            /\ turn'[t].status \notin {"interrupted", "failed"}

(* Steps that drop no buffer at all,                                       *)
LEMMA NothingDropped ==
    ASSUME \A t \in Turns : turn'[t].partial = turn[t].partial
    PROVE  KeepsOutput
BY DEF KeepsOutput

LEMMA InterruptKeepsOutput ==
    ASSUME TypeOK, NEW t, InterruptIfActive(t)
    PROVE  KeepsOutput
<1>1. \A u \in Turns : turn'[u].partial = turn[u].partial
  BY DEF InterruptIfActive, TypeOK, TurnState
<1> QED
  BY <1>1, NothingDropped

LEMMA InterruptAllKeepsOutput ==
    ASSUME TypeOK, InterruptAll
    PROVE  KeepsOutput
<1>1. \A u \in Turns : turn'[u].partial = turn[u].partial
  BY DEF InterruptAll, TypeOK, TurnState
<1> QED
  BY <1>1, NothingDropped

(* ... and steps that may drop the buffer of one Turn.                     *)
LEMMA OneDropped ==
    ASSUME NEW t, phase \in {"up", "settling"},
           \A u \in Turns \ {t} : turn'[u] = turn[u],
           turn'[t].status \notin {"interrupted", "failed"}
    PROVE  KeepsOutput
BY DEF KeepsOutput

LEMMA UserKeepsOutput ==
    ASSUME LedgerInv, UserRequest \/ \E t \in Turns : ControlAnswers(t)
    PROVE  KeepsOutput
<1> USE DEF ledgerState, startup, process
<1>1. ASSUME NEW t \in Turns, CreateTurn(t) \/ ResumeTurn(t)
      PROVE  KeepsOutput
  <2>1. turn' = [turn EXCEPT ![t].status = "running"]
    BY <1>1 DEF CreateTurn, ResumeTurn
  <2>2. \A u \in Turns : turn'[u].partial = turn[u].partial
    BY <2>1 DEF LedgerInv, TypeOK, TurnState
  <2> QED
    BY <2>2, NothingDropped
<1>2. ASSUME NEW c \in Conversations, DeleteConversation(c)
      PROVE  KeepsOutput
  <2>1. \A t \in Turns : turn'[t] = turn[t] \/ turn'[t].status = "deleted"
    BY <1>2 DEF DeleteConversation, NoState
  <2> QED
    BY <1>2, <2>1 DEF DeleteConversation, Serving, KeepsOutput
<1>3. CASE DisconnectReturns
  BY <1>3, InterruptAllKeepsOutput DEF DisconnectReturns, LedgerInv
<1>4. ASSUME NEW t \in Turns, CancelReturns(t) \/ ResumeReturns(t)
      PROVE  KeepsOutput
  BY <1>4, InterruptKeepsOutput, NothingDropped DEF CancelReturns, ResumeReturns, LedgerInv
<1>5. ASSUME turn' = turn
      PROVE  KeepsOutput
  BY <1>5, NothingDropped
<1>6. CASE \/ DisconnectAgent \/ RemoveAgent \/ PairAgent
           \/ \E t \in Turns : EnqueueInput(t) \/ DispatchInput(t) \/ CancelTurn(t)
  BY <1>5, <1>6 DEF DisconnectAgent, RemoveAgent, PairAgent, EnqueueInput, DispatchInput, CancelTurn
<1> QED
  BY <1>1, <1>2, <1>3, <1>4, <1>6 DEF UserRequest, ControlAnswers

LEMMA AgentKeepsOutput ==
    ASSUME LedgerInv, AgentEvent
    PROVE  KeepsOutput
<1> USE DEF ledgerState, startup, process
<1>1. ASSUME NEW t \in Turns, AgentReplies(t)
      PROVE  KeepsOutput
  <2>1. /\ turn'[t].status = "running" /\ phase \in {"up", "settling"}
        /\ \A u \in Turns \ {t} : turn'[u] = turn[u]
    BY <1>1 DEF AgentReplies, AgentSpeaks, LedgerInv, TypeOK, TurnState
  <2> QED
    BY <2>1, OneDropped
<1>2. ASSUME NEW t \in Turns, AgentFinishes(t)
      PROVE  KeepsOutput
  <2>1. turn' = [turn EXCEPT ![t] = [turn[t] EXCEPT !.status = "finished", !.partial = FALSE]]
    BY <1>2, Zenon DEF AgentFinishes
  <2>2. /\ turn'[t].status = "finished" /\ phase \in {"up", "settling"}
        /\ \A u \in Turns \ {t} : turn'[u] = turn[u]
    BY <1>2, <2>1 DEF AgentFinishes, AgentSpeaks, LedgerInv, TypeOK, TurnState
  <2> QED
    BY <2>2, OneDropped
<1>3. ASSUME NEW t \in Turns, AgentWaits(t)
      PROVE  KeepsOutput
  <2>1. PICK recorded \in BOOLEAN :
          turn' = [turn EXCEPT ![t].status = "waiting_user",
                               ![t].partial = @ /\ ~recorded]
    BY <1>3, Zenon DEF AgentWaits
  <2>2. /\ turn'[t].status = "waiting_user"
        /\ \A u \in Turns \ {t} : turn'[u] = turn[u]
    <3>1. turn \in [Turns -> TurnState]
      BY DEF LedgerInv, TypeOK
    <3> QED
      BY <2>1, <3>1, Zenon DEF TurnState
  <2>3. phase \in {"up", "settling"}
    BY <1>3 DEF AgentWaits, AgentSpeaks
  <2> QED
    BY <2>2, <2>3, OneDropped
<1>4. ASSUME NEW t \in Turns, NEW e, NEW s, AgentMoves(t, e, s)
      PROVE  KeepsOutput
  <2>1. \A u \in Turns : turn'[u].partial = turn[u].partial
    BY <1>4 DEF AgentMoves, LedgerInv, TypeOK, TurnState
  <2> QED
    BY <2>1, NothingDropped
<1>5. ASSUME NEW t \in Turns, AgentBound(t)
      PROVE  KeepsOutput
  <2>1. \A u \in Turns : turn'[u].partial = turn[u].partial
    BY <1>5 DEF AgentBound, LedgerInv, TypeOK, TurnState
  <2> QED
    BY <2>1, NothingDropped
<1>6. ASSUME NEW t \in Turns, AgentDelta(t)
      PROVE  KeepsOutput
  <2>1. turn'[t].partial /\ \A u \in Turns \ {t} : turn'[u] = turn[u]
    BY <1>6 DEF AgentDelta, LedgerInv, TypeOK, TurnState
  <2> QED
    BY <2>1 DEF KeepsOutput
<1>7. CASE AgentDetaches
  BY <1>7, InterruptAllKeepsOutput DEF AgentDetaches, LedgerInv
<1>8. ASSUME AgentAttaches \/ \E t \in Turns : AgentBoundary(t)
      PROVE  KeepsOutput
  <2>1. turn' = turn
    BY <1>8 DEF AgentAttaches, AgentBoundary
  <2> QED
    BY <2>1, NothingDropped
<1> QED
  BY <1>1, <1>2, <1>3, <1>4, <1>5, <1>6, <1>7, <1>8
  DEF AgentEvent, AgentResumed, AgentInterrupted, AgentFailed

LEMMA CoroutineKeepsOutput ==
    ASSUME LedgerInv, OwnerInv,
           LoopStep \/ (\E m \in Msgs : AdapterAnswers(m)) \/ Crash \/ Restart
    PROVE  KeepsOutput
<1> USE DEF ledgerState, startup, process
<1>1. ASSUME turn' = turn
      PROVE  KeepsOutput
  BY <1>1, NothingDropped
<1>2. ASSUME NEW m \in Msgs, DispatchRevive(m)
      PROVE  KeepsOutput
  <2>1. \A u \in Turns : turn'[u].partial = turn[u].partial
    BY <1>2 DEF DispatchRevive, LedgerInv, TypeOK, TurnState
  <2> QED
    BY <2>1, NothingDropped
<1>3. ASSUME NEW m \in Msgs, FollowupSave(m)
      PROVE  KeepsOutput
  <2>1. turnOf[m] \in Turns
    BY <1>3, BoundTurn DEF FollowupSave
  <2>2. phase \in {"up", "settling"}
    BY <1>3 DEF FollowupSave, OwnerInv, PhaseInv, Idle, LedgerInv, TypeOK
  <2>3. /\ turn'[turnOf[m]].status = "running"
        /\ \A u \in Turns \ {turnOf[m]} : turn'[u] = turn[u]
    BY <1>3, <2>1 DEF FollowupSave, LedgerInv, TypeOK, TurnState
  <2> QED
    BY <2>2, <2>3, OneDropped
<1>4. ASSUME NEW t, InterruptIfActive(t)
      PROVE  KeepsOutput
  BY <1>4, InterruptKeepsOutput DEF LedgerInv
<1>5. ASSUME NEW t \in Turns, InterruptLost(t)
      PROVE  KeepsOutput
  <2>1. \A u \in Turns : turn'[u].partial = turn[u].partial
    BY <1>5 DEF InterruptLost, Interrupt, LedgerInv, TypeOK, TurnState
  <2> QED
    BY <2>1, NothingDropped
<1>6. ASSUME NEW m \in Msgs, AdapterAnswers(m)
      PROVE  KeepsOutput
  BY <1>1, <1>4, <1>6
  DEF AdapterAnswers, DispatchAccepted, DispatchFailed, JobAccepted, JobFailed
<1>7. ASSUME NEW m \in Msgs,
             \/ DispatchClaim(m) \/ DispatchDeliver(m) \/ FollowupClaim(m)
             \/ FollowupFindsNoAdapter(m) \/ JobDeliver(m) \/ SettleDispatching(m)
             \/ SettleWithoutAdapter(m) \/ SettleByDelivery(m) \/ SettleByQueueing(m)
      PROVE  KeepsOutput
  BY <1>1, <1>4, <1>7
  DEF DispatchClaim, DispatchDeliver, FollowupClaim, FollowupFindsNoAdapter, JobDeliver,
      SettleDispatching, SettleWithoutAdapter, SettleByDelivery, SettleByQueueing
<1>8. ASSUME \/ \E t \in Turns : KeepUnsent(t) \/ KeepLive(t)
             \/ ListUnsettled \/ StartServing \/ Crash \/ Restart
      PROVE  KeepsOutput
  BY <1>1, <1>8 DEF KeepUnsent, KeepLive, ListUnsettled, StartServing, Crash, Restart
<1> QED
  BY <1>2, <1>3, <1>5, <1>6, <1>7, <1>8 DEF LoopStep

(* Output streamed before a Turn was stopped is never dropped by what      *)
(* stops it, nor by a crash and the startup that follows.                  *)
THEOREM OutputIsKept == Spec => StoppedTurnKeepsOutput
<1>1. LedgerInv /\ OwnerInv /\ [Next]_vars => [KeepsOutput]_vars
  <2> SUFFICES ASSUME LedgerInv, OwnerInv, Next
               PROVE  KeepsOutput
    OBVIOUS
  <2> QED
    BY UserKeepsOutput, AgentKeepsOutput, CoroutineKeepsOutput DEF Next
<1> QED
  BY <1>1, LedgerConsistent, OwnerHolds, PTL DEF Spec, StoppedTurnKeepsOutput, KeepsOutput

-----------------------------------------------------------------------------
(* Follow-ups of a finished Turn.                                          *)

(* An input whose task will put the Turn back to running, or died there.   *)
Abandoned(m) == row[m] = "dispatching" /\ deliveries[m] = 0 /\ Idle(m)
Driven(m)    == job[m] \in {"scheduled", "claimed"} \/ Abandoned(m)

(* A scheduled task finds its input as the mailbox left it: the claim of   *)
(* one whose Turn still exists succeeds.                                   *)
Fresh(m) ==
    job[m] = "scheduled" =>
        call[m] = "idle" /\ row[m] # "dispatching" /\ deliveries[m] = 0

Stuck(t)  == turn[t].status = "finished" /\ mailbox[t] # <<>> /\ OnlyFollowups(t)
DrainInv  == /\ \A m \in Msgs : Fresh(m)
             /\ \A t \in Turns : Stuck(t) => \E m \in InputsOf(t) : Driven(m)

(* What a step may do to an input and to a Turn.                           *)
Drives(m) == /\ Fresh(m)'
             /\ Driven(m) => Driven(m)' \/ turn'[turnOf[m]].status # "finished"
Calm(t)   == Stuck(t)' => Stuck(t) \/ \E m \in InputsOf(t) : Driven(m)'
Alone(m)  == UNCHANGED <<call[m], job[m], row[m], deliveries[m]>>

LEMMA DrainStep ==
    ASSUME LedgerInv, DrainInv,
           \A t \in Turns : /\ InputsOf(t) \subseteq InputsOf(t)'
                            /\ Calm(t),
           \A m \in Msgs : Drives(m)
    PROVE  DrainInv'
<1>1. \A m \in Msgs : Fresh(m)'
  BY DEF Drives
<1>2. ASSUME NEW t \in Turns, Stuck(t)'
      PROVE  \E m \in InputsOf(t)' : Driven(m)'
  <2>1. CASE Stuck(t)
    <3>1. PICK m \in InputsOf(t) : Driven(m)
      BY <2>1 DEF DrainInv
    <3>2. m \in Msgs /\ turnOf[m] = t
      BY AcceptedInputs DEF InputsOf, LedgerInv
    <3>3. Driven(m)'
      BY <1>2, <3>1, <3>2 DEF Drives, Stuck
    <3> QED
      BY <3>1, <3>3
  <2>2. CASE ~Stuck(t)
    BY <1>2, <2>2 DEF Calm
  <2> QED
    BY <2>1, <2>2
<1> QED
  BY <1>1, <1>2 DEF DrainInv

LEMMA AloneDrives ==
    ASSUME DrainInv, NEW m \in Msgs, Alone(m)
    PROVE  Drives(m)
BY DEF DrainInv, Alone, Drives, Fresh, Driven, Abandoned, Idle

(* Steps of one coroutine, or of none, that put no Turn and no mailbox     *)
(* where a task is needed.                                                 *)
LEMMA DrainBlockStep ==
    ASSUME LedgerInv, DrainInv, UNCHANGED <<n, turnOf, kind>>,
           \A t \in Turns : Calm(t), \A m \in Msgs : Alone(m) \/ Drives(m)
    PROVE  DrainInv'
<1>1. \A t \in Turns : InputsOf(t) \subseteq InputsOf(t)'
  BY DEF InputsOf
<1> QED
  BY <1>1, AloneDrives, DrainStep

LEMMA NotFinishing ==
    ASSUME UNCHANGED <<n, turnOf, kind, mailbox>>, NEW t \in Turns,
           turn'[t].status = "finished" => turn[t].status = "finished"
    PROVE  Calm(t)
BY DEF Calm, Stuck, OnlyFollowups, InputsOf

LEMMA InterruptCalm ==
    ASSUME TypeOK, NEW t, InterruptIfActive(t)
    PROVE  \A u \in Turns : turn'[u].status = "finished" => turn[u].status = "finished"
BY DEF InterruptIfActive, Active, TypeOK, TurnState

LEMMA InterruptAllCalm ==
    ASSUME TypeOK, InterruptAll
    PROVE  \A u \in Turns : turn'[u].status = "finished" => turn[u].status = "finished"
BY InterruptAllType DEF TypeOK

(* Steps that touch no input.                                              *)
LEMMA DrainQuietStep ==
    ASSUME LedgerInv, DrainInv,
           \/ \E t \in Turns : CreateTurn(t) \/ CancelTurn(t) \/ ResumeTurn(t)
           \/ DisconnectReturns \/ DisconnectAgent \/ RemoveAgent \/ PairAgent
           \/ \E t \in Turns : ControlAnswers(t)
           \/ \E t \in Turns : \/ AgentBound(t) \/ AgentDelta(t) \/ AgentReplies(t)
                               \/ AgentWaits(t) \/ AgentResumed(t)
                               \/ AgentInterrupted(t) \/ AgentFailed(t)
           \/ AgentDetaches \/ AgentAttaches
           \/ \E t \in Turns : KeepUnsent(t) \/ KeepLive(t) \/ InterruptLost(t)
           \/ \E m \in Msgs : SettleDispatching(m) \/ SettleWithoutAdapter(m)
           \/ ListUnsettled \/ StartServing \/ Restart
    PROVE  DrainInv'
<1> USE DEF ledgerState, startup, process
<1>1. UNCHANGED <<n, turnOf, kind, row, mailbox, call, job, deliveries>>
  BY Zenon
  DEF CreateTurn, CancelTurn, ResumeTurn, DisconnectReturns, DisconnectAgent, RemoveAgent, PairAgent,
      ControlAnswers, CancelReturns, ResumeReturns, AgentBound, AgentDelta, AgentReplies,
      AgentWaits, AgentResumed, AgentInterrupted, AgentFailed, AgentMoves, AgentDetaches,
      AgentAttaches, KeepUnsent, KeepLive, InterruptLost, SettleDispatching,
      SettleWithoutAdapter, ListUnsettled, StartServing, Restart
<1> DEFINE NoneFinishes ==
             \A u \in Turns : turn'[u].status = "finished" => turn[u].status = "finished"
<1>2. NoneFinishes
  <2>1. ASSUME turn' = turn
        PROVE  NoneFinishes
    BY <2>1
  <2>2. ASSUME NEW t, InterruptIfActive(t)
        PROVE  NoneFinishes
    BY <2>2, InterruptCalm DEF LedgerInv
  <2>3. ASSUME NEW t \in Turns, \A u \in Turns \ {t} : turn'[u] = turn[u],
               turn'[t].status # "finished" \/ turn'[t].status = turn[t].status
        PROVE  NoneFinishes
    BY <2>3
  <2>4. ASSUME NEW t \in Turns, NEW s, s # "finished",
               turn' = [turn EXCEPT ![t].status = s]
        PROVE  NoneFinishes
    BY <2>4 DEF LedgerInv, TypeOK, TurnState
  <2>5. CASE DisconnectReturns \/ AgentDetaches
    BY <2>5, InterruptAllCalm DEF DisconnectReturns, AgentDetaches, LedgerInv
  <2>6. ASSUME NEW t \in Turns,
               \/ CreateTurn(t) \/ ResumeTurn(t) \/ AgentResumed(t) \/ AgentInterrupted(t)
               \/ AgentFailed(t) \/ InterruptLost(t)
        PROVE  NoneFinishes
    <3>1. \E s : s # "finished" /\ turn' = [turn EXCEPT ![t].status = s]
      BY <2>6, Zenon
      DEF CreateTurn, ResumeTurn, AgentResumed, AgentInterrupted, AgentFailed, AgentMoves,
          InterruptLost, Interrupt
    <3> QED
      BY <2>4, <3>1
  <2>7. ASSUME NEW t \in Turns, AgentBound(t) \/ AgentDelta(t) \/ AgentReplies(t)
        PROVE  NoneFinishes
    <3>1. turn \in [Turns -> TurnState]
      BY DEF LedgerInv, TypeOK
    <3>2. CASE AgentBound(t)
      <4>1. turn' = [turn EXCEPT ![t].session = TRUE]
        BY <3>2 DEF AgentBound
      <4> QED
        BY <3>1, <4>1 DEF TurnState
    <3>3. CASE AgentDelta(t)
      <4>1. turn' = [turn EXCEPT ![t].partial = TRUE]
        BY <3>3 DEF AgentDelta
      <4> QED
        BY <3>1, <4>1 DEF TurnState
    <3>4. CASE AgentReplies(t)
      <4>1. turn' = [turn EXCEPT ![t].status = "running", ![t].partial = FALSE]
        BY <3>4 DEF AgentReplies
      <4>2. /\ turn'[t].status = "running"
            /\ \A u \in Turns \ {t} : turn'[u] = turn[u]
        BY <3>1, <4>1 DEF TurnState
      <4> QED
        BY <2>3, <4>2
    <3> QED
      BY <2>7, <3>2, <3>3, <3>4
  <2>8. ASSUME NEW t \in Turns, AgentWaits(t)
        PROVE  NoneFinishes
    <3>1. PICK recorded \in BOOLEAN :
            turn' = [turn EXCEPT ![t].status = "waiting_user",
                                 ![t].partial = @ /\ ~recorded]
      BY <2>8, Zenon DEF AgentWaits
    <3>2. /\ turn'[t].status = "waiting_user"
          /\ \A u \in Turns \ {t} : turn'[u] = turn[u]
      <4>1. turn \in [Turns -> TurnState]
        BY DEF LedgerInv, TypeOK
      <4> QED
        BY <3>1, <4>1, Zenon DEF TurnState
    <3> QED
      BY <2>3, <3>2
  <2>9. ASSUME NEW t \in Turns, ControlAnswers(t)
        PROVE  NoneFinishes
    BY <2>1, <2>2, <2>9 DEF ControlAnswers, CancelReturns, ResumeReturns
  <2>10. ASSUME NEW m \in Msgs, SettleDispatching(m) \/ SettleWithoutAdapter(m)
         PROVE  NoneFinishes
    BY <2>1, <2>2, <2>10 DEF SettleDispatching, SettleWithoutAdapter
  <2>11. ASSUME \/ \E t \in Turns : CancelTurn(t) \/ KeepUnsent(t) \/ KeepLive(t)
                \/ DisconnectAgent \/ RemoveAgent \/ PairAgent \/ AgentAttaches
                \/ ListUnsettled \/ StartServing \/ Restart
         PROVE  NoneFinishes
    BY <2>1, <2>11
    DEF CancelTurn, KeepUnsent, KeepLive, DisconnectAgent, RemoveAgent, PairAgent, AgentAttaches,
        ListUnsettled, StartServing, Restart
  <2> HIDE DEF NoneFinishes
  <2> QED
    BY <2>5, <2>6, <2>7, <2>8, <2>9, <2>10, <2>11, Zenon
<1>3. \A t \in Turns : Calm(t)
  BY <1>1, <1>2, NotFinishing
<1> QED
  BY <1>1, <1>3, DrainBlockStep DEF Alone

(* The handler of an input: no task works on it.                           *)
LEMMA DrainHandlerStep ==
    ASSUME LedgerInv, OwnerInv, DrainInv, NEW m \in Msgs,
           \/ DispatchRevive(m) \/ DispatchClaim(m) \/ DispatchDeliver(m)
           \/ DispatchAccepted(m) \/ DispatchFailed(m)
    PROVE  DrainInv'
<1> USE DEF ledgerState, startup, process
<1>1. /\ UNCHANGED <<n, turnOf, kind, mailbox, job>> /\ call[m] # "idle"
      /\ \A k \in Msgs \ {m} : Alone(k)
  BY DEF DispatchRevive, DispatchClaim, DispatchDeliver, DispatchAccepted, DispatchFailed,
         ClaimInbound, CompleteInbound, CallAdapter, Alone, LedgerInv, TypeOK
<1>2. Drives(m)
  BY <1>1 DEF DrainInv, Drives, Fresh, Driven, Abandoned, Idle, LedgerInv, ClaimsAgree
<1>3. \A u \in Turns : turn'[u].status = "finished" => turn[u].status = "finished"
  <2>1. CASE DispatchRevive(m)
    BY <2>1 DEF DispatchRevive, LedgerInv, TypeOK, TurnState
  <2>2. CASE DispatchFailed(m)
    BY <2>2, InterruptCalm DEF DispatchFailed, LedgerInv
  <2>3. CASE DispatchClaim(m) \/ DispatchDeliver(m) \/ DispatchAccepted(m)
    BY <2>3 DEF DispatchClaim, DispatchDeliver, DispatchAccepted
  <2> QED
    BY <2>1, <2>2, <2>3
<1>4. \A t \in Turns : Calm(t)
  BY <1>1, <1>3, NotFinishing
<1> QED
  BY <1>1, <1>2, <1>4, DrainBlockStep

(* A task passes its input on to itself, revives the Turn, or dies with    *)
(* the claim.                                                              *)
LEMMA DrainTaskStep ==
    ASSUME LedgerInv, OwnerInv, DrainInv, NEW m \in Msgs,
           \/ FollowupClaim(m) \/ FollowupSave(m) \/ FollowupFindsNoAdapter(m)
           \/ JobDeliver(m) \/ JobAccepted(m) \/ JobFailed(m)
    PROVE  DrainInv'
<1> USE DEF ledgerState, startup, process
<1>1. /\ UNCHANGED <<n, turnOf, kind, mailbox, call>> /\ job'[m] # "scheduled"
      /\ m \in 1..n /\ turnOf[m] \in Turns
      /\ \A k \in Msgs \ {m} : Alone(k)
  <2>1. job[m] # "idle"
    BY DEF FollowupClaim, FollowupSave, FollowupFindsNoAdapter, JobDeliver, JobAccepted,
           JobFailed
  <2> QED
    BY <2>1, BoundTurn
    DEF FollowupClaim, FollowupSave, FollowupFindsNoAdapter, JobDeliver, JobAccepted,
        JobFailed, JobEnds, ClaimInbound, CompleteInbound, CallAdapter, Alone, LedgerInv,
        TypeOK
<1>2. Drives(m)
  <2>1. CASE FollowupClaim(m)
    <3>1. /\ row[m] = "pending" => job'[m] = "claimed"
          /\ turn' = turn
      BY <2>1 DEF FollowupClaim, Claimable, LedgerInv, TypeOK
    <3>2. row[m] # "pending" => turn[turnOf[m]].status = "deleted"
      BY <1>1, <2>1 DEF FollowupClaim, DrainInv, Fresh, LedgerInv, NoLostInput
    <3> QED
      BY <1>1, <3>1, <3>2 DEF Drives, Fresh, Driven
  <2>2. CASE FollowupSave(m)
    <3>1. turn'[turnOf[m]].status = "running"
      BY <1>1, <2>2 DEF FollowupSave, LedgerInv, TypeOK, TurnState
    <3> QED
      BY <1>1, <3>1 DEF Drives, Fresh
  <2>3. CASE FollowupFindsNoAdapter(m)
    <3>1. /\ job'[m] = "idle" /\ call'[m] = "idle" /\ row'[m] = "dispatching"
          /\ deliveries'[m] = 0
      BY <2>3
      DEF FollowupFindsNoAdapter, JobEnds, LedgerInv, ClaimsAgree, TypeOK
    <3> QED
      BY <1>1, <3>1 DEF Drives, Fresh, Driven, Abandoned, Idle
  <2>4. CASE JobDeliver(m) \/ JobAccepted(m) \/ JobFailed(m)
    <3>1. ~Driven(m)
      BY <2>4 DEF JobDeliver, JobAccepted, JobFailed, Driven, Abandoned, Idle
    <3> QED
      BY <1>1, <3>1 DEF Drives, Fresh
  <2> QED
    BY <2>1, <2>2, <2>3, <2>4
<1>3. \A u \in Turns : turn'[u].status = "finished" => turn[u].status = "finished"
  <2>1. CASE FollowupSave(m)
    BY <1>1, <2>1 DEF FollowupSave, LedgerInv, TypeOK, TurnState
  <2>2. CASE JobFailed(m)
    BY <2>2, InterruptCalm DEF JobFailed, LedgerInv
  <2>3. CASE FollowupClaim(m) \/ FollowupFindsNoAdapter(m) \/ JobDeliver(m) \/ JobAccepted(m)
    BY <2>3 DEF FollowupClaim, FollowupFindsNoAdapter, JobDeliver, JobAccepted
  <2> QED
    BY <2>1, <2>2, <2>3
<1>4. \A t \in Turns : Calm(t)
  BY <1>1, <1>3, NotFinishing
<1> QED
  BY <1>1, <1>2, <1>4, DrainBlockStep

(* A Turn that finishes has its first follow-up scheduled.                 *)
LEMMA DrainFinishStep ==
    ASSUME LedgerInv, OwnerInv, DrainInv, NEW t \in Turns, AgentFinishes(t)
    PROVE  DrainInv'
<1> USE DEF ledgerState, startup, process
<1>1. /\ UNCHANGED <<n, turnOf, kind, row, call, deliveries>> /\ Exists(t)
      /\ \A u \in Turns \ {t} : turn'[u] = turn[u]
  <2>1. turn' = [turn EXCEPT ![t] = [turn[t] EXCEPT !.status = "finished", !.partial = FALSE]]
    BY Zenon DEF AgentFinishes
  <2> QED
    BY <2>1 DEF AgentFinishes, AgentSpeaks, LedgerInv, TypeOK
<1>2. CASE ~FollowupReady(t)
  <2>1. UNCHANGED <<mailbox, job>>
    BY <1>2 DEF AgentFinishes
  <2>2. ~Stuck(t)'
    <3>1. ASSUME mailbox[t] # <<>>
          PROVE  ~OnlyFollowups(t)
      <4>1. Head(mailbox[t]) \in Held(t)
        BY <3>1, TailSorted DEF Held, LedgerInv, TypeOK, OwnerInv, HeldInv
      <4>2. Head(mailbox[t]) \in InputsOf(t)
        BY <4>1, HeldTypes DEF InputsOf, OwnerInv, HeldInv, LedgerInv
      <4> QED
        BY <1>2, <3>1, <4>2 DEF FollowupReady, OnlyFollowups
    <3> QED
      BY <1>1, <2>1, <3>1 DEF Stuck, OnlyFollowups, InputsOf
  <2>3. \A u \in Turns : Calm(u)
    BY <1>1, <2>1, <2>2 DEF Calm, Stuck, OnlyFollowups, InputsOf
  <2> QED
    BY <1>1, <2>1, <2>3, DrainBlockStep DEF Alone
<1>3. CASE FollowupReady(t)
  <2>1. /\ mailbox[t] # <<>>
        /\ mailbox' = [mailbox EXCEPT ![t] = Tail(mailbox[t])]
        /\ job' = [job EXCEPT ![Head(mailbox[t])] = "scheduled"]
    BY <1>3, Zenon DEF AgentFinishes, FollowupReady
  <2>2. mailbox[t] \in Seq(1..n) /\ n \in Nat /\ Sorted(mailbox[t])
    BY DEF LedgerInv, TypeOK, OwnerInv, HeldInv
  <2>3. PICK m \in Held(t) : m = Head(mailbox[t])
    BY <2>1, <2>2, TailSorted DEF Held
  <2>4. \A u \in Turns \ {t} : mailbox'[u] = mailbox[u]
    BY <2>1 DEF LedgerInv, TypeOK
  <2>5. m \in Msgs /\ m \in InputsOf(t) /\ Idle(m) /\ row[m] = "pending"
    BY <1>1, HeldTypes DEF OwnerInv, HeldInv, LedgerInv, InputsOf, Exists
  <2>6. job'[m] = "scheduled" /\ \A k \in Msgs \ {m} : Alone(k)
    BY <1>1, <2>1, <2>3, <2>5 DEF Alone, LedgerInv, TypeOK
  <2>7. Drives(m)
    BY <1>1, <2>5, <2>6 DEF Drives, Fresh, Driven, Idle, LedgerInv, ClaimsAgree
  <2>8. \A u \in Turns : Calm(u)
    BY <1>1, <2>4, <2>5, <2>6 DEF Calm, Stuck, Driven, OnlyFollowups, InputsOf
  <2> QED
    BY <1>1, <2>6, <2>7, <2>8, DrainBlockStep
<1> QED
  BY <1>2, <1>3

(* Only an input nobody works on is taken from a mailbox.                  *)
LEMMA DrainBoundaryStep ==
    ASSUME LedgerInv, OwnerInv, DrainInv, NEW t \in Turns, AgentBoundary(t)
    PROVE  DrainInv'
<1> USE DEF ledgerState, startup, process
<1>1. UNCHANGED <<turn, n, turnOf, kind, call, deliveries>>
  BY DEF AgentBoundary
<1>2. PICK i \in 1..Len(mailbox[t]) :
        /\ i \in SteerPositions(t)
        /\ mailbox' = [mailbox EXCEPT ![t] = RemoveAt(mailbox[t], i)]
        /\ ClaimInbound(mailbox[t][i])
        /\ job' = [job EXCEPT ![mailbox[t][i]] = IF Claimable(mailbox[t][i]) THEN "saved" ELSE @]
  BY Zenon DEF AgentBoundary, SteerPositions
<1>3. PICK m \in Held(t) : m = mailbox[t][i]
  BY HeldTypes DEF LedgerInv
<1>4. /\ ClaimInbound(m) /\ job' = [job EXCEPT ![m] = IF Claimable(m) THEN "saved" ELSE @]
      /\ kind[m] = "steer"
  BY <1>2, <1>3 DEF SteerPositions
<1>5. m \in Msgs /\ m \in InputsOf(t) /\ Idle(m)
  BY HeldTypes DEF OwnerInv, HeldInv, LedgerInv, InputsOf
<1>6. \A k \in Msgs \ {m} : Alone(k)
  BY <1>1, <1>4, <1>5 DEF Alone, ClaimInbound, LedgerInv, TypeOK
<1>7. Drives(m)
  <2>1. job'[m] # "scheduled"
    BY <1>4, <1>5 DEF Idle, LedgerInv, TypeOK
  <2>2. Driven(m) => Driven(m)'
    <3>1. ASSUME Driven(m)
          PROVE  ~Claimable(m) /\ Abandoned(m)
      BY <1>5, <3>1 DEF Driven, Abandoned, Idle, Claimable
    <3>2. ~Claimable(m) => row'[m] = row[m] /\ job'[m] = job[m]
      BY <1>4, <1>5 DEF ClaimInbound, LedgerInv, TypeOK
    <3> QED
      BY <1>1, <3>1, <3>2 DEF Driven, Abandoned, Idle
  <2> QED
    BY <2>1, <2>2 DEF Drives, Fresh
<1>8. \A u \in Turns : Calm(u)
  <2>1. ~OnlyFollowups(t)
    BY <1>4, <1>5 DEF OnlyFollowups
  <2>2. \A u \in Turns \ {t} : mailbox'[u] = mailbox[u]
    BY <1>2 DEF LedgerInv, TypeOK
  <2> QED
    BY <1>1, <2>1, <2>2 DEF Calm, Stuck, OnlyFollowups, InputsOf
<1> QED
  BY <1>1, <1>6, <1>7, <1>8, DrainBlockStep

(* A new input is queued behind a running Turn only.                       *)
LEMMA DrainAppendStep ==
    ASSUME LedgerInv, OwnerInv, DrainInv, NEW t \in Turns,
           EnqueueInput(t) \/ DispatchInput(t)
    PROVE  DrainInv'
<1> USE DEF ledgerState, startup, process
<1>1. /\ UNCHANGED <<turn, job, deliveries>>
      /\ n' = n + 1 /\ n < MaxMsgs /\ n \in Nat /\ MaxMsgs \in Nat
      /\ turnOf' = [turnOf EXCEPT ![n + 1] = t]
      /\ row' = [row EXCEPT ![n + 1] = "pending"]
      /\ kind' = [kind EXCEPT ![n + 1] = InputKind(t)]
  BY HarnessAssumption DEF EnqueueInput, DispatchInput, AppendInput, LedgerInv, TypeOK
<1>2. PICK x \in Msgs : x = n + 1 /\ x \notin 1..n /\ x > n
  BY <1>1 DEF Msgs
<1>3. \A m \in 1..n : m \in 1..n' /\ m \in Msgs /\ m # x
  BY <1>1, <1>2 DEF Msgs
<1>4. /\ job[x] = "idle" /\ row[x] = "none"
      /\ \A m \in Msgs \ {x} : /\ turnOf'[m] = turnOf[m] /\ row'[m] = row[m]
                               /\ kind'[m] = kind[m]
  BY <1>1, <1>2 DEF LedgerInv, TypeOK
<1>5. \A m \in Msgs \ {x} : call'[m] = call[m]
  <2>1. CASE EnqueueInput(t)
    BY <2>1 DEF EnqueueInput
  <2>2. CASE DispatchInput(t)
    BY <1>2, <2>2 DEF DispatchInput, LedgerInv, TypeOK
  <2> QED
    BY <2>1, <2>2
<1>6. \A m \in Msgs : Drives(m)
  <2>1. Drives(x)
    BY <1>1, <1>4 DEF Drives, Fresh, Driven, Abandoned
  <2>2. \A m \in Msgs \ {x} : Alone(m)
    BY <1>1, <1>4, <1>5 DEF Alone
  <2> QED
    BY <2>1, <2>2, AloneDrives
<1>7. ASSUME NEW u \in Turns
      PROVE  InputsOf(u) \subseteq InputsOf(u)' /\ Calm(u)
  <2>1. \A m \in InputsOf(u) : m \in InputsOf(u)' /\ kind'[m] = kind[m]
    BY <1>3, <1>4 DEF InputsOf
  <2>2. OnlyFollowups(u)' => OnlyFollowups(u)
    BY <2>1 DEF OnlyFollowups
  <2>3. turn[u].status = "finished" => mailbox'[u] = mailbox[u]
    <3>1. CASE EnqueueInput(t)
      BY <3>1 DEF EnqueueInput, Queues, LedgerInv, TypeOK
    <3>2. CASE DispatchInput(t)
      BY <3>2 DEF DispatchInput
    <3> QED
      BY <3>1, <3>2
  <2> QED
    BY <1>1, <2>1, <2>2, <2>3 DEF Calm, Stuck
<1> QED
  BY <1>6, <1>7, DrainStep

(* Deleting a conversation takes its Turns and its rows away together.     *)
LEMMA DrainDeleteStep ==
    ASSUME LedgerInv, OwnerInv, DrainInv, NEW c \in Conversations, DeleteConversation(c)
    PROVE  DrainInv'
<1> USE DEF ledgerState, startup, process
<1>1. /\ UNCHANGED <<n, turnOf, kind, mailbox, call, job, deliveries>>
      /\ \A u \in Turns : turn'[u] = turn[u] \/ turn'[u].status = "deleted"
  BY DEF DeleteConversation, NoState
<1>2. ASSUME NEW m \in Msgs
      PROVE  Alone(m) \/ Drives(m)
  <2>1. CASE turnOf[m] \in c /\ row[m] # "none"
    <3>1. turnOf[m] \in Turns /\ Exists(turnOf[m])
      BY <2>1, BoundTurn DEF LedgerInv, RowsHaveTurns
    <3>2. turn'[turnOf[m]].status = "deleted" /\ row'[m] = "none"
      BY <2>1, <3>1 DEF DeleteConversation, NoState
    <3> QED
      BY <1>1, <3>2 DEF Drives, Fresh, DrainInv
  <2>2. CASE ~(turnOf[m] \in c /\ row[m] # "none")
    BY <1>1, <2>2 DEF DeleteConversation, Alone
  <2> QED
    BY <2>1, <2>2
<1>3. \A t \in Turns : Calm(t)
  BY <1>1, NotFinishing
<1> QED
  BY <1>1, <1>2, <1>3, DrainBlockStep

(* Startup delivers the follow-ups of a finished Turn and queues others.   *)
LEMMA DrainSettleStep ==
    ASSUME LedgerInv, OwnerInv, DrainInv, NEW m \in Msgs,
           SettleByDelivery(m) \/ SettleByQueueing(m)
    PROVE  DrainInv'
<1> USE DEF ledgerState, startup, process
<1>1. CASE SettleByDelivery(m)
  <2>1. /\ UNCHANGED <<turn, n, turnOf, kind, mailbox, call, deliveries>>
        /\ row[m] = "pending" /\ job[m] = "idle" /\ job'[m] = "claimed"
        /\ \A k \in Msgs \ {m} : Alone(k)
    BY <1>1 DEF SettleByDelivery, NextRow, ClaimInbound, Alone, LedgerInv, TypeOK
  <2>2. Drives(m)
    BY <2>1 DEF Drives, Fresh, Driven
  <2>3. \A t \in Turns : Calm(t)
    BY <2>1, NotFinishing
  <2> QED
    BY <2>1, <2>2, <2>3, DrainBlockStep
<1>2. CASE SettleByQueueing(m)
  <2>1. /\ UNCHANGED <<turn, n, turnOf, kind, row, call, job, deliveries>>
        /\ row[m] = "pending" /\ ~Recoverable(m)
        /\ \A t \in Turns \ {turnOf[m]} : mailbox'[t] = mailbox[t]
    BY <1>2 DEF SettleByQueueing, LedgerInv, TypeOK
  <2>2. m \in InputsOf(turnOf[m])
    BY <2>1, BoundTurn DEF InputsOf
  <2>3. turn[turnOf[m]].status = "finished" => ~OnlyFollowups(turnOf[m])
    BY <2>1, <2>2 DEF Recoverable, OnlyFollowups, LedgerInv, TypeOK
  <2>4. \A t \in Turns : Calm(t)
    BY <2>1, <2>3 DEF Calm, Stuck, OnlyFollowups, InputsOf
  <2> QED
    BY <2>1, <2>4, DrainBlockStep DEF Alone
<1> QED
  BY <1>1, <1>2

LEMMA DrainHolds == Spec => []DrainInv
<1>1. Init => DrainInv
  BY DEF Init, DrainInv, Fresh, Stuck
<1>2. LedgerInv /\ OwnerInv /\ DrainInv /\ [Next]_vars => DrainInv'
  <2> SUFFICES ASSUME LedgerInv, OwnerInv, DrainInv, [Next]_vars
               PROVE  DrainInv'
    OBVIOUS
  <2>1. CASE UNCHANGED vars
    BY <2>1 DEF vars, DrainInv, Fresh, Stuck, Driven, Abandoned, Idle, OnlyFollowups, InputsOf
  <2>2. CASE UserRequest
    BY <2>2, DrainQuietStep, DrainAppendStep, DrainDeleteStep DEF UserRequest
  <2>3. CASE AgentEvent
    BY <2>3, DrainQuietStep, DrainFinishStep, DrainBoundaryStep DEF AgentEvent
  <2>4. CASE LoopStep
    BY <2>4, DrainQuietStep, DrainHandlerStep, DrainTaskStep, DrainSettleStep DEF LoopStep
  <2>5. CASE \E m \in Msgs : AdapterAnswers(m)
    BY <2>5, DrainHandlerStep, DrainTaskStep DEF AdapterAnswers
  <2>6. CASE \E t \in Turns : ControlAnswers(t)
    BY <2>6, DrainQuietStep
  <2>7. CASE Crash
    BY <2>7 DEF Crash, DrainInv, Fresh, Stuck
  <2>8. CASE Restart
    BY <2>8, DrainQuietStep
  <2> QED
    BY <2>1, <2>2, <2>3, <2>4, <2>5, <2>6, <2>7, <2>8 DEF Next
<1> QED
  BY <1>1, <1>2, LedgerConsistent, OwnerHolds, PTL DEF Spec

(* While follow-ups wait behind a finished Turn, the task that revives it  *)
(* exists, or has died with its claim: nobody has to write to the Turn to  *)
(* get its queue going.                                                    *)
THEOREM QueueIsDriven == Spec => []DrainIsUnderWay
<1>1. LedgerInv /\ DrainInv => DrainIsUnderWay
  <2> SUFFICES ASSUME LedgerInv, DrainInv, NEW t \in Turns, Stuck(t)
               PROVE  \/ \E m \in InputsOf(t) : job[m] \in {"scheduled", "claimed"}
                      \/ AbandonedClaim(t)
    BY DEF DrainIsUnderWay, Stuck
  <2>1. PICK m \in InputsOf(t) : Driven(m)
    BY DEF DrainInv
  <2> QED
    BY <2>1 DEF Driven, Abandoned, Idle, AbandonedClaim
<1> QED
  BY <1>1, LedgerConsistent, DrainHolds, PTL

=============================================================================
