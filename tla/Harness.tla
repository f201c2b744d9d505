------------------------------ MODULE Harness -------------------------------
(***************************************************************************)
(* The control core of the Kane API (apps/api/app/harness and the delivery *)
(* tables of store/sqlite_store.py): user inputs are appended to a durable *)
(* ledger, delivered to one Agent by request handlers, by follow-up tasks  *)
(* and by startup reconciliation, and the Agent's events move the Turns.   *)
(*                                                                         *)
(* Scheduling. The API is one asyncio event loop: what a coroutine does    *)
(* between two suspension points cannot be interleaved with anything, but  *)
(* every store call is a transaction of its own, so the process can die    *)
(* between two of them. A coroutine in the middle of such a block holds    *)
(* the loop (LoopFree is FALSE) and only its own next step or a Crash can  *)
(* follow.                                                                 *)
(*                                                                         *)
(* One Agent owns all Turns: capacity, capabilities and registration are   *)
(* per Agent and nothing else couples Turns of different Agents.           *)
(***************************************************************************)
EXTENDS Integers, FiniteSets, Sequences, SequencesExt

CONSTANTS
    Turns,             \* the Turns that can be created
    Conversations,     \* a partition of Turns
    NoTurn,            \* "no Turn yet"
    MaxMsgs,           \* bound: user inputs accepted over the whole run
    MaxCrashes,        \* bound: times the API process dies
    SteerModes,        \* AgentCapabilities.steer_mode values the Agent may declare
    ParallelLimit,     \* max_parallel_sessions (1 without supports_parallel_sessions)
    SupportsCancel,    \* AgentCapabilities.supports_cancel
    SupportsResume,    \* AgentCapabilities.supports_resume
    External,          \* a paired Connector: it can disconnect and be removed
    AgentEvents        \* the kinds of event this Agent's protocol sends

EventKinds == {"bound", "delta", "complete", "waiting", "resumed",
               "interrupted", "failed", "boundary"}

ASSUME HarnessAssumption ==
    /\ MaxMsgs \in Nat
    /\ MaxCrashes \in Nat
    /\ ParallelLimit \in Nat \ {0}
    /\ SteerModes \subseteq {"native", "safe_boundary", "follow_up_only"}
    /\ SteerModes # {}
    /\ {SupportsCancel, SupportsResume, External} \subseteq BOOLEAN
    /\ AgentEvents \subseteq EventKinds
    /\ External => "boundary" \notin AgentEvents  \* no Connector frame signals one
    /\ NoTurn \notin Turns
    /\ Conversations \subseteq SUBSET Turns

Msgs == 1..MaxMsgs       \* in the order they are appended (the ledger's rowid)

VARIABLES
    \* --- durable: the SQLite store
    turn,          \* turn[t]: status, native session bound?, partial output held?
    n,             \* number of user inputs appended; 1..n exist
    turnOf,        \* the Turn an input is bound to
    kind,          \* inbound_delivery.kind
    row,           \* inbound_delivery.state, "none" when there is no row
    paired,        \* the Agent's binding exists and is active
    \* --- volatile: the API process
    phase,         \* "up", "down", or a stage of startup reconciliation
    mode,          \* steer_mode the Agent declares now
    registered,    \* an adapter is registered for the Agent
    mailbox,       \* mailbox[t]: inputs queued behind Turn t
    call,          \* call[m]: progress of the request handler that dispatches m
    job,           \* job[m]: progress of the coroutine that delivers m later
    snap,          \* snap[m]: the Turn object job[m] was created with
    cancelling,    \* Turns with a cancel request awaiting the adapter
    resuming,      \* Turns with a resume request awaiting the adapter
    closing,       \* a disconnect or removal that awaits the close of the socket
    toProbe,       \* reconciliation: Turns still to be probed
    toSettle,      \* reconciliation: ledger rows still to be looked at
    skipped,       \* history: inputs reconciliation left, for want of an adapter
    \* --- the Agent, and history
    known,         \* Turns the Agent was ever asked to work on
    live,          \* Turns it was asked to work on, or vouched for, since startup
    crashes,       \* crashes so far
    deliveries     \* deliveries[m]: adapter.send or adapter.steer calls made for m

ledgerState == <<n, turnOf, kind, row>>
controls    == <<cancelling, resuming, closing>>
startup     == <<toProbe, toSettle, skipped>>
process     == <<phase, mode, registered, paired>>
vars == <<turn, n, turnOf, kind, row, paired, phase, mode, registered, mailbox,
          call, job, snap, cancelling, resuming, closing, toProbe, toSettle, skipped,
          known, live, crashes, deliveries>>

Terminal  == {"finished", "failed", "interrupted"}
Statuses  == {"none", "running", "waiting_user", "deleted"} \cup Terminal
TurnState == [status : Statuses, session : BOOLEAN, partial : BOOLEAN]
NoState   == [status |-> "none", session |-> FALSE, partial |-> FALSE]

TypeOK ==
    /\ turn \in [Turns -> TurnState]
    /\ n \in 0..MaxMsgs
    /\ turnOf \in [Msgs -> Turns \cup {NoTurn}]
    /\ \A m \in Msgs : turnOf[m] = NoTurn <=> m > n
    /\ kind \in [Msgs -> {"message", "steer"}]
    /\ row \in [Msgs -> {"none", "pending", "dispatching"}]
    /\ phase \in {"up", "down", "probing", "settling"}
    /\ mode \in SteerModes
    /\ {registered, paired} \subseteq BOOLEAN
    /\ mailbox \in [Turns -> Seq(1..n)]
    /\ call \in [Msgs -> {"idle", "appended", "saved", "claimed", "awaiting"}]
    /\ job \in [Msgs -> {"idle", "scheduled", "claimed", "saved", "awaiting"}]
    /\ \A m \in Msgs : m > n => /\ row[m] = "none"
                                /\ call[m] = "idle"
                                /\ job[m] = "idle"
    /\ snap \in [Msgs -> TurnState]
    /\ cancelling \subseteq Turns
    /\ resuming \subseteq Turns
    /\ closing \in {"no", "disconnect", "remove"}
    /\ toProbe \subseteq Turns
    /\ toSettle \subseteq 1..n
    /\ skipped \subseteq 1..n
    /\ known \subseteq Turns
    /\ live \subseteq Turns
    /\ crashes \in 0..MaxCrashes
    /\ deliveries \in [Msgs -> Nat]

Init ==
    /\ turn = [t \in Turns |-> NoState]
    /\ n = 0
    /\ turnOf = [m \in Msgs |-> NoTurn]
    /\ kind = [m \in Msgs |-> "message"]
    /\ row = [m \in Msgs |-> "none"]
    /\ phase = "up"
    /\ mode \in SteerModes
    /\ paired = TRUE
    /\ registered = TRUE
    /\ mailbox = [t \in Turns |-> <<>>]
    /\ call = [m \in Msgs |-> "idle"]
    /\ job = [m \in Msgs |-> "idle"]
    /\ snap = [m \in Msgs |-> NoState]
    /\ cancelling = {}
    /\ resuming = {}
    /\ closing = "no"
    /\ toProbe = {}
    /\ toSettle = {}
    /\ skipped = {}
    /\ known = {}
    /\ live = {}
    /\ crashes = 0
    /\ deliveries = [m \in Msgs |-> 0]

-----------------------------------------------------------------------------
(* What the handlers read from the store.                                  *)

Exists(t)   == turn[t].status \notin {"none", "deleted"}
Active(t)   == turn[t].status \in {"running", "waiting_user"}
InputsOf(t) == {m \in 1..n : turnOf[m] = t}

(* A running Turn nobody has written to: its first input is a send. *)
NeedsInitialSend(t) == turn[t].status = "running" /\ InputsOf(t) = {}

(* The Turns that count against the Agent's parallel sessions. *)
ActiveOthers(t) ==
    {u \in Turns \ {t} : Active(u) /\ (turn[u].session \/ InputsOf(u) # {})}

(* No coroutine is between two transactions of one uninterruptible block. *)
LoopFree ==
    \A m \in Msgs : /\ call[m] \in {"idle", "awaiting"}
                    /\ job[m] \in {"idle", "scheduled", "awaiting"}

(* A coroutine with nothing left to do in its block may run. *)
Serving == phase = "up" /\ LoopFree

(* A Connector reaches the API over a socket, so not before it serves. *)
CanAttach == phase = "up" \/ ~External

-----------------------------------------------------------------------------
(* Store operations.                                                       *)

(* append_message with a delivery kind: message and ledger row, one txn. *)
AppendInput(t, k) ==
    LET m == n + 1 IN
    /\ n < MaxMsgs
    /\ n' = m
    /\ turnOf' = [turnOf EXCEPT ![m] = t]
    /\ kind' = [kind EXCEPT ![m] = k]
    /\ row' = [row EXCEPT ![m] = "pending"]

(* Faulty variant: claiming an input already deletes its ledger row. *)
ClaimForgets(m) == row' = [row EXCEPT ![m] = "none"]

(* claim_inbound: the compare-and-set that grants the right to deliver. *)
Claimable(m) == row[m] = "pending"
ClaimInbound(m) ==
    row' = [row EXCEPT ![m] = IF Claimable(m) THEN "dispatching" ELSE @]

(* complete_inbound: forget a delivered input. *)
CompleteInbound(m) ==
    row' = [row EXCEPT ![m] = IF @ = "dispatching" THEN "none" ELSE @]

(* Faulty variant: interrupting a Turn also clears its buffer. *)
InterruptIfActiveClears(t) ==
    turn' = [turn EXCEPT ![t] = IF Active(t)
                                THEN [@ EXCEPT !.status = "interrupted", !.partial = FALSE]
                                ELSE @]

(* emit_interrupted; the partial output is kept. *)
Interrupt(t) == turn' = [turn EXCEPT ![t].status = "interrupted"]

InterruptIfActive(t) ==
    turn' = [turn EXCEPT ![t].status = IF Active(t) THEN "interrupted" ELSE @]

(* Faulty variant: stopping all Turns clears their buffers. *)
InterruptAllClears ==
    turn' = [t \in Turns |-> IF Active(t)
                             THEN [turn[t] EXCEPT !.status = "interrupted",
                                                  !.partial = FALSE]
                             ELSE turn[t]]

(* ... for every active Turn of the Agent. *)
InterruptAll ==
    turn' = [t \in Turns |-> IF Active(t)
                             THEN [turn[t] EXCEPT !.status = "interrupted"]
                             ELSE turn[t]]

-----------------------------------------------------------------------------
(* Requests of the user.                                                   *)

(* create_new_turn, and the first Turn resolve_target_turn creates. *)
CreateTurn(t) ==
    /\ Serving
    /\ turn[t].status = "none"
    /\ turn' = [turn EXCEPT ![t].status = "running"]
    /\ UNCHANGED <<ledgerState, process, mailbox, call, job, snap, controls,
                   startup, known, live, crashes, deliveries>>

(* The kind of ledger row dispatch_user_message writes. *)
InputKind(t) ==
    IF turn[t].status = "running" /\ ~NeedsInitialSend(t) /\ mode # "follow_up_only"
    THEN "steer" ELSE "message"

(* A running Turn of an Agent without native steering queues its inputs. *)
Queues(t) ==
    /\ turn[t].status = "running"
    /\ ~NeedsInitialSend(t)
    /\ mode \in {"safe_boundary", "follow_up_only"}

(* The admission check made when an input starts or restarts a Turn. *)
HasCapacity(t) ==
    (NeedsInitialSend(t) \/ turn[t].status \in Terminal)
        => Cardinality(ActiveOthers(t)) < ParallelLimit

(* dispatch_user_message: the input waits in the Turn's mailbox. *)
EnqueueInput(t) ==
    /\ Serving /\ registered /\ Exists(t)
    /\ Queues(t)
    /\ AppendInput(t, InputKind(t))
    /\ mailbox' = [mailbox EXCEPT ![t] = Append(@, n + 1)]
    /\ UNCHANGED <<turn, process, call, job, snap, controls, startup, known,
                   live, crashes, deliveries>>

(* dispatch_user_message: the handler delivers the input itself. *)
DispatchInput(t) ==
    /\ Serving /\ registered /\ Exists(t)
    /\ ~Queues(t)
    /\ HasCapacity(t)
    /\ AppendInput(t, InputKind(t))
    /\ call' = [call EXCEPT ![n + 1] = "appended"]
    /\ UNCHANGED <<turn, process, mailbox, job, snap, controls, startup, known,
                   live, crashes, deliveries>>

(* ... which first puts a finished, stopped or waiting Turn back to running. *)
DispatchRevive(m) ==
    /\ call[m] = "appended"
    /\ turn[turnOf[m]].status # "running"
    /\ turn' = [turn EXCEPT ![turnOf[m]].status = "running"]
    /\ call' = [call EXCEPT ![m] = "saved"]
    /\ UNCHANGED <<ledgerState, process, mailbox, job, snap, controls, startup,
                   known, live, crashes, deliveries>>

(* ... then claims the input, or gives up when it is not pending. *)
DispatchClaim(m) ==
    /\ \/ call[m] = "saved"
       \/ call[m] = "appended" /\ turn[turnOf[m]].status = "running"
    /\ ClaimInbound(m)
    /\ call' = [call EXCEPT ![m] = IF Claimable(m) THEN "claimed" ELSE "idle"]
    /\ UNCHANGED <<turn, n, turnOf, kind, process, mailbox, job, snap, controls,
                   startup, known, live, crashes, deliveries>>

(* adapter.send or adapter.steer is called with m. *)
CallAdapter(m) ==
    /\ deliveries' = [deliveries EXCEPT ![m] = @ + 1]
    /\ known' = known \cup {turnOf[m]}
    /\ live' = live \cup {turnOf[m]}

DispatchDeliver(m) ==
    /\ call[m] = "claimed"
    /\ CallAdapter(m)
    /\ call' = [call EXCEPT ![m] = "awaiting"]
    /\ UNCHANGED <<turn, ledgerState, process, mailbox, job, snap, controls,
                   startup, crashes>>

(* The adapter accepted. *)
DispatchAccepted(m) ==
    /\ call[m] = "awaiting" /\ LoopFree
    /\ CompleteInbound(m)
    /\ call' = [call EXCEPT ![m] = "idle"]
    /\ UNCHANGED <<turn, n, turnOf, kind, process, mailbox, job, snap, controls,
                   startup, known, live, crashes, deliveries>>

(* Faulty variant: a failed call makes the input pending again, to retry it. *)
DispatchFailedRetries(m) ==
    /\ call[m] = "awaiting" /\ LoopFree
    /\ InterruptIfActive(turnOf[m])
    /\ row' = [row EXCEPT ![m] = "pending"]
    /\ call' = [call EXCEPT ![m] = "idle"]
    /\ UNCHANGED <<n, turnOf, kind, process, mailbox, job, snap, controls,
                   startup, known, live, crashes, deliveries>>

(* The adapter raised: the outcome is unknown and the row stays claimed. *)
DispatchFailed(m) ==
    /\ call[m] = "awaiting" /\ LoopFree
    /\ InterruptIfActive(turnOf[m])
    /\ call' = [call EXCEPT ![m] = "idle"]
    /\ UNCHANGED <<ledgerState, process, mailbox, job, snap, controls, startup,
                   known, live, crashes, deliveries>>

(* cancel_turn awaits the adapter, whatever the Turn's status ... *)
CancelTurn(t) ==
    /\ Serving /\ registered /\ SupportsCancel /\ Exists(t)
    /\ t \notin cancelling
    /\ cancelling' = cancelling \cup {t}
    /\ UNCHANGED <<turn, ledgerState, process, mailbox, call, job, snap,
                   resuming, closing, startup, known, live, crashes, deliveries>>

(* ... and interrupts what is active when the adapter answers or raises. *)
CancelReturns(t) ==
    /\ t \in cancelling /\ LoopFree
    /\ InterruptIfActive(t)
    /\ cancelling' = cancelling \ {t}
    /\ UNCHANGED <<ledgerState, process, mailbox, call, job, snap, resuming, closing,
                   startup, known, live, crashes, deliveries>>

(* resume_turn sets the Turn running and awaits adapter.resume ... *)
ResumeTurn(t) ==
    /\ Serving /\ registered /\ SupportsResume /\ Exists(t)
    /\ t \notin resuming
    /\ turn' = [turn EXCEPT ![t].status = "running"]
    /\ resuming' = resuming \cup {t}
    /\ known' = known \cup {t}
    /\ live' = live \cup {t}
    /\ UNCHANGED <<ledgerState, process, mailbox, call, job, snap, cancelling, closing,
                   startup, crashes, deliveries>>

(* ... which succeeds, or raises and interrupts an active Turn. *)
ResumeReturns(t) ==
    /\ t \in resuming /\ LoopFree
    /\ UNCHANGED turn \/ InterruptIfActive(t)
    /\ resuming' = resuming \ {t}
    /\ UNCHANGED <<ledgerState, process, mailbox, call, job, snap, cancelling, closing,
                   startup, known, live, crashes, deliveries>>

(* delete_conversation: refused while one of its Turns is active. *)
DeleteConversation(c) ==
    /\ Serving
    /\ \E t \in c : Exists(t)
    /\ \A t \in c : ~Active(t)
    /\ turn' = [t \in Turns |-> IF t \in c /\ Exists(t)
                                THEN [NoState EXCEPT !.status = "deleted"]
                                ELSE turn[t]]
    /\ row' = [m \in Msgs |-> IF turnOf[m] \in c THEN "none" ELSE row[m]]
    /\ UNCHANGED <<n, turnOf, kind, process, mailbox, call, job, snap, controls,
                   startup, known, live, crashes, deliveries>>

(* disconnect_external_agent: the credential is revoked, the adapter       *)
(* detached, and the close of the socket awaited ...                       *)
DisconnectAgent ==
    /\ Serving /\ External /\ closing = "no"
    /\ paired \/ registered
    /\ paired' = FALSE
    /\ closing' = "disconnect"
    /\ UNCHANGED <<turn, ledgerState, phase, mode, registered, mailbox, call, job,
                   snap, cancelling, resuming, startup, known, live, crashes,
                   deliveries>>

(* delete_external_agent does the same first, if no Turn is active.        *)
RemoveAgent ==
    /\ Serving /\ External /\ registered /\ closing = "no"
    /\ \A t \in Turns : ~Active(t)
    /\ paired' = FALSE
    /\ closing' = "remove"
    /\ UNCHANGED <<turn, ledgerState, phase, mode, registered, mailbox, call, job,
                   snap, cancelling, resuming, startup, known, live, crashes,
                   deliveries>>

(* ... and every Turn that is active by then interrupted. After a mere     *)
(* disconnect the offline adapter stays; a removal takes it and whatever   *)
(* was paired meanwhile.                                                   *)
DisconnectReturns ==
    /\ Serving /\ closing # "no"
    /\ closing' = "no"
    /\ InterruptAll
    /\ registered' = (registered /\ closing = "disconnect")
    /\ paired' = (paired /\ closing = "disconnect")
    /\ UNCHANGED <<ledgerState, phase, mode, mailbox, call, job, snap, cancelling,
                   resuming, startup, known, live, crashes, deliveries>>

(* create_pairing: the Agent's id gets an adapter, a new one if need be. *)
PairAgent ==
    /\ Serving /\ External /\ ~paired
    /\ paired' = TRUE
    /\ registered' = TRUE
    /\ mode' \in (IF registered THEN {mode} ELSE SteerModes)
    /\ UNCHANGED <<turn, ledgerState, phase, mailbox, call, job, snap, controls,
                   startup, known, live, crashes, deliveries>>

-----------------------------------------------------------------------------
(* Follow-up tasks and recovered inputs: _handle_queued_followup.          *)

(* The task's first step claims the input, or returns. *)
FollowupClaim(m) ==
    /\ job[m] = "scheduled" /\ LoopFree
    /\ ClaimInbound(m)
    /\ job' = [job EXCEPT ![m] = IF Claimable(m) THEN "claimed" ELSE "idle"]
    /\ UNCHANGED <<turn, n, turnOf, kind, process, mailbox, call, snap, controls,
                   startup, known, live, crashes, deliveries>>

(* Faulty variant: reconciliation is not told that the delivery ended. *)
JobEndsUntold(m) ==
    /\ job' = [job EXCEPT ![m] = "idle"]
    /\ snap' = [snap EXCEPT ![m] = NoState]
    /\ UNCHANGED toSettle

(* When a task ends, reconciliation goes on with the next row. *)
JobEnds(m) ==
    /\ job' = [job EXCEPT ![m] = "idle"]
    /\ snap' = [snap EXCEPT ![m] = NoState]
    /\ toSettle' = toSettle \ {m}

(* Faulty variant: the claim is given back. *)
FollowupUnclaims(m) ==
    /\ job[m] = "claimed" /\ ~registered
    /\ row' = [row EXCEPT ![m] = "pending"]
    /\ JobEnds(m)
    /\ UNCHANGED <<turn, n, turnOf, kind, process, mailbox, call, controls,
                   toProbe, skipped, known, live, crashes, deliveries>>

(* Faulty variant: the input is forgotten although nobody got it. *)
FollowupDrops(m) ==
    /\ job[m] = "claimed" /\ ~registered
    /\ CompleteInbound(m)
    /\ JobEnds(m)
    /\ UNCHANGED <<turn, n, turnOf, kind, process, mailbox, call, controls,
                   toProbe, skipped, known, live, crashes, deliveries>>

(* get_adapter raises when the Agent was removed: the claim is kept. *)
FollowupFindsNoAdapter(m) ==
    /\ job[m] = "claimed" /\ ~registered
    /\ JobEnds(m)
    /\ UNCHANGED <<turn, ledgerState, process, mailbox, call, controls, toProbe,
                   skipped, known, live, crashes, deliveries>>

(* It stores the Turn object it was created with, as running. *)
FollowupSave(m) ==
    /\ job[m] = "claimed" /\ registered
    /\ turn' = [turn EXCEPT ![turnOf[m]] = [snap[m] EXCEPT !.status = "running"]]
    /\ job' = [job EXCEPT ![m] = "saved"]
    /\ UNCHANGED <<ledgerState, process, mailbox, call, snap, controls, startup,
                   known, live, crashes, deliveries>>

JobDeliver(m) ==
    /\ job[m] = "saved"
    /\ CallAdapter(m)
    /\ job' = [job EXCEPT ![m] = "awaiting"]
    /\ UNCHANGED <<turn, ledgerState, process, mailbox, call, snap, controls,
                   startup, crashes>>

JobAccepted(m) ==
    /\ job[m] = "awaiting" /\ LoopFree
    /\ CanAttach
    /\ CompleteInbound(m)
    /\ JobEnds(m)
    /\ UNCHANGED <<turn, n, turnOf, kind, process, mailbox, call, controls,
                   toProbe, skipped, known, live, crashes, deliveries>>

(* Faulty variant: a failed follow-up is made pending again. *)
JobFailedRetries(m) ==
    /\ job[m] = "awaiting" /\ LoopFree
    /\ InterruptIfActive(turnOf[m])
    /\ row' = [row EXCEPT ![m] = "pending"]
    /\ JobEnds(m)
    /\ UNCHANGED <<n, turnOf, kind, process, mailbox, call, controls, toProbe,
                   skipped, known, live, crashes, deliveries>>

(* Faulty variant: reconciliation is not told that the delivery failed. *)
JobFailedSilently(m) ==
    /\ job[m] = "awaiting" /\ LoopFree
    /\ InterruptIfActive(turnOf[m])
    /\ snap' = [snap EXCEPT ![m] = NoState]
    /\ UNCHANGED <<ledgerState, process, mailbox, call, job, controls, startup,
                   known, live, crashes, deliveries>>

JobFailed(m) ==
    /\ job[m] = "awaiting" /\ LoopFree
    /\ InterruptIfActive(turnOf[m])
    /\ JobEnds(m)
    /\ UNCHANGED <<ledgerState, process, mailbox, call, controls, toProbe,
                   skipped, known, live, crashes, deliveries>>

-----------------------------------------------------------------------------
(* Events of the Agent. The coordinator does not ask whether the Turn is   *)
(* active, except on completion; it refuses events of deleted Turns. During *)
(* startup only an Agent this process has already talked to can answer, and *)
(* after its removal only one whose socket still holds frames.             *)

AgentSpeaks(t, e) ==
    /\ e \in AgentEvents
    /\ \/ phase = "up" /\ registered /\ t \in known
       \/ phase \in {"up", "settling"} /\ CanAttach /\ t \in live
    /\ LoopFree
    /\ Exists(t)

(* The Connector's socket ends: its calls fail and its Turns are stopped. *)
AgentDetaches ==
    /\ Serving /\ External
    /\ registered \/ live # {}
    /\ InterruptAll
    /\ UNCHANGED <<ledgerState, process, mailbox, call, job, snap, controls,
                   startup, known, live, crashes, deliveries>>

(* It connects, with whatever capabilities it declares now. *)
AgentAttaches ==
    /\ Serving /\ External /\ paired
    /\ mode' \in SteerModes
    /\ UNCHANGED <<turn, ledgerState, phase, registered, paired, mailbox, call,
                   job, snap, controls, startup, known, live, crashes, deliveries>>

(* emit_event with a native_session_ref *)
AgentBound(t) ==
    /\ AgentSpeaks(t, "bound")
    /\ turn' = [turn EXCEPT ![t].session = TRUE]
    /\ live' = live \cup {t}
    /\ UNCHANGED <<ledgerState, process, mailbox, call, job, snap, controls,
                   startup, known, crashes, deliveries>>

(* emit_delta *)
AgentDelta(t) ==
    /\ AgentSpeaks(t, "delta")
    /\ turn' = [turn EXCEPT ![t].partial = TRUE]
    /\ live' = live \cup {t}
    /\ UNCHANGED <<ledgerState, process, mailbox, call, job, snap, controls,
                   startup, known, crashes, deliveries>>

(* emit_message_complete of a reply after which the Agent works on. *)
AgentReplies(t) ==
    /\ AgentSpeaks(t, "complete")
    /\ Active(t)
    /\ turn' = [turn EXCEPT ![t].status = "running", ![t].partial = FALSE]
    /\ live' = live \cup {t}
    /\ UNCHANGED <<ledgerState, process, mailbox, call, job, snap, controls,
                   startup, known, crashes, deliveries>>

(* The follow-up at the head of the mailbox; a queued steer hides it. *)
FollowupReady(t) == mailbox[t] # <<>> /\ kind[Head(mailbox[t])] = "message"

(* Faulty variant: the follow-up is looked at but not taken off the queue. *)
AgentFinishesPeeks(t) ==
    LET done == [turn[t] EXCEPT !.status = "finished", !.partial = FALSE] IN
    /\ AgentSpeaks(t, "complete")
    /\ Active(t)
    /\ turn' = [turn EXCEPT ![t] = done]
    /\ IF FollowupReady(t)
       THEN /\ job' = [job EXCEPT ![Head(mailbox[t])] = "scheduled"]
            /\ snap' = [snap EXCEPT ![Head(mailbox[t])] = done]
       ELSE UNCHANGED <<job, snap>>
    /\ live' = live \cup {t}
    /\ UNCHANGED <<ledgerState, process, mailbox, call, controls, startup, known,
                   crashes, deliveries>>

(* Faulty variant: finishing a Turn does not look at the mailbox. *)
AgentFinishesForgets(t) ==
    /\ AgentSpeaks(t, "complete")
    /\ Active(t)
    /\ turn' = [turn EXCEPT ![t].status = "finished", ![t].partial = FALSE]
    /\ live' = live \cup {t}
    /\ UNCHANGED <<ledgerState, process, mailbox, call, job, snap, controls,
                   startup, known, crashes, deliveries>>

(* emit_message_complete that finishes the Turn, and schedules the task    *)
(* for the next follow-up with the Turn object just stored.                *)
AgentFinishes(t) ==
    LET done == [turn[t] EXCEPT !.status = "finished", !.partial = FALSE] IN
    /\ AgentSpeaks(t, "complete")
    /\ Active(t)
    /\ turn' = [turn EXCEPT ![t] = done]
    /\ IF FollowupReady(t)
       THEN /\ mailbox' = [mailbox EXCEPT ![t] = Tail(@)]
            /\ job' = [job EXCEPT ![Head(mailbox[t])] = "scheduled"]
            /\ snap' = [snap EXCEPT ![Head(mailbox[t])] = done]
       ELSE UNCHANGED <<mailbox, job, snap>>
    /\ live' = live \cup {t}
    /\ UNCHANGED <<ledgerState, process, call, controls, startup, known, crashes,
                   deliveries>>

(* Faulty variant: the status keeps its legacy name. *)
AgentWaitsLegacy(t) ==
    /\ AgentSpeaks(t, "waiting")
    /\ turn' = [turn EXCEPT ![t].status = "waiting"]
    /\ live' = live \cup {t}
    /\ UNCHANGED <<ledgerState, process, mailbox, call, job, snap, controls,
                   startup, known, crashes, deliveries>>

(* emit_waiting_user: a question becomes a message, an approval does not. *)
AgentWaits(t) ==
    /\ AgentSpeaks(t, "waiting")
    /\ \E recorded \in BOOLEAN :
         turn' = [turn EXCEPT ![t].status = "waiting_user",
                              ![t].partial = @ /\ ~recorded]
    /\ live' = live \cup {t}
    /\ UNCHANGED <<ledgerState, process, mailbox, call, job, snap, controls,
                   startup, known, crashes, deliveries>>

(* emit_resumed, emit_interrupted and emit_failed *)
AgentMoves(t, e, s) ==
    /\ AgentSpeaks(t, e)
    /\ turn' = [turn EXCEPT ![t].status = s]
    /\ live' = live \cup {t}
    /\ UNCHANGED <<ledgerState, process, mailbox, call, job, snap, controls,
                   startup, known, crashes, deliveries>>

AgentResumed(t)     == AgentMoves(t, "resumed", "running")
AgentInterrupted(t) == AgentMoves(t, "interrupted", "interrupted")
AgentFailed(t)      == AgentMoves(t, "failed", "failed")

(* emit_boundary_signal: the first queued steer is claimed and delivered. *)
SteerPositions(t) == {i \in 1..Len(mailbox[t]) : kind[mailbox[t][i]] = "steer"}

AgentBoundary(t) ==
    /\ AgentSpeaks(t, "boundary")
    /\ \E i \in SteerPositions(t) :
         LET m == mailbox[t][i] IN
         /\ \A j \in SteerPositions(t) : i <= j
         /\ mailbox' = [mailbox EXCEPT ![t] = RemoveAt(@, i)]
         /\ ClaimInbound(m)
         /\ job' = [job EXCEPT ![m] = IF Claimable(m) THEN "saved" ELSE @]
    /\ live' = live \cup {t}
    /\ UNCHANGED <<turn, n, turnOf, kind, process, call, snap, controls, startup,
                   known, crashes, deliveries>>

-----------------------------------------------------------------------------
(* Crash, restart and reconcile_startup_turns.                             *)

(* The process dies at any point; only the store survives. *)
Crash ==
    /\ phase # "down"
    /\ crashes < MaxCrashes
    /\ crashes' = crashes + 1
    /\ phase' = "down"
    /\ mailbox' = [t \in Turns |-> <<>>]
    /\ call' = [m \in Msgs |-> "idle"]
    /\ job' = [m \in Msgs |-> "idle"]
    /\ snap' = [m \in Msgs |-> NoState]
    /\ cancelling' = {}
    /\ resuming' = {}
    /\ closing' = "no"
    /\ toProbe' = {}
    /\ toSettle' = {}
    /\ skipped' = {}
    /\ live' = {}
    /\ UNCHANGED <<turn, ledgerState, mode, registered, paired, known, deliveries>>

(* Faulty variant: only running Turns are looked at, not waiting ones. *)
RestartRunningOnly ==
    /\ phase = "down"
    /\ phase' = "probing"
    /\ mode' \in SteerModes
    /\ registered' = paired
    /\ toProbe' = {t \in Turns : turn[t].status = "running"}
    /\ UNCHANGED <<turn, ledgerState, paired, mailbox, call, job, snap, controls,
                   toSettle, skipped, known, live, crashes, deliveries>>

(* lifespan registers the adapters and starts reconciliation, before any   *)
(* request is served.                                                      *)
Restart ==
    /\ phase = "down"
    /\ phase' = "probing"
    /\ mode' \in SteerModes
    /\ registered' = paired
    /\ toProbe' = {t \in Turns : Active(t)}
    /\ UNCHANGED <<turn, ledgerState, paired, mailbox, call, job, snap, controls,
                   toSettle, skipped, known, live, crashes, deliveries>>

(* A Turn created but never written to is kept. *)
Unsent(t) == NeedsInitialSend(t) /\ ~turn[t].session

KeepUnsent(t) ==
    /\ t \in toProbe
    /\ Unsent(t)
    /\ toProbe' = toProbe \ {t}
    /\ UNCHANGED <<turn, ledgerState, process, mailbox, call, job, snap,
                   controls, toSettle, skipped, known, live, crashes, deliveries>>

(* probe_session vouches for the Turn's native session. *)
KeepLive(t) ==
    /\ t \in toProbe
    /\ ~Unsent(t) /\ registered /\ CanAttach /\ turn[t].session
    /\ toProbe' = toProbe \ {t}
    /\ live' = live \cup {t}
    /\ UNCHANGED <<turn, ledgerState, process, mailbox, call, job, snap,
                   controls, toSettle, skipped, known, crashes, deliveries>>

(* It does not, or there is no adapter to ask. *)
InterruptLost(t) ==
    /\ t \in toProbe
    /\ ~Unsent(t)
    /\ toProbe' = toProbe \ {t}
    /\ Interrupt(t)
    /\ UNCHANGED <<ledgerState, process, mailbox, call, job, snap, controls,
                   toSettle, skipped, known, live, crashes, deliveries>>

(* list_unsettled_inbound *)
ListUnsettled ==
    /\ phase = "probing" /\ toProbe = {}
    /\ phase' = "settling"
    /\ toSettle' = {m \in 1..n : row[m] # "none"}
    /\ UNCHANGED <<turn, ledgerState, mode, registered, paired, mailbox, call,
                   job, snap, controls, toProbe, skipped, known, live, crashes,
                   deliveries>>

(* Rows are taken in ledger order; a recovered delivery is awaited. *)
NextRow(m) ==
    /\ phase = "settling" /\ LoopFree
    /\ m \in toSettle
    /\ \A k \in toSettle : m <= k
    /\ job[m] = "idle"

(* An input that was being delivered is never delivered again. *)
SettleDispatching(m) ==
    /\ NextRow(m)
    /\ row[m] = "dispatching"
    /\ InterruptIfActive(turnOf[m])
    /\ toSettle' = toSettle \ {m}
    /\ UNCHANGED <<ledgerState, process, mailbox, call, job, snap, controls,
                   toProbe, skipped, known, live, crashes, deliveries>>

(* Without an adapter the input stays in the ledger, and only there. *)
SettleWithoutAdapter(m) ==
    /\ NextRow(m)
    /\ row[m] = "pending" /\ ~registered
    /\ toSettle' = toSettle \ {m}
    /\ skipped' = skipped \cup {m}
    /\ UNCHANGED <<turn, ledgerState, process, mailbox, call, job, snap,
                   controls, toProbe, known, live, crashes, deliveries>>

(* Faulty variant: a finished Turn is taken for one that will finish. *)
RecoverableAlone(m) ==
    /\ kind[m] = "message"
    /\ InputsOf(turnOf[m]) = {m}

(* A follow-up of a finished Turn and a Turn's only input go out now. *)
Recoverable(m) ==
    /\ kind[m] = "message"
    /\ \/ turn[turnOf[m]].status = "finished"
       \/ InputsOf(turnOf[m]) = {m}

SettleByDelivery(m) ==
    /\ NextRow(m)
    /\ row[m] = "pending" /\ registered
    /\ Recoverable(m)
    /\ ClaimInbound(m)
    /\ job' = [job EXCEPT ![m] = "claimed"]
    /\ snap' = [snap EXCEPT ![m] = turn[turnOf[m]]]
    /\ UNCHANGED <<turn, n, turnOf, kind, process, mailbox, call, controls,
                   startup, known, live, crashes, deliveries>>

(* Faulty variant: inputs of a stopped Turn are left in the ledger. *)
SettleByQueueingActive(m) ==
    /\ NextRow(m)
    /\ row[m] = "pending" /\ registered
    /\ ~Recoverable(m)
    /\ mailbox' = [mailbox EXCEPT ![turnOf[m]] =
                     IF Active(turnOf[m]) THEN Append(@, m) ELSE @]
    /\ toSettle' = toSettle \ {m}
    /\ UNCHANGED <<turn, ledgerState, process, call, job, snap, controls,
                   toProbe, skipped, known, live, crashes, deliveries>>

(* Every other input goes back to its Turn's mailbox. *)
SettleByQueueing(m) ==
    /\ NextRow(m)
    /\ row[m] = "pending" /\ registered
    /\ ~Recoverable(m)
    /\ mailbox' = [mailbox EXCEPT ![turnOf[m]] =
                     IF Contains(@, m) THEN @ ELSE Append(@, m)]
    /\ toSettle' = toSettle \ {m}
    /\ UNCHANGED <<turn, ledgerState, process, call, job, snap, controls,
                   toProbe, skipped, known, live, crashes, deliveries>>

StartServing ==
    /\ phase = "settling" /\ toSettle = {}
    /\ LoopFree
    /\ phase' = "up"
    /\ UNCHANGED <<turn, ledgerState, mode, registered, paired, mailbox, call,
                   job, snap, controls, startup, known, live, crashes, deliveries>>

-----------------------------------------------------------------------------
UserRequest ==
    \/ \E t \in Turns : \/ CreateTurn(t) \/ EnqueueInput(t) \/ DispatchInput(t)
                        \/ CancelTurn(t) \/ ResumeTurn(t)
    \/ \E c \in Conversations : DeleteConversation(c)
    \/ DisconnectAgent \/ RemoveAgent \/ DisconnectReturns \/ PairAgent

AgentEvent ==
    \/ \E t \in Turns : \/ AgentBound(t) \/ AgentDelta(t) \/ AgentReplies(t)
                        \/ AgentFinishes(t) \/ AgentWaits(t) \/ AgentResumed(t)
                        \/ AgentInterrupted(t) \/ AgentFailed(t) \/ AgentBoundary(t)
    \/ AgentDetaches \/ AgentAttaches

(* Steps the event loop takes by itself. *)
LoopStep ==
    \/ \E m \in Msgs : \/ DispatchRevive(m) \/ DispatchClaim(m)
                       \/ DispatchDeliver(m) \/ FollowupClaim(m)
                       \/ FollowupSave(m) \/ FollowupFindsNoAdapter(m)
                       \/ JobDeliver(m)
                       \/ SettleDispatching(m) \/ SettleWithoutAdapter(m)
                       \/ SettleByDelivery(m) \/ SettleByQueueing(m)
    \/ \E t \in Turns : KeepUnsent(t) \/ KeepLive(t) \/ InterruptLost(t)
    \/ ListUnsettled
    \/ StartServing

(* The adapter's answer to an awaited call. *)
AdapterAnswers(m) ==
    \/ DispatchAccepted(m) \/ DispatchFailed(m) \/ JobAccepted(m) \/ JobFailed(m)

ControlAnswers(t) == CancelReturns(t) \/ ResumeReturns(t)

Next ==
    \/ UserRequest
    \/ AgentEvent
    \/ LoopStep
    \/ \E m \in Msgs : AdapterAnswers(m)
    \/ \E t \in Turns : ControlAnswers(t)
    \/ Crash
    \/ Restart

Spec == Init /\ [][Next]_vars

-----------------------------------------------------------------------------
(* Properties.                                                             *)

(* No input is ever given to an adapter twice, whatever crashes, restarts, *)
(* failed calls and queueing happen on the way: a restart never replays a  *)
(* delivery that may already have reached the Agent.                       *)
AtMostOnce == \A m \in Msgs : deliveries[m] <= 1

(* An accepted input the adapter was never called with is still in the     *)
(* ledger, so that somebody can still find it, unless its conversation was *)
(* deleted.                                                                *)
NoLostInput ==
    \A m \in 1..n :
        deliveries[m] = 0 /\ turn[turnOf[m]].status # "deleted"
            => row[m] \in {"pending", "dispatching"}

(* Why the two hold: the ledger row, the coroutines and the delivery count *)
(* of an input agree with each other, and so do the ledger and the Turns.  *)
(* A pending input is undelivered and claimed by nobody; one coroutine at  *)
(* most owns a claim; a call in progress has been counted; and no row      *)
(* outlives its Turn.                                                      *)
ClaimsAgree ==
    \A m \in Msgs :
        /\ deliveries[m] <= 1
        /\ row[m] = "pending" => /\ deliveries[m] = 0
                                 /\ call[m] \in {"idle", "appended", "saved"}
                                 /\ job[m] \in {"idle", "scheduled"}
        /\ call[m] \in {"appended", "saved"} => row[m] = "pending"
        /\ call[m] = "claimed" => /\ row[m] = "dispatching"
                                  /\ deliveries[m] = 0
                                  /\ job[m] \in {"idle", "scheduled"}
        /\ job[m] \in {"claimed", "saved"} => /\ row[m] = "dispatching"
                                              /\ deliveries[m] = 0
                                              /\ call[m] = "idle"
        /\ "awaiting" \in {call[m], job[m]} => deliveries[m] = 1

RowsHaveTurns ==
    /\ \A m \in Msgs : /\ m > n => deliveries[m] = 0
                       /\ m <= n => turn[turnOf[m]].status # "none"
                       /\ row[m] # "none" => Exists(turnOf[m])
    /\ \A t \in toProbe : phase = "probing" /\ Exists(t)

LedgerInv == TypeOK /\ ClaimsAgree /\ RowsHaveTurns /\ NoLostInput

(* Every party that is going to deliver m. *)
Owners(m) ==
    {o \in {"handler", "task", "mailbox"} :
        \/ o = "handler" /\ call[m] \in {"appended", "saved"}
        \/ o = "task"    /\ job[m] = "scheduled"
        \/ o = "mailbox" /\ Contains(mailbox[turnOf[m]], m)}

(* While the API serves requests, each pending input has exactly one party *)
(* that will deliver it: it is neither stranded in the ledger nor in the   *)
(* hands of two coroutines that race for it. The one exception are inputs  *)
(* that startup found without an adapter: pairing the Agent again does not *)
(* bring them back, only the next restart does.                            *)
PendingHasOneOwner ==
    phase = "up" =>
        \A m \in 1..n \ skipped :
            row[m] = "pending" => Cardinality(Owners(m)) = 1

(* A mailbox holds only undelivered inputs of its own Turn, in the order   *)
(* the user sent them and without repetition, across restarts too.         *)
MailboxFaithful ==
    \A t \in Turns : turn[t].status # "deleted" =>
        \A i \in 1..Len(mailbox[t]) :
            /\ row[mailbox[t][i]] = "pending"
            /\ turnOf[mailbox[t][i]] = t
            /\ \A j \in 1..Len(mailbox[t]) : i < j => mailbox[t][i] < mailbox[t][j]

(* After a restart no Turn that was given work pretends to be running or   *)
(* waiting unless the Agent vouched for it or was called about it in this  *)
(* process.                                                                *)
NoPhantomRun ==
    phase = "up" /\ LoopFree =>
        \A t \in Turns : Active(t) /\ InputsOf(t) # {} => t \in live

(* Output the Agent streamed before it was stopped is kept: no crash, no   *)
(* probe at startup and no step that interrupts or fails a Turn drops it.  *)
StoppedTurnKeepsOutput ==
    [][\A t \in Turns :
         turn[t].partial /\ ~turn'[t].partial =>
             /\ phase \in {"up", "settling"}
             /\ turn'[t].status \notin {"interrupted", "failed"}]_vars

(* The stage of input m in the abstract ledger. *)
StageOf(m) ==
    CASE m > n -> "new"
      [] m <= n /\ turn[turnOf[m]].status = "deleted" -> "withdrawn"
      [] m <= n /\ turn[turnOf[m]].status # "deleted" /\ row[m] = "pending" -> "pending"
      [] m <= n /\ turn[turnOf[m]].status # "deleted" /\ row[m] = "dispatching" -> "claimed"
      [] OTHER -> "settled"

Ledger == INSTANCE DeliveryLedger
            WITH Inputs <- Msgs, stage <- [m \in Msgs |-> StageOf(m)]

(* The harness implements the abstract ledger: with mailboxes, tasks,      *)
(* crashes and reconciliation, each input still goes once from accepted to *)
(* claimed to delivered to settled, and never back.                        *)
ImplementsLedger == Ledger!LedgerSpec

(* Steer degradation for follow_up_only Agents: an input queued behind a   *)
(* running Turn goes out when that Turn has finished, not while it runs.   *)
FollowupWaitsForTurn ==
    [][\A m \in Msgs : job[m] = "scheduled" /\ job'[m] = "claimed"
                         => turn[turnOf[m]].status # "running"]_vars

(* An Agent never has more Turns in work than the parallel sessions it     *)
(* declared.                                                               *)
ParallelLimitHolds ==
    Cardinality({t \in Turns : Active(t) /\ InputsOf(t) # {}}) <= ParallelLimit

-----------------------------------------------------------------------------
(* Fairness. The event loop runs every ready coroutine; a command to a     *)
(* Connector ends, with an answer or an exception, after 30 seconds at the *)
(* latest; a dead process is started again. Users, Agents and crashes owe  *)
(* nothing, and a call to a built-in Agent need not end: Kanaloa awaits    *)
(* session/new without a time limit.                                       *)
FairSpec ==
    /\ Spec
    /\ WF_vars(LoopStep)
    /\ \A m \in Msgs : WF_vars(External /\ AdapterAnswers(m))
    /\ \A t \in Turns : WF_vars(External /\ ControlAnswers(t))
    /\ WF_vars(Restart)

(* Startup is in the hands of a built-in Agent that may never answer.      *)
StartupHangs ==
    /\ ~External
    /\ phase = "settling"
    /\ \E m \in Msgs : job[m] = "awaiting"

(* Startup reconciliation comes to an end unless the process dies again,   *)
(* although it awaits the Agent once per recovered input. The exception is *)
(* the code's: the call to a built-in Agent has no time limit, and while   *)
(* it is silent the API does not serve. Nothing else may hold startup up,  *)
(* neither before such a call nor after it.                                *)
StartupEnds ==
    phase \in {"probing", "settling"} ~> phase \in {"up", "down"} \/ StartupHangs

(* No accepted input hangs between the ledger and the Agent: it is claimed *)
(* or waits in its Turn's mailbox, however often the process restarts, if  *)
(* the Agent was still paired when it did and answers the calls startup    *)
(* waits for.                                                              *)
InputsMoveOn ==
    \A m \in Msgs :
        row[m] = "pending"
            ~> \/ row[m] # "pending"
               \/ Contains(mailbox[turnOf[m]], m)
               \/ m \in skipped
               \/ StartupHangs

(* A claim of one of the Turn's inputs that ended before the adapter call. *)
AbandonedClaim(t) ==
    \E m \in InputsOf(t) : /\ row[m] = "dispatching" /\ deliveries[m] = 0
                          /\ call[m] = "idle" /\ job[m] = "idle"

(* A finished Turn with follow-ups in its mailbox does not depend on the   *)
(* user: the task that puts it back to running is scheduled or at its      *)
(* claim, however cancels, failures, direct messages, removals and         *)
(* restarts fall, or an earlier one died there. A steer among the inputs   *)
(* is outside the promise: at the head of the mailbox it hides what is     *)
(* behind it from emit_message_complete.                                   *)
OnlyFollowups(t) == \A m \in InputsOf(t) : kind[m] = "message"

DrainIsUnderWay ==
    \A t \in Turns :
        turn[t].status = "finished" /\ mailbox[t] # <<>> /\ OnlyFollowups(t)
            => \/ \E m \in InputsOf(t) : job[m] \in {"scheduled", "claimed"}
               \/ AbandonedClaim(t)

(* A finished Turn does not sit on its queue: while follow-ups wait in the *)
(* mailbox the Turn leaves "finished" again, unless the task of an earlier *)
(* one died on the way to the adapter, as it does when the Agent has just  *)
(* been removed: the rest of the queue is then stuck.                      *)
FinishedTurnDrains ==
    \A t \in Turns :
        turn[t].status = "finished" /\ mailbox[t] # <<>> /\ OnlyFollowups(t)
            ~> turn[t].status # "finished" \/ mailbox[t] = <<>> \/ AbandonedClaim(t)
=============================================================================
