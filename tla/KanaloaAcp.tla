----------------------------- MODULE KanaloaAcp -----------------------------
(***************************************************************************)
(* The bundled Agent Kanaloa (adapters/kanaloa_adapter.py and              *)
(* adapters/kanaloa_runtime.py): one DSH subprocess that serves every Turn *)
(* over JSON-RPC, its native sessions, the requests that await an answer,  *)
(* the permission requests it makes, and Loop Mode.                        *)
(*                                                                         *)
(* A job is one call of the adapter: a send, a send in Loop Mode, a steer  *)
(* or a resume, with the coroutines it leaves behind. A step of a job runs *)
(* to its next suspension: the process lock, the start or stop of the      *)
(* subprocess, the answer to a request, the drain of a written line. What  *)
(* a job does to its Turn (emit_* and the Dispatcher around the call) has  *)
(* no suspension in it and is part of the step.                            *)
(***************************************************************************)
EXTENDS Naturals, FiniteSets

CONSTANTS
    Turns, Jobs, NoJob, NoTurn,
    Kinds,         \* Kinds[j]: what job j may be
    Permissions,   \* ids of the permission requests DSH makes
    LoopLimit,     \* max_iterations
    MaxSessions,   \* bound: native sessions DSH creates
    MaxDeaths,     \* bound: deaths of the subprocess
    MaxDeletes     \* bound: Turns deleted

Sessions  == 1..MaxSessions
NoSession == 0
NoMark    == LoopLimit + 1      \* no mark was set: no prompt is one too many

ASSUME KanaloaAssumption ==
    /\ Kinds \in [Jobs -> SUBSET {"send", "loop", "steer", "resume"}]
    /\ LoopLimit \in Nat \ {0}
    /\ {MaxSessions, MaxDeaths, MaxDeletes} \subseteq Nat
    /\ NoJob \notin Jobs /\ NoTurn \notin Turns

VARIABLES
    turn,        \* status of each Turn, or "deleted"
    ref,         \* native_session_ref of each Turn
    owner,       \* _session_turns
    active,      \* _active_sessions
    \* --- the subprocess
    process,     \* "none", "starting", "up", "stopping" or "dead"
    exitKnown,   \* its returncode is set
    initialized, \* _is_initialized
    reader,      \* the task _read_stdout_loop: "none", "reading" or "ended"
    lock,        \* the job that holds _lock
    loaded,      \* sessions the running DSH knows
    minted,      \* sessions DSH has created so far
    asked,       \* jobs whose request this DSH process has received
    \* --- jobs
    kind, phase, turnOf, session,
    future,      \* the future of the request a job awaits
    prompts,     \* prompts a job has written (current_iteration of a loop)
    loops,       \* loops[t]: the job registered in runtime._active_loops
    flags,       \* "stopped" and "cancelled" of a job's loop entry
    \* --- permissions and user requests in flight
    permission,  \* permission[p]: its status
    asker,       \* asker[p]: the session that made it
    answering,   \* answering[p]: answers written and not yet drained
    cancelling,  \* Turns whose cancel notification is being drained
    \* --- history
    stopMark,    \* prompts[j] when the user stopped loop j
    deaths, deletes

turns    == <<turn, ref, owner, active>>
proc     == <<process, exitKnown, initialized, reader, lock>>
dsh      == <<loaded, minted, asked>>
work     == <<kind, phase, turnOf, session, future, prompts>>
loopVars == <<loops, flags>>
userVars == <<permission, asker, answering, cancelling>>
history  == <<stopMark, deaths, deletes>>
vars     == <<turns, proc, dsh, work, loopVars, userVars, history>>

Active   == {"running", "waiting_user"}
Settled  == {"finished", "failed", "interrupted"}
Outcomes == {"completed", "cancelled", "failed", "unknown"}  \* normalize_acp_outcome
Open(j)  == phase[j] \notin {"idle", "over"}

TypeOK ==
    /\ turn \in [Turns -> Active \cup Settled \cup {"deleted"}]
    /\ ref \in [Turns -> Sessions \cup {NoSession}]
    /\ owner \in [Sessions -> Turns \cup {NoTurn}]
    /\ active \subseteq Sessions /\ loaded \subseteq Sessions
    /\ minted \in 0..MaxSessions
    /\ process \in {"none", "starting", "up", "stopping", "dead"}
    /\ exitKnown \in BOOLEAN /\ initialized \in BOOLEAN
    /\ reader \in {"none", "reading", "ended"}
    /\ lock \in Jobs \cup {NoJob}
    /\ asked \subseteq Jobs
    /\ kind \in [Jobs -> {"none", "send", "loop", "steer", "resume"}]
    /\ \A j \in Jobs : kind[j] \in Kinds[j] \cup {"none"}
    /\ phase \in [Jobs -> {"idle", "queued", "starting", "stopping", "new", "ready",
                           "prompt", "steer", "resume", "over"}]
    /\ turnOf \in [Jobs -> Turns \cup {NoTurn}]
    /\ session \in [Jobs -> Sessions \cup {NoSession}]
    /\ future \in [Jobs -> Outcomes \cup {"none", "waiting", "unsent", "ok", "error", "lost"}]
    /\ prompts \in [Jobs -> 0..LoopLimit]
    /\ loops \in [Turns -> Jobs \cup {NoJob}]
    /\ flags \in [Jobs -> SUBSET {"stopped", "cancelled"}]
    /\ permission \in [Permissions -> {"none", "pending", "resolved", "cancelled", "failed"}]
    /\ asker \in [Permissions -> Sessions \cup {NoSession}]
    /\ answering \in [Permissions -> 0..2]
    /\ cancelling \subseteq Turns
    /\ stopMark \in [Jobs -> 0..NoMark]
    /\ deaths \in 0..MaxDeaths /\ deletes \in 0..MaxDeletes

(* Nothing has been started; the Turns were interrupted by a restart.      *)
Init ==
    /\ turn = [t \in Turns |-> "interrupted"]
    /\ ref = [t \in Turns |-> NoSession]
    /\ owner = [s \in Sessions |-> NoTurn]
    /\ active = {} /\ loaded = {} /\ minted = 0 /\ asked = {}
    /\ process = "none" /\ exitKnown = FALSE /\ initialized = FALSE
    /\ reader = "none" /\ lock = NoJob
    /\ kind = [j \in Jobs |-> "none"]
    /\ phase = [j \in Jobs |-> "idle"]
    /\ turnOf = [j \in Jobs |-> NoTurn]
    /\ session = [j \in Jobs |-> NoSession]
    /\ future = [j \in Jobs |-> "none"]
    /\ prompts = [j \in Jobs |-> 0]
    /\ loops = [t \in Turns |-> NoJob]
    /\ flags = [j \in Jobs |-> {}]
    /\ permission = [p \in Permissions |-> "none"]
    /\ asker = [p \in Permissions |-> NoSession]
    /\ answering = [p \in Permissions |-> 0]
    /\ cancelling = {}
    /\ stopMark = [j \in Jobs |-> NoMark]
    /\ deaths = 0 /\ deletes = 0

-----------------------------------------------------------------------------
(* The Turn seen by the event handler *)

IsActive(t) == turn[t] \in Active

(* emit_*: unconditional, but a deleted Turn raises and stays as it is.    *)
Emit(t, status) ==
    turn' = [turn EXCEPT ![t] = IF @ = "deleted" THEN @ ELSE status]

EmitIfActive(t, status) ==
    turn' = [turn EXCEPT ![t] = IF IsActive(t) THEN status ELSE @]

-----------------------------------------------------------------------------
(* Requests *)

(* _send_request: the future is registered, then the line is written. With *)
(* no process the assertion fails; a dead one is noticed by the drain.     *)
Ask(j, to) ==
    /\ phase' = [phase EXCEPT ![j] = to]
    /\ future' = [future EXCEPT ![j] = CASE process = "none" -> "lost"
                                         [] process = "dead" -> "unsent"
                                         [] OTHER -> "waiting"]
    /\ asked' = IF process \in {"none", "dead"} THEN asked \ {j} ELSE asked \cup {j}

(* The coroutine ends; what it kept is gone.                               *)
Finish(j) ==
    /\ phase' = [phase EXCEPT ![j] = "over"]
    /\ kind' = [kind EXCEPT ![j] = "none"]
    /\ future' = [future EXCEPT ![j] = "none"]
    /\ asked' = asked \ {j}
    /\ turnOf' = [turnOf EXCEPT ![j] = NoTurn]
    /\ session' = [session EXCEPT ![j] = NoSession]
    /\ prompts' = [prompts EXCEPT ![j] = 0]
    /\ flags' = [flags EXCEPT ![j] = {}]
    /\ stopMark' = [stopMark EXCEPT ![j] = NoMark]

DrainFails(j) ==
    /\ future[j] = "unsent"
    /\ future' = [future EXCEPT ![j] = "lost"]
    /\ UNCHANGED <<turns, proc, dsh, phase, kind, turnOf, session, prompts, loopVars, userVars,
                   history>>

(* Faulty variant: a request whose line was written is forgotten.           *)
RejectedIfSent(f) == [j \in Jobs |-> IF f[j] = "unsent" THEN "lost" ELSE f[j]]

(* Every registered future is rejected.                                    *)
Rejected(f) == [j \in Jobs |-> IF f[j] \in {"waiting", "unsent"} THEN "lost" ELSE f[j]]

(* A line of DSH that carries the id of a waiting request. A prompt for a  *)
(* session this process does not know is an error.                         *)
Answers(j) ==
    IF phase[j] # "prompt" THEN {"ok", "error"}
    ELSE {"error"} \cup (IF session[j] \in loaded THEN Outcomes ELSE {})

Answer(j) ==
    /\ reader = "reading"
    /\ future[j] = "waiting" /\ j \in asked
    /\ \E a \in Answers(j) :
         /\ (phase[j] = "new" /\ a = "ok") => minted < MaxSessions
         /\ future' = [future EXCEPT ![j] = a]
         /\ IF a = "ok" /\ phase[j] = "new"
            THEN /\ minted' = minted + 1
                 /\ session' = [session EXCEPT ![j] = minted']
                 /\ loaded' = loaded \cup {minted'}
            ELSE /\ loaded' = IF a = "ok" /\ phase[j] = "resume"
                              THEN loaded \cup {session[j]} ELSE loaded
                 /\ UNCHANGED <<minted, session>>
    /\ UNCHANGED <<turns, proc, asked, phase, kind, turnOf, prompts, loopVars, userVars, history>>

-----------------------------------------------------------------------------
(* The subprocess *)

Alive == process \in {"starting", "up", "stopping"} \/ (process = "dead" /\ ~exitKnown)

(* The session of the Turn when its message or resume was dispatched: what *)
(* the job carries while it waits for the lock or for the process.         *)
Seen(j, t) == IF phase[j] = "idle" THEN ref[t] ELSE session[j]

(* With a process that is up, the job goes on at once, with that session   *)
(* or else the one the Turn has by now: a send creates a session unless    *)
(* that one is active.                                                     *)
GoOn(j, t, k) ==
    LET s == IF Seen(j, t) = NoSession THEN ref[t] ELSE Seen(j, t) IN
    CASE k = "resume" ->
           Ask(j, "resume") /\ session' = [session EXCEPT ![j] = s]
      [] k # "resume" /\ s \in active ->
           /\ phase' = [phase EXCEPT ![j] = "ready"]
           /\ session' = [session EXCEPT ![j] = s]
           /\ UNCHANGED <<future, asked>>
      [] OTHER -> Ask(j, "new") /\ session' = [session EXCEPT ![j] = NoSession]

(* _ensure_process under the lock: what is left of a dead process is       *)
(* cleaned up (its reader is cancelled, its requests are rejected) and a   *)
(* new one is spawned and asked to initialize.                             *)
EnsureProcess(j, t, k) ==
    IF Alive /\ initialized
    THEN GoOn(j, t, k) /\ UNCHANGED <<proc, loaded>>
    ELSE /\ process' = "starting" /\ exitKnown' = FALSE /\ initialized' = FALSE
         /\ reader' = "reading" /\ lock' = j
         /\ loaded' = {} /\ asked' = {j}
         /\ phase' = [phase EXCEPT ![j] = "starting"]
         /\ future' = [(IF process = "none" THEN future ELSE Rejected(future))
                          EXCEPT ![j] = "waiting"]
         /\ session' = [session EXCEPT ![j] = Seen(j, t)]

(* The lock is free, or the job has to wait for it.                        *)
Enter(j, t, k) ==
    IF lock = NoJob
    THEN EnsureProcess(j, t, k)
    ELSE /\ phase' = [phase EXCEPT ![j] = "queued"]
         /\ session' = [session EXCEPT ![j] = Seen(j, t)]
         /\ UNCHANGED <<proc, loaded, asked, future>>

GetLock(j) ==
    /\ phase[j] = "queued" /\ lock = NoJob
    /\ EnsureProcess(j, turnOf[j], kind[j])
    /\ UNCHANGED <<turns, minted, kind, turnOf, prompts, loopVars, userVars, history>>

(* A new process takes longer to answer or to end than the event loop      *)
(* needs to run every coroutine that is ready to run.                      *)
Runnable(j) ==
    \/ phase[j] = "ready"
    \/ phase[j] \in {"new", "prompt", "steer", "resume"} /\ future[j] \notin {"waiting", "unsent"}
LoopIsIdle == \A j \in Jobs : ~Runnable(j)

Initialized(j) ==
    /\ phase[j] = "starting" /\ future[j] = "ok" /\ LoopIsIdle
    /\ process' = IF process = "starting" THEN "up" ELSE process
    /\ initialized' = TRUE
    /\ lock' = NoJob
    /\ GoOn(j, turnOf[j], kind[j])
    /\ UNCHANGED <<turns, exitKnown, reader, loaded, minted, kind, turnOf, prompts, loopVars,
                   userVars, history>>

(* The initialize request failed or took 30 s. All requests are rejected,  *)
(* the reader is cancelled, and the end of the process is awaited.         *)
StartFails(j) ==
    /\ phase[j] = "starting" /\ future[j] # "ok" /\ LoopIsIdle
    /\ phase' = [phase EXCEPT ![j] = "stopping"]
    /\ future' = Rejected(future)
    /\ process' = (IF process = "dead" THEN "dead" ELSE "stopping") /\ reader' = "none"
    /\ UNCHANGED <<turns, exitKnown, initialized, lock, dsh, kind, turnOf, session, prompts,
                   loopVars, userVars, history>>

StopReturns(j) ==
    /\ phase[j] = "stopping" /\ LoopIsIdle
    /\ process' = "none" /\ exitKnown' = FALSE /\ lock' = NoJob
    /\ loaded' = {}
    /\ Finish(j)
    /\ Emit(turnOf[j], "interrupted")
    /\ UNCHANGED <<ref, owner, active, initialized, reader, minted, loops, userVars, deaths,
                   deletes>>

ProcessDies ==
    /\ process \in {"starting", "up"} /\ deaths < MaxDeaths
    /\ deaths' = deaths + 1
    /\ process' = "dead"
    /\ UNCHANGED <<turns, exitKnown, initialized, reader, lock, dsh, work, loopVars, userVars,
                   stopMark, deletes>>

ExitIsKnown ==
    /\ process = "dead" /\ ~exitKnown
    /\ exitKnown' = TRUE
    /\ UNCHANGED <<turns, process, initialized, reader, lock, dsh, work, loopVars, userVars,
                   history>>

(* End of its output: _handle_disconnect() for every session.              *)
ReaderSeesEnd ==
    /\ reader = "reading" /\ process = "dead"
    /\ reader' = "ended"
    /\ permission' = [p \in Permissions |-> IF permission[p] = "pending" THEN "cancelled"
                                                                   ELSE permission[p]]
    /\ turn' = [t \in Turns |-> IF IsActive(t) /\ \E s \in Sessions : owner[s] = t
                                THEN "interrupted" ELSE turn[t]]
    /\ active' = {}
    /\ future' = Rejected(future)
    /\ flags' = [j \in Jobs |-> IF \E t \in Turns : loops[t] = j
                                THEN flags[j] \cup {"cancelled"} ELSE flags[j]]
    /\ loops' = [t \in Turns |-> NoJob]
    /\ UNCHANGED <<ref, owner, process, exitKnown, initialized, lock, dsh, phase, kind, turnOf,
                   session, prompts, asker, answering, cancelling, history>>

-----------------------------------------------------------------------------
(* Sending *)

(* A message to a stopped or waiting Turn (Loop Mode: not a waiting one).  *)
Send(j, t) ==
    /\ phase[j] = "idle"
    /\ \E k \in Kinds[j] \cap {"send", "loop"} :
         /\ turn[t] \in Settled \/ (turn[t] = "waiting_user" /\ k = "send")
         /\ kind' = [kind EXCEPT ![j] = k]
         /\ Enter(j, t, k)
    /\ Emit(t, "running")
    /\ turnOf' = [turnOf EXCEPT ![j] = t]
    /\ UNCHANGED <<ref, owner, active, minted, prompts, loopVars, userVars, history>>

(* The answer to session/new: the session is bound, or the send fails.     *)
SessionReady(j) ==
    LET t == turnOf[j]  s == session[j] IN
    /\ phase[j] = "new" /\ future[j] = "ok"
    /\ owner' = [owner EXCEPT ![s] = t]
    /\ active' = active \cup {s}
    /\ IF turn[t] = "deleted"
       THEN Finish(j) /\ UNCHANGED ref
       ELSE /\ phase' = [phase EXCEPT ![j] = "ready"]
            /\ ref' = [ref EXCEPT ![t] = s]
            /\ UNCHANGED <<asked, kind, turnOf, session, future, prompts, flags, stopMark>>
    /\ UNCHANGED <<turn, proc, loaded, minted, loops, userVars, deaths, deletes>>

SessionFails(j) ==
    /\ phase[j] = "new" /\ future[j] \in {"error", "lost"}
    /\ Finish(j)
    /\ Emit(turnOf[j], "interrupted")
    /\ UNCHANGED <<ref, owner, active, proc, loaded, minted, loops, userVars, deaths, deletes>>

(* send has returned; its task starts. A prompt is written without another *)
(* look at the Turn; a loop registers itself and looks first.              *)
PromptStarts(j) ==
    /\ phase[j] = "ready" /\ kind[j] = "send"
    /\ Ask(j, "prompt")
    /\ prompts' = [prompts EXCEPT ![j] = 1]
    /\ UNCHANGED <<turns, proc, loaded, minted, kind, turnOf, session, loopVars, userVars, history>>

LoopStarts(j) ==
    LET t == turnOf[j] IN
    /\ phase[j] = "ready" /\ kind[j] = "loop"
    /\ IF IsActive(t)
       THEN /\ Ask(j, "prompt")
            /\ prompts' = [prompts EXCEPT ![j] = 1]
            /\ loops' = [loops EXCEPT ![t] = j]
            /\ UNCHANGED <<kind, turnOf, session, flags, stopMark>>
       ELSE Finish(j) /\ loops' = [loops EXCEPT ![t] = NoJob]
    /\ UNCHANGED <<turns, proc, loaded, minted, userVars, deaths, deletes>>

(* Faulty variant: an outcome it does not know counts as success.          *)
UnknownIsSuccess(j) ==
    /\ phase[j] = "prompt" /\ kind[j] = "send"
    /\ future[j] \in Outcomes
    /\ EmitIfActive(turnOf[j], IF future[j] = "failed" THEN "failed" ELSE "finished")
    /\ Finish(j)
    /\ UNCHANGED <<ref, owner, active, proc, loaded, minted, loops, userVars, deaths, deletes>>

(* _execute_prompt: an error interrupts the Turn whatever it is doing, any *)
(* other outcome only counts while the Turn is active.                     *)
PromptOver(j) ==
    LET t == turnOf[j] IN
    /\ phase[j] = "prompt" /\ kind[j] = "send"
    /\ CASE future[j] = "error"     -> Emit(t, "interrupted")
         [] future[j] = "completed" -> EmitIfActive(t, "finished")
         [] future[j] = "failed"    -> EmitIfActive(t, "failed")
         [] future[j] \in {"cancelled", "unknown", "lost"} -> EmitIfActive(t, "interrupted")
         [] OTHER -> FALSE
    /\ Finish(j)
    /\ UNCHANGED <<ref, owner, active, proc, loaded, minted, loops, userVars, deaths, deletes>>

-----------------------------------------------------------------------------
(* Loop Mode: after each answer *)

LoopEnds(j) ==
    /\ Finish(j)
    /\ loops' = [loops EXCEPT ![turnOf[j]] = NoJob]
    /\ UNCHANGED <<ref, owner, active, proc, loaded, minted, userVars, deaths, deletes>>

Cancelled(j) == future[j] = "cancelled" \/ "cancelled" \in flags[j]

(* Everything but a completed iteration stops the Turn, active or not; a   *)
(* lost request only an active one.                                        *)
LoopBreaks(j) ==
    LET t == turnOf[j] IN
    /\ phase[j] = "prompt" /\ kind[j] = "loop"
    /\ \/ future[j] = "error" /\ Emit(t, "interrupted")
       \/ future[j] \in Outcomes /\ Cancelled(j) /\ Emit(t, "interrupted")
       \/ future[j] = "failed" /\ ~Cancelled(j) /\ Emit(t, "failed")
       \/ future[j] = "unknown" /\ ~Cancelled(j) /\ Emit(t, "interrupted")
       \/ future[j] = "lost" /\ EmitIfActive(t, "interrupted")
       \/ future[j] = "completed" /\ ~Cancelled(j) /\ ~IsActive(t) /\ UNCHANGED turn
    /\ LoopEnds(j)

IterationDone(j) ==
    /\ phase[j] = "prompt" /\ kind[j] = "loop"
    /\ future[j] = "completed" /\ ~Cancelled(j) /\ IsActive(turnOf[j])

(* Faulty variants: the limit, or the stop, is not looked at.              *)
IgnoresLimit(j) == "stopped" \notin flags[j]
IgnoresStop(j)  == prompts[j] < LoopLimit

MayContinue(j) == "stopped" \notin flags[j] /\ prompts[j] < LoopLimit

(* The output held the COMPLETE marker, or there is a reason to stop.      *)
LoopCompletes(j) ==
    /\ IterationDone(j)
    /\ Emit(turnOf[j], "finished")
    /\ LoopEnds(j)

LoopContinues(j) ==
    /\ IterationDone(j)
    /\ MayContinue(j)
    /\ Ask(j, "prompt")
    /\ prompts' = [prompts EXCEPT ![j] = @ + 1]
    /\ UNCHANGED <<turns, proc, loaded, minted, kind, turnOf, session, loopVars, userVars, history>>

(* stop_loop: does nothing unless a loop is registered for the Turn.       *)
StopLoop(t) ==
    LET j == loops[t] IN
    /\ j # NoJob /\ "stopped" \notin flags[j]
    /\ flags' = [flags EXCEPT ![j] = @ \cup {"stopped"}]
    /\ stopMark' = [stopMark EXCEPT ![j] = prompts[j]]
    /\ UNCHANGED <<turns, proc, dsh, work, loops, userVars, deaths, deletes>>

-----------------------------------------------------------------------------
(* Steer, resume and cancel *)

(* A message to a running Turn. Without a session the adapter refuses, and *)
(* the Dispatcher interrupts the Turn.                                     *)
Steer(j, t) ==
    /\ "steer" \in Kinds[j] /\ phase[j] = "idle"
    /\ turn[t] = "running"
    /\ IF ref[t] = NoSession
       THEN /\ Emit(t, "interrupted")
            /\ phase' = [phase EXCEPT ![j] = "over"]
            /\ UNCHANGED <<kind, turnOf, future, asked>>
       ELSE /\ Ask(j, "steer")
            /\ kind' = [kind EXCEPT ![j] = "steer"]
            /\ turnOf' = [turnOf EXCEPT ![j] = t]
            /\ UNCHANGED turn
    /\ UNCHANGED <<ref, owner, active, proc, loaded, minted, session, prompts, loopVars,
                   userVars, history>>

SteerOver(j) ==
    /\ phase[j] = "steer" /\ future[j] \in {"ok", "error", "lost"}
    /\ Finish(j)
    /\ IF future[j] = "ok" THEN UNCHANGED turn ELSE EmitIfActive(turnOf[j], "interrupted")
    /\ UNCHANGED <<ref, owner, active, proc, loaded, minted, loops, userVars, deaths, deletes>>

(* resume_turn sets the Turn running first, in whatever state it is.       *)
Resume(j, t) ==
    /\ "resume" \in Kinds[j] /\ phase[j] = "idle"
    /\ turn[t] # "deleted"
    /\ IF ref[t] = NoSession
       THEN /\ Emit(t, "interrupted")
            /\ phase' = [phase EXCEPT ![j] = "over"]
            /\ UNCHANGED <<proc, loaded, asked, kind, turnOf, session, future>>
       ELSE /\ Emit(t, "running")
            /\ kind' = [kind EXCEPT ![j] = "resume"]
            /\ turnOf' = [turnOf EXCEPT ![j] = t]
            /\ Enter(j, t, "resume")
    /\ UNCHANGED <<ref, owner, active, minted, prompts, loopVars, userVars, history>>

(* A session that is back restores context only: the Turn is interrupted.  *)
ResumeOver(j) ==
    LET t == turnOf[j] IN
    /\ phase[j] = "resume" /\ future[j] \in {"ok", "error", "lost"}
    /\ Finish(j)
    /\ IF future[j] = "ok"
       THEN /\ active' = active \cup {session[j]}
            /\ owner' = [owner EXCEPT ![session[j]] = t]
       ELSE UNCHANGED <<active, owner>>
    /\ IF future[j] = "error" THEN EmitIfActive(t, "interrupted") ELSE Emit(t, "interrupted")
    /\ UNCHANGED <<ref, proc, loaded, minted, loops, userVars, deaths, deletes>>

(* Faulty variant: the withdrawn request does not interrupt the Turn.      *)
CancelLeavesTurnWaiting(t) ==
    LET s == ref[t] IN
    /\ turn[t] # "deleted" /\ t \notin cancelling /\ s # NoSession
    /\ process # "none"
    /\ permission' = [p \in Permissions |->
                        IF permission[p] = "pending" /\ asker[p] = s
                        THEN "cancelled" ELSE permission[p]]
    /\ active' = active \ {s}
    /\ cancelling' = cancelling \cup {t}
    /\ UNCHANGED <<turn, ref, owner, proc, dsh, work, loopVars, asker, answering, history>>

(* cancel_turn: the loop is flagged, the permissions of the session are    *)
(* withdrawn, the session is no longer active, and DSH is notified. Then   *)
(* the Dispatcher interrupts the Turn, whatever became of it meanwhile.    *)
Cancel(t) ==
    LET s == ref[t] IN
    /\ turn[t] # "deleted" /\ t \notin cancelling
    /\ IF s = NoSession
       THEN /\ EmitIfActive(t, "interrupted")
            /\ UNCHANGED <<active, flags, permission, cancelling>>
       ELSE /\ flags' = IF loops[t] = NoJob THEN flags
                        ELSE [flags EXCEPT ![loops[t]] = @ \cup {"cancelled"}]
            /\ permission' = [p \in Permissions |->
                                IF permission[p] = "pending" /\ asker[p] = s
                                THEN "cancelled" ELSE permission[p]]
            /\ IF permission' # permission \/ process = "none"
               THEN EmitIfActive(t, "interrupted") ELSE UNCHANGED turn
            /\ active' = active \ {s}
            /\ cancelling' = IF process = "none" THEN cancelling ELSE cancelling \cup {t}
    /\ UNCHANGED <<ref, owner, proc, dsh, work, loops, asker, answering, history>>

CancelReturns(t) ==
    /\ t \in cancelling
    /\ cancelling' = cancelling \ {t}
    /\ EmitIfActive(t, "interrupted")
    /\ UNCHANGED <<ref, owner, active, proc, dsh, work, loopVars, permission, asker,
                   answering, history>>

-----------------------------------------------------------------------------
(* Permission requests *)

(* A prompt at work in DSH: the one its session was asked last.            *)
Working(s) == \E j \in asked : phase[j] = "prompt" /\ future[j] = "waiting" /\ session[j] = s

(* The request is recorded and the Turn waits, whatever it was doing; for  *)
(* a deleted Turn the exception ends the reader.                           *)
PermissionAsked(p, s) ==
    /\ reader = "reading" /\ s \in loaded /\ Working(s)
    /\ permission[p] = "none"
    /\ permission' = [permission EXCEPT ![p] = "pending"]
    /\ asker' = [asker EXCEPT ![p] = s]
    /\ Emit(owner[s], "waiting_user")
    /\ reader' = IF turn[owner[s]] = "deleted" THEN "ended" ELSE reader
    /\ UNCHANGED <<ref, owner, active, process, exitKnown, initialized, lock, dsh, work,
                   loopVars, answering, cancelling, history>>

(* Any other update of a deleted Turn's session ends the reader, too.      *)
UpdateOfDeletedTurn(s) ==
    /\ reader = "reading" /\ s \in loaded /\ Working(s)
    /\ turn[owner[s]] = "deleted"
    /\ reader' = "ended"
    /\ UNCHANGED <<turns, process, exitKnown, initialized, lock, dsh, work, loopVars,
                   userVars, history>>

(* The route lets the request pass when it belongs to the Turn's current   *)
(* session. The status changes only after the drain: until then a second   *)
(* answer passes as well (bound: two at a time).                           *)
Respond(p) ==
    LET t == owner[asker[p]] IN
    /\ permission[p] = "pending" /\ answering[p] < 2
    /\ turn[t] # "deleted" /\ ref[t] = asker[p]
    /\ IF Alive
       THEN answering' = [answering EXCEPT ![p] = @ + 1] /\ UNCHANGED permission
       ELSE permission' = [permission EXCEPT ![p] = "failed"] /\ UNCHANGED answering
    /\ UNCHANGED <<turns, proc, dsh, work, loopVars, asker, cancelling, history>>

ResponseWritten(p) ==
    /\ answering[p] > 0
    /\ answering' = [answering EXCEPT ![p] = @ - 1]
    /\ \/ /\ permission' = [permission EXCEPT ![p] = "resolved"]
          /\ Emit(owner[asker[p]], "running")
       \/ process \in {"dead", "none"} /\ UNCHANGED <<permission, turn>>
    /\ UNCHANGED <<ref, owner, active, proc, dsh, work, loopVars, asker, cancelling, history>>

(* Only a Turn that is not active can be deleted.                          *)
DeleteTurn(t) ==
    /\ turn[t] \in Settled /\ deletes < MaxDeletes
    /\ deletes' = deletes + 1
    /\ turn' = [turn EXCEPT ![t] = "deleted"]
    /\ UNCHANGED <<ref, owner, active, proc, dsh, work, loopVars, userVars, stopMark,
                   deaths>>

-----------------------------------------------------------------------------
JobStep(j) ==
    \/ Answer(j) \/ DrainFails(j) \/ GetLock(j) \/ Initialized(j) \/ StartFails(j)
    \/ StopReturns(j) \/ SessionReady(j) \/ SessionFails(j) \/ PromptStarts(j)
    \/ LoopStarts(j) \/ PromptOver(j) \/ LoopBreaks(j) \/ LoopCompletes(j)
    \/ LoopContinues(j) \/ SteerOver(j) \/ ResumeOver(j)

UserStep(t) ==
    \/ \E j \in Jobs : Send(j, t) \/ Steer(j, t) \/ Resume(j, t)
    \/ Cancel(t) \/ StopLoop(t) \/ DeleteTurn(t)

Next ==
    \/ \E j \in Jobs : JobStep(j)
    \/ \E t \in Turns : UserStep(t) \/ CancelReturns(t)
    \/ \E p \in Permissions, s \in Sessions : PermissionAsked(p, s)
    \/ \E p \in Permissions : Respond(p) \/ ResponseWritten(p)
    \/ \E s \in Sessions : UpdateOfDeletedTurn(s)
    \/ ProcessDies \/ ExitIsKnown \/ ReaderSeesEnd

Spec == Init /\ [][Next]_vars

(* The event loop runs what is ready, and DSH answers what it has received *)
(* unless it dies.                                                         *)
FairSpec ==
    /\ Spec
    /\ \A j \in Jobs : WF_vars(JobStep(j))
    /\ WF_vars(ReaderSeesEnd)

-----------------------------------------------------------------------------
(* Properties *)

(* A request that nobody will answer or reject: the reader that would      *)
(* deliver its answer is gone, or the process that received it.            *)
Hung(j) == future[j] = "waiting" /\ ~(j \in asked /\ reader = "reading")

(* A Turn waits for the user only while one of its sessions has a request  *)
(* open: whatever withdraws the request (an answer, a cancel, the end of   *)
(* the process) moves the Turn on in the same step. An answer that found   *)
(* the process dead leaves it to the job that is still to be rejected.     *)
WaitingTurnHasItsRequest ==
    \A t \in Turns : turn[t] = "waiting_user" =>
        \E p \in Permissions :
            /\ asker[p] # NoSession /\ owner[asker[p]] = t
            /\ \/ permission[p] = "pending"
               \/ permission[p] = "failed" /\ \E j \in Jobs : Open(j) /\ turnOf[j] = t

(* A Stop that found the loop lets the current iteration end and no other  *)
(* start, whatever steers, answers and losses come in between ("Current    *)
(* iteration finishes, next does not start", kanaloa_runtime.py).          *)
StopEndsLoop == \A j \in Jobs : stopMark[j] # NoMark => prompts[j] <= stopMark[j]

(* A Turn finishes only in the step in which a job of it takes a completed *)
(* outcome: never from silence, a lost process or a withdrawn request.     *)
CompletionNeedsAnAnswer ==
    [][\A t \in Turns : turn'[t] = "finished" /\ turn[t] # "finished" =>
          \E j \in Jobs : /\ turnOf[j] = t /\ future[j] = "completed"
                          /\ Open(j) /\ phase'[j] = "over"]_vars

(* Nobody waits for nothing: a job that waits for the lock waits for one   *)
(* that is being started or stopped, and a request that waits has a reader *)
(* that delivers its answer or its rejection. Two ways out of it are left: *)
(* the reader was ended by an event of a deleted Turn, and a steer was     *)
(* written while a process that failed to start was being stopped.         *)
NobodyWaitsForNothing ==
    \A j \in Jobs :
        /\ phase[j] = "queued" =>
               \/ lock = NoJob
               \/ phase[lock] \in {"starting", "stopping"}
        /\ Hung(j) => kind[j] = "steer" \/ \E t \in Turns : turn[t] = "deleted"

(* "Abort/cancel an active Turn": a prompt is written only for a Turn that *)
(* is active. Violated: until the session exists cancel has nobody to      *)
(* tell, and the send that awaits it goes on with a cancelled Turn.        *)
PromptsAreForActiveTurns ==
    [][\A j \in Jobs : prompts'[j] > prompts[j] => IsActive(turnOf[j])]_vars
=============================================================================
