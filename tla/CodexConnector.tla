---------------------------- MODULE CodexConnector ----------------------------
(***************************************************************************)
(* The Codex Connector (connectors/codex/main.py), a process of its own    *)
(* between Kane's WebSocket and the subprocess `codex app-server`. It      *)
(* handles the frames of Kane one after the other, each up to its last     *)
(* request to Codex; beside that handler run, for every app-server it has  *)
(* started, a task that reads its output, one that reports its events to   *)
(* Kane, and one that watches for its end.                                 *)
(*                                                                         *)
(* Kane and Codex are external: Kane takes events as ConnectorSession      *)
(* says, Codex answers requests and reports its runs as main.py expects.   *)
(***************************************************************************)
EXTENDS Naturals, Sequences

CONSTANTS
    Turns,
    MaxSends,    \* bound: turn.send frames, each with a reply_id of its own
    MaxStarts,   \* bound: app-servers started
    MaxLosses,   \* bound: sockets lost and Connectors restarted
    MaxEvents    \* bound: events that wait in the queue

Sends   == 1..MaxSends
Servers == 1..MaxStarts
None    == 0              \* no Turn, no send (native turn), no app-server

ASSUME CodexAssumption == {MaxSends, MaxStarts, MaxLosses, MaxEvents} \subseteq Nat

VARIABLES
    \* --- Kane
    link,        \* the WebSocket: "open" or "down"
    kane,        \* kane[t]: is the Turn "active" or "stopped" in Kane
    ref,         \* Turns whose native_session_ref Kane has stored
    stored,      \* sends whose reply Kane has stored
    \* --- handle_kane_frame
    step,        \* the request to Codex it awaits, or "idle"
    subject,     \* the Turn of the command
    future,      \* the future of that request
    \* --- tables
    turns,       \* turns[t]: the send that made its TurnBinding
    native,      \* native[t]: native_turn_id of that binding
    permission,  \* the entry of pending_permissions, "unheard" if Kane was not told
    events,      \* the queue self.events
    dispatchers, \* tasks _dispatch_events that still run
    \* --- app-servers
    started,     \* app-servers started so far; the last one is self.process
    process,     \* the last one: "up", "dead" or, its returncode set, "exited"
    reader,      \* reader[p]: the task _read_stdout of app-server p
    watcher,     \* watcher[p]: the task _watch_codex_process of app-server p
    \* --- Codex
    run,         \* run[n]: how far the native turn is that send n asked for
    turnOf,      \* turnOf[n]: the Turn of send n
    \* --- history
    sends, losses,
    slips        \* what went wrong since the Connector was started (below)

kaneVars == <<link, kane, ref, stored>>
command  == <<step, subject, future>>
tables   == <<turns, native>>
queue    == <<events, dispatchers>>
servers  == <<started, process, reader>>
codex    == <<run, turnOf>>
history  == <<sends, losses, slips>>
vars     == <<kaneVars, command, tables, permission, queue, servers, watcher, codex, history>>

Methods == {"initialize", "thread/start", "thread/resume", "turn/start", "turn/steer",
            "turn/interrupt"}
Ends    == {"completed", "interrupted"}   \* turn.failed has the effects of the second
Kinds   == {"started", "delta", "ask"} \cup Ends

Event(n, k) == [run |-> n, kind |-> k]
End         == Event(None, "end")         \* the None a reader puts when it ends
NotWatching == [at |-> "none", of |-> None]

TypeOK ==
    /\ link \in {"open", "down"} /\ kane \in [Turns -> {"active", "stopped"}]
    /\ ref \subseteq Turns /\ stored \subseteq Sends
    /\ step \in Methods \cup {"idle"} /\ subject \in Turns \cup {None}
    /\ future \in {"none", "waiting", "ok", "error", "lost"}
    /\ turns \in [Turns -> Sends \cup {None}] /\ native \in [Turns -> Sends \cup {None}]
    /\ permission \in {"none", "unheard", "pending"}
    /\ events \in Seq([run : Sends \cup {None}, kind : Kinds \cup {"end"}])
    /\ Len(events) <= MaxEvents + MaxStarts
    /\ dispatchers \in 0..MaxStarts
    /\ started \in 0..MaxStarts /\ process \in {"none", "up", "dead", "exited"}
    /\ reader \in [Servers -> {"none", "reading", "ended"}]
    /\ watcher \in [Servers -> [at : {"none", "reader", "process"}, of : Servers \cup {None}]]
    /\ run \in [Sends -> {"none", "begun", "started", "spoke", "ended"}]
    /\ turnOf \in [Sends -> Turns \cup {None}]
    /\ sends \in 0..MaxSends /\ losses \in 0..MaxLosses
    /\ slips \subseteq {"unsent", "overtaken", "cut", "stray"}

Init ==
    /\ link = "open" /\ kane = [t \in Turns |-> "stopped"] /\ ref = {} /\ stored = {}
    /\ step = "idle" /\ subject = None /\ future = "none"
    /\ turns = [t \in Turns |-> None] /\ native = [t \in Turns |-> None]
    /\ permission = "none" /\ events = <<>> /\ dispatchers = 0
    /\ started = 0 /\ process = "none" /\ reader = [p \in Servers |-> "none"]
    /\ watcher = [p \in Servers |-> NotWatching]
    /\ run = [n \in Sends |-> "none"] /\ turnOf = [n \in Sends |-> None]
    /\ sends = 0 /\ losses = 0 /\ slips = {}

-----------------------------------------------------------------------------
(* Kane, as ConnectorSession describes it: the loss of the socket stops    *)
(* every Turn; a completed reply for a Turn that is not active closes the  *)
(* socket unless that reply is stored, any other event of it is taken.     *)

LoseLink == link' = "down" /\ kane' = [t \in Turns |-> "stopped"]
Stops(t) == kane' = [kane EXCEPT ![t] = "stopped"]

KaneHears(t, k) ==
    \/ k = "delta" /\ UNCHANGED <<link, kane, stored>>
    \/ k = "ask" /\ kane' = [kane EXCEPT ![t] = "active"] /\ UNCHANGED <<link, stored>>
    \/ k = "interrupted" /\ Stops(t) /\ UNCHANGED <<link, stored>>
    \/ k = "completed" /\ turns[t] \in stored /\ UNCHANGED <<link, kane, stored>>
    \/ /\ k = "completed" /\ turns[t] \notin stored
       /\ IF kane[t] = "active"
          THEN Stops(t) /\ stored' = stored \cup {turns[t]} /\ UNCHANGED link
          ELSE LoseLink /\ UNCHANGED stored

(* A command takes more than 30 s: the Dispatcher interrupts its Turn.     *)
KaneTimesOut ==
    /\ step # "idle" /\ kane[subject] = "active"
    /\ Stops(subject)
    /\ UNCHANGED <<link, ref, stored, command, tables, permission, queue, servers, watcher,
                   codex, history>>

Disconnect ==
    /\ link = "open" /\ losses < MaxLosses
    /\ losses' = losses + 1
    /\ LoseLink
    /\ UNCHANGED <<ref, stored, command, tables, permission, queue, servers, watcher, codex,
                   sends, slips>>

(* run(): the loop notices the loss once no frame is being handled.        *)
Reconnect ==
    /\ link = "down" /\ step = "idle"
    /\ link' = "open"
    /\ UNCHANGED <<kane, ref, stored, command, tables, permission, queue, servers, watcher,
                   codex, history>>

(* Codex: what the last app-server was working on ends with it.            *)
Working(n) == run[n] \in {"begun", "started", "spoke"}
RunsLost   == run' = [n \in Sends |-> IF Working(n) THEN "ended" ELSE run[n]]

(* The Connector ends, which closes its app-server, and is started again.  *)
Restart ==
    /\ losses < MaxLosses
    /\ losses' = losses + 1
    /\ LoseLink
    /\ step' = "idle" /\ subject' = None /\ future' = "none"
    /\ turns' = [t \in Turns |-> None] /\ native' = [t \in Turns |-> None]
    /\ permission' = "none" /\ events' = <<>> /\ dispatchers' = 0
    /\ process' = (IF started = 0 THEN "none" ELSE "exited")
    /\ reader' = [p \in Servers |-> IF p <= started THEN "ended" ELSE "none"]
    /\ watcher' = [p \in Servers |-> NotWatching]
    /\ RunsLost
    /\ slips' = {}
    /\ UNCHANGED <<ref, stored, started, turnOf, sends>>

-----------------------------------------------------------------------------
(* Requests to the app-server *)

Alive == process \in {"up", "dead"}

(* A write raises when the process is known to be gone.                    *)
Request(method, t) ==
    /\ step' = method /\ subject' = t
    /\ future' = IF Alive THEN "waiting" ELSE "lost"

Over == step' = "idle" /\ subject' = None /\ future' = "none"

(* command.result "rejected", or no result on a socket that is lost: the   *)
(* Dispatcher interrupts the Turn.                                         *)
Reject(t) == Over /\ Stops(t)

(* Spawning an app-server takes longer than a watcher that is ready needs; *)
(* its first request waits from then on.                                   *)
WatcherReady(p) ==
    \/ watcher[p].at = "reader" /\ reader[p] = "ended"
    \/ watcher[p].at = "process" /\ watcher[p].of # started
Spawning == step = "initialize" /\ \E p \in Servers : WatcherReady(p)

CodexAnswers ==
    /\ future = "waiting" /\ ~Spawning
    /\ process = "up" /\ reader[started] = "reading"
    /\ \E a \in {"ok", "error"} :
         /\ step = "turn/start" => (a = "ok" <=> run[sends] # "none")
         /\ future' = a
    /\ UNCHANGED <<kaneVars, step, subject, tables, permission, queue, servers, watcher, codex,
                   history>>

(* Faulty variant: only the first request has a timeout.                   *)
InitializeTimesOut ==
    /\ step = "initialize" /\ future = "waiting" /\ ~Spawning
    /\ future' = "lost"
    /\ UNCHANGED <<kaneVars, step, subject, tables, permission, queue, servers, watcher, codex,
                   history>>

RequestTimesOut ==
    /\ future = "waiting" /\ ~Spawning
    /\ future' = "lost"
    /\ UNCHANGED <<kaneVars, step, subject, tables, permission, queue, servers, watcher, codex,
                   history>>

RequestFails ==
    /\ future \in {"error", "lost"}
    /\ Reject(subject)
    /\ UNCHANGED <<link, ref, stored, tables, permission, queue, servers, watcher, codex, history>>

-----------------------------------------------------------------------------
(* turn.send *)

(* The watcher of an app-server is set up once start() has succeeded.      *)
WatchStarted ==
    watcher' = IF watcher[started].at = "none" /\ reader[started] = "reading"
               THEN [watcher EXCEPT ![started].at = "reader"] ELSE watcher

(* The binding of send n replaces that of an earlier send; session.bound   *)
(* comes before turn/start.                                                *)
BindAndStart(t, n) ==
    /\ turns' = [turns EXCEPT ![t] = n]
    /\ native' = [native EXCEPT ![t] = None]
    /\ IF link = "open"
       THEN Request("turn/start", t) /\ ref' = ref \cup {t} /\ UNCHANGED kane
       ELSE Reject(t) /\ UNCHANGED ref

NeedsThread(t) == t \notin ref \/ turns[t] = None
GetThread(t)   == Request(IF t \in ref THEN "thread/resume" ELSE "thread/start", t)

(* Kane sends to a Turn that is not active.                                *)
SendArrives(t) ==
    /\ link = "open" /\ step = "idle" /\ kane[t] = "stopped" /\ sends < MaxSends
    /\ sends' = sends + 1
    /\ turnOf' = [turnOf EXCEPT ![sends'] = t]
    /\ kane' = [kane EXCEPT ![t] = "active"]

(* codex.start() returns at once while a process is alive, whether it was  *)
(* initialized or not.                                                     *)
SendToRunning(t) ==
    /\ Alive
    /\ SendArrives(t)
    /\ WatchStarted
    /\ IF NeedsThread(t)
       THEN GetThread(t) /\ UNCHANGED tables
       ELSE /\ turns' = [turns EXCEPT ![t] = sends'] /\ native' = [native EXCEPT ![t] = None]
            /\ Request("turn/start", t)
    /\ UNCHANGED <<link, ref, stored, permission, queue, servers, run, losses, slips>>

(* Faulty variant: the dispatcher of the last app-server serves this one.  *)
SendToNewReusesDispatcher(t) ==
    /\ ~Alive /\ started < MaxStarts
    /\ SendArrives(t)
    /\ started' = started + 1 /\ process' = "up"
    /\ reader' = [reader EXCEPT ![started'] = "reading"]
    /\ dispatchers' = IF dispatchers = 0 THEN 1 ELSE dispatchers
    /\ step' = "initialize" /\ future' = "waiting" /\ subject' = t
    /\ UNCHANGED <<link, ref, stored, tables, permission, events, watcher, run, losses, slips>>

(* Otherwise it spawns one, with tasks of its own; the queue is the same.  *)
SendToNew(t) ==
    /\ ~Alive /\ started < MaxStarts
    /\ SendArrives(t)
    /\ started' = started + 1 /\ process' = "up"
    /\ reader' = [reader EXCEPT ![started'] = "reading"]
    /\ dispatchers' = dispatchers + 1
    /\ step' = "initialize" /\ future' = "waiting" /\ subject' = t
    /\ UNCHANGED <<link, ref, stored, tables, permission, events, watcher, run, losses, slips>>

Initialized ==
    /\ step = "initialize" /\ future = "ok"
    /\ \/ ~Alive /\ Reject(subject) /\ UNCHANGED <<tables, ref, watcher>>
       \/ /\ Alive /\ WatchStarted
          /\ IF NeedsThread(subject) THEN GetThread(subject) /\ UNCHANGED <<tables, ref, kane>>
                                     ELSE BindAndStart(subject, sends)
    /\ UNCHANGED <<link, stored, permission, queue, servers, codex, history>>

ThreadReady ==
    /\ step \in {"thread/start", "thread/resume"} /\ future = "ok"
    /\ BindAndStart(subject, sends)
    /\ UNCHANGED <<link, stored, permission, queue, servers, watcher, codex, history>>

(* The native turn is known from now on, if no event has told it already.  *)
TurnStarted ==
    /\ step = "turn/start" /\ future = "ok"
    /\ native' = [native EXCEPT ![subject] = sends]
    /\ Over
    /\ UNCHANGED <<kaneVars, turns, permission, queue, servers, watcher, codex, history>>

-----------------------------------------------------------------------------
(* turn.steer, turn.cancel and permission.respond *)

(* Both need a native turn; after a cancel the Turn is interrupted anyway. *)
Control(t, method) ==
    /\ link = "open" /\ step = "idle" /\ kane[t] = "active"
    /\ IF native[t] = None THEN Reject(t) ELSE Request(method, t) /\ UNCHANGED kane
    /\ UNCHANGED <<link, ref, stored, tables, permission, queue, servers, watcher, codex, history>>

ControlDone ==
    /\ step \in {"turn/steer", "turn/interrupt"} /\ future = "ok"
    /\ Over
    /\ IF step = "turn/interrupt" THEN Stops(subject) ELSE UNCHANGED kane
    /\ UNCHANGED <<link, ref, stored, tables, permission, queue, servers, watcher, codex, history>>

(* The decision is written, then the request is forgotten.                 *)
Respond ==
    /\ link = "open" /\ step = "idle"
    /\ permission = "pending" /\ Alive
    /\ permission' = "none"
    /\ UNCHANGED <<kaneVars, command, tables, queue, servers, watcher, codex, history>>

-----------------------------------------------------------------------------
(* Events *)

Taken(k)  == dispatchers > 0 /\ events # <<>> /\ Head(events).kind = k /\ events' = Tail(events)
TakenTurn == turnOf[Head(events).run]
Stray     == IF turns[TakenTurn] = Head(events).run THEN {} ELSE {"stray"}

(* A frame that cannot be sent ends the task that sends it.                *)
Report(t, k) ==
    IF link = "open"
    THEN KaneHears(t, k) /\ slips' = slips \cup Stray /\ UNCHANGED dispatchers
    ELSE /\ dispatchers' = dispatchers - 1 /\ slips' = slips \cup {"unsent"}
         /\ UNCHANGED <<link, kane, stored>>

DispatcherEnds ==
    /\ Taken("end")
    /\ dispatchers' = dispatchers - 1
    /\ UNCHANGED <<kaneVars, command, tables, permission, servers, watcher, codex, history>>

RunStarted ==
    /\ Taken("started")
    /\ native' = [native EXCEPT ![TakenTurn] = Head(events).run]
    /\ slips' = slips \cup Stray
    /\ UNCHANGED <<kaneVars, command, turns, permission, dispatchers, servers, watcher, codex,
                   sends, losses>>

(* item/agentMessage/delta, and item/completed of an item not seen before. *)
RunSays ==
    /\ Taken("delta")
    /\ Report(TakenTurn, "delta")
    /\ UNCHANGED <<ref, command, tables, permission, servers, watcher, codex, sends, losses>>

(* The request is recorded before Kane is told.                            *)
RunAsks ==
    /\ Taken("ask")
    /\ Report(TakenTurn, "ask")
    /\ permission' = IF link = "open" THEN "pending" ELSE "unheard"
    /\ UNCHANGED <<ref, command, tables, servers, watcher, codex, sends, losses>>

(* Faulty variant: only a completed turn is reported.                      *)
RunEndsIfCompleted ==
    /\ \/ Taken("completed") /\ Report(TakenTurn, "completed")
       \/ Taken("interrupted") /\ UNCHANGED <<link, kane, stored, dispatchers, slips>>
    /\ native' = [native EXCEPT ![TakenTurn] = None]
    /\ UNCHANGED <<ref, command, turns, permission, servers, watcher, codex, sends, losses>>

(* turn/completed is reported under the binding its thread has now.        *)
RunEnds ==
    \E k \in Ends :
        /\ Taken(k)
        /\ Report(TakenTurn, k)
        /\ native' = IF link = "open" THEN [native EXCEPT ![TakenTurn] = None] ELSE native
        /\ UNCHANGED <<ref, command, turns, permission, servers, watcher, codex, sends, losses>>

-----------------------------------------------------------------------------
(* The end of an app-server *)

(* Faulty variant: it tries again instead of ending.                       *)
ReaderRetries(p) ==
    /\ reader[p] = "reading" /\ (p = started => process # "up")
    /\ future' = IF future = "waiting" THEN "lost" ELSE future
    /\ events' = Append(events, End)
    /\ UNCHANGED <<kaneVars, step, subject, tables, permission, dispatchers, servers,
                   watcher, codex, history>>

(* The finally block of _read_stdout: it rejects every request there is.   *)
ReaderEnds(p) ==
    /\ reader[p] = "reading" /\ (p = started => process # "up" /\ ~Spawning)
    /\ reader' = [reader EXCEPT ![p] = "ended"]
    /\ future' = IF future = "waiting" /\ ~Spawning THEN "lost" ELSE future
    /\ events' = Append(events, End)
    /\ UNCHANGED <<kaneVars, step, subject, tables, permission, dispatchers, started, process,
                   watcher, codex, history>>

(* It waits for whatever process is the Connector's by then.               *)
WatcherWakes(p) ==
    /\ watcher[p].at = "reader" /\ reader[p] = "ended"
    /\ watcher' = [watcher EXCEPT ![p].at = "process", ![p].of = started]
    /\ slips' = IF p = started THEN slips ELSE slips \cup {"overtaken"}
    /\ UNCHANGED <<kaneVars, command, tables, permission, queue, servers, codex, sends, losses>>

(* Each Turn with a native turn is interrupted. Without a socket the task  *)
(* ends at the first of them; a first binding made for another Turn while  *)
(* a frame is being sent ends it with the rest of the Turns untold.        *)
WithNativeTurn == {t \in Turns : native[t] # None}

Told ==
    IF link # "open" THEN {{}}
    ELSE {told \in SUBSET WithNativeTurn :
             told = WithNativeTurn \/ (told # {} /\ \E t \in Turns : turns[t] = None)}

WatcherTells(p) ==
    /\ watcher[p].at = "process" /\ (watcher[p].of = started => process = "exited")
    /\ watcher' = [watcher EXCEPT ![p] = NotWatching]
    /\ \E told \in Told :
         /\ kane' = [t \in Turns |-> IF t \in told THEN "stopped" ELSE kane[t]]
         /\ native' = [t \in Turns |-> IF t \in told THEN None ELSE native[t]]
         /\ slips' = slips
              \cup (IF future = "ok" \/ \E i \in 1..Len(events) : events[i] # End
                    THEN {"overtaken"} ELSE {})
              \cup (IF link = "open" /\ told # WithNativeTurn THEN {"cut"} ELSE {})
    /\ UNCHANGED <<link, ref, stored, command, turns, permission, queue, servers, codex, sends,
                   losses>>

ProcessDies ==
    /\ process = "up"
    /\ process' = "dead"
    /\ RunsLost
    /\ UNCHANGED <<kaneVars, command, tables, permission, queue, started, reader, watcher, turnOf,
                   history>>

ExitIsSeen ==
    /\ process = "dead"
    /\ process' = "exited"
    /\ UNCHANGED <<kaneVars, command, tables, permission, queue, started, reader, watcher, codex,
                   history>>

-----------------------------------------------------------------------------
(* Codex: a thread works on one native turn at a time.                     *)

RunBegins ==
    /\ step = "turn/start" /\ future = "waiting" /\ process = "up"
    /\ run[sends] = "none"
    /\ \A n \in Sends : Working(n) => turnOf[n] # subject
    /\ run' = [run EXCEPT ![sends] = "begun"]
    /\ UNCHANGED <<kaneVars, command, tables, permission, queue, servers, watcher, turnOf, history>>

(* What it may report next (bound: one output or permission request).      *)
Reports(n, k) ==
    CASE run[n] = "begun"   -> k = "started"
      [] run[n] = "started" -> k # "started"
      [] run[n] = "spoke"   -> k \in Ends
      [] OTHER              -> FALSE

RunReports(n, k) ==
    /\ Reports(n, k) /\ reader[started] = "reading"
    /\ Len(events) < MaxEvents
    /\ run' = [run EXCEPT ![n] = IF k = "started" THEN "started"
                                 ELSE IF k \in Ends THEN "ended" ELSE "spoke"]
    /\ events' = Append(events, Event(n, k))
    /\ UNCHANGED <<kaneVars, command, tables, permission, dispatchers, servers, watcher, turnOf,
                   history>>

-----------------------------------------------------------------------------
Handler ==
    \/ RequestTimesOut \/ RequestFails \/ Initialized \/ ThreadReady \/ TurnStarted
    \/ ControlDone

Dispatch == DispatcherEnds \/ RunStarted \/ RunSays \/ RunAsks \/ RunEnds

Server(p) == ReaderEnds(p) \/ WatcherWakes(p) \/ WatcherTells(p)

Next ==
    \/ \E t \in Turns : \/ SendToRunning(t) \/ SendToNew(t)
                        \/ Control(t, "turn/steer") \/ Control(t, "turn/interrupt")
    \/ Respond \/ Handler \/ Dispatch
    \/ \E p \in Servers : Server(p)
    \/ ProcessDies \/ ExitIsSeen
    \/ KaneTimesOut \/ Disconnect \/ Reconnect \/ Restart
    \/ CodexAnswers \/ RunBegins
    \/ \E n \in Sends, k \in Kinds : RunReports(n, k)

Spec == Init /\ [][Next]_vars

(* The event loop runs every task that can run, requests have a timeout of *)
(* 60 s, run() reconnects for ever, and the end of a process shows.        *)
FairSpec ==
    /\ Spec
    /\ WF_vars(Handler) /\ WF_vars(Dispatch) /\ WF_vars(Reconnect) /\ WF_vars(ExitIsSeen)
    /\ \A p \in Servers : WF_vars(Server(p))

-----------------------------------------------------------------------------
(* Properties *)

(* While Codex's output is read somebody reports it, as long as no frame   *)
(* failed: over any number of app-servers the ends their readers leave in  *)
(* the queue stop exactly as many dispatchers as those readers had.        *)
EventsHaveADispatcher ==
    (\E p \in Servers : reader[p] = "reading") /\ "unsent" \notin slips => dispatchers > 0

(* Every command ends, with a silent or dying Codex, too: the handler that *)
(* awaits it keeps all later frames of Kane from being handled.            *)
CommandsEnd == (step # "idle") ~> (step = "idle")

(* Neither a command nor a native turn of t is at work.                     *)
Idle(t) == subject # t /\ \A n \in Sends : turnOf[n] = t => ~Working(n)

(* Why no Turn is left active: as long as no slip came first, an active    *)
(* Turn whose native turn is over is about to be told, by an end that      *)
(* waits in the queue and a dispatcher that will take it, or by the        *)
(* watcher of an app-server that is gone and the native turn it looks for. *)
EndIsOnItsWay(t) ==
    \/ /\ dispatchers > 0
       /\ \E i \in DOMAIN events : events[i].kind \in Ends /\ turnOf[events[i].run] = t
    \/ /\ native[t] # None
       /\ \E p \in Servers : watcher[p].at # "none" /\ (p = started => process # "up")
IdleTurnIsTold ==
    slips = {} => \A t \in Turns : kane[t] = "active" /\ Idle(t) => EndIsOnItsWay(t)

(* "Report process, transport, session loss, cancellation, or uncertain    *)
(* completion as turn.interrupted" (skills/kane-connect/SKILL.md): a Turn  *)
(* whose native turn is over does not stay active in Kane, unless one of   *)
(* four slips came first: a frame could not be sent and ended its          *)
(* dispatcher for good; a watcher told the Turns before everything its     *)
(* app-server had said was handled, or was cut short by a new binding; an  *)
(* event was reported under the binding of a later send.                   *)
NoTurnIsLeftActive ==
    \A t \in Turns : (kane[t] = "active" /\ Idle(t)) ~>
                        (kane[t] = "stopped" \/ slips # {} \/ ~Idle(t))
=============================================================================
