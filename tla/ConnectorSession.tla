-------------------------- MODULE ConnectorSession --------------------------
(***************************************************************************)
(* One external Agent and its WebSockets (routes/connectors.py and         *)
(* adapters/connector_adapter.py): pairing codes, the reconnect token, the *)
(* handshake, which socket the adapter is attached to, the futures of the  *)
(* commands Kane sends, and the events the Connector sends and repeats.    *)
(*                                                                         *)
(* Each socket is served by a handler coroutine of its own. Reading a      *)
(* frame and all it does (every store call and emit_* included) contains   *)
(* no suspension point, so a frame is one action, and so is the handshake. *)
(* What does suspend: waiting for a frame, sending a command, waiting for  *)
(* its answer, closing a socket. The Connector is any peer that knows the  *)
(* codes and tokens given to it; it sends events until they are acked.     *)
(* One Turn of the Agent stands for all: events and interruptions treat    *)
(* each Turn alone.                                                        *)
(***************************************************************************)
EXTENDS Naturals, FiniteSets, Sequences, SequencesExt

CONSTANTS
    MaxSockets,    \* bound: sockets that authenticate, in order of arrival
    MaxCodes,      \* bound: pairing codes issued
    MaxRevokes,    \* bound: explicit disconnects by the user
    MaxRestarts,   \* bound: restarts of the API
    MaxApplied,    \* bound: times the Connector gets one event through
    CacheLimit,    \* event ids remembered (4096 in the code)
    Sends,         \* turn.send commands
    Answers,       \* permission.respond commands
    Events,        \* event ids
    EventKind,     \* the frame type of an event
    ReplyOf        \* the reply_id of an event

Kinds    == {"session.bound", "reply.delta", "reply.completed", "turn.waiting_user",
             "permission.requested", "turn.failed", "turn.interrupted"}
Replies  == {ReplyOf[e] : e \in Events}
Commands == Sends \cup Answers
Sockets  == 1..MaxSockets
NoSocket == 0

ASSUME SessionAssumption ==
    /\ {MaxSockets, MaxRevokes, MaxRestarts, MaxApplied} \subseteq Nat
    /\ {CacheLimit, MaxCodes} \subseteq Nat \ {0}
    /\ Sends \cap Answers = {}
    /\ EventKind \in [Events -> Kinds]
    /\ DOMAIN ReplyOf = Events

VARIABLES
    \* --- durable
    active,      \* AgentBinding.is_active
    token,       \* generation of the stored connector_token_sha256, 0 for none
    turn,        \* status of the Turn
    messages,    \* messages[r]: Message rows stored for reply r
    \* --- the API process
    code,        \* the pairing code that exists, 0 for none
    reserved,    \* a handshake has taken it
    codes,       \* codes issued so far
    handler,     \* handler[s]: progress of the coroutine serving socket s
    how, held,   \* how s authenticated, and with which code or token
    attached,    \* sockets whose handler has attached the adapter
    websocket,   \* ConnectorAdapter._websocket
    pending,     \* ConnectorAdapter._pending: commands with a registered future
    seen,        \* ConnectorAdapter._seen_events
    permission,  \* a permission request is held in _permissions
    progress,    \* progress[c]: the coroutine in _command
    via, future, \* via[c]: the socket it captured; future[c]: its future
    revoking,    \* disconnect_external_agent awaits the close of its socket
    \* --- the wire and the Connector
    link,        \* link[s]: "open", "gone" (peer lost) or "closed" (by Kane)
    asked,       \* asked[c]: the socket the peer received command c on
    acked,       \* events the Connector got an ack for
    \* --- history
    applied,     \* applied[e]: times the handler of event e succeeded
    forgotten,   \* events that were remembered and no longer are
    revokes, restarts

store   == <<active, token, turn, messages>>
pairing == <<code, reserved, codes>>
sockets == <<handler, how, held, attached, link>>
calls   == <<progress, via, future, pending, asked>>
facts   == <<seen, acked, applied, forgotten>>
counts  == <<revokes, restarts>>
vars == <<store, pairing, sockets, websocket, calls, permission, revoking, facts, counts>>

Active   == {"running", "waiting_user"}
Statuses == Active \cup {"finished", "failed", "interrupted"}

FlagsOK ==
    /\ active \in BOOLEAN /\ reserved \in BOOLEAN
    /\ permission \in BOOLEAN /\ revoking \in BOOLEAN

StoreOK ==
    /\ turn \in Statuses
    /\ messages \in [Replies -> Nat]
    /\ token \in 0..MaxCodes /\ code \in 0..MaxCodes /\ codes \in 0..MaxCodes
    /\ revokes \in 0..MaxRevokes /\ restarts \in 0..MaxRestarts

SocketsOK ==
    /\ handler \in [Sockets -> {"none", "hello", "loop", "closing", "done"}]
    /\ how \in [Sockets -> {"none", "code", "token"}]
    /\ held \in [Sockets -> 0..MaxCodes]
    /\ attached \subseteq Sockets
    /\ link \in [Sockets -> {"none", "open", "gone", "closed"}]
    /\ websocket \in Sockets \cup {NoSocket}

CallsOK ==
    /\ pending \subseteq Commands
    /\ progress \in [Commands -> {"idle", "sending", "waiting", "accepted", "failed"}]
    /\ via \in [Commands -> Sockets \cup {NoSocket}]
    /\ future \in [Commands -> {"none", "unset", "accepted", "rejected", "lost"}]
    /\ asked \in [Commands -> Sockets \cup {NoSocket}]

EventsOK ==
    /\ seen \in Seq(Events) /\ Len(seen) <= CacheLimit
    /\ acked \subseteq Events /\ forgotten \subseteq Events
    /\ applied \in [Events -> Nat]

TypeOK == FlagsOK /\ StoreOK /\ SocketsOK /\ CallsOK /\ EventsOK

(* An identity that was paired once (with code 1) and is offline, and a    *)
(* Turn of it that has stopped.                                            *)
Init ==
    /\ active = TRUE /\ token = 1
    /\ turn = "interrupted"
    /\ messages = [r \in Replies |-> 0]
    /\ code = 0 /\ reserved = FALSE /\ codes = 1
    /\ handler = [s \in Sockets |-> "none"]
    /\ how = [s \in Sockets |-> "none"]
    /\ held = [s \in Sockets |-> 0]
    /\ attached = {}
    /\ link = [s \in Sockets |-> "none"]
    /\ websocket = NoSocket
    /\ pending = {}
    /\ progress = [c \in Commands |-> "idle"]
    /\ via = [c \in Commands |-> NoSocket]
    /\ future = [c \in Commands |-> "none"]
    /\ asked = [c \in Commands |-> NoSocket]
    /\ seen = <<>>
    /\ acked = {} /\ forgotten = {}
    /\ applied = [e \in Events |-> 0]
    /\ permission = FALSE /\ revoking = FALSE
    /\ revokes = 0 /\ restarts = 0

-----------------------------------------------------------------------------
(* Shared parts of the handlers *)

(* Faulty variant: forgets the callers (used by the checks of the properties). *)
DetachKeepsFutures == websocket' = NoSocket /\ UNCHANGED <<future, pending>>

(* ConnectorAdapter.detach; it does not touch _permissions or _seen_events *)
Detach ==
    /\ websocket' = NoSocket
    /\ future' = [c \in Commands |-> IF c \in pending /\ future[c] = "unset"
                                     THEN "lost" ELSE future[c]]
    /\ pending' = {}

InterruptIfActive == turn' = IF turn \in Active THEN "interrupted" ELSE turn

-----------------------------------------------------------------------------
(* Pairing and the handshake *)

(* create_pairing: refused while connected; drops the token and any older code *)
PairAgent ==
    /\ codes < MaxCodes
    /\ websocket = NoSocket
    /\ active' = TRUE /\ token' = 0
    /\ codes' = codes + 1
    /\ code' = codes' /\ reserved' = FALSE
    /\ UNCHANGED <<turn, messages, sockets, websocket, calls, permission, revoking,
                   facts, counts>>

(* A socket opens with a valid credential; any other is refused at once.   *)
Connect(s) ==
    /\ handler[s] = "none"
    /\ \A r \in Sockets : r < s => handler[r] # "none"
    /\ \/ /\ code # 0 /\ ~reserved
          /\ reserved' = TRUE
          /\ how' = [how EXCEPT ![s] = "code"]
          /\ held' = [held EXCEPT ![s] = code]
       \/ /\ active /\ token # 0
          /\ how' = [how EXCEPT ![s] = "token"]
          /\ held' = [held EXCEPT ![s] = token]
          /\ UNCHANGED reserved
    /\ handler' = [handler EXCEPT ![s] = "hello"]
    /\ link' = [link EXCEPT ![s] = "open"]
    /\ UNCHANGED <<store, code, codes, attached, websocket, calls, permission,
                   revoking, facts, counts>>

(* Faulty variant: trusts the check made before the hello.                  *)
TokenCheckedOnce(s) == how[s] = "token"

(* The credential is looked at again when the hello arrives.               *)
CodeStillValid(s)  == how[s] = "code" /\ code = held[s] /\ active
TokenStillValid(s) == how[s] = "token" /\ active /\ token = held[s]

(* The hello of a code holder stores a new token and spends the code; then *)
(* the adapter is attached, unless it is already or the hello's list of    *)
(* sessions, which is read last, is malformed.                             *)
Hello(s) ==
    /\ handler[s] = "hello"
    /\ CodeStillValid(s) \/ TokenStillValid(s)
    /\ IF how[s] = "code"
       THEN token' = code /\ code' = 0 /\ reserved' = FALSE
       ELSE UNCHANGED <<token, code, reserved>>
    /\ \/ /\ websocket = NoSocket
          /\ websocket' = s
          /\ attached' = attached \cup {s}
          /\ handler' = [handler EXCEPT ![s] = "loop"]
          /\ UNCHANGED link
       \/ /\ handler' = [handler EXCEPT ![s] = "closing"]
          /\ link' = [link EXCEPT ![s] = "closed"]
          /\ UNCHANGED <<websocket, attached>>
    /\ UNCHANGED <<active, turn, messages, codes, how, held, calls, permission,
                   revoking, facts, counts>>

(* A hello that is malformed, late (10 s) or whose credential was replaced, *)
(* or a malformed frame later on: the handler closes the socket.           *)
FrameRefused(s) ==
    /\ handler[s] \in {"hello", "loop"}
    /\ handler' = [handler EXCEPT ![s] = "closing"]
    /\ link' = [link EXCEPT ![s] = IF @ = "open" THEN "closed" ELSE @]
    /\ UNCHANGED <<store, pairing, how, held, attached, websocket, calls, permission,
                   revoking, facts, counts>>

PeerLost(s) ==
    /\ link[s] = "open"
    /\ link' = [link EXCEPT ![s] = "gone"]
    /\ UNCHANGED <<store, pairing, handler, how, held, attached, websocket, calls,
                   permission, revoking, facts, counts>>

(* The finally block. It detaches the adapter whatever socket the adapter  *)
(* is attached to by then, and interrupts the Turn.                        *)
HandlerEnds(s) ==
    /\ \/ handler[s] = "closing"
       \/ handler[s] \in {"hello", "loop"} /\ link[s] # "open"
    /\ handler' = [handler EXCEPT ![s] = "done"]
    /\ link' = [link EXCEPT ![s] = "closed"]
    /\ IF how[s] = "code" /\ code = held[s]
       THEN code' = 0 /\ reserved' = FALSE
       ELSE UNCHANGED <<code, reserved>>
    /\ IF s \in attached THEN Detach /\ InterruptIfActive
                         ELSE UNCHANGED <<websocket, future, pending, turn>>
    /\ attached' = attached \ {s}
    /\ how' = [how EXCEPT ![s] = "none"]
    /\ held' = [held EXCEPT ![s] = 0]
    /\ UNCHANGED <<active, token, messages, codes, progress, via, asked, permission,
                   revoking, facts, counts>>

(* disconnect_external_agent: credentials and codes are dropped, the       *)
(* adapter detached and its socket closed; the Turn is interrupted when    *)
(* the close has returned.                                                 *)
DisconnectAgent ==
    /\ revokes < MaxRevokes
    /\ ~revoking
    /\ revokes' = revokes + 1
    /\ active' = FALSE /\ token' = 0
    /\ code' = 0 /\ reserved' = FALSE
    /\ Detach
    /\ link' = [s \in Sockets |-> IF s = websocket /\ link[s] = "open"
                                  THEN "closed" ELSE link[s]]
    /\ revoking' = TRUE
    /\ UNCHANGED <<turn, messages, codes, handler, how, held, attached, progress, via,
                   asked, permission, facts, restarts>>

DisconnectReturns ==
    /\ revoking
    /\ revoking' = FALSE
    /\ InterruptIfActive
    /\ UNCHANGED <<active, token, messages, pairing, sockets, websocket, calls,
                   permission, facts, counts>>

-----------------------------------------------------------------------------
(* Commands *)

(* What the caller of _command does with its outcome: a failed turn.send   *)
(* interrupts the Turn, an accepted permission answer resumes it (unless   *)
(* the decision was "cancelled").                                          *)
Accepted(c) ==
    IF c \in Answers
    THEN permission' = FALSE /\ (turn' = "running" \/ UNCHANGED turn)
    ELSE UNCHANGED <<permission, turn>>
Failed(c) ==
    /\ IF c \in Sends THEN InterruptIfActive ELSE UNCHANGED turn
    /\ UNCHANGED permission

CommandOver(c, outcome) ==
    /\ progress' = [progress EXCEPT ![c] = outcome]
    /\ pending' = pending \ {c}
    /\ via' = [via EXCEPT ![c] = NoSocket]
    /\ future' = [future EXCEPT ![c] = "none"]
    /\ asked' = [asked EXCEPT ![c] = NoSocket]
    /\ UNCHANGED <<active, token, messages, pairing, sockets, websocket, revoking,
                   facts, counts>>

(* A message to a Turn that is not running or an answer to a permission    *)
(* request: the future is registered, unless the Agent is offline.         *)
IssueCommand(c) ==
    /\ progress[c] = "idle"
    /\ IF c \in Sends THEN turn # "running" ELSE permission
    /\ IF websocket = NoSocket
       THEN /\ progress' = [progress EXCEPT ![c] = "failed"]
            /\ turn' = IF c \in Sends THEN "interrupted" ELSE turn
            /\ UNCHANGED <<via, future, pending>>
       ELSE /\ progress' = [progress EXCEPT ![c] = "sending"]
            /\ turn' = IF c \in Sends THEN "running" ELSE turn
            /\ via' = [via EXCEPT ![c] = websocket]
            /\ future' = [future EXCEPT ![c] = "unset"]
            /\ pending' = pending \cup {c}
    /\ UNCHANGED <<active, token, messages, pairing, sockets, websocket, asked,
                   permission, revoking, facts, counts>>

(* The frame goes to the socket captured before the send lock was taken.   *)
SendCommand(c) ==
    /\ progress[c] = "sending"
    /\ link[via[c]] # "closed"
    /\ progress' = [progress EXCEPT ![c] = "waiting"]
    /\ asked' = IF link[via[c]] = "open" THEN [asked EXCEPT ![c] = via[c]] ELSE asked
    /\ UNCHANGED <<store, pairing, sockets, websocket, via, future, pending, permission,
                   revoking, facts, counts>>

SendFails(c) ==
    /\ progress[c] = "sending"
    /\ link[via[c]] # "open"
    /\ CommandOver(c, "failed")
    /\ Failed(c)

(* command.result: resolves the future that is registered under the id,    *)
(* whichever socket it comes from; any other answer is dropped.            *)
PeerAnswers(s, c) ==
    /\ handler[s] = "loop"
    /\ asked[c] # NoSocket
    /\ link[s] = "open" \/ asked[c] = s
    /\ c \in pending /\ future[c] = "unset"
    /\ \E result \in {"accepted", "rejected"} : future' = [future EXCEPT ![c] = result]
    /\ UNCHANGED <<store, pairing, sockets, websocket, progress, via, pending, asked,
                   permission, revoking, facts, counts>>

CommandReturns(c) ==
    /\ progress[c] = "waiting"
    /\ \/ future[c] = "accepted" /\ CommandOver(c, "accepted") /\ Accepted(c)
       \/ future[c] \in {"rejected", "lost"} /\ CommandOver(c, "failed") /\ Failed(c)

(* wait_for(future, timeout=30)                                            *)
CommandTimesOut(c) ==
    /\ progress[c] = "waiting"
    /\ future[c] = "unset"
    /\ CommandOver(c, "failed")
    /\ Failed(c)

-----------------------------------------------------------------------------
(* Events *)

(* Whether the handler of an event succeeds, and what it changes.          *)
Completes(e) == EventKind[e] = "reply.completed"
Accepts(e)   == Completes(e) => messages[ReplyOf[e]] > 0 \/ turn \in Active

(* Faulty variant: stores a completed reply whether it exists or not.       *)
ApplyAgain(e) ==
    /\ turn' = IF Completes(e) THEN "finished" ELSE turn
    /\ messages' = IF Completes(e) THEN [messages EXCEPT ![ReplyOf[e]] = @ + 1]
                                   ELSE messages
    /\ permission' = (permission \/ EventKind[e] = "permission.requested")

(* A new completed reply is stored and ends the Turn, or leaves it running *)
(* (turn_finished); one that is stored already changes nothing.            *)
Apply(e) ==
    LET k == EventKind[e]  r == ReplyOf[e] IN
    /\ CASE k \in {"turn.waiting_user", "permission.requested"} -> turn' = "waiting_user"
         [] k = "turn.failed"      -> turn' = "failed"
         [] k = "turn.interrupted" -> turn' = "interrupted"
         [] Completes(e) /\ messages[r] = 0 -> turn' \in {"finished", "running"}
         [] OTHER -> UNCHANGED turn
    /\ messages' = IF Completes(e) /\ messages[r] = 0
                   THEN [messages EXCEPT ![r] = 1] ELSE messages
    /\ permission' = (permission \/ k = "permission.requested")

(* Faulty variant: forgets an id one event late.                            *)
RememberOneMore(e) ==
    IF Len(seen) > CacheLimit
    THEN seen' = Append(Tail(seen), e) /\ forgotten' = forgotten \cup {Head(seen)}
    ELSE seen' = Append(seen, e) /\ UNCHANGED forgotten

(* _seen_events[event_id] = None, and popitem(last=False) beyond the limit *)
Remember(e) ==
    LET grown == Append(seen, e) IN
    IF Len(grown) > CacheLimit
    THEN seen' = Tail(grown) /\ forgotten' = forgotten \cup {Head(grown)}
    ELSE seen' = grown /\ UNCHANGED forgotten

Ack(s, e) == acked' = IF link[s] = "open" THEN acked \cup {e} ELSE acked

(* An acknowledgement cannot be sent on a socket Kane has closed: the      *)
(* handler fails there.                                                    *)
AfterFrame(s) == handler' = IF link[s] = "closed"
                            THEN [handler EXCEPT ![s] = "closing"] ELSE handler

EventApplied(s, e) ==
    /\ handler[s] = "loop"
    /\ e \notin acked /\ applied[e] < MaxApplied
    /\ e \notin ToSet(seen)
    /\ Accepts(e)
    /\ Apply(e)
    /\ Remember(e)
    /\ applied' = [applied EXCEPT ![e] = @ + 1]
    /\ Ack(s, e)
    /\ AfterFrame(s)
    /\ UNCHANGED <<active, token, pairing, how, held, attached, link, websocket, calls,
                   revoking, counts>>

EventRepeated(s, e) ==
    /\ handler[s] = "loop"
    /\ e \notin acked
    /\ e \in ToSet(seen)
    /\ Ack(s, e)
    /\ AfterFrame(s)
    /\ UNCHANGED <<store, pairing, how, held, attached, link, websocket, calls,
                   permission, revoking, seen, applied, forgotten, counts>>

(* Faulty variant: remembers the id before the handler has run.             *)
EventRefusedLate(s, e) ==
    /\ handler[s] = "loop"
    /\ e \notin acked /\ e \notin ToSet(seen)
    /\ ~Accepts(e)
    /\ Remember(e)
    /\ handler' = [handler EXCEPT ![s] = "closing"]
    /\ link' = [link EXCEPT ![s] = IF @ = "open" THEN "closed" ELSE @]
    /\ UNCHANGED <<store, pairing, how, held, attached, websocket, calls, permission,
                   revoking, acked, applied, counts>>

(* A completion for a Turn that is not active raises: the socket is closed *)
(* and the event stays unknown.                                            *)
EventRefused(s, e) ==
    /\ handler[s] = "loop"
    /\ e \notin acked
    /\ e \notin ToSet(seen)
    /\ ~Accepts(e)
    /\ handler' = [handler EXCEPT ![s] = "closing"]
    /\ link' = [link EXCEPT ![s] = IF @ = "open" THEN "closed" ELSE @]
    /\ UNCHANGED <<store, pairing, how, held, attached, websocket, calls, permission,
                   revoking, facts, counts>>

-----------------------------------------------------------------------------
(* The API dies and starts again: sockets, codes, futures, remembered      *)
(* events and permissions are gone, the Turn is reconciled.                *)
RestartAPI ==
    /\ restarts < MaxRestarts
    /\ restarts' = restarts + 1
    /\ InterruptIfActive
    /\ code' = 0 /\ reserved' = FALSE
    /\ handler' = [s \in Sockets |-> IF handler[s] = "none" THEN "none" ELSE "done"]
    /\ link' = [s \in Sockets |-> IF handler[s] = "none" THEN "none" ELSE "closed"]
    /\ how' = [s \in Sockets |-> "none"] /\ held' = [s \in Sockets |-> 0]
    /\ attached' = {}
    /\ websocket' = NoSocket
    /\ pending' = {}
    /\ progress' = [c \in Commands |-> IF progress[c] \in {"sending", "waiting"}
                                       THEN "failed" ELSE progress[c]]
    /\ via' = [c \in Commands |-> NoSocket] /\ asked' = [c \in Commands |-> NoSocket]
    /\ future' = [c \in Commands |-> "none"]
    /\ forgotten' = forgotten \cup ToSet(seen)
    /\ seen' = <<>>
    /\ permission' = FALSE /\ revoking' = FALSE
    /\ UNCHANGED <<active, token, messages, codes, acked, applied, revokes>>

CommandStep(c) == SendCommand(c) \/ SendFails(c) \/ CommandReturns(c) \/ CommandTimesOut(c)

SocketStep(s) ==
    \/ Connect(s) \/ Hello(s) \/ FrameRefused(s) \/ PeerLost(s) \/ HandlerEnds(s)
    \/ \E c \in Commands : PeerAnswers(s, c)
    \/ \E e \in Events : EventApplied(s, e) \/ EventRepeated(s, e) \/ EventRefused(s, e)

Next ==
    \/ PairAgent \/ DisconnectAgent \/ DisconnectReturns \/ RestartAPI
    \/ \E s \in Sockets : SocketStep(s)
    \/ \E c \in Commands : IssueCommand(c) \/ CommandStep(c)

Spec == Init /\ [][Next]_vars

-----------------------------------------------------------------------------
(* Properties *)

(* Whatever happens between a socket's authentication and its hello, and   *)
(* whoever pairs or disconnects meanwhile: the socket the adapter is       *)
(* attached to has shown the credential that is stored now.                *)
AttachedIsAuthorised ==
    websocket # NoSocket =>
        /\ active
        /\ websocket \in attached
        /\ handler[websocket] \in {"loop", "closing"}
        /\ held[websocket] = token

(* A future that nobody has resolved is registered, and belongs to a       *)
(* command of the socket that is attached: detach fails all others, so no  *)
(* caller waits for an answer that the adapter would drop.                 *)
FuturesHaveASocket ==
    \A c \in Commands :
        progress[c] \in {"sending", "waiting"} /\ future[c] = "unset" =>
            c \in pending /\ via[c] = websocket /\ websocket # NoSocket

(* A repeated event has no second effect while its id is remembered, and a *)
(* reply is stored once even when the same reply comes under two event     *)
(* ids, after its id was forgotten, or after a restart.                    *)
EventAppliedOnce ==
    /\ \A e \in Events : applied[e] > 1 => e \in forgotten
    /\ \A r \in Replies : messages[r] <= 1

(* An event is acknowledged only when its handler has succeeded: one that  *)
(* was refused stays with the Connector ("Only acknowledge facts that      *)
(* reached their handler successfully", connector_adapter.py:252).         *)
AckedWasApplied == \A e \in acked : applied[e] > 0

(* "A live authenticated socket determines online status": the adapter is  *)
(* attached to the socket whose handler is serving it. Violated: a socket  *)
(* closed by the user is still being closed when the Agent pairs again,    *)
(* and its handler then detaches the socket that came after it.            *)
LiveSocketIsOnline ==
    \A s \in attached : handler[s] = "loop" /\ link[s] = "open" => websocket = s

(* A pairing code is "for one successful handshake, without a time limit", *)
(* and "a replacement code, explicit disconnect/removal, or server restart *)
(* invalidates an unused code": an unused code is given up for no other    *)
(* reason. Violated: the handler of a socket that showed the code and      *)
(* failed before its hello drops the code.                                 *)
CodeWaitsForItsHandshake ==
    [][code # 0 /\ code' # code =>
          \/ token' = code
          \/ codes' > codes \/ revokes' > revokes \/ restarts' > restarts]_vars
=============================================================================
