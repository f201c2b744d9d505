# A verification of the Kane Agent Platform

TLA+ models of the Kane Agent Platform's V2 core, the TLC configurations that
check them on small instances, and TLAPS proofs of the central promises for
every value of the constants. Source paths are relative to the repository;
`api/` stands for `apps/api/app/`, `web/` for `apps/web/src/`.

Kane is a local API process. Users write messages into *conversations*; each
message is bound to a *Turn* (one execution of one Agent) and delivered to the
Agent through an *adapter*: the built-in Kanaloa Agent over ACP (JSON-RPC on
the pipes of a child process) or an external Agent through a Connector (a
WebSocket client, for example the one for Codex). The Agent reports events that
move the Turn; the browser follows them over a server-sent event stream. The API
runs on one asyncio event loop over one SQLite file; the Codex Connector is a
second asyncio process, the web client a page of its own.

## 1. Inventory

| Part | Source | State it keeps | Operations |
|---|---|---|---|
| Domain records | `api/domain/models.py` | none | Turn status `running`, `waiting_user`, `finished`, `failed`, `interrupted`; capabilities; bindings |
| Store | `api/store/sqlite_store.py` | conversations, messages, turns, events, branches, `inbound_delivery` | one transaction per call; `append_message`, `claim_inbound`, `complete_inbound`, `list_unsettled_inbound`, `finalize_turn_completion`, `delete_conversation` |
| Mailbox | `api/harness/mailbox.py` | one in-memory FIFO per Turn | put, get, peek, drain |
| Dispatcher | `api/harness/dispatcher.py` | none of its own | `dispatch_user_message`, `create_new_turn`, `_handle_queued_followup`, `cancel_turn`, `resume_turn`, `stop_loop`, branches, `get_turn_history` |
| Coordinator | `api/harness/coordinator.py` | adapters, listener queues | `emit_*` event handlers, `subscribe`, `reconcile_startup_turns` |
| Process | `api/main.py` | phase of the process | start, reconcile, serve, stop |
| Pairing and sockets | `api/routes/connectors.py` | pairing codes, tokens, bindings, the attached socket | pair, authenticate, hello, lose, disconnect, remove |
| Connector adapter | `api/adapters/connector_adapter.py` | command futures, seen event ids, permissions | commands with a 30 s timeout, frames, acknowledgements |
| Kanaloa adapter | `api/adapters/kanaloa_adapter.py`, `kanaloa_runtime.py` | child process, sessions, pending requests, permissions, loops | send, steer, cancel, resume, loop, permission answers |
| Routes | `api/routes/*.py` | none | HTTP requests, the event stream |
| Codex Connector | `connectors/codex/main.py` | socket, app-server, reader/dispatcher/watcher tasks, event queue, Turn bindings, permissions | bridges Codex to the Connector protocol |
| Web client | `web/lib/use-turn.ts`, `web/components/workspace/conversation-workspace.tsx` | shown Turn, stream state, reads in flight | follow a Turn: load, stream, poll, reconnect, refresh |
| Local Bridge | `apps/local-bridge/app/main.py` | JSON files, shared records, threads | legacy task execution |
| Kanaloa tools | `packages/kanaloa-tools/index.mjs`, `worker.py` | container registry | subtasks in containers |

Interactions: routes call the dispatcher and the coordinator; the dispatcher
calls store, mailbox and adapter; adapters call back the coordinator's `emit_*`
handlers; the coordinator schedules the dispatcher's follow-up task when a Turn
finishes and calls it at startup; the end of a socket interrupts Turns from the
WebSocket handler; the coordinator broadcasts what it saves to the queues of the
open streams, which the web client reads beside its own HTTP reads.

What makes it hard: every store call is durable on its own, so a crash can fall
between any two; every `await` of an adapter lets the Turn change underneath;
the mailbox and the tasks live in memory and the ledger on disk; a call to an
Agent that fails may still have been received; a peer repeats what was not
acknowledged; a handler ends long after its socket was replaced; a subprocess
dies while six different coroutines wait for it; a page's read is answered after
the event that outdates it.

What makes each part correct (and where it is stated):

- *Store and ledger* (`Harness`): an accepted input is delivered at most once and
  never lost; a claim is never given back; deleting a conversation withdraws its inputs.
- *Mailbox* (`Harness`): first in, first out, only undelivered inputs of its own Turn.
- *Dispatcher* (`Harness`): one party delivers each input; queued inputs wait for
  the Turn and for a free session.
- *Coordinator* (`Harness`): after a restart no Turn pretends to run; streamed
  output survives interruption; a finished Turn drains its queue; startup ends.
- *Connector session* (`ConnectorSession`): the attached socket has shown the
  credential that is stored; a future belongs to a command of that socket; each
  event takes effect once, and is acknowledged only if it did; a live socket is
  online; a pairing code lasts until its handshake.
- *Kanaloa adapter* (`KanaloaAcp`): a waiting Turn has a request the user can
  answer; a stopped loop ends; nobody waits for an answer that cannot come; a
  Turn finishes only on a completed answer; prompts are for active Turns.
- *Codex Connector* (`CodexConnector`): what Codex says is reported; every command
  ends; a Turn whose native turn is over does not stay active in Kane.
- *Turn stream* (`TurnStream`): the page shows the output without gap or
  repetition, newer events win over slower reads, and it ends up with the facts.

The hazards behind these, each with its source line, are in `PROJECT.json`.

## 2. Modules

| Module | What it is |
|---|---|
| `DeliveryLedger` | abstract specification: the life of one accepted input, new -> pending -> claimed -> delivered -> settled, or withdrawn with its conversation |
| `Harness` | store ledger, mailbox, dispatcher, coordinator, process, and what pairing and sockets do to them; implements `DeliveryLedger` |
| `HarnessProofs`, `MailboxProofs`, `TurnProofs` | theorems about `Harness`, each module building on the one before |
| `ConnectorSession` | one external Agent: pairing, sockets and their handlers, commands, events |
| `ConnectorSessionProofs` | its theorems |
| `KanaloaAcp` | the bundled Agent: subprocess, requests, sessions, Loop Mode, permissions |
| `KanaloaAcpProofs`, `KanaloaWaitProofs` | its theorems, the second building on the first |
| `CodexConnector` | the Connector process for Codex, between Kane and `codex app-server` |
| `CodexConnectorProofs` | its theorems |
| `TurnStream` | one Turn as the browser follows it |
| `TurnStreamProofs` | its theorems |
| `MCHarness`, `MCConnectorSession`, `MCKanaloaAcp` | values for the constants in the runs |

The five models share the life of a Turn and split its surroundings.
`Harness` has the whole Turn and all inputs, and takes adapters as calls that are
accepted or fail and events that come at any time; `ConnectorSession` and
`KanaloaAcp` are what such an adapter does inside, with the effects of its
events on the Turn; `CodexConnector` is the peer of `ConnectorSession`, which it
contains as `KaneHears`; `TurnStream` takes the changes of the Turn as free and
models who sees them.

### How `Harness` corresponds to the code

The durable variables are `turn` (the Turn rows: status, whether a native
session is bound, whether partial output is held), `n`, `turnOf`, `kind`, `row`
(user messages in insertion order and `inbound_delivery`) and `paired` (the
binding's `is_active`). The volatile ones are `mailbox`, the progress of every
coroutine (`call[m]`: the request handler that dispatches input m; `job[m]`: the
follow-up task, boundary steer or recovered delivery of m; `cancelling`,
`resuming`, `closing`: control requests that await the adapter, and the
disconnect or removal that awaits the close of the socket), `snap[m]`, the Turn
object captured by a follow-up task, and the stages of startup (`phase`, `toProbe`,
`toSettle`). `known`, `live`, `deliveries`, `crashes` and `skipped` are history.

*Atomicity.* A coroutine that does not await cannot be interleaved, but each of
its store calls commits alone. A block of code with several store calls is
therefore several actions (`DispatchInput`, `DispatchRevive`, `DispatchClaim`,
`DispatchDeliver`); `LoopFree` keeps everybody else out until the block ends in
an await, and `Crash` may strike in between. Reading state before an await and
using it afterwards appears as it is in the code: `snap[m]` is stored over the
Turn, `CancelReturns` looks at the status it finds then.

*Events.* `emit_*` handlers other than completion do not look at the Turn's
status; neither do their actions. Any Agent that was ever given the Turn may
send any event of its protocol at any time, also late and after a restart.

*Adapters.* A call to `send` or `steer` is counted in `deliveries` when it is
made; afterwards it is accepted or it raises, at any later time. An external
Agent (`External`) may lose its socket, be revoked, removed, paired again and
attach with another steer mode; it cannot be attached while the API starts.

*Startup.* `lifespan` awaits reconciliation before the API serves. The model
follows its two loops: each active Turn is kept, found live or interrupted; then
each ledger row, in order, is interrupted (claimed before the crash), left
alone (no adapter), delivered now, or put back in its mailbox.

*One Agent.* All Turns belong to one Agent, since registration, capabilities and
the parallel limit are per Agent and nothing else couples Turns of two Agents.

### How `ConnectorSession` corresponds to the code

Every socket is served by its own coroutine (`handler[s]`: before the hello, in
the receive loop, closing, done). Receiving a frame and everything it causes has
no suspension in it and is one action (`Hello`, `EventApplied`, `PeerAnswers`);
what does suspend is split: a command registers its future (`IssueCommand`), is
sent on the socket captured before the send lock (`SendCommand`), and resumes
with its outcome or after 30 s. The `finally` block is `HandlerEnds`, which
detaches the adapter whatever it is attached to by then. Credentials are
generations: `token` is the generation of the stored token, `held[s]` what
socket s has shown. One Turn stands for all, one permission request for all;
`turn.send` and `permission.respond` stand for all commands, since steer, cancel
and resume use the same request table.

### How `KanaloaAcp` corresponds to the code

A *job* is one call of the adapter with the coroutines it leaves behind; a step
of a job runs to its next suspension: the process lock, the start or the stop of
the subprocess, the answer to a request, the drain of a written line.
`future[j]` follows the future of the request it awaits: written but not drained
("unsent"), waiting, answered, or rejected ("lost"). `asked` holds what the
*current* DSH process has received, so that an answer to an earlier process
cannot arrive. `session[j]` is the session a job works with; while it waits for
the lock or the start it is the one its Turn had when the job was dispatched
(`Seen`), since the code keeps that Turn object. The reader task is `Answer`, `PermissionAsked`,
`UpdateOfDeletedTurn` and `ReaderSeesEnd`; the last is `_handle_disconnect` for
all sessions. A native session is created, loaded and bound by separate steps.
`LoopIsIdle` says that the start or the end of an operating-system process takes
longer than the event loop needs to run what is ready; without it the model would
let a process be spawned and initialized between two ready coroutines.

### How `CodexConnector` corresponds to the code

`handle_kane_frame` is one coroutine: `step` is the request to Codex it awaits,
and no other frame is handled meanwhile. Beside it run, for each app-server ever
started, a reader, a dispatcher and a watcher; the queue is shared by all of
them. Kane is external and takes events as `ConnectorSession` says (`KaneHears`);
Codex is external and works on one native turn per thread. `slips` records four
ways in which the code loses track of a Turn: `unsent` (a frame that could not be
sent ends its dispatcher for good), `overtaken` (a watcher told the Turns before
all events of its app-server were handled, or awaits the process that came
after), `cut` (a new binding changed the dictionary a watcher was iterating, and
the rest of the Turns was not told), `stray` (an event was reported under the
binding of a later send).
`Spawning` is the one assumption about speed: spawning an app-server takes longer
than a watcher that is ready needs, so a new server answers its first request
only when the watchers that are ready have run. A watcher that wakes while the
process is being exchanged is in the model: it is the slip `overtaken`.

### How `TurnStream` corresponds to the code

The client's loop `listen()` is `phase`: load, open, stream, reload, backoff or
settled; `main` is the read it awaits and `sync` the read of `syncFacts()` beside
it. A read takes two steps, the one in which the server reads the Turn and the
one in which the page shows the answer, so that frames can come in between.
`newer` is the comparison of `snapshotVersion`. The Turn changes freely but is
saved, stamped and broadcast as the coordinator does it; `RunSilently` is the
revival of a Turn that is saved without an event.

## 3. Runs

| Run | Instance | What it shows |
|---|---|---|
| `harness_recovery` | 1 Turn, 3 inputs, 1 crash, all steer modes and events, built-in Agent, fair | type correctness; no input lost, duplicated, orphaned or raced for; mailboxes in order; no phantom run after restart; stopped Turns keep their output; `Harness` implements `DeliveryLedger`; startup ends and inputs move on, unless startup awaits a silent Agent |
| `connector_recovery` | 1 Turn, 2 inputs, 2 crashes, external Agent | the same promises while the Agent comes and goes, and the inductive invariant used by the proofs |
| `connector_progress` | 1 Turn, 3 inputs, 1 crash, external follow_up_only Agent, fair | startup ends, inputs move on and finished Turns drain, with the exceptions named below; and in each single state, a task exists for what waits behind a finished Turn |
| `followup_race` | 1 Turn, 3 inputs | *violated*: a queued follow-up is sent into a running Turn |
| `parallel_limit` | 2 Turns, 3 inputs | *violated*: a follow-up exceeds the parallel-session limit |
| `connector_session` | 2 sockets, 2 codes, 1 disconnect, 1 restart, 1 send, 1 permission answer, 2 events (a reply, a permission request) applied up to twice, memory of 1 id | credentials, futures and acknowledgements stay consistent whatever two sockets, the user and a restart do |
| `stale_socket` | the same without restart | *violated*: the handler of an old socket detaches the new one |
| `burned_code` | the same, events applied once | *violated*: a socket that shows the pairing code and fails before its hello uses the code up |
| `kanaloa_acp` | 1 Turn, 2 jobs (a send or a loop beside a send, a steer or a resume), 1 permission request, 2 iterations, 2 sessions, 1 death, 1 deletion | waiting Turns have their request, stopped loops end, nobody waits for nothing, completion needs an answer |
| `kanaloa_cancel` | 1 Turn, 2 sends, no death, fair | *violated*: the prompt of a cancelled Turn is written |
| `codex_connector` | 1 Turn, 2 sends, 2 app-servers, 1 lost socket or restart, 1 queued event, fair | events keep a reporter, commands end; without one of the four slips a Turn that is over is about to be told, and none is left active |
| `turn_stream` | 4 changes, 1 fault, fair | the streamed output is complete, newer events win, the page settles on the facts, and a settled page shows the Turn as it is |

### Bounds

*Harness.* `MaxMsgs` and `MaxCrashes` bound inputs and crashes. Three inputs let
one be delivered, one be queued and a third overtake or wait behind it; two
suffice where the questions concern one input and its neighbour, and three are
needed for a queue behind a finished Turn (`connector_progress`). With one crash
every prefix of a run meets reconciliation; the second crash of
`connector_recovery` reaches the inputs that the first startup skipped. One Turn
is enough for ledger and mailbox properties, which relate an input to its own
Turn; capacity couples Turns, hence two in `parallel_limit`. At most one cancel and one resume request per Turn is in
flight at a time. Nothing else is bounded: events, cancels, resumes and
pairings repeat freely.

*ConnectorSession.* The questions are about one socket and the one after it:
two. One identity is paired already, so two codes are one more pairing. The
memory of one event id and two events is the 4096-entry memory at its limit: the
first event is forgotten when the second comes. `MaxApplied` lets an event
through a second time; frames and answers are otherwise free.

*KanaloaAcp.* Two jobs are what a race needs: one that starts, prompts or loops,
one that comes in between. Two iterations are the smallest loop that can stop
before its limit. One death falls at any point; the second job then starts the
next process, and two sessions let a Turn have an old and a new one. One answer
to the permission request may be in flight beside another.

*CodexConnector.* Two sends make the binding of the first stale; two app-servers
make a watcher meet its successor; one loss or restart falls anywhere. The queue
holds one event beside the ends of readers, and a run makes one statement
between its start and its end: order and staleness need no more. The run has one
Turn; the slip `cut` needs a second one that is active and a third that gets its
first binding, and is covered by the proofs. Steers, cancels
and answers repeat freely. The proof of `IdleTurnsAreTold` covers every bound, and
its inductive invariant was checked beyond the run's: three sends and one loss,
3.9 million states. Without `Spawning` that invariant fails with three sends; the
proof attempt showed it where the run, with two, could not.

*TurnStream.* Four changes are a restart of a finished Turn, a chunk, a message
and an end; one fault is a broken stream, a failed read or a refresh. All
orderings of reads and frames between them occur.

Deadlock checking is off everywhere because each system may rest: Turns over,
bounds used up, the page settled.

### Fairness

*Harness.* `WF(LoopStep)`: the event loop runs every ready coroutine.
`WF(External /\ AdapterAnswers(m))` and `WF(External /\ ControlAnswers(t))`: a call
to a Connector returns or raises, after 30 s at the latest
(`connector_adapter.py:102`). No such thing is assumed of a built-in Agent:
Kanaloa awaits `session/new` without a time limit (`kanaloa_adapter.py:671`,
253-275; only `initialize` has one), so a process that lives and is silent keeps
its caller waiting for ever. `WF(Restart)`: a dead process is started again. Nothing is
assumed of users, Agents' events or crashes.

*ConnectorSession.* None; it has safety properties only.

*KanaloaAcp.* `FairSpec`, used by the violation run, has weak fairness of each
job's steps (the event loop, and DSH answering what it has received) and of the
reader seeing the end of the output, so that the counterexample is not a system
that stops.

*CodexConnector.* `WF(Handler)`: a request ends after 60 s at the latest
(`main.py`, `request`); `WF(Dispatch)`, `WF(Server(p))`: the event loop runs its
tasks; `WF(Reconnect)`: `run()` retries for ever; `WF(ExitIsSeen)`: the end of a
process shows. Nothing is assumed of Codex, Kane or the socket.

*TurnStream.* Weak fairness of the server's reads, of frames, timers and retries.
`SF(Loaded)`: the main read is not for ever slower than the refreshes that abort
it; the list poll of every 4 s restarts the page's effect, and a read that always
takes longer would never be shown.

### Exceptions the properties name

They are behaviour of the code and are kept in the model:

- Startup awaits each recovered delivery. While it awaits a built-in Agent that does
  not answer, the API does not serve (`StartupHangs`); `StartupEnds` and
  `InputsMoveOn` say that nothing else holds startup up.
- Inputs found at startup while the Agent was not paired stay in the ledger until
  the next restart (`skipped`), and when the task of a follow-up dies between the
  claim and the adapter call the inputs queued behind it wait for the next user
  message (`AbandonedClaim`).
- A coroutine of the Kanaloa adapter can hang in two cases: an event of a deleted
  Turn ends the reader task with an exception, and a steer is written while a
  process that failed to start is being stopped (`NobodyWaitsForNothing`).
- A Turn of Codex may stay active after one of the four slips
  (`NoTurnIsLeftActive`, `IdleTurnIsTold`).
- A steer at the head of a mailbox hides the follow-ups behind it from the end of the
  Turn; `DrainIsUnderWay` speaks of Turns that never had a steer, which are all
  Turns of a follow_up_only Agent.
- A client that streams keeps the text of a message that was recorded without
  ending the Turn, and appends the next chunks to it until the Turn ends; a read
  may show the end of the Turn before the frames that lead to it (`jumped`).

## 4. Findings

1. *Follow-up into a running Turn* (`followup_race`). `dispatcher.py:10` says
   follow_up_only inputs are dispatched when the current Turn finishes. The task
   that does so does not check the Turn again: if a direct message restarts the
   Turn first, the queued input is sent into the new run, and the task stores an
   outdated Turn object over the current one.
2. *Parallel limit* (`parallel_limit`). A test expects a second execution of a
   serial Agent to be refused. Only `dispatch_user_message` checks the limit; a
   follow-up starts its Turn without it.
3. *A live socket counts as offline* (`stale_socket`).
   `docs/KANE_CONNECTOR_PROTOCOL.md:141-142` says the live authenticated socket
   determines the online status. The `finally` block of a socket handler
   (`routes/connectors.py:291`) detaches the adapter whatever socket it is attached
   to: when the user disconnects the Agent and it pairs again before the old
   handler has ended, the new socket is dropped from the adapter, stays open, and
   its Turns are interrupted.
4. *The prompt of a cancelled Turn* (`kanaloa_cancel`). `dispatcher.py:489` says
   cancel aborts an active Turn. While the first send of a Turn still starts the
   process or awaits `session/new`, cancel finds no session and tells nobody
   (`kanaloa_adapter.py:857`); the Turn is interrupted, the send goes on and writes
   the prompt, and the Agent works on a cancelled Turn.
5. *A failed handshake uses the pairing code up* (`burned_code`).
   `docs/KANE_CONNECTOR_PROTOCOL.md:77-79` says the code is good for one successful
   handshake, without a time limit, and names what invalidates an unused code. The
   `finally` block of the socket handler (`routes/connectors.py:289`) drops the code
   of its socket however the handler ended: after a connection that breaks before
   its hello, or a late or malformed hello, the same code is refused.

## 5. Proofs

All theorems hold for any values of the constants that satisfy the module's one
assumption: any number of Turns, inputs, crashes, sockets, events, jobs, sizes
and bounds, and any capabilities of the Agent.

| Theorem | Module | Statement |
|---|---|---|
| `TypeCorrect` | `HarnessProofs` | `Spec => []TypeOK` |
| `LedgerConsistent` | `HarnessProofs` | `Spec => []LedgerInv` |
| `AtMostOnceHolds` | `HarnessProofs` | `Spec => []AtMostOnce` |
| `NoInputLost` | `HarnessProofs` | `Spec => []NoLostInput` |
| `LedgerImplemented` | `HarnessProofs` | `Spec => ImplementsLedger` |
| `MailboxHolds` | `MailboxProofs` | `Spec => []MailboxFaithful` |
| `OwnerIsUnique` | `MailboxProofs` | `Spec => []PendingHasOneOwner` |
| `NoPhantoms` | `TurnProofs` | `Spec => []NoPhantomRun` |
| `OutputIsKept` | `TurnProofs` | `Spec => StoppedTurnKeepsOutput` |
| `QueueIsDriven` | `TurnProofs` | `Spec => []DrainIsUnderWay` |
| `SessionTyped` | `ConnectorSessionProofs` | `Spec => []TypeOK` |
| `SessionConsistent` | `ConnectorSessionProofs` | `Spec => []SessionInv` |
| `AuthorityHolds` | `ConnectorSessionProofs` | `Spec => []AttachedIsAuthorised` |
| `NoOrphanedFuture` | `ConnectorSessionProofs` | `Spec => []FuturesHaveASocket` |
| `EventsOnce` | `ConnectorSessionProofs` | `Spec => []EventAppliedOnce` |
| `AckMeansApplied` | `ConnectorSessionProofs` | `Spec => []AckedWasApplied` |
| `AcpTyped` | `KanaloaAcpProofs` | `Spec => []TypeOK` |
| `StopHolds` | `KanaloaAcpProofs` | `Spec => []StopEndsLoop` |
| `CompletionHolds` | `KanaloaAcpProofs` | `Spec => CompletionNeedsAnAnswer` |
| `SomebodyAnswers` | `KanaloaWaitProofs` | `Spec => []NobodyWaitsForNothing` |
| `WaitingHasARequest` | `KanaloaWaitProofs` | `Spec => []WaitingTurnHasItsRequest` |
| `CodexTyped` | `CodexConnectorProofs` | `Spec => []TypeOK` |
| `EventsDispatched` | `CodexConnectorProofs` | `Spec => []EventsHaveADispatcher` |
| `IdleTurnsAreTold` | `CodexConnectorProofs` | `Spec => []IdleTurnIsTold` |
| `StreamTyped` | `TurnStreamProofs` | `Spec => []TypeOK` |
| `NewerEventShown` | `TurnStreamProofs` | `Spec => NewerEventWins` |
| `LiveOutputShown` | `TurnStreamProofs` | `Spec => []LiveOutputIsComplete` |
| `SettledShowsTheTurn` | `TurnStreamProofs` | `Spec => []SettledIsTheTurn` |

*Ledger* (`HarnessProofs`). `AtMostOnce` and `NoLostInput` are not inductive: a
state in which a delivered input still has a pending row satisfies both, and the
next claim delivers it again. `LedgerInv` adds `ClaimsAgree` (a pending row is
undelivered and claimed by nobody; a coroutine past its claim holds a row in
"dispatching" that is undelivered, and no other coroutine is past a claim of the
same input; a call in progress was counted once) and `RowsHaveTurns` (no row
outlives its Turn, which lets the claim of a follow-up whose conversation was
deleted fail). With `TypeOK` it is inductive; TLC checks it in
`connector_recovery`. Steps are sorted by what they do to the ledger: those that
leave it alone (`QuietSteps`), those that append, claim, deliver and complete, and
the deletion of a conversation. One lemma per kind shows that the invariant is
kept and that the step is the corresponding step, or a stutter, of
`DeliveryLedger` (`GoodStep`); then one step per action shows which kind it is.

*Owners* (`MailboxProofs`). That a pending input has *one* owner needs to know
where it can be. `OwnerInv` says that every pending input is with the handler that
appended it, with a scheduled task, in its Turn's mailbox, or on startup's list;
that a mailbox is sorted and holds only inputs no coroutine is busy with; and that
reconciliation takes rows in the order of arrival, so what it has queued is older
than what it has left, and appending keeps the mailbox sorted. Lemmas about sorted
sequences say what `Append`, `Tail` and `RemoveAt` do to order and contents.

*Turns* (`TurnProofs`). An active Turn with inputs is live, still to be probed, or
a coroutine is about to call the adapter for it (`PhantomInv`): the last case is
what makes the invariant survive the steps between the revival of a Turn and the
call. `OutputIsKept` is an action property: each action that empties the partial
output leaves the Turn in another state than interrupted or failed.

*Queues* (`TurnProofs`). `DrainIsUnderWay` is what makes `FinishedTurnDrains` true:
fairness only has to run the task it speaks of. It is inductive with `Fresh`: an
input whose task is scheduled is still as the mailbox left it, so its claim fails
only when the Turn was deleted (`NoLostInput`). Every step leaves each input
*driven* (scheduled, claimed, or abandoned with its claim) or takes its Turn out of
"finished", and a Turn gets into "finished" with a queue only by scheduling its
head. `OwnerInv` says that this head is pending, of this Turn and in nobody else's
hands, so that scheduling it does not undo an abandoned claim.

*Connector session* (`ConnectorSessionProofs`). `SessionInv` is `TypeOK` with
`SocketInv`, `FuturesHaveASocket` and `EventInv`. `AttachedIsAuthorised` needs
`CodeExcludesToken`: while a pairing code exists no token is stored and no socket
is attached, so the hello of a code holder cannot replace the token an attached
socket has shown. `EventInv`
relates effects to memory: what was applied is remembered or forgotten, and a
reply's message is stored at most once.

*Kanaloa* (`KanaloaAcpProofs`). `JobFacts` says what a job in each phase has (a
Turn; a session once created; a bound session for a resume): type correctness of
`owner` and `loaded` depends on it. `LoopInv` says that a registered loop is at a
prompt of its Turn, and that a stopped loop carries the flag and is still at the
prompt at which it was stopped; `StopEndsLoop` follows.

*Waiting* (`KanaloaWaitProofs`). Neither waiting property is inductive. `LockInv`
says that the lock is held exactly while its job starts or stops the subprocess,
and which states of the subprocess go with it. `ServedInv`, as long as no Turn was
deleted, says that a waiting request other than a steer has been received and has a
reader, and that while the process is being stopped no job is left that could
write another; it rests on the assumption of `LoopIsIdle` (a new process is slower
than the coroutines that are ready). `BindInv` says that a session belongs to one
Turn from its creation on: without it an answer or a withdrawal could move on the
wrong Turn, or an event of a session without an owner end the reader. `WaitInv`
gives each waiting Turn a prompt at work and a request that was neither answered
nor withdrawn.

*Codex Connector* (`CodexConnectorProofs`). `EventsHaveADispatcher` is not inductive:
with two app-servers on one queue, the end that one reader left may stop the
dispatcher the other one needs. `CodexInv` counts: unless a frame failed to be
sent, there are as many dispatchers as readers and ends in the queue together
(`CountInv`), and each end stops exactly one of them. Lemmas about the set of
positions of ends say what `Append` and `Tail` do to its cardinality. `RunInv` (what
Codex works on or has reported belongs to a Turn with a binding) and `CommandInv`
(what a handler is in the middle of) make types inductive.

`IdleTurnIsTold` is the safety core of `NoTurnIsLeftActive`: when neither a command nor
a native turn of an active Turn is at work, its end is in the queue in front of a
dispatcher that will get to it, or the watcher of an app-server that is gone will
find its native turn. `ToldInv` holds what that needs. Always: no Turn is active in
Kane while the link is down (`LinkInv`); Codex works only in a process that is read
and, by then, watched (`ServerInv`); a native turn begins only after `turn/start`
(`SendInv`); the end of a native turn is its last event, and whatever is queued is
followed by the end of a reader or by one that still reads (`QueueInv`). And unless
a slip came: Kane hears nothing of a send it has stored (`StoredInv`), a watcher
waits for the process it was made for (`WatcherInv`), an active Turn has a native
turn or is about to get one (`NativeInv`), and somebody will tell its end
(`TellerInv`). Steps are sorted into those that begin and report nothing (`Calm`),
those that move a send on, those that report, and those that take an event, with
one lemma per kind; a step that slips only has to keep the first four.

*Turn stream* (`TurnStreamProofs`). `StreamInv` is `TypeOK` with `NotAhead` (no
frame, on its way or shown, is newer than the Turn, and there are no more of them
than changes) and `NotBehind` (a read that may still be shown is not older than
the last frame).

`LiveOutputIsComplete` says of the frames on the way that each one continues what
precedes it: the first continues what the page shows, the last is the Turn as it
was broadcast (`Linked`). A broadcast appends a frame that continues the last
(`LinkedAppend`), a frame that is shown leaves the rest linked to the page
(`LinkedTail`), and a stream opens with an empty pipe and a page that has just read
the Turn. `CopyInv` says that what a read brings, and what a settled page shows, is
the Turn of that moment: equal to the Turn now unless it has changed since;
`SettledIsTheTurn` follows.

*Only model-checked*: the liveness properties (`StartupEnds`, `InputsMoveOn`,
`FinishedTurnDrains`, `CommandsEnd`, `NoTurnIsLeftActive`, `SettlesOnTheFacts`), since
liveness under fairness and `ENABLED` are beyond this prover. For three of them the
state that fairness starts from is proved: `QueueIsDriven` for `FinishedTurnDrains`,
`IdleTurnsAreTold` for `NoTurnIsLeftActive`, `SettledShowsTheTurn` for
`SettlesOnTheFacts`. Every invariant and every action property of a passing run is
a theorem.

## 6. Not modelled

- *Branches and history* (`create_branch`, `get_turn_history`, conversation focus):
  pure reads and inserts over stored messages that nothing in delivery reads back.
- *Local Bridge*: a separate legacy service with threads and JSON files; the V2 API
  does not call it and shares no state with it.
- *Kanaloa tools*: a tool server inside the Agent process; Kane sees nothing of it.
- *Kanaloa adapter*: the orderly close, activation without a Turn (it starts the
  process as a send does), the probe at startup (external to `Harness` as
  `KeepLive`), the thinking set, what a prompt contains.
- *Connector adapter*: steer, cancel and resume commands beyond the request table
  they share with `turn.send`.
- *Codex Connector*: pairing and the keyring, heartbeats, texts, a permission id
  reused by a later app-server. An app-server that cannot be spawned (the send is
  refused and nothing else changes), permission answers that are rejected as
  unknown, and drains that fail are no steps of the model. `turn.resume` and other
  decisions than the three of the protocol never arrive: the Connector declares
  `supports_resume` False (`main.py:179`, `dispatcher.py:516`) and Kane refuses the
  others (`connector_adapter.py:160`). An approval for a thread without a binding
  (`main.py:381-383`) cannot come, since a native turn begins after its thread was
  bound and bindings are never removed. A watcher's loop over the Turns is one
  step, whose outcome says which Turns were told.
- *Kanaloa adapter, refinements of steps*: the suspension while the operating
  system creates the process is part of the start (`LoopIsIdle`).
- *Boundary steers*: the adapter of the Turn is found when it is looked up
  (`coordinator.py:357`), since the signal comes from a registered adapter; no adapter
  of the repository sends one.
- *Turn stream*: a follow-up task that stores its outdated Turn object over a
  *running* Turn (`dispatcher.py:468-477`) also overwrites its partial output without
  an event; `RunSilently` covers Turns that are not running. The answers 401, 403 and 404,
  which end the hook for good (`use-turn.ts:112`), are a failed read like any other.
  Times are unique counters; two changes in one millisecond, which the list poll
  cannot tell apart (`conversation-workspace.tsx:63`), are not.
- *Agent routes, security middleware, settings*: stateless, or preferences that
  delivery does not depend on. *Mock adapter*: a test double that does less than
  the adapters of `Harness`. *Conformance kit, MCP server, start scripts*: tools.
- In `Harness`: titles, timestamps, message texts, artifacts, the orderly shutdown
  (a crash covers it).

Some behaviours are in the models without a property, because no text of the
repository promises otherwise and a property would only restate the code: permissions of a lost Connector session stay
listed; two answers to one permission request may both be written; two loops of
one Turn may overlap; a row whose send failed stays "dispatching" and interrupts
its Turn at each later restart.

What remains worth doing: a run identity in `Harness`, to state
what a late cancel may interrupt; `create_branch` and lineage as functions.
