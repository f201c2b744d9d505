------------------------------ MODULE TurnStream ------------------------------
(***************************************************************************)
(* A Turn as a browser shows it: the Turn of Kane's store, its live events *)
(* (HarnessCoordinator.subscribe, GET /turns/{id}/stream) and the hook     *)
(* useTurn of the web client, which reads the Turn over HTTP, then follows *)
(* the stream, and reads again beside it.                                  *)
(*                                                                         *)
(* How the Turn changes is Harness's subject. Here its changes are free,   *)
(* but they are saved, stamped and broadcast as the code does it. The Turn *)
(* is not deleted and the page stays on it.                                *)
(***************************************************************************)
EXTENDS Naturals, Sequences

CONSTANTS
    MaxChanges,  \* bound: changes of the Turn
    MaxFaults    \* bound: reads that fail, streams that break, refreshes by hand

ASSUME TurnStreamAssumption == MaxChanges \in Nat /\ MaxFaults \in Nat

VARIABLES
    turn,     \* the Turn in the store
    pipe,     \* frames of the client's stream that it has not read
    phase,    \* listen(): the client's loop
    main,     \* the read of load() that listen() awaits
    sync,     \* the read of syncFacts() in flight
    newer,    \* a frame has come in since that read was begun (snapshotVersion)
    loaded,   \* currentStatus is set
    shown,    \* detail
    heard,    \* history: when the last frame was true
    jumped,   \* history: a read has changed the course of the stream (below)
    faults

clientVars == <<phase, main, sync, newer, loaded, shown>>
vars       == <<turn, pipe, clientVars, heard, jumped, faults>>

Active   == {"running", "waiting_user"}
Over     == {"finished", "interrupted"}   \* "failed" has the effects of the second
Changes  == 0..MaxChanges

\* at: last_event_at; output: partial_output, by the changes that wrote it
Turn     == [status : Active \cup Over \cup {"unknown"}, output : Seq(Changes), at : Changes]
Unknown  == [status |-> "unknown", output |-> <<>>, at |-> 0]
NoRead   == [state |-> "none", turn |-> Unknown]
Asked    == [state |-> "asked", turn |-> Unknown]
Reads    == [state : {"none", "asked", "read"}, turn : Turn]
Frame    == [kind : {"snapshot", "delta", "status_change"}, turn : Turn]

Terminal(t) == t.status \in Over

TypeOK ==
    /\ turn \in Turn /\ turn.status # "unknown"
    /\ pipe \in Seq(Frame) /\ Len(pipe) <= MaxChanges + 1
    /\ phase # "stream" => pipe = <<>>
    /\ phase \in {"load", "open", "stream", "reload", "backoff", "settled"}
    /\ main \in Reads /\ (main.state # "none" <=> phase \in {"load", "reload"})
    /\ sync \in Reads /\ newer \in BOOLEAN /\ loaded \in BOOLEAN /\ shown \in Turn
    /\ heard \in Changes /\ jumped \in BOOLEAN /\ faults \in 0..MaxFaults

Init ==
    /\ turn \in [status : Active \cup Over, output : {<<>>}, at : {0}]
    /\ pipe = <<>>
    /\ phase = "load" /\ main = Asked /\ sync = NoRead /\ newer = FALSE
    /\ loaded = FALSE /\ shown = Unknown
    /\ heard = 0 /\ jumped = FALSE /\ faults = 0

-----------------------------------------------------------------------------
(* The Turn *)

Stamped(s, o) == [status |-> s, output |-> o, at |-> turn.at + 1]

(* Faulty variant: a stream that has ended stays subscribed.                *)
BroadcastToAll(k) == pipe' = Append(pipe, [kind |-> k, turn |-> turn'])

(* _broadcast_event: the queue of every open stream.                       *)
Broadcast(k) ==
    pipe' = IF phase = "stream" THEN Append(pipe, [kind |-> k, turn |-> turn']) ELSE pipe

Changed(s, o) == turn.at < MaxChanges /\ turn' = Stamped(s, o)

EmitDelta ==
    /\ Changed(turn.status, Append(turn.output, turn.at + 1))
    /\ Broadcast("delta")
    /\ UNCHANGED <<clientVars, heard, jumped, faults>>

(* A status the coordinator saves and broadcasts. A reply or a question    *)
(* that becomes a message empties the output; such a message that does not *)
(* end the Turn makes what a stream has shown so far differ from it.       *)
EmitStatus(s, recorded) ==
    /\ recorded => s # "interrupted"
    /\ s = "finished" => recorded
    /\ recorded /\ s # "waiting_user" => turn.status \in Active
    /\ Changed(s, IF recorded THEN <<>> ELSE turn.output)
    /\ Broadcast("status_change")
    /\ jumped' = (jumped \/ (recorded /\ s \in Active))
    /\ UNCHANGED <<clientVars, heard, faults>>

(* A revived, resumed or followed-up Turn: save_turn, and no event.        *)
RunSilently ==
    /\ turn.status # "running"
    /\ Changed("running", turn.output)
    /\ UNCHANGED <<pipe, clientVars, heard, jumped, faults>>

-----------------------------------------------------------------------------
(* The stream *)

(* A queue is registered and the Turn read in one step of the event loop.  *)
Subscribe ==
    /\ phase = "open"
    /\ phase' = "stream"
    /\ pipe' = <<[kind |-> "snapshot", turn |-> turn]>>
    /\ jumped' = FALSE
    /\ UNCHANGED <<turn, main, sync, newer, loaded, shown, heard, faults>>

(* The generator returns after a frame that says the Turn is over.         *)
EndsStream(f) == f.kind # "delta" /\ Terminal(f.turn)

(* What a frame says: a snapshot the status and the output, a delta one    *)
(* more chunk, a status change the status.                                 *)
Show(f) ==
    CASE f.kind = "snapshot" -> [f.turn EXCEPT !.at = shown.at]
      [] f.kind = "delta" -> [shown EXCEPT !.output = Append(@, f.turn.at), !.at = f.turn.at]
      [] OTHER            -> [shown EXCEPT !.status = f.turn.status, !.at = f.turn.at]

Overtake == newer' = (sync.state # "none") /\ UNCHANGED sync

(* syncFacts() does nothing while its last read is in flight.              *)
BeginSync ==
    IF sync.state = "none" THEN sync' = Asked /\ newer' = FALSE
                           ELSE Overtake

ReadFrame ==
    /\ phase = "stream" /\ pipe # <<>>
    /\ LET f == Head(pipe) IN
        /\ shown' = Show(f) /\ heard' = f.turn.at
        /\ IF f.kind = "status_change" THEN BeginSync ELSE Overtake
        /\ IF EndsStream(f) THEN phase' = "reload" /\ main' = Asked /\ pipe' = <<>>
                            ELSE pipe' = Tail(pipe) /\ UNCHANGED <<phase, main>>
    /\ UNCHANGED <<turn, loaded, jumped, faults>>

-----------------------------------------------------------------------------
(* Reads *)

ServerReads ==
    /\ LET answer == [state |-> "read", turn |-> turn] IN
        \/ main.state = "asked" /\ main' = answer /\ UNCHANGED sync
        \/ sync.state = "asked" /\ sync' = answer /\ UNCHANGED main
    /\ UNCHANGED <<turn, pipe, phase, newer, loaded, shown, heard, jumped, faults>>

(* load() before a stream, and after it.                                   *)
Loaded ==
    /\ main.state = "read"
    /\ main' = NoRead
    /\ shown' = main.turn /\ loaded' = TRUE
    /\ phase' = IF Terminal(main.turn) THEN "settled"
                ELSE IF phase = "load" THEN "open" ELSE "backoff"
    /\ UNCHANGED <<turn, pipe, sync, newer, heard, jumped, faults>>

Retry ==
    /\ phase = "backoff"
    /\ phase' = "load" /\ main' = Asked
    /\ UNCHANGED <<turn, pipe, sync, newer, loaded, shown, heard, jumped, faults>>

(* Faulty variant: polls only beside an open stream.                        *)
PollStream ==
    /\ phase = "stream"
    /\ loaded /\ ~Terminal(shown) /\ sync.state = "none"
    /\ sync' = Asked /\ newer' = FALSE
    /\ UNCHANGED <<turn, pipe, phase, main, loaded, shown, heard, jumped, faults>>

(* Every 3 s, as long as the Turn is not shown as over.                    *)
Poll ==
    /\ loaded /\ ~Terminal(shown) /\ sync.state = "none"
    /\ sync' = Asked /\ newer' = FALSE
    /\ UNCHANGED <<turn, pipe, phase, main, loaded, shown, heard, jumped, faults>>

(* Faulty variant: the output it reads replaces what was streamed.          *)
MergeAll(t) == t

(* Faulty variant: no read replaces the output.                             *)
MergeNone(t) == [t EXCEPT !.output = shown.output]

(* The output of an active Turn is the stream's.                           *)
Merge(t) == IF Terminal(t) THEN t ELSE [t EXCEPT !.output = shown.output]

(* Faulty variant: no comparison of versions.                               *)
SyncAlwaysWins ==
    /\ sync.state = "read"
    /\ sync' = NoRead /\ newer' = FALSE
    /\ shown' = Merge(sync.turn)
    /\ jumped' = (jumped \/ Terminal(sync.turn))
    /\ UNCHANGED <<turn, pipe, phase, main, loaded, heard, faults>>

(* load(true): a read that a frame has overtaken is dropped.               *)
Synced ==
    /\ sync.state = "read"
    /\ sync' = NoRead /\ newer' = FALSE
    /\ IF newer THEN UNCHANGED <<shown, jumped>>
       ELSE shown' = Merge(sync.turn) /\ jumped' = (jumped \/ Terminal(sync.turn))
    /\ UNCHANGED <<turn, pipe, phase, main, loaded, heard, faults>>

-----------------------------------------------------------------------------
(* Faults and refreshes *)

Fault == faults < MaxFaults /\ faults' = faults + 1

StreamBreaks ==
    /\ phase \in {"open", "stream"}
    /\ Fault
    /\ phase' = "backoff" /\ pipe' = <<>>
    /\ UNCHANGED <<turn, main, sync, newer, loaded, shown, heard, jumped>>

ReadFails ==
    /\ Fault
    /\ \/ main.state # "none" /\ main' = NoRead /\ phase' = "backoff" /\ UNCHANGED <<sync, newer>>
       \/ sync.state # "none" /\ sync' = NoRead /\ newer' = FALSE /\ UNCHANGED <<main, phase>>
    /\ UNCHANGED <<turn, pipe, loaded, shown, heard, jumped>>

(* refresh(): the effect runs again, its requests and stream are aborted.  *)
RunEffect ==
    /\ phase' = "load" /\ main' = Asked /\ sync' = NoRead /\ newer' = FALSE
    /\ loaded' = FALSE /\ pipe' = <<>>
    /\ UNCHANGED <<turn, shown, heard, jumped>>

RefreshByHand == Fault /\ RunEffect

(* The list of Turns, read every 4 s, knows a later event of a Turn shown  *)
(* as over (conversation-workspace.tsx).                                   *)
ListHasNews ==
    /\ Terminal(shown) /\ turn.at > shown.at
    /\ RunEffect
    /\ UNCHANGED faults

-----------------------------------------------------------------------------
Next ==
    \/ EmitDelta \/ RunSilently
    \/ \E s \in Active \cup Over, recorded \in BOOLEAN : EmitStatus(s, recorded)
    \/ Subscribe \/ ReadFrame
    \/ ServerReads \/ Loaded \/ Retry \/ Poll \/ Synced
    \/ StreamBreaks \/ ReadFails \/ RefreshByHand \/ ListHasNews

Spec == Init /\ [][Next]_vars

(* Requests are served, timers fire. Strong fairness for the main read: it *)
(* is not for ever slower than the refreshes that abort it.                *)
FairSpec ==
    /\ Spec
    /\ WF_vars(Subscribe) /\ WF_vars(ReadFrame) /\ WF_vars(ServerReads) /\ SF_vars(Loaded)
    /\ WF_vars(Retry) /\ WF_vars(Poll) /\ WF_vars(Synced) /\ WF_vars(ListHasNews)

-----------------------------------------------------------------------------
(* Properties *)

OutputAfter(output, f) ==
    CASE f.kind = "snapshot" -> f.turn.output
      [] f.kind = "delta"    -> Append(output, f.turn.at)
      [] OTHER               -> output

(* The output of the Turn when the i-th frame on the way was sent; before  *)
(* the first of them there is the one that is shown.                       *)
OutputAt(i) == IF i = 0 THEN shown.output ELSE pipe[i].turn.output

(* Rule 2 of VNEXT_UI_CONTRACT.md, "Apply snapshot, then accumulate        *)
(* deltas": frame by frame what a stream shows becomes the output the Turn *)
(* had when the frame was sent, and after the last one the Turn's output   *)
(* now: no chunk is lost between the reads and the stream, none is shown   *)
(* twice. Not after a message that did not end the Turn (the client keeps  *)
(* the output it was made of), nor after a read has shown the end of the   *)
(* Turn before the frames that lead to it.                                 *)
LiveOutputIsComplete ==
    phase = "stream" /\ ~jumped /\ ~(\E i \in DOMAIN pipe : EndsStream(pipe[i])) =>
        /\ \A i \in DOMAIN pipe : OutputAt(i) = OutputAfter(OutputAt(i - 1), pipe[i])
        /\ turn.output = OutputAt(Len(pipe))

(* "A newer live event always wins over a slower HTTP read" (use-turn.ts): *)
(* a read that is shown is never older than the last frame shown.          *)
NewerEventWins == [][shown'.at # shown.at => shown'.at >= heard']_vars

(* A page that is done and looks up to date shows the Turn and no mixture  *)
(* of two reads: any other difference is one that the poll (a Turn shown   *)
(* as active) or the list of Turns (a later event) will notice.            *)
SettledIsTheTurn ==
    phase = "settled" /\ Terminal(shown) /\ shown.at >= turn.at => shown = turn

(* Once the Turn is over for good the client shows it as it is, and is     *)
(* done, whatever was lost, late, restarted or not broadcast before.       *)
SettlesOnTheFacts == (<>[]Terminal(turn)) => <>[](phase = "settled" /\ shown = turn)
=============================================================================
