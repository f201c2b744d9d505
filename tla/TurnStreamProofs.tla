--------------------------- MODULE TurnStreamProofs ---------------------------
(***************************************************************************)
(* Proofs about TurnStream for any number of changes and faults.           *)
(***************************************************************************)
EXTENDS TurnStream, SequenceTheorems, TLAPS

(* Nothing on its way to the page is newer than the Turn, ...              *)
NotAhead ==
    /\ heard <= turn.at
    /\ \A i \in 1..Len(pipe) : pipe[i].turn.at <= turn.at
    /\ Len(pipe) <= turn.at + 1

(* ... and no read that may still be shown is older than the last frame:   *)
(* a frame that comes in during one of syncFacts marks it (newer), and     *)
(* none comes in while listen() awaits its own.                            *)
NotBehind ==
    /\ main.state = "read" => main.turn.at >= heard
    /\ sync.state = "read" /\ ~newer => sync.turn.at >= heard

StreamInv == TypeOK /\ NotAhead /\ NotBehind

-----------------------------------------------------------------------------
LEMMA TurnFacts ==
    /\ MaxChanges \in Nat /\ MaxFaults \in Nat
    /\ \A t \in Turn : /\ t.at \in Nat /\ t.at <= MaxChanges
                       /\ t.output \in Seq(Changes)
                       /\ t.status \in Active \cup Over \cup {"unknown"}
                       /\ t = [status |-> t.status, output |-> t.output, at |-> t.at]
    /\ Unknown \in Turn /\ NoRead \in Reads /\ Asked \in Reads
<1>1. MaxChanges \in Nat /\ MaxFaults \in Nat
  BY TurnStreamAssumption
<1>2. 0 \in Changes /\ <<>> \in Seq(Changes)
  BY <1>1 DEF Changes
<1>3. Unknown \in Turn
  BY <1>2 DEF Unknown, Turn
<1> QED
  BY <1>1, <1>3 DEF Turn, Changes, NoRead, Asked, Reads

LEMMA PipeFacts ==
    ASSUME TypeOK
    PROVE  /\ turn \in Turn /\ turn.at \in Nat /\ heard \in Nat /\ Len(pipe) \in Nat
           /\ \A i \in 1..Len(pipe) : /\ pipe[i] \in Frame /\ pipe[i].turn \in Turn
                                      /\ pipe[i].turn.at \in Nat
<1>1. turn \in Turn /\ pipe \in Seq(Frame) /\ heard \in Changes
  BY DEF TypeOK
<1>2. ASSUME NEW i \in 1..Len(pipe)
      PROVE  pipe[i] \in Frame /\ pipe[i].turn \in Turn /\ pipe[i].turn.at \in Nat
  <2>1. pipe[i] \in Frame
    BY <1>1, <1>2
  <2>2. pipe[i].turn \in Turn
    BY <2>1 DEF Frame
  <2> QED
    BY <2>1, <2>2, TurnFacts
<1> QED
  BY <1>1, <1>2, TurnFacts DEF Changes

(* What a broadcast adds to the pipe.                                      *)
LEMMA BroadcastStep ==
    ASSUME TypeOK, NotAhead, NEW k \in {"delta", "status_change"}, Broadcast(k),
           turn' \in Turn, turn'.at = turn.at + 1, UNCHANGED phase
    PROVE  /\ pipe' \in Seq(Frame)
           /\ Len(pipe') <= turn'.at + 1
           /\ phase' # "stream" => pipe' = <<>>
           /\ \A i \in 1..Len(pipe') : pipe'[i].turn.at <= turn'.at
<1> DEFINE f == [kind |-> k, turn |-> turn']
<1>1. f \in Frame /\ f.turn.at = turn.at + 1
  BY DEF Frame
<1>2. turn.at \in Nat /\ \A i \in 1..Len(pipe) : pipe[i].turn.at \in Nat
  BY PipeFacts
<1>3. CASE phase = "stream"
  <2>1. pipe' = Append(pipe, f)
    BY <1>3 DEF Broadcast
  <2>2. /\ pipe' \in Seq(Frame) /\ Len(pipe') = Len(pipe) + 1
        /\ \A i \in 1..Len(pipe) : pipe'[i] = pipe[i]
        /\ pipe'[Len(pipe) + 1] = f
    BY <1>1, <2>1 DEF TypeOK
  <2>3. ASSUME NEW i \in 1..Len(pipe')
        PROVE  pipe'[i].turn.at <= turn'.at
    <3>1. CASE i \in 1..Len(pipe)
      BY <1>2, <2>2, <3>1 DEF NotAhead
    <3>2. CASE i = Len(pipe) + 1
      BY <1>1, <1>2, <2>2, <3>2
    <3> QED
      BY <2>2, <3>1, <3>2 DEF TypeOK
  <2> QED
    BY <1>2, <1>3, <2>2, <2>3 DEF TypeOK, NotAhead
<1>4. CASE phase # "stream"
  BY <1>2, <1>4 DEF Broadcast, TypeOK, NotAhead
<1> QED
  BY <1>3, <1>4

(* Changes of the Turn.                                                    *)
LEMMA ChangeStep ==
    ASSUME StreamInv,
           \/ EmitDelta \/ RunSilently
           \/ \E s \in Active \cup Over, recorded \in BOOLEAN : EmitStatus(s, recorded)
    PROVE  StreamInv'
<1> USE TurnFacts DEF StreamInv
<1>1. ASSUME NEW s \in Active \cup Over, NEW o \in Seq(Changes), Changed(s, o)
      PROVE  turn' \in Turn /\ turn'.at = turn.at + 1 /\ turn'.status # "unknown"
  BY <1>1 DEF Changed, Stamped, Turn, TypeOK, Changes, Active, Over
<1>2. ASSUME NEW k \in {"delta", "status_change"}, Broadcast(k), UNCHANGED <<clientVars, heard, faults>>,
             turn' \in Turn, turn'.at = turn.at + 1, turn'.status # "unknown", jumped' \in BOOLEAN
      PROVE  StreamInv'
  <2>1. /\ pipe' \in Seq(Frame)
        /\ Len(pipe') <= turn'.at + 1
        /\ phase' # "stream" => pipe' = <<>>
        /\ \A i \in 1..Len(pipe') : pipe'[i].turn.at <= turn'.at
    BY <1>2, BroadcastStep DEF clientVars
  <2>2. turn'.at \in Nat /\ turn.at \in Nat /\ turn'.at <= MaxChanges /\ heard \in Nat
    BY <1>2 DEF TypeOK, Changes
  <2>3. Len(pipe') \in Nat
    BY <2>1
  <2>4. TypeOK'
    BY <1>2, <2>1, <2>2, <2>3 DEF TypeOK, clientVars
  <2>5. NotAhead'
    BY <1>2, <2>1, <2>2 DEF NotAhead
  <2> QED
    BY <1>2, <2>4, <2>5 DEF NotBehind, clientVars
<1>3. CASE EmitDelta
  <2>1. turn.status \in Active \cup Over /\ Append(turn.output, turn.at + 1) \in Seq(Changes)
    BY <1>3 DEF EmitDelta, Changed, TypeOK, Changes, Turn
  <2>2. turn' \in Turn /\ turn'.at = turn.at + 1 /\ turn'.status # "unknown"
    BY <1>1, <1>3, <2>1 DEF EmitDelta
  <2> QED
    BY <1>2, <1>3, <2>2 DEF EmitDelta, TypeOK
<1>4. ASSUME NEW s \in Active \cup Over, NEW recorded \in BOOLEAN, EmitStatus(s, recorded)
      PROVE  StreamInv'
  <2> DEFINE o == IF recorded THEN <<>> ELSE turn.output
  <2>0. o \in Seq(Changes) /\ Changed(s, o)
    <3>1. <<>> \in Seq(Changes) /\ turn.output \in Seq(Changes)
      BY PipeFacts
    <3> QED
      BY <1>4, <3>1 DEF EmitStatus
  <2>1. turn' \in Turn /\ turn'.at = turn.at + 1 /\ turn'.status # "unknown"
    <3> HIDE DEF o
    <3> QED
      BY <1>1, <2>0
  <2>2. jumped' \in BOOLEAN
    BY <1>4 DEF EmitStatus, TypeOK
  <2> QED
    BY <1>2, <1>4, <2>1, <2>2 DEF EmitStatus
<1>5. CASE RunSilently
  <2>1. turn' \in Turn /\ turn'.at = turn.at + 1 /\ turn'.status # "unknown"
    BY <1>1, <1>5 DEF RunSilently, TypeOK, Active
  <2>2. turn'.at \in Nat /\ turn.at \in Nat /\ heard \in Nat
    BY <2>1 DEF TypeOK, Changes
  <2>3. \A i \in 1..Len(pipe) : pipe[i].turn.at \in Nat
    BY PipeFacts
  <2>4. Len(pipe) \in Nat
    BY DEF TypeOK
  <2>5. TypeOK'
    BY <1>5, <2>1 DEF RunSilently, TypeOK, clientVars
  <2>6. NotAhead'
    BY <1>5, <2>1, <2>2, <2>3, <2>4 DEF RunSilently, NotAhead
  <2> QED
    BY <1>5, <2>5, <2>6 DEF RunSilently, NotBehind, clientVars
<1> QED
  BY <1>3, <1>4, <1>5

(* The stream and its frames.                                              *)
LEMMA FrameStep ==
    ASSUME StreamInv, Subscribe \/ ReadFrame
    PROVE  StreamInv'
<1> USE TurnFacts DEF StreamInv
<1>1. CASE Subscribe
  <2> DEFINE f == [kind |-> "snapshot", turn |-> turn]
  <2>1. f \in Frame /\ f.turn.at = turn.at /\ turn.at \in Nat
    BY DEF Frame, TypeOK
  <2>2. pipe' = <<f>> /\ pipe' \in Seq(Frame) /\ Len(pipe') = 1 /\ pipe'[1] = f
    BY <1>1, <2>1 DEF Subscribe
  <2>3. TypeOK'
    <3>1. /\ UNCHANGED <<turn, main, sync, newer, loaded, shown, heard, faults>>
          /\ phase = "open" /\ phase' = "stream" /\ jumped' = FALSE
      BY <1>1 DEF Subscribe
    <3>2. 1 <= MaxChanges + 1
      OBVIOUS
    <3> HIDE DEF f
    <3> QED
      BY <2>2, <3>1, <3>2 DEF TypeOK
  <2>4. NotAhead'
    BY <1>1, <2>1, <2>2 DEF Subscribe, NotAhead
  <2> QED
    BY <1>1, <2>3, <2>4 DEF Subscribe, NotBehind
<1>2. CASE ReadFrame
  <2> DEFINE f == Head(pipe)
  <2>1. /\ f \in Frame /\ Tail(pipe) \in Seq(Frame) /\ Len(Tail(pipe)) = Len(pipe) - 1
        /\ Len(pipe) \in Nat /\ Len(pipe) >= 1 /\ f = pipe[1]
        /\ \A i \in 1..Len(Tail(pipe)) : Tail(pipe)[i] = pipe[i + 1] /\ i + 1 \in 1..Len(pipe)
    BY <1>2 DEF ReadFrame, TypeOK
  <2>2. /\ f.turn \in Turn /\ f.turn.at \in Nat /\ f.turn.at <= turn.at /\ turn.at \in Nat
        /\ f.turn.at \in Changes /\ f.kind \in {"snapshot", "delta", "status_change"}
    BY <2>1 DEF Frame, NotAhead, TypeOK, Turn
  <2>3. Show(f) \in Turn
    <3>1. CASE f.kind = "snapshot"
      BY <2>2, <3>1 DEF Show, TypeOK, Turn
    <3>2. CASE f.kind = "delta"
      <4>1. shown.status \in Active \cup Over \cup {"unknown"} /\ Append(shown.output, f.turn.at) \in Seq(Changes)
        BY <2>2 DEF TypeOK, Turn
      <4>2. Show(f) = [status |-> shown.status, output |-> Append(shown.output, f.turn.at), at |-> f.turn.at]
        BY <2>2, <3>2 DEF Show, TypeOK, Turn
      <4> QED
        BY <2>2, <4>1, <4>2 DEF Turn
    <3>3. CASE f.kind = "status_change"
      BY <2>2, <3>3 DEF Show, TypeOK, Turn
    <3> QED
      BY <2>2, <3>1, <3>2, <3>3
  <2>4. /\ shown' = Show(f) /\ heard' = f.turn.at
        /\ UNCHANGED <<turn, loaded, jumped, faults>>
        /\ \/ phase' = "reload" /\ main' = Asked /\ pipe' = <<>>
           \/ pipe' = Tail(pipe) /\ phase' = phase /\ main' = main
        /\ \/ sync.state = "none" /\ sync' = Asked /\ newer' = FALSE
           \/ newer' = (sync.state # "none") /\ sync' = sync
        /\ phase = "stream" /\ main.state = "none"
    BY <1>2 DEF ReadFrame, BeginSync, Overtake, TypeOK
  <2>5. /\ pipe' \in Seq(Frame) /\ Len(pipe') \in Nat /\ Len(pipe') <= Len(pipe)
        /\ \A i \in 1..Len(pipe') : pipe'[i].turn.at <= turn.at
    <3>1. CASE pipe' = <<>>
      BY <2>1, <3>1
    <3>2. CASE pipe' = Tail(pipe)
      BY <2>1, <3>2 DEF NotAhead
    <3> QED
      BY <2>4, <3>1, <3>2
  <2>6. TypeOK'
    <3>1. Asked.state = "asked" /\ Asked \in Reads
      BY DEF Asked
    <3>2. /\ main' \in Reads /\ phase' \in {"stream", "reload"}
          /\ main'.state # "none" <=> phase' \in {"load", "reload"}
          /\ phase' # "stream" => pipe' = <<>>
      BY <2>4, <3>1 DEF TypeOK
    <3>3. sync' \in Reads /\ newer' \in BOOLEAN
      BY <2>4, <3>1 DEF TypeOK
    <3>4. Len(pipe') <= MaxChanges + 1
      BY <2>1, <2>5 DEF TypeOK
    <3> HIDE DEF f
    <3> QED
      BY <2>2, <2>3, <2>4, <2>5, <3>2, <3>3, <3>4 DEF TypeOK
  <2>7. NotAhead'
    BY <2>1, <2>2, <2>4, <2>5 DEF NotAhead
  <2>8. NotBehind'
    <3>1. Asked.state = "asked"
      BY DEF Asked
    <3>2. main'.state # "read"
      BY <2>4, <3>1
    <3>3. sync'.state = "read" => newer'
      BY <2>4, <3>1
    <3> QED
      BY <3>2, <3>3 DEF NotBehind
  <2> QED
    BY <2>6, <2>7, <2>8
<1> QED
  BY <1>1, <1>2

(* Reads, faults and refreshes.                                            *)
LEMMA ReadStep ==
    ASSUME StreamInv,
           \/ ServerReads \/ Loaded \/ Retry \/ Poll \/ Synced
           \/ StreamBreaks \/ ReadFails \/ RefreshByHand \/ ListHasNews
    PROVE  StreamInv'
<1> USE TurnFacts DEF StreamInv
<1>0. turn.at \in Nat /\ heard \in Nat /\ main.turn \in Turn /\ sync.turn \in Turn
  BY DEF TypeOK, Reads, Changes
<1>1. CASE ServerReads
  <2>1. [state |-> "read", turn |-> turn] \in Reads
    BY DEF Reads, TypeOK
  <2>2. TypeOK'
    BY <1>1, <2>1 DEF ServerReads, TypeOK
  <2>3. NotBehind'
    BY <1>0, <1>1 DEF ServerReads, NotBehind, NotAhead
  <2> QED
    BY <1>1, <2>2, <2>3 DEF ServerReads, NotAhead
<1>2. CASE Loaded
  BY <1>0, <1>2 DEF Loaded, TypeOK, NoRead, NotAhead, NotBehind
<1>3. CASE Retry
  BY <1>3 DEF Retry, TypeOK, Asked, NotAhead, NotBehind
<1>4. CASE Poll
  BY <1>4 DEF Poll, TypeOK, Asked, NotAhead, NotBehind
<1>5. CASE Synced
  <2>1. Merge(sync.turn) \in Turn
    BY <1>0 DEF Merge, TypeOK, Turn
  <2> QED
    BY <1>5, <2>1 DEF Synced, TypeOK, NoRead, NotAhead, NotBehind
<1>a. <<>> \in Seq(Frame) /\ Len(<<>>) = 0
  OBVIOUS
<1>b. /\ NoRead \in Reads /\ NoRead.state = "none"
      /\ Asked \in Reads /\ Asked.state = "asked"
  BY DEF NoRead, Asked
<1>c. ASSUME UNCHANGED <<turn, heard, jumped>>, pipe' = <<>> \/ UNCHANGED pipe,
             main' \in {main, NoRead, Asked}, sync' \in {sync, NoRead},
             newer' = newer \/ sync' = NoRead
      PROVE  NotAhead' /\ NotBehind'
  <2>1. NotAhead'
    <3>1. CASE pipe' = <<>>
      BY <1>0, <1>a, <1>c, <3>1 DEF NotAhead
    <3>2. CASE UNCHANGED pipe
      BY <1>c, <3>2 DEF NotAhead
    <3> QED
      BY <1>c, <3>1, <3>2
  <2>2. NotBehind'
    BY <1>b, <1>c DEF NotBehind
  <2> QED
    BY <2>1, <2>2
<1>d. Fault => faults' \in 0..MaxFaults
  BY DEF Fault, TypeOK
<1>6. CASE StreamBreaks
  <2>1. TypeOK'
    BY <1>6, <1>a, <1>d DEF StreamBreaks, TypeOK
  <2> QED
    BY <1>6, <1>c, <2>1 DEF StreamBreaks
<1>7. CASE ReadFails
  <2>1. phase' # "stream" => pipe' = <<>>
    BY <1>7 DEF ReadFails, TypeOK
  <2>2. /\ main' \in {main, NoRead} /\ sync' \in {sync, NoRead} /\ newer' \in BOOLEAN
        /\ newer' = newer \/ sync' = NoRead
        /\ main'.state # "none" <=> phase' \in {"load", "reload"}
        /\ phase' \in {phase, "backoff"}
        /\ UNCHANGED <<turn, pipe, loaded, shown, heard, jumped>>
    BY <1>7, <1>b DEF ReadFails, TypeOK
  <2>3. TypeOK'
    BY <1>7, <1>b, <1>d, <2>1, <2>2 DEF ReadFails, TypeOK
  <2> QED
    BY <1>c, <2>2, <2>3
<1>e. ASSUME RunEffect, faults' \in 0..MaxFaults
      PROVE  StreamInv'
  <2>1. TypeOK'
    <3>1. /\ phase' = "load" /\ main' = Asked /\ sync' = NoRead /\ newer' = FALSE
          /\ loaded' = FALSE /\ pipe' = <<>> /\ UNCHANGED <<turn, shown, heard, jumped>>
      BY <1>e DEF RunEffect
    <3>2. pipe' \in Seq(Frame) /\ Len(pipe') <= MaxChanges + 1
      BY <1>a, <3>1
    <3>3. main' \in Reads /\ sync' \in Reads /\ main'.state = "asked"
      BY <1>b, <3>1
    <3> QED
      BY <1>e, <3>1, <3>2, <3>3 DEF TypeOK
  <2> QED
    BY <1>c, <1>e, <2>1 DEF RunEffect
<1>8. CASE RefreshByHand
  BY <1>8, <1>d, <1>e DEF RefreshByHand
<1>9. CASE ListHasNews
  BY <1>9, <1>e DEF ListHasNews, TypeOK
<1> QED
  BY <1>1, <1>2, <1>3, <1>4, <1>5, <1>6, <1>7, <1>8, <1>9

LEMMA StreamConsistent == Spec => []StreamInv
<1>1. Init => StreamInv
  <2> SUFFICES ASSUME Init
               PROVE  StreamInv
    OBVIOUS
  <2>1. /\ <<>> \in Seq(Changes) /\ <<>> \in Seq(Frame) /\ Len(<<>>) = 0
        /\ 0 \in Changes /\ 0 \in 0..MaxFaults /\ 0 <= MaxChanges + 1
    BY TurnFacts DEF Changes
  <2>2. turn \in Turn /\ turn.status # "unknown" /\ turn.at = 0
    BY <2>1 DEF Init, Turn, Active, Over
  <2>3. Asked.state = "asked" /\ NoRead.state = "none"
    BY DEF Asked, NoRead
  <2>4. TypeOK
    BY <2>1, <2>2, <2>3, TurnFacts DEF Init, TypeOK
  <2>5. NotAhead /\ NotBehind
    BY <2>1, <2>2, <2>3 DEF Init, NotAhead, NotBehind
  <2> QED
    BY <2>4, <2>5 DEF StreamInv
<1>2. StreamInv /\ [Next]_vars => StreamInv'
  <2>1. CASE UNCHANGED vars
    BY <2>1 DEF vars, clientVars, StreamInv, TypeOK, NotAhead, NotBehind
  <2> QED
    BY <2>1, ChangeStep, FrameStep, ReadStep DEF Next
<1> QED
  BY <1>1, <1>2, PTL DEF Spec

-----------------------------------------------------------------------------
(* The state of the page and of its reads is well typed, and the pipe of a *)
(* stream is bounded by the changes of the Turn.                           *)
THEOREM StreamTyped == Spec => []TypeOK
<1> QED
  BY StreamConsistent, PTL DEF StreamInv

(* A read never replaces what a newer frame has shown, however slow it is  *)
(* (load() and its comparison of snapshotVersion, use-turn.ts).            *)
THEOREM NewerEventShown == Spec => NewerEventWins
<1>1. StreamInv /\ [Next]_vars => (shown'.at # shown.at => shown'.at >= heard')
  <2> SUFFICES ASSUME StreamInv, [Next]_vars, shown'.at # shown.at
               PROVE  shown'.at >= heard'
    OBVIOUS
  <2> USE TurnFacts DEF StreamInv
  <2>1. CASE ReadFrame
    <3>1. Head(pipe) \in Frame /\ Head(pipe).turn.at \in Nat
      <4>1. pipe \in Seq(Frame) /\ pipe # <<>>
        BY <2>1 DEF ReadFrame, TypeOK
      <4>2. Head(pipe) = pipe[1] /\ 1 \in 1..Len(pipe)
        BY <4>1
      <4> QED
        BY <4>2, PipeFacts
    <3>2. shown'.at \in {shown.at, Head(pipe).turn.at} /\ heard' = Head(pipe).turn.at
      BY <2>1, <3>1 DEF ReadFrame, Show, Frame, TypeOK, Turn
    <3> QED
      BY <3>1, <3>2
  <2>2. CASE Loaded
    BY <2>2 DEF Loaded, NotBehind
  <2>3. CASE Synced
    <3>1. Merge(sync.turn).at = sync.turn.at
      BY DEF Merge, TypeOK, Reads, Turn
    <3> QED
      BY <2>3, <3>1 DEF Synced, NotBehind
  <2>4. CASE UNCHANGED shown
    BY <2>4
  <2> QED
    BY <2>1, <2>2, <2>3, <2>4
    DEF Next, vars, clientVars, EmitDelta, EmitStatus, RunSilently, Subscribe, ServerReads, Retry, Poll,
        StreamBreaks, ReadFails, RefreshByHand, ListHasNews, RunEffect
<1> QED
  BY <1>1, StreamConsistent, PTL DEF Spec, NewerEventWins

-----------------------------------------------------------------------------
(* What the stream shows, frame by frame: LiveOutputIsComplete as a        *)
(* relation of a page, a sequence of frames and a Turn.                    *)
OutputIn(s, q, i) == IF i = 0 THEN s.output ELSE q[i].turn.output

Linked(s, q, t) ==
    /\ \A i \in DOMAIN q : OutputIn(s, q, i) = OutputAfter(OutputIn(s, q, i - 1), q[i])
    /\ t.output = OutputIn(s, q, Len(q))

Ending(q) == \E i \in DOMAIN q : EndsStream(q[i])

LEMMA LiveOutputLinks ==
    /\ LiveOutputIsComplete <=>
           (phase = "stream" /\ ~jumped /\ ~Ending(pipe) => Linked(shown, pipe, turn))
    /\ LiveOutputIsComplete' <=>
           (phase' = "stream" /\ ~jumped' /\ ~Ending(pipe') => Linked(shown', pipe', turn'))
  BY DEF LiveOutputIsComplete, OutputAt, OutputIn, Linked, Ending, EndsStream, Terminal, OutputAfter

LEMMA LinkedAppend ==
    ASSUME NEW s, NEW q \in Seq(Frame), NEW t, Linked(s, q, t), NEW f \in Frame,
           f.turn.output = OutputAfter(t.output, f)
    PROVE  Linked(s, Append(q, f), f.turn)
<1> DEFINE r == Append(q, f)
           n == Len(q)
<1>1. /\ n \in Nat /\ DOMAIN q = 1..n /\ DOMAIN r = 1..(n + 1) /\ Len(r) = n + 1
      /\ \A i \in 1..n : r[i] = q[i]
      /\ r[n + 1] = f
  OBVIOUS
<1> HIDE DEF r, n
<1>2. \A i \in 0..n : OutputIn(s, r, i) = OutputIn(s, q, i)
  BY <1>1 DEF OutputIn
<1>3. OutputIn(s, r, n + 1) = f.turn.output
  BY <1>1 DEF OutputIn
<1>4. /\ \A i \in 1..n : OutputIn(s, q, i) = OutputAfter(OutputIn(s, q, i - 1), q[i])
      /\ t.output = OutputIn(s, q, n)
  BY <1>1 DEF Linked, n
<1>5. ASSUME NEW i \in 1..(n + 1)
      PROVE  OutputIn(s, r, i) = OutputAfter(OutputIn(s, r, i - 1), r[i])
  <2>1. CASE i = n + 1
    <3>1. i - 1 = n /\ n \in 0..n
      BY <1>1, <2>1
    <3> QED
      BY <1>1, <1>2, <1>3, <1>4, <2>1, <3>1
  <2>2. CASE i # n + 1
    <3>1. i \in 1..n /\ i \in 0..n /\ i - 1 \in 0..n
      BY <1>1, <2>2
    <3> QED
      BY <1>1, <1>2, <1>4, <3>1
  <2> QED
    BY <2>1, <2>2
<1> QED
  BY <1>1, <1>3, <1>5 DEF Linked, r

LEMMA LinkedTail ==
    ASSUME NEW s, NEW u, NEW q \in Seq(Frame), q # <<>>, NEW t, Linked(s, q, t),
           u.output = OutputAfter(s.output, q[1])
    PROVE  Linked(u, Tail(q), t)
<1> DEFINE r == Tail(q)
           n == Len(q)
<1>1. /\ n \in Nat /\ n >= 1 /\ DOMAIN q = 1..n /\ DOMAIN r = 1..(n - 1) /\ Len(r) = n - 1
      /\ \A i \in 1..(n - 1) : r[i] = q[i + 1]
  OBVIOUS
<1> HIDE DEF r, n
<1>2. /\ \A i \in 1..n : OutputIn(s, q, i) = OutputAfter(OutputIn(s, q, i - 1), q[i])
      /\ t.output = OutputIn(s, q, n)
  BY <1>1 DEF Linked, n
<1>3. u.output = OutputIn(s, q, 1)
  <2>1. 1 \in 1..n /\ 1 - 1 = 0 /\ OutputIn(s, q, 0) = s.output
    BY <1>1 DEF OutputIn
  <2> QED
    BY <1>2, <2>1
<1>4. \A i \in 0..(n - 1) : OutputIn(u, r, i) = OutputIn(s, q, i + 1)
  BY <1>1, <1>3 DEF OutputIn
<1>5. ASSUME NEW i \in 1..(n - 1)
      PROVE  OutputIn(u, r, i) = OutputAfter(OutputIn(u, r, i - 1), r[i])
  <2>1. /\ i \in 0..(n - 1) /\ i - 1 \in 0..(n - 1) /\ i + 1 \in 1..n
        /\ (i - 1) + 1 = i /\ (i + 1) - 1 = i
    BY <1>1
  <2>2. OutputIn(u, r, i) = OutputIn(s, q, i + 1) /\ OutputIn(u, r, i - 1) = OutputIn(s, q, i)
    BY <1>4, <2>1
  <2> QED
    BY <1>1, <1>2, <2>1, <2>2
<1>6. OutputIn(u, r, n - 1) = t.output
  <2>1. n - 1 \in 0..(n - 1) /\ (n - 1) + 1 = n
    BY <1>1
  <2> QED
    BY <1>2, <1>4, <2>1
<1> QED
  BY <1>1, <1>5, <1>6 DEF Linked, r

(* A frame is read: what is shown is the output after it.                  *)
LEMMA ShownAfterFrame ==
    ASSUME NEW f \in Frame, shown \in Turn
    PROVE  Show(f).output = OutputAfter(shown.output, f)
<1>1. f.kind \in {"snapshot", "delta", "status_change"} /\ f.turn \in Turn
  BY DEF Frame
<1>2. CASE f.kind = "snapshot"
  BY <1>1, <1>2 DEF Show, OutputAfter, Turn
<1>3. CASE f.kind = "delta"
  BY <1>1, <1>3 DEF Show, OutputAfter, Turn
<1>4. CASE f.kind = "status_change"
  BY <1>1, <1>4 DEF Show, OutputAfter, Turn
<1> QED
  BY <1>1, <1>2, <1>3, <1>4

(* A frame is broadcast: it ends the stream, or it adds to the page what   *)
(* the Turn's output has gained.                                           *)
LEMMA LongerStream ==
    ASSUME StreamInv, StreamInv', LiveOutputIsComplete, NEW k \in {"delta", "status_change"},
           Broadcast(k), UNCHANGED <<phase, shown>>, jumped => jumped',
           ~jumped' => \/ turn'.output = OutputAfter(turn.output, [kind |-> k, turn |-> turn'])
                       \/ EndsStream([kind |-> k, turn |-> turn'])
    PROVE  LiveOutputIsComplete'
<1> DEFINE f == [kind |-> k, turn |-> turn']
<1> SUFFICES ASSUME phase' = "stream", ~jumped', ~Ending(pipe')
             PROVE  Linked(shown', pipe', turn')
  BY LiveOutputLinks
<1>1. pipe' = Append(pipe, f)
  BY DEF Broadcast
<1>2. pipe \in Seq(Frame) /\ f \in Frame /\ f.turn = turn'
  BY DEF StreamInv, TypeOK, Frame
<1>3. ~Ending(pipe) /\ ~EndsStream(f)
  <2> HIDE DEF f
  <2>1. /\ Len(pipe) \in Nat /\ DOMAIN pipe = 1..Len(pipe) /\ DOMAIN pipe' = 1..(Len(pipe) + 1)
        /\ \A i \in 1..Len(pipe) : pipe'[i] = pipe[i]
        /\ pipe'[Len(pipe) + 1] = f
    BY <1>1, <1>2
  <2> QED
    BY <2>1 DEF Ending
<1>4. Linked(shown, pipe, turn)
  BY <1>3, LiveOutputLinks
<1>5. f.turn.output = OutputAfter(turn.output, f)
  BY <1>2, <1>3
<1> HIDE DEF f
<1> QED
  BY <1>1, <1>2, <1>4, <1>5, LinkedAppend

LEMMA LiveOutputStep ==
    StreamInv /\ StreamInv' /\ LiveOutputIsComplete /\ [Next]_vars => LiveOutputIsComplete'
<1> SUFFICES ASSUME StreamInv, StreamInv', LiveOutputIsComplete, [Next]_vars
             PROVE  LiveOutputIsComplete'
  OBVIOUS
<1>0. turn \in Turn /\ shown \in Turn /\ turn.at \in Nat
  BY TurnFacts DEF StreamInv, TypeOK
<1>1. CASE EmitDelta
  <2>1. turn'.at = turn.at + 1 /\ turn'.output = Append(turn.output, turn.at + 1)
    BY <1>1 DEF EmitDelta, Changed, Stamped
  <2>2. turn'.output = OutputAfter(turn.output, [kind |-> "delta", turn |-> turn'])
    BY <2>1 DEF OutputAfter
  <2> QED
    BY <1>1, <2>2, LongerStream DEF EmitDelta, clientVars
<1>2. ASSUME NEW s \in Active \cup Over, NEW recorded \in BOOLEAN, EmitStatus(s, recorded)
      PROVE  LiveOutputIsComplete'
  <2>1. /\ turn'.status = s
        /\ turn'.output = IF recorded THEN <<>> ELSE turn.output
        /\ jumped' = (jumped \/ (recorded /\ s \in Active))
        /\ Broadcast("status_change") /\ UNCHANGED <<phase, shown>>
    BY <1>2 DEF EmitStatus, Changed, Stamped, clientVars
  <2>2. s \in Active \/ EndsStream([kind |-> "status_change", turn |-> turn'])
    BY <2>1 DEF EndsStream, Terminal
  <2>3. ~recorded => turn'.output = OutputAfter(turn.output, [kind |-> "status_change", turn |-> turn'])
    BY <2>1 DEF OutputAfter
  <2> QED
    BY <2>1, <2>2, <2>3, LongerStream
<1>3. CASE RunSilently
  BY <1>3 DEF RunSilently, Changed, Stamped, clientVars, LiveOutputIsComplete, OutputAt, EndsStream,
              Terminal, OutputAfter
<1>4. CASE Subscribe
  <2> DEFINE f == [kind |-> "snapshot", turn |-> turn]
  <2>1. pipe' = <<f>> /\ turn' = turn
    BY <1>4 DEF Subscribe
  <2>2. DOMAIN pipe' = {1} /\ Len(pipe') = 1 /\ pipe'[1] = f
    BY <2>1
  <2>3. Linked(shown', pipe', turn')
    BY <2>1, <2>2 DEF Linked, OutputIn, OutputAfter
  <2> QED
    BY <2>3, LiveOutputLinks
<1>5. CASE ReadFrame
  <2>1. /\ pipe # <<>> /\ UNCHANGED <<turn, jumped>> /\ phase = "stream"
        /\ shown' = Show(Head(pipe))
        /\ \/ phase' = "reload"
           \/ ~EndsStream(Head(pipe)) /\ pipe' = Tail(pipe)
    BY <1>5 DEF ReadFrame
  <2>2. /\ pipe \in Seq(Frame) /\ Head(pipe) = pipe[1] /\ pipe[1] \in Frame
        /\ Len(pipe) \in Nat /\ Len(pipe) >= 1
        /\ DOMAIN pipe = 1..Len(pipe) /\ DOMAIN Tail(pipe) = 1..(Len(pipe) - 1)
        /\ \A i \in 1..(Len(pipe) - 1) : Tail(pipe)[i] = pipe[i + 1]
    <3>1. pipe \in Seq(Frame)
      BY DEF StreamInv, TypeOK
    <3> QED
      BY <2>1, <3>1
  <2> SUFFICES ASSUME phase' = "stream", ~jumped, ~Ending(pipe')
               PROVE  Linked(shown', pipe', turn')
    BY <2>1, LiveOutputLinks
  <2>3. ~EndsStream(pipe[1]) /\ pipe' = Tail(pipe)
    BY <2>1, <2>2
  <2>4. ~Ending(pipe)
    <3> SUFFICES ASSUME NEW i \in 1..Len(pipe), EndsStream(pipe[i])
                 PROVE  FALSE
      BY <2>2 DEF Ending
    <3>1. i # 1
      BY <2>3
    <3>2. i - 1 \in 1..(Len(pipe) - 1) /\ (i - 1) + 1 = i
      BY <2>2, <3>1
    <3> QED
      BY <2>2, <2>3, <3>2 DEF Ending
  <2>5. Linked(shown, pipe, turn)
    BY <2>1, <2>4, LiveOutputLinks
  <2>6. shown'.output = OutputAfter(shown.output, pipe[1])
    BY <1>0, <2>1, <2>2, ShownAfterFrame
  <2> QED
    BY <2>1, <2>2, <2>3, <2>5, <2>6, LinkedTail
<1>6. CASE Synced
  <2>1. jumped' \/ shown'.output = shown.output
    <3>1. sync.turn \in Turn
      BY DEF StreamInv, TypeOK, Reads
    <3> QED
      BY <1>6, <3>1 DEF Synced, Merge, Turn
  <2> QED
    BY <1>6, <2>1 DEF Synced, LiveOutputIsComplete, OutputAt, EndsStream, Terminal, OutputAfter
<1>7. CASE Loaded
  <2>1. phase' # "stream"
    BY <1>7 DEF Loaded, StreamInv, TypeOK
  <2> QED
    BY <2>1 DEF LiveOutputIsComplete
<1>8. CASE Retry \/ StreamBreaks \/ RefreshByHand \/ ListHasNews
  BY <1>8 DEF Retry, StreamBreaks, RefreshByHand, ListHasNews, RunEffect, LiveOutputIsComplete
<1>9. CASE UNCHANGED <<turn, pipe, shown, jumped>> /\ phase' \in {phase, "backoff"}
  BY <1>9 DEF LiveOutputIsComplete, OutputAt, EndsStream, Terminal, OutputAfter
<1> QED
  BY <1>1, <1>2, <1>3, <1>4, <1>5, <1>6, <1>7, <1>8, <1>9
  DEF Next, vars, clientVars, ServerReads, Poll, ReadFails

(* While a stream is open, what it shows and will show of the frames on    *)
(* the way is the Turn's output, chunk by chunk (subscribe() in            *)
(* coordinator.py and the frames of use-turn.ts).                          *)
THEOREM LiveOutputShown == Spec => []LiveOutputIsComplete
<1>1. Init => LiveOutputIsComplete
  BY DEF Init, LiveOutputIsComplete
<1> QED
  BY <1>1, LiveOutputStep, StreamConsistent, PTL DEF Spec

-----------------------------------------------------------------------------
(* Stamps tell the states of the Turn apart: a copy of it is never ahead,  *)
(* and one with the stamp of the Turn is the Turn.                         *)
IsCopy(t) == t.at <= turn.at /\ (t.at = turn.at => t = turn)

CopyInv ==
    /\ main.state = "read" => IsCopy(main.turn)
    /\ sync.state = "read" => IsCopy(sync.turn)
    /\ phase = "settled" /\ Terminal(shown) => IsCopy(shown)

LEMMA CopyStep == StreamInv /\ CopyInv /\ [Next]_vars => CopyInv'
<1> SUFFICES ASSUME StreamInv, CopyInv, [Next]_vars
             PROVE  CopyInv'
  OBVIOUS
<1> USE TurnFacts DEF CopyInv
<1>0. /\ turn.at \in Nat /\ shown.at \in Nat /\ main.turn.at \in Nat /\ sync.turn.at \in Nat
      /\ NoRead.state = "none" /\ Asked.state = "asked"
      /\ sync.turn \in Turn /\ shown \in Turn
  BY DEF StreamInv, TypeOK, Reads, NoRead, Asked
<1>1. ASSUME NEW s, NEW o, Changed(s, o), UNCHANGED clientVars
      PROVE  CopyInv'
  <2>1. turn'.at = turn.at + 1
    BY <1>1 DEF Changed, Stamped
  <2>2. \A t : t.at \in Nat /\ IsCopy(t) => IsCopy(t)'
    BY <1>0, <2>1 DEF IsCopy
  <2> QED
    BY <1>0, <1>1, <2>2 DEF clientVars, Terminal
<1>2. CASE EmitDelta
  BY <1>1, <1>2 DEF EmitDelta
<1>3. CASE RunSilently
  BY <1>1, <1>3 DEF RunSilently
<1>4. CASE \E s \in Active \cup Over, recorded \in BOOLEAN : EmitStatus(s, recorded)
  BY <1>1, <1>4 DEF EmitStatus
<1>5. CASE ServerReads
  <2>1. IsCopy(turn)' /\ \A t : IsCopy(t) => IsCopy(t)'
    BY <1>0, <1>5 DEF ServerReads, IsCopy
  <2> QED
    BY <1>0, <1>5, <2>1 DEF ServerReads, Terminal
<1>6. CASE Loaded
  BY <1>0, <1>6 DEF Loaded, IsCopy, Terminal
<1>7. CASE Synced
  <2>1. ~Terminal(sync.turn) => ~Terminal(Merge(sync.turn))
    BY <1>0 DEF Merge, Terminal, Turn
  <2>2. Terminal(sync.turn) => Merge(sync.turn) = sync.turn
    BY DEF Merge
  <2> QED
    BY <1>0, <1>7, <2>1, <2>2 DEF Synced, IsCopy, Terminal
<1>8. CASE ReadFrame
  <2>1. phase' \in {"stream", "reload"} /\ main'.state # "read" /\ turn' = turn
        /\ (sync' = sync \/ sync'.state # "read")
    BY <1>0, <1>8 DEF ReadFrame, BeginSync, Overtake, StreamInv, TypeOK
  <2> QED
    BY <2>1 DEF IsCopy
<1>9. CASE Subscribe \/ Retry \/ StreamBreaks \/ RefreshByHand \/ ListHasNews \/ Poll
  BY <1>0, <1>9 DEF Subscribe, Retry, StreamBreaks, RefreshByHand, ListHasNews, RunEffect, Poll, IsCopy, Terminal
<1>10. CASE ReadFails
  BY <1>0, <1>10 DEF ReadFails, IsCopy, Terminal
<1>11. CASE UNCHANGED vars
  BY <1>11 DEF vars, clientVars, IsCopy, Terminal
<1> QED
  BY <1>2, <1>3, <1>4, <1>5, <1>6, <1>7, <1>8, <1>9, <1>10, <1>11 DEF Next

(* A page that is done and looks up to date shows the Turn itself (load()  *)
(* of use-turn.ts): what a late read or a lost frame leaves behind is      *)
(* older than the Turn or active, and the list or the poll corrects it.    *)
THEOREM SettledShowsTheTurn == Spec => []SettledIsTheTurn
<1>1. Init => CopyInv
  BY DEF Init, CopyInv, Asked, NoRead
<1>2. StreamInv /\ CopyInv => SettledIsTheTurn
  <2> SUFFICES ASSUME StreamInv, CopyInv, phase = "settled", Terminal(shown), shown.at >= turn.at
               PROVE  shown = turn
    BY DEF SettledIsTheTurn
  <2>1. shown.at \in Nat /\ turn.at \in Nat
    BY TurnFacts DEF StreamInv, TypeOK
  <2> QED
    BY <2>1 DEF CopyInv, IsCopy
<1> QED
  BY <1>1, <1>2, CopyStep, StreamConsistent, PTL DEF Spec
=============================================================================
