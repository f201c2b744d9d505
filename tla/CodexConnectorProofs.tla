------------------------ MODULE CodexConnectorProofs ------------------------
(***************************************************************************)
(* Proofs about CodexConnector for any number of Turns, sends, app-servers *)
(* and losses: type correctness, that events keep a dispatcher, and that a *)
(* Turn whose native turn is over is told.                                 *)
(***************************************************************************)
EXTENDS CodexConnector, FiniteSetTheorems, TLAPS

(* The Turn of send n is known, and has a binding.                         *)
Bound(n) == n \in 1..sends /\ turnOf[n] \in Turns /\ turns[turnOf[n]] # None

(* Whatever Codex works on or has reported belongs to a Turn that has a    *)
(* binding: a handler makes it before it asks for the native turn.         *)
RunInv ==
    /\ \A n \in Sends : Working(n) => Bound(n)
    /\ \A i \in 1..Len(events) : events[i].kind # "end" => Bound(events[i].run)

Preparing == {"initialize", "thread/start", "thread/resume", "turn/start"}
CommandInv ==
    /\ step # "idle" => subject \in Turns
    /\ step \in Preparing => sends > 0 /\ turnOf[sends] = subject
    /\ step = "turn/start" => turns[subject] # None

Reading   == {p \in Servers : reader[p] = "reading"}
EndsIn(s) == {i \in 1..Len(s) : s[i].kind = "end"}

(* Each dispatcher will be stopped by the end that one reader leaves, or   *)
(* has left, in the queue; only a frame that cannot be sent ends another.  *)
CountInv ==
    /\ \A p \in Servers : p > started => reader[p] = "none"
    /\ dispatchers <= started
    /\ Len(events) + Cardinality(Reading) <= MaxEvents + started
    /\ "unsent" \notin slips => dispatchers = Cardinality(Reading) + Cardinality(EndsIn(events))

CodexInv == TypeOK /\ RunInv /\ CommandInv /\ CountInv

-----------------------------------------------------------------------------
LEMMA Constants ==
    /\ MaxSends \in Nat /\ MaxStarts \in Nat /\ MaxLosses \in Nat /\ MaxEvents \in Nat
    /\ Sends \subseteq Nat \ {None} /\ Servers \subseteq Nat \ {None}
BY CodexAssumption DEF Sends, Servers, None

EventSet == [run : Sends \cup {None}, kind : Kinds \cup {"end"}]

LEMMA EventTypes ==
    ASSUME TypeOK
    PROVE  /\ events \in Seq(EventSet) /\ Len(events) \in Nat
           /\ \A i \in 1..Len(events) : events[i] \in EventSet
           /\ End \in EventSet
           /\ \A n \in Sends, k \in Kinds : Event(n, k) \in EventSet
<1>1. events \in Seq(EventSet)
  BY DEF TypeOK, EventSet
<1>2. Len(events) \in Nat /\ \A i \in 1..Len(events) : events[i] \in EventSet
  BY <1>1
<1>3. End \in EventSet /\ \A n \in Sends, k \in Kinds : Event(n, k) \in EventSet
  BY DEF EventSet, End, Event
<1> QED
  BY <1>1, <1>2, <1>3

LEMMA HeadTail ==
    ASSUME NEW S, NEW s \in Seq(S), s # <<>>
    PROVE  /\ Head(s) \in S /\ Head(s) = s[1] /\ Tail(s) \in Seq(S)
           /\ Len(s) \in Nat \ {0} /\ Len(Tail(s)) = Len(s) - 1
           /\ \A i \in 1..Len(Tail(s)) : i + 1 \in 1..Len(s) /\ Tail(s)[i] = s[i + 1]
<1>1. Len(s) \in Nat \ {0}
  OBVIOUS
<1>2. Tail(s) \in Seq(S) /\ Len(Tail(s)) = Len(s) - 1
  BY <1>1
<1>3. \A i \in 1..Len(Tail(s)) : i + 1 \in 1..Len(s)
  BY <1>1, <1>2
<1>4. \A i \in 1..Len(Tail(s)) : Tail(s)[i] = s[i + 1]
  BY <1>1
<1> QED
  BY <1>1, <1>2, <1>3, <1>4

-----------------------------------------------------------------------------
(* Counting ends in the queue, and readers.                                *)

LEMMA EndsFinite ==
    ASSUME NEW S, NEW s \in Seq(S)
    PROVE  /\ EndsIn(s) \subseteq 1..Len(s) /\ IsFiniteSet(EndsIn(s))
           /\ Cardinality(EndsIn(s)) \in Nat
<1>1. EndsIn(s) \in SUBSET (1..Len(s)) /\ Len(s) \in Nat
  BY DEF EndsIn
<1>2. IsFiniteSet(1..Len(s))
  BY <1>1, FS_Interval
<1>3. IsFiniteSet(EndsIn(s))
  BY <1>1, <1>2, FS_Subset
<1> QED
  BY <1>1, <1>3, FS_CardinalityType

LEMMA EndsAppend ==
    ASSUME NEW S, NEW s \in Seq(S), NEW e \in S
    PROVE  Cardinality(EndsIn(Append(s, e))) =
               IF e.kind = "end" THEN Cardinality(EndsIn(s)) + 1 ELSE Cardinality(EndsIn(s))
<1>1. /\ Len(s) \in Nat /\ Len(Append(s, e)) = Len(s) + 1
      /\ \A i \in 1..Len(s) : Append(s, e)[i] = s[i]
      /\ Append(s, e)[Len(s) + 1] = e
  OBVIOUS
<1>2. Len(s) + 1 \notin EndsIn(s)
  BY <1>1 DEF EndsIn
<1>3. CASE e.kind = "end"
  <2>1. EndsIn(Append(s, e)) = EndsIn(s) \cup {Len(s) + 1}
    BY <1>1, <1>3 DEF EndsIn
  <2> QED
    BY <1>2, <1>3, <2>1, EndsFinite, FS_AddElement
<1>4. CASE e.kind # "end"
  <2>1. EndsIn(Append(s, e)) = EndsIn(s)
    BY <1>1, <1>4 DEF EndsIn
  <2> QED
    BY <1>4, <2>1
<1> QED
  BY <1>3, <1>4

LEMMA EndsTail ==
    ASSUME NEW S, NEW s \in Seq(S), s # <<>>
    PROVE  Cardinality(EndsIn(Tail(s))) =
               IF Head(s).kind = "end" THEN Cardinality(EndsIn(s)) - 1
                                       ELSE Cardinality(EndsIn(s))
<1> DEFINE Later == EndsIn(s) \ {1}
           Next1 == [i \in EndsIn(Tail(s)) |-> i + 1]
<1>1. /\ Tail(s) \in Seq(S) /\ Len(s) \in Nat \ {0} /\ Len(Tail(s)) = Len(s) - 1
      /\ \A i \in 1..Len(Tail(s)) : i + 1 \in 1..Len(s) /\ Tail(s)[i] = s[i + 1]
      /\ Head(s) = s[1]
  BY HeadTail
<1>2. \A i \in EndsIn(Tail(s)) : i \in 1..Len(Tail(s)) /\ i + 1 \in Later
  BY <1>1 DEF EndsIn
<1>3. \A j \in Later : j - 1 \in EndsIn(Tail(s)) /\ j = (j - 1) + 1
  <2> SUFFICES ASSUME NEW j \in Later
               PROVE  j - 1 \in EndsIn(Tail(s)) /\ j = (j - 1) + 1
    OBVIOUS
  <2>1. j \in 1..Len(s) /\ j # 1 /\ s[j].kind = "end"
    BY DEF EndsIn
  <2>2. j - 1 \in 1..Len(Tail(s)) /\ j = (j - 1) + 1
    BY <1>1, <2>1
  <2>3. Tail(s)[j - 1] = s[j]
    BY <1>1, <2>2
  <2> QED
    BY <2>1, <2>2, <2>3 DEF EndsIn
<1>4. Next1 \in Bijection(EndsIn(Tail(s)), Later)
  <2>1. Next1 \in [EndsIn(Tail(s)) -> Later]
    BY <1>2
  <2>2. \A i, j \in EndsIn(Tail(s)) : Next1[i] = Next1[j] => i = j
    BY <1>2
  <2>3. \A j \in Later : \E i \in EndsIn(Tail(s)) : Next1[i] = j
    BY <1>3
  <2>4. Next1 \in Injection(EndsIn(Tail(s)), Later)
    BY <2>1, <2>2 DEF Injection, IsInjective
  <2>5. Next1 \in Surjection(EndsIn(Tail(s)), Later)
    BY <2>1, <2>3 DEF Surjection
  <2> QED
    BY <2>4, <2>5 DEF Bijection
<1>5. IsFiniteSet(EndsIn(Tail(s))) /\ IsFiniteSet(EndsIn(s))
  BY <1>1, EndsFinite
<1>6. Cardinality(EndsIn(Tail(s))) = Cardinality(Later)
  <2>1. ExistsBijection(EndsIn(Tail(s)), Later)
    BY <1>4 DEF ExistsBijection
  <2> QED
    BY <1>5, <2>1, FS_Bijection
<1>7. 1 \in EndsIn(s) <=> Head(s).kind = "end"
  BY <1>1 DEF EndsIn
<1> QED
  BY <1>5, <1>6, <1>7, FS_RemoveElement

LEMMA ReadingFinite ==
    /\ IsFiniteSet(Reading) /\ Cardinality(Reading) \in Nat
    /\ (\E p \in Servers : reader[p] = "reading") => Cardinality(Reading) > 0
<1>1. Reading \in SUBSET (1..MaxStarts) /\ MaxStarts \in Nat
  BY Constants DEF Reading, Servers
<1>2. IsFiniteSet(Reading)
  <2>1. IsFiniteSet(1..MaxStarts)
    BY <1>1, FS_Interval
  <2> QED
    BY <1>1, <2>1, FS_Subset
<1>3. Cardinality(Reading) \in Nat
  BY <1>2, FS_CardinalityType
<1>4. Cardinality(Reading) = 0 <=> Reading = {}
  BY <1>2, FS_EmptySet
<1> QED
  BY <1>2, <1>3, <1>4 DEF Reading

LEMMA ReadingBound ==
    ASSUME TypeOK, CountInv
    PROVE  Cardinality(Reading) <= started
<1>1. started \in 0..MaxStarts
  BY DEF TypeOK
<1>2. Reading \in SUBSET (1..started)
  BY <1>1, Constants DEF Reading, CountInv, Servers
<1>3. IsFiniteSet(1..started) /\ Cardinality(1..started) = started
  BY <1>1, Constants, FS_Interval
<1>4. Cardinality(Reading) <= Cardinality(1..started)
  BY <1>2, <1>3, FS_Subset
<1> QED
  BY <1>3, <1>4

-----------------------------------------------------------------------------
(* What leaves the queue and the app-servers alone keeps the count, ...    *)
LEMMA CountKept ==
    ASSUME CodexInv, UNCHANGED <<events, dispatchers, started, reader>>,
           "unsent" \in slips => "unsent" \in slips'
    PROVE  CountInv'
<1>1. Reading' = Reading /\ EndsIn(events)' = EndsIn(events)
  BY DEF Reading, EndsIn
<1> QED
  BY <1>1 DEF CodexInv, CountInv

(* ... and bindings are never taken away from what Codex works on.         *)
LEMMA RunKept ==
    ASSUME CodexInv, UNCHANGED events,
           \A n : Bound(n) => Bound(n)',
           \A n \in Sends : Working(n)' => Working(n) \/ Bound(n)'
    PROVE  RunInv'
BY DEF CodexInv, RunInv

LEMMA BoundKept ==
    ASSUME UNCHANGED <<sends, turnOf, turns>>
    PROVE  \A n : Bound(n) => Bound(n)'
BY DEF Bound

Quiet ==
    /\ UNCHANGED <<events, dispatchers, started, reader, sends, turnOf, turns>>
    /\ "unsent" \in slips => "unsent" \in slips'
    /\ \A n \in Sends : Working(n)' => Working(n)

LEMMA QuietStep ==
    ASSUME CodexInv, Quiet, TypeOK', CommandInv'
    PROVE  CodexInv'
<1>1. CountInv'
  BY CountKept DEF Quiet
<1>2. RunInv'
  BY RunKept, BoundKept DEF Quiet
<1> QED
  BY <1>1, <1>2 DEF CodexInv

LEMMA KaneStep ==
    ASSUME CodexInv, KaneTimesOut \/ Disconnect \/ Reconnect
    PROVE  CodexInv'
<1> USE DEF kaneVars, command, tables, queue, servers, codex, history
<1>1. TypeOK'
  <2>1. CASE KaneTimesOut
    BY <2>1 DEF CodexInv, TypeOK, KaneTimesOut, Stops
  <2>2. CASE Disconnect
    <3>1. losses' \in 0..MaxLosses
      BY <2>2, Constants DEF CodexInv, TypeOK, Disconnect
    <3> QED
      BY <2>2, <3>1 DEF CodexInv, TypeOK, Disconnect, LoseLink
  <2>3. CASE Reconnect
    BY <2>3 DEF CodexInv, TypeOK, Reconnect
  <2> QED
    BY <2>1, <2>2, <2>3
<1>2. CommandInv'
  BY DEF CodexInv, CommandInv, KaneTimesOut, Disconnect, Reconnect
<1>3. Quiet
  BY DEF Quiet, Working, KaneTimesOut, Disconnect, Reconnect
<1> QED
  BY <1>1, <1>2, <1>3, QuietStep

(* A request that ends without effect on the tables, and answers of Codex. *)
LEMMA RequestStep ==
    ASSUME CodexInv,
           CodexAnswers \/ RequestTimesOut \/ RequestFails \/ ControlDone \/ Respond
    PROVE  CodexInv'
<1> USE DEF kaneVars, command, tables, queue, servers, codex, history
<1>1. TypeOK'
  <2>1. CASE CodexAnswers \/ RequestTimesOut
    BY <2>1 DEF CodexInv, TypeOK, CodexAnswers, RequestTimesOut
  <2>2. CASE RequestFails \/ ControlDone
    BY <2>2 DEF CodexInv, TypeOK, RequestFails, ControlDone, Reject, Over, Stops
  <2>3. CASE Respond
    BY <2>3 DEF CodexInv, TypeOK, Respond
  <2> QED
    BY <2>1, <2>2, <2>3
<1>2. CommandInv'
  BY DEF CodexInv, CommandInv, Preparing, CodexAnswers, RequestTimesOut, RequestFails, ControlDone,
         Respond, Reject, Over
<1>3. Quiet
  BY DEF Quiet, Working, CodexAnswers, RequestTimesOut, RequestFails, ControlDone, Respond
<1> QED
  BY <1>1, <1>2, <1>3, QuietStep

LEMMA ControlStep ==
    ASSUME CodexInv, NEW t \in Turns,
           Control(t, "turn/steer") \/ Control(t, "turn/interrupt")
    PROVE  CodexInv'
<1> USE DEF kaneVars, command, tables, queue, servers, codex, history
<1>1. TypeOK'
  BY DEF CodexInv, TypeOK, Control, Request, Reject, Over, Stops, Methods
<1>2. CommandInv'
  BY DEF CodexInv, CommandInv, Preparing, Control, Request, Reject, Over
<1>3. Quiet
  BY DEF Quiet, Working, Control
<1> QED
  BY <1>1, <1>2, <1>3, QuietStep

LEMMA TurnStartedStep ==
    ASSUME CodexInv, TurnStarted
    PROVE  CodexInv'
<1> USE DEF kaneVars, command, tables, queue, servers, codex, history
<1>1. sends \in Sends
  BY Constants DEF CodexInv, CommandInv, Preparing, TypeOK, TurnStarted, Sends
<1>2. TypeOK'
  BY <1>1 DEF CodexInv, TypeOK, TurnStarted, Over
<1>3. CommandInv'
  BY DEF CodexInv, CommandInv, Preparing, TurnStarted, Over
<1>4. Quiet
  BY DEF Quiet, Working, TurnStarted
<1> QED
  BY <1>2, <1>3, <1>4, QuietStep

-----------------------------------------------------------------------------
(* The end of an app-server.                                               *)

LEMMA ProcessStep ==
    ASSUME CodexInv, ProcessDies \/ ExitIsSeen
    PROVE  CodexInv'
<1> USE DEF kaneVars, command, tables, queue, servers, codex, history
<1>1. TypeOK'
  BY DEF CodexInv, TypeOK, ProcessDies, ExitIsSeen, RunsLost
<1>2. CommandInv'
  BY DEF CodexInv, CommandInv, ProcessDies, ExitIsSeen
<1>3. Quiet
  <2>1. CASE ProcessDies
    BY <2>1 DEF CodexInv, TypeOK, Quiet, Working, ProcessDies, RunsLost
  <2>2. CASE ExitIsSeen
    BY <2>2 DEF Quiet, Working, ExitIsSeen
  <2> QED
    BY <2>1, <2>2
<1> QED
  BY <1>1, <1>2, <1>3, QuietStep

LEMMA WatcherStep ==
    ASSUME CodexInv, NEW p \in Servers, WatcherWakes(p) \/ WatcherTells(p)
    PROVE  CodexInv'
<1> USE DEF kaneVars, command, tables, queue, servers, codex, history
<1>1. TypeOK'
  <2>1. CASE WatcherWakes(p)
    <3>1. started \in Servers \cup {None}
      BY Constants DEF CodexInv, TypeOK, Servers, None
    <3>2. watcher' \in [Servers -> [at : {"none", "reader", "process"}, of : Servers \cup {None}]]
      BY <2>1, <3>1 DEF CodexInv, TypeOK, WatcherWakes
    <3> QED
      BY <2>1, <3>2 DEF CodexInv, TypeOK, WatcherWakes
  <2>2. CASE WatcherTells(p)
    <3>1. watcher' \in [Servers -> [at : {"none", "reader", "process"}, of : Servers \cup {None}]]
      BY <2>2 DEF CodexInv, TypeOK, WatcherTells, NotWatching
    <3>2. kane' \in [Turns -> {"active", "stopped"}] /\ native' \in [Turns -> Sends \cup {None}]
      BY <2>2 DEF CodexInv, TypeOK, WatcherTells
    <3>3. slips' \subseteq slips \cup {"overtaken", "cut"}
      BY <2>2 DEF WatcherTells
    <3> QED
      BY <2>2, <3>1, <3>2, <3>3 DEF CodexInv, TypeOK, WatcherTells
  <2> QED
    BY <2>1, <2>2
<1>2. CommandInv'
  BY DEF CodexInv, CommandInv, WatcherWakes, WatcherTells
<1>3. Quiet
  BY DEF Quiet, Working, WatcherWakes, WatcherTells
<1> QED
  BY <1>1, <1>2, <1>3, QuietStep

LEMMA ReaderStep ==
    ASSUME CodexInv, NEW p \in Servers, ReaderEnds(p)
    PROVE  CodexInv'
<1> USE DEF kaneVars, command, tables, queue, servers, codex, history
<1>1. /\ UNCHANGED <<dispatchers, started, sends, turnOf, turns, run, slips, step, subject>>
      /\ reader[p] = "reading" /\ reader' = [reader EXCEPT ![p] = "ended"]
      /\ events' = Append(events, End)
  BY DEF ReaderEnds
<1>2. /\ Reading' = Reading \ {p} /\ p \in Reading
      /\ Cardinality(Reading') = Cardinality(Reading) - 1
      /\ Cardinality(Reading) \in Nat /\ Cardinality(Reading) > 0
  <2>1. Reading' = Reading \ {p} /\ p \in Reading
    BY <1>1 DEF Reading, CodexInv, TypeOK
  <2> QED
    BY <2>1, ReadingFinite, FS_RemoveElement DEF Reading
<1>3. /\ events' \in Seq(EventSet) /\ Len(events') = Len(events) + 1 /\ Len(events) \in Nat
      /\ \A i \in 1..Len(events) : events'[i] = events[i]
      /\ events'[Len(events) + 1] = End
  BY <1>1, EventTypes DEF CodexInv
<1>4. /\ Cardinality(EndsIn(events')) = Cardinality(EndsIn(events)) + 1
      /\ Cardinality(EndsIn(events)) \in Nat
  BY <1>1, EventTypes, EndsAppend, EndsFinite DEF CodexInv, End, Event
<1>5. CountInv'
  <2>1. \A q \in Servers : q > started' => reader'[q] = "none"
    BY <1>1 DEF CodexInv, CountInv, TypeOK
  <2>2. Len(events') + Cardinality(Reading') <= MaxEvents + started'
    BY <1>1, <1>2, <1>3, Constants DEF CodexInv, CountInv, TypeOK
  <2>3. "unsent" \notin slips' =>
            dispatchers' = Cardinality(Reading') + Cardinality(EndsIn(events'))
    BY <1>1, <1>2, <1>4 DEF CodexInv, CountInv, TypeOK
  <2> QED
    BY <1>1, <2>1, <2>2, <2>3 DEF CodexInv, CountInv
<1>6. TypeOK'
  <2>1. Len(events') <= MaxEvents + MaxStarts
    BY <1>1, <1>2, <1>3, Constants DEF CodexInv, CountInv, TypeOK
  <2>2. events' \in Seq([run : Sends \cup {None}, kind : Kinds \cup {"end"}])
    BY <1>3 DEF EventSet
  <2> QED
    BY <2>1, <2>2 DEF CodexInv, TypeOK, ReaderEnds
<1>7. RunInv'
  <2>1. \A n : Bound(n) => Bound(n)'
    BY <1>1, BoundKept
  <2>2. \A i \in 1..Len(events') : events'[i].kind # "end" => i \in 1..Len(events)
    BY <1>3 DEF End, Event
  <2> QED
    BY <1>1, <1>3, <2>1, <2>2 DEF CodexInv, RunInv, Working
<1> QED
  BY <1>1, <1>5, <1>6, <1>7 DEF CodexInv, CommandInv

-----------------------------------------------------------------------------
(* turn.send.                                                              *)

Watcher == [at : {"none", "reader", "process"}, of : Servers \cup {None}]

LEMMA WatchStartedType ==
    ASSUME TypeOK, WatchStarted
    PROVE  watcher' \in [Servers -> Watcher]
<1>1. watcher \in [Servers -> Watcher]
  BY DEF TypeOK, Watcher
<1>2. \A w \in Watcher : [w EXCEPT !.at = "reader"] \in Watcher
  BY DEF Watcher
<1>3. CASE watcher' = [watcher EXCEPT ![started].at = "reader"]
  <2>1. watcher' = [p \in Servers |-> IF p = started THEN [watcher[p] EXCEPT !.at = "reader"]
                                                   ELSE watcher[p]]
    BY <1>1, <1>3
  <2>2. \A p \in Servers : watcher[p] \in Watcher
    BY <1>1
  <2> QED
    BY <1>2, <2>1, <2>2
<1> QED
  BY <1>1, <1>3 DEF WatchStarted

(* A later send, its Turn and its binding leave the earlier ones as they   *)
(* are.                                                                    *)
LEMMA SendBinds ==
    ASSUME CodexInv, NEW t \in Turns, SendArrives(t),
           turns' = turns \/ turns' = [turns EXCEPT ![t] = sends']
    PROVE  /\ \A n : Bound(n) => Bound(n)'
           /\ sends' \in Sends /\ sends' > 0 /\ sends' # None /\ turnOf'[sends'] = t
           /\ turnOf' \in [Sends -> Turns \cup {None}] /\ sends' \in 0..MaxSends
           /\ kane' \in [Turns -> {"active", "stopped"}]
<1>1. /\ sends' = sends + 1 /\ sends \in Nat /\ sends' \in Sends /\ sends' > 0
      /\ sends' # None /\ sends' \in 0..MaxSends
      /\ turnOf' = [turnOf EXCEPT ![sends'] = t] /\ kane' = [kane EXCEPT ![t] = "active"]
  BY Constants DEF CodexInv, TypeOK, SendArrives, Sends, None
<1>2. ASSUME NEW n, Bound(n)
      PROVE  Bound(n)'
  <2>1. n \in 1..sends /\ turnOf[n] \in Turns /\ turns[turnOf[n]] # None
    BY <1>2 DEF Bound
  <2>2. n \in 1..sends' /\ n \in Sends /\ n # sends'
    BY <1>1, <2>1, Constants DEF Sends
  <2>3. turnOf'[n] = turnOf[n]
    BY <1>1, <2>2 DEF CodexInv, TypeOK
  <2>4. turns'[turnOf[n]] # None
    BY <1>1, <2>1 DEF CodexInv, TypeOK
  <2> QED
    BY <2>1, <2>2, <2>3, <2>4 DEF Bound
<1> QED
  BY <1>1, <1>2 DEF CodexInv, TypeOK

LEMMA SendToRunningStep ==
    ASSUME CodexInv, NEW t \in Turns, SendToRunning(t)
    PROVE  CodexInv'
<1> USE DEF kaneVars, command, tables, queue, servers, codex, history
<1>1. /\ SendArrives(t) /\ WatchStarted
      /\ UNCHANGED <<events, dispatchers, started, reader, run, slips>>
      /\ subject' = t
      /\ \/ /\ step' \in {"thread/start", "thread/resume"} /\ turns' = turns /\ native' = native
         \/ /\ step' = "turn/start" /\ turns' = [turns EXCEPT ![t] = sends']
            /\ native' = [native EXCEPT ![t] = None]
      /\ future' \in {"waiting", "lost"}
  BY DEF SendToRunning, GetThread, Request
<1>2. /\ \A n : Bound(n) => Bound(n)'
      /\ sends' \in Sends /\ sends' > 0 /\ sends' # None /\ turnOf'[sends'] = t
      /\ turnOf' \in [Sends -> Turns \cup {None}] /\ sends' \in 0..MaxSends
      /\ kane' \in [Turns -> {"active", "stopped"}]
  BY <1>1, SendBinds
<1>3. TypeOK'
  <2>1. watcher' \in [Servers -> [at : {"none", "reader", "process"}, of : Servers \cup {None}]]
    BY <1>1, WatchStartedType DEF CodexInv, Watcher
  <2>2. turns' \in [Turns -> Sends \cup {None}] /\ native' \in [Turns -> Sends \cup {None}]
    BY <1>1, <1>2 DEF CodexInv, TypeOK
  <2> QED
    BY <1>1, <1>2, <2>1, <2>2 DEF CodexInv, TypeOK, SendToRunning, Methods
<1>4. CommandInv'
  BY <1>1, <1>2 DEF CodexInv, TypeOK, CommandInv, Preparing
<1>5. CountInv'
  BY <1>1, CountKept
<1>6. RunInv'
  BY <1>1, <1>2, RunKept DEF Working
<1> QED
  BY <1>3, <1>4, <1>5, <1>6 DEF CodexInv

LEMMA SendToNewStep ==
    ASSUME CodexInv, NEW t \in Turns, SendToNew(t)
    PROVE  CodexInv'
<1> USE DEF kaneVars, command, tables, queue, servers, codex, history
<1>1. /\ SendArrives(t) /\ UNCHANGED <<events, turns, run, slips>>
      /\ started' = started + 1 /\ started < MaxStarts
      /\ reader' = [reader EXCEPT ![started'] = "reading"]
      /\ dispatchers' = dispatchers + 1
      /\ step' = "initialize" /\ subject' = t
  BY DEF SendToNew
<1>2. /\ \A n : Bound(n) => Bound(n)'
      /\ sends' \in Sends /\ sends' > 0 /\ sends' # None /\ turnOf'[sends'] = t
      /\ turnOf' \in [Sends -> Turns \cup {None}] /\ sends' \in 0..MaxSends
      /\ kane' \in [Turns -> {"active", "stopped"}]
  BY <1>1, SendBinds
<1>3. /\ started \in Nat /\ started' \in Servers /\ started' \in 0..MaxStarts
      /\ dispatchers \in Nat /\ dispatchers <= started
  BY <1>1, Constants DEF CodexInv, CountInv, TypeOK, Servers
<1>4. /\ Reading' = Reading \cup {started'} /\ started' \notin Reading
      /\ Cardinality(Reading') = Cardinality(Reading) + 1 /\ Cardinality(Reading) \in Nat
  <2>1. reader[started'] = "none"
    BY <1>1, <1>3 DEF CodexInv, CountInv
  <2>2. Reading' = Reading \cup {started'} /\ started' \notin Reading
    BY <1>1, <1>3, <2>1 DEF Reading, CodexInv, TypeOK
  <2> QED
    BY <2>2, ReadingFinite, FS_AddElement
<1>5. CountInv'
  <2>1. \A q \in Servers : q > started' => reader'[q] = "none"
    BY <1>1, <1>3, Constants DEF CodexInv, CountInv, TypeOK
  <2>2. Len(events') + Cardinality(Reading') <= MaxEvents + started'
    BY <1>1, <1>3, <1>4, Constants, EventTypes DEF CodexInv, CountInv
  <2>3. Cardinality(EndsIn(events)) \in Nat
    BY EventTypes, EndsFinite DEF CodexInv
  <2>4. "unsent" \notin slips' =>
            dispatchers' = Cardinality(Reading') + Cardinality(EndsIn(events'))
    BY <1>1, <1>3, <1>4, <2>3 DEF CodexInv, CountInv
  <2> QED
    BY <1>1, <1>3, <2>1, <2>2, <2>4 DEF CountInv
<1>6. TypeOK'
  <2>1. dispatchers' \in 0..MaxStarts
    BY <1>1, <1>3, Constants
  <2>2. reader' \in [Servers -> {"none", "reading", "ended"}]
    BY <1>1, <1>3 DEF CodexInv, TypeOK
  <2> QED
    BY <1>2, <1>3, <2>1, <2>2 DEF CodexInv, TypeOK, SendToNew, Methods
<1>7. CommandInv'
  BY <1>1, <1>2 DEF CommandInv, Preparing
<1>8. RunInv'
  BY <1>1, <1>2, RunKept DEF Working
<1> QED
  BY <1>5, <1>6, <1>7, <1>8 DEF CodexInv

(* What follows the answers to initialize and to a request for a thread.   *)
LEMMA PreparingStep ==
    ASSUME CodexInv, Initialized \/ ThreadReady
    PROVE  CodexInv'
<1> USE DEF kaneVars, command, tables, queue, servers, codex, history
<1>1. /\ UNCHANGED <<events, dispatchers, started, reader, run, slips, sends, turnOf>>
      /\ subject \in Turns /\ sends \in Sends /\ sends # None /\ turnOf[sends] = subject
  <2>1. step \in Preparing /\ step # "idle"
    BY DEF Initialized, ThreadReady, Preparing
  <2> QED
    BY <2>1, Constants DEF Initialized, ThreadReady, CodexInv, CommandInv, TypeOK, Sends, None
<1>2. \/ step' = "idle" /\ turns' = turns /\ native' = native
      \/ /\ step' \in {"thread/start", "thread/resume"} /\ subject' = subject
         /\ turns' = turns /\ native' = native
      \/ /\ step' \in {"idle", "turn/start"} /\ (step' = "turn/start" => subject' = subject)
         /\ turns' = [turns EXCEPT ![subject] = sends]
         /\ native' = [native EXCEPT ![subject] = None]
  BY DEF Initialized, ThreadReady, BindAndStart, Reject, Over, Request, GetThread
<1>3. /\ turns' \in [Turns -> Sends \cup {None}] /\ native' \in [Turns -> Sends \cup {None}]
      /\ \A n : Bound(n) => Bound(n)'
      /\ step' = "turn/start" => turns'[subject] # None
  BY <1>1, <1>2 DEF CodexInv, TypeOK, Bound
<1>4. TypeOK'
  <2>1. /\ future' \in {"none", "waiting", "lost"} /\ step' \in Methods \cup {"idle"}
        /\ subject' \in Turns \cup {None}
    BY <1>1 DEF Initialized, ThreadReady, BindAndStart, Reject, Over, Request, GetThread, Methods
  <2>2. kane' \in [Turns -> {"active", "stopped"}] /\ ref' \subseteq Turns
    BY <1>1 DEF CodexInv, TypeOK, Initialized, ThreadReady, BindAndStart, Reject, Stops
  <2>3. watcher' \in [Servers -> [at : {"none", "reader", "process"}, of : Servers \cup {None}]]
    <3>1. WatchStarted \/ UNCHANGED watcher
      BY DEF Initialized, ThreadReady
    <3>2. watcher \in [Servers -> Watcher]
      BY DEF CodexInv, TypeOK, Watcher
    <3> QED
      BY <3>1, <3>2, WatchStartedType DEF CodexInv, Watcher
  <2>4. UNCHANGED <<link, stored, permission, process, losses>>
    BY DEF Initialized, ThreadReady
  <2> QED
    BY <1>1, <1>3, <2>1, <2>2, <2>3, <2>4 DEF CodexInv, TypeOK
<1>5. CommandInv'
  BY <1>1, <1>2, <1>3, Constants DEF CodexInv, TypeOK, CommandInv, Preparing, Sends, None
<1>6. CountInv'
  BY <1>1, CountKept
<1>7. RunInv'
  BY <1>1, <1>3, RunKept DEF Working
<1> QED
  BY <1>4, <1>5, <1>6, <1>7 DEF CodexInv

(* A native turn is begun for a send whose Turn has a binding by then.     *)
LEMMA RunBeginsStep ==
    ASSUME CodexInv, RunBegins
    PROVE  CodexInv'
<1> USE DEF kaneVars, command, tables, queue, servers, codex, history
<1>1. /\ UNCHANGED <<events, dispatchers, started, reader, slips, sends, turnOf, turns, step,
                     subject>>
      /\ run' = [run EXCEPT ![sends] = "begun"]
      /\ step = "turn/start" /\ step # "idle" /\ step \in Preparing
  BY DEF RunBegins, Preparing
<1>2. Bound(sends)'
  BY <1>1, Constants DEF CodexInv, CommandInv, TypeOK, Bound
<1>3. TypeOK'
  BY <1>1 DEF CodexInv, TypeOK, RunBegins
<1>4. RunInv'
  <2>1. \A n \in Sends : Working(n)' => Working(n) \/ Bound(n)'
    BY <1>1, <1>2 DEF CodexInv, TypeOK, Working
  <2> QED
    BY <1>1, <2>1, RunKept, BoundKept
<1>5. CountInv'
  BY <1>1, CountKept
<1> QED
  BY <1>1, <1>3, <1>4, <1>5 DEF CodexInv, CommandInv

-----------------------------------------------------------------------------
(* Events.                                                                 *)

LEMMA TakenFacts ==
    ASSUME CodexInv, NEW k, Taken(k)
    PROVE  /\ events # <<>> /\ Head(events).kind = k /\ Head(events) \in EventSet
           /\ events' = Tail(events) /\ events' \in Seq(EventSet)
           /\ Len(events) \in Nat \ {0} /\ Len(events') = Len(events) - 1
           /\ \A i \in 1..Len(events') : i + 1 \in 1..Len(events) /\ events'[i] = events[i + 1]
           /\ dispatchers \in 1..MaxStarts
           /\ k # "end" => /\ Head(events).run \in Sends /\ TakenTurn \in Turns
                           /\ turns[TakenTurn] \in Sends
<1>1. /\ events # <<>> /\ Head(events).kind = k /\ events' = Tail(events)
      /\ dispatchers \in 1..MaxStarts
  BY Constants DEF Taken, CodexInv, TypeOK
<1>2. /\ Head(events) \in EventSet /\ Head(events) = events[1] /\ events' \in Seq(EventSet)
      /\ Len(events) \in Nat \ {0} /\ Len(events') = Len(events) - 1
      /\ \A i \in 1..Len(events') : i + 1 \in 1..Len(events) /\ events'[i] = events[i + 1]
  BY <1>1, EventTypes, HeadTail DEF CodexInv
<1>3. ASSUME k # "end"
      PROVE  /\ Head(events).run \in Sends /\ TakenTurn \in Turns
             /\ turns[TakenTurn] \in Sends
  <2>1. Bound(Head(events).run)
    BY <1>1, <1>2, <1>3 DEF CodexInv, RunInv
  <2>2. Head(events).run \in Sends
    BY <2>1, Constants DEF Bound, CodexInv, TypeOK, Sends
  <2> QED
    BY <2>1, <2>2 DEF Bound, TakenTurn, CodexInv, TypeOK
<1> QED
  BY <1>1, <1>2, <1>3

(* An event that is taken out, with or without the task that took it.      *)
LEMMA TakenStep ==
    ASSUME CodexInv, NEW k, Taken(k), TypeOK', CommandInv',
           UNCHANGED <<started, reader, sends, turnOf, turns, run>>, slips \subseteq slips',
           \/ k # "end" /\ dispatchers' = dispatchers
           \/ k # "end" /\ dispatchers' = dispatchers - 1 /\ "unsent" \in slips'
           \/ k = "end" /\ dispatchers' = dispatchers - 1
    PROVE  CodexInv'
<1>1. /\ events # <<>> /\ Head(events).kind = k
      /\ events' = Tail(events) /\ events \in Seq(EventSet) /\ events' \in Seq(EventSet)
      /\ Len(events) \in Nat /\ Len(events') = Len(events) - 1
      /\ \A i \in 1..Len(events') : i + 1 \in 1..Len(events) /\ events'[i] = events[i + 1]
      /\ dispatchers \in 1..MaxStarts
  BY TakenFacts, EventTypes DEF CodexInv
<1>2. Reading' = Reading /\ Cardinality(Reading) \in Nat
  BY ReadingFinite DEF Reading
<1>3. /\ Cardinality(EndsIn(events)) \in Nat
      /\ Cardinality(EndsIn(events')) = IF k = "end" THEN Cardinality(EndsIn(events)) - 1
                                                     ELSE Cardinality(EndsIn(events))
  BY <1>1, EndsTail, EndsFinite
<1>4. CountInv'
  <2>1. Len(events') + Cardinality(Reading') <= MaxEvents + started'
    BY <1>1, <1>2, Constants DEF CodexInv, CountInv, TypeOK
  <2>2. "unsent" \notin slips' =>
            dispatchers' = Cardinality(Reading') + Cardinality(EndsIn(events'))
    BY <1>1, <1>2, <1>3 DEF CodexInv, CountInv
  <2>3. dispatchers' <= started'
    BY <1>1, Constants DEF CodexInv, CountInv, TypeOK
  <2> QED
    BY <2>1, <2>2, <2>3 DEF CodexInv, CountInv
<1>5. RunInv'
  <2>1. \A n : Bound(n) => Bound(n)'
    BY BoundKept
  <2> QED
    BY <1>1, <2>1 DEF CodexInv, RunInv, Working
<1> QED
  BY <1>4, <1>5 DEF CodexInv

LEMMA ReportTypes ==
    ASSUME CodexInv, NEW k \in Kinds, Taken(k), Report(TakenTurn, k)
    PROVE  /\ link' \in {"open", "down"} /\ kane' \in [Turns -> {"active", "stopped"}]
           /\ stored' \subseteq Sends /\ dispatchers' \in 0..MaxStarts
           /\ slips' \subseteq {"unsent", "overtaken", "cut", "stray"} /\ slips \subseteq slips'
           /\ \/ dispatchers' = dispatchers
              \/ dispatchers' = dispatchers - 1 /\ "unsent" \in slips'
<1>1. /\ dispatchers \in 1..MaxStarts /\ TakenTurn \in Turns /\ turns[TakenTurn] \in Sends
  BY TakenFacts DEF Kinds, Ends
<1> DEFINE t == TakenTurn
<1> HIDE DEF t
<1>2. CASE link = "open"
  <2>1. KaneHears(t, k) /\ dispatchers' = dispatchers /\ slips' = slips \cup Stray
    BY <1>2 DEF Report, t
  <2>2. /\ link' \in {"open", "down"} /\ kane' \in [Turns -> {"active", "stopped"}]
        /\ stored' \subseteq Sends
    BY <1>1, <2>1 DEF KaneHears, Stops, LoseLink, CodexInv, TypeOK, t
  <2>3. Stray \subseteq {"stray"}
    BY DEF Stray
  <2> QED
    BY <1>1, <2>1, <2>2, <2>3, Constants DEF CodexInv, TypeOK
<1>3. CASE link # "open"
  <2>1. /\ UNCHANGED <<link, kane, stored>> /\ dispatchers' = dispatchers - 1
        /\ slips' = slips \cup {"unsent"}
    BY <1>3 DEF Report
  <2>2. dispatchers' \in 0..MaxStarts
    BY <1>1, <2>1, Constants
  <2>3. /\ link' \in {"open", "down"} /\ kane' \in [Turns -> {"active", "stopped"}]
        /\ stored' \subseteq Sends /\ slips' \subseteq {"unsent", "overtaken", "cut", "stray"}
    BY <2>1 DEF CodexInv, TypeOK
  <2> QED
    BY <2>1, <2>2, <2>3
<1> QED
  BY <1>2, <1>3

LEMMA DispatchStep ==
    ASSUME CodexInv, Dispatch
    PROVE  CodexInv'
<1> USE DEF kaneVars, command, tables, queue, servers, codex, history
<1>1. PICK k \in Kinds \cup {"end"} :
        /\ Taken(k)
        /\ CASE k = "end"     -> DispatcherEnds
             [] k = "started" -> RunStarted
             [] k = "delta"   -> RunSays
             [] k = "ask"     -> RunAsks
             [] OTHER         -> k \in Ends /\ RunEnds /\ Report(TakenTurn, k)
                                 /\ native' \in {native, [native EXCEPT ![TakenTurn] = None]}
  BY DEF Dispatch, DispatcherEnds, RunStarted, RunSays, RunAsks, RunEnds, Kinds, Ends
<1> DEFINE e == Head(events)
           t == TakenTurn
<1>2. /\ events' \in Seq(EventSet) /\ Len(events') = Len(events) - 1 /\ Len(events) \in Nat
      /\ dispatchers \in 1..MaxStarts
      /\ k # "end" => e.run \in Sends /\ t \in Turns
  BY <1>1, TakenFacts
<1>3. /\ events' \in Seq([run : Sends \cup {None}, kind : Kinds \cup {"end"}])
      /\ Len(events') <= MaxEvents + MaxStarts
  BY <1>2, Constants DEF EventSet, CodexInv, TypeOK
<1>4. /\ UNCHANGED <<started, reader, sends, turnOf, turns, run, step, subject, future, ref,
                     process, watcher, losses>>
  BY <1>1 DEF DispatcherEnds, RunStarted, RunSays, RunAsks, RunEnds
<1>5. CommandInv'
  BY <1>4 DEF CodexInv, CommandInv
<1>6. CASE k = "end"
  <2>1. DispatcherEnds
    BY <1>1, <1>6
  <2>2. dispatchers' = dispatchers - 1 /\ dispatchers' \in 0..MaxStarts /\ slips' = slips
    BY <1>2, <2>1, Constants DEF DispatcherEnds
  <2>3. TypeOK'
    BY <1>3, <2>1, <2>2 DEF CodexInv, TypeOK, DispatcherEnds
  <2> QED
    BY <1>1, <1>4, <1>5, <1>6, <2>2, <2>3, TakenStep
<1>7. CASE k = "started"
  <2>1. RunStarted
    BY <1>1, <1>7
  <2>2. slips \subseteq slips' /\ slips' \subseteq slips \cup {"stray"}
    BY <2>1 DEF RunStarted, Stray
  <2>3. native' \in [Turns -> Sends \cup {None}]
    BY <1>2, <1>7, <2>1 DEF RunStarted, CodexInv, TypeOK
  <2>4. TypeOK'
    BY <1>3, <2>1, <2>2, <2>3 DEF CodexInv, TypeOK, RunStarted
  <2> QED
    BY <1>1, <1>4, <1>5, <1>7, <2>1, <2>2, <2>4, TakenStep DEF RunStarted
<1>8. CASE k \in Kinds \ {"started"}
  <2>1. Report(t, k)
    BY <1>1, <1>8 DEF RunSays, RunAsks, Kinds, Ends
  <2>2. /\ link' \in {"open", "down"} /\ kane' \in [Turns -> {"active", "stopped"}]
        /\ stored' \subseteq Sends /\ dispatchers' \in 0..MaxStarts
        /\ slips' \subseteq {"unsent", "overtaken", "cut", "stray"} /\ slips \subseteq slips'
        /\ \/ dispatchers' = dispatchers
           \/ dispatchers' = dispatchers - 1 /\ "unsent" \in slips'
    BY <1>1, <1>8, <2>1, ReportTypes
  <2>3. native' \in {native, [native EXCEPT ![t] = None]}
    BY <1>1, <1>8 DEF RunSays, RunAsks, Kinds, Ends
  <2>4. native' \in [Turns -> Sends \cup {None}]
    BY <2>3 DEF CodexInv, TypeOK
  <2>5. permission' \in {"none", "unheard", "pending"}
    BY <1>1, <1>8 DEF RunSays, RunAsks, RunEnds, Kinds, Ends, CodexInv, TypeOK
  <2>6. TypeOK'
    BY <1>3, <1>4, <2>2, <2>4, <2>5 DEF CodexInv, TypeOK
  <2>7. k # "end"
    BY <1>8 DEF Kinds, Ends
  <2> QED
    BY <1>1, <1>4, <1>5, <2>2, <2>6, <2>7, TakenStep
<1> QED
  BY <1>1, <1>6, <1>7, <1>8

LEMMA ReportsStep ==
    ASSUME CodexInv, NEW n \in Sends, NEW k \in Kinds, RunReports(n, k)
    PROVE  CodexInv'
<1> USE DEF kaneVars, command, tables, queue, servers, codex, history
<1>1. /\ UNCHANGED <<dispatchers, started, reader, sends, turnOf, turns, slips, step, subject>>
      /\ events' = Append(events, Event(n, k)) /\ Len(events) < MaxEvents
      /\ Working(n) /\ k # "end"
  BY DEF RunReports, Reports, Working, Kinds, Ends
<1>2. /\ events' \in Seq(EventSet) /\ Len(events') = Len(events) + 1 /\ Len(events) \in Nat
      /\ \A i \in 1..Len(events) : events'[i] = events[i]
      /\ events'[Len(events) + 1] = Event(n, k) /\ Event(n, k) \in EventSet
  BY <1>1, EventTypes DEF CodexInv
<1>3. Reading' = Reading /\ Cardinality(Reading) \in Nat /\ Cardinality(Reading) <= started
  BY <1>1, ReadingFinite, ReadingBound DEF Reading, CodexInv
<1>4. Cardinality(EndsIn(events')) = Cardinality(EndsIn(events))
  BY <1>1, <1>2, EventTypes, EndsAppend DEF CodexInv, Event
<1>5. CountInv'
  <2>1. Len(events') + Cardinality(Reading') <= MaxEvents + started'
    BY <1>1, <1>2, <1>3, Constants DEF CodexInv, TypeOK
  <2> QED
    BY <1>1, <1>3, <1>4, <2>1 DEF CodexInv, CountInv
<1>6. TypeOK'
  <2>1. run' \in [Sends -> {"none", "begun", "started", "spoke", "ended"}]
    BY DEF CodexInv, TypeOK, RunReports
  <2>2. /\ events' \in Seq([run : Sends \cup {None}, kind : Kinds \cup {"end"}])
        /\ Len(events') <= MaxEvents + MaxStarts
    BY <1>1, <1>2, Constants DEF EventSet
  <2> QED
    BY <2>1, <2>2 DEF CodexInv, TypeOK, RunReports
<1>7. RunInv'
  <2>1. \A m : Bound(m) => Bound(m)'
    BY <1>1, BoundKept
  <2>2. \A m \in Sends : Working(m)' => Working(m)
    BY <1>1 DEF CodexInv, TypeOK, RunReports, Working
  <2>3. Bound(n)'
    BY <1>1, <2>1 DEF CodexInv, RunInv
  <2>4. \A i \in 1..Len(events') : \A m :
          m = events'[i].run /\ events'[i].kind # "end" => Bound(m)'
    <3> SUFFICES ASSUME NEW i \in 1..Len(events'), NEW m, m = events'[i].run,
                        events'[i].kind # "end"
                 PROVE  Bound(m)'
      OBVIOUS
    <3>1. CASE i \in 1..Len(events)
      <4>1. events'[i] = events[i]
        BY <1>2, <3>1
      <4> QED
        BY <2>1, <3>1, <4>1 DEF CodexInv, RunInv
    <3>2. CASE i = Len(events) + 1
      BY <1>2, <2>3, <3>2 DEF Event
    <3> QED
      BY <1>2, <3>1, <3>2
  <2>5. \A m \in Sends : Working(m)' => Bound(m)'
    BY <2>1, <2>2 DEF CodexInv, RunInv
  <2> QED
    BY <2>4, <2>5 DEF RunInv
<1> QED
  BY <1>1, <1>5, <1>6, <1>7 DEF CodexInv, CommandInv

LEMMA RestartStep ==
    ASSUME CodexInv, Restart
    PROVE  CodexInv'
<1> USE DEF kaneVars, command, tables, queue, servers, codex, history
<1>1. /\ events' = <<>> /\ dispatchers' = 0 /\ step' = "idle" /\ started' = started
      /\ reader' = [p \in Servers |-> IF p <= started THEN "ended" ELSE "none"]
      /\ run' = [n \in Sends |-> IF Working(n) THEN "ended" ELSE run[n]]
  BY DEF Restart, RunsLost
<1>2. Cardinality(Reading') = 0 /\ Cardinality(EndsIn(events')) = 0
  <2>1. Reading' = {} /\ EndsIn(events') = {}
    BY <1>1 DEF Reading, EndsIn
  <2> QED
    BY <2>1, FS_EmptySet
<1>3. CountInv'
  <2>1. started \in Nat /\ Servers \subseteq Nat /\ MaxEvents \in Nat /\ Len(events') = 0
    BY <1>1, Constants DEF CodexInv, TypeOK
  <2> QED
    BY <1>1, <1>2, <2>1 DEF CountInv
<1>4. TypeOK'
  <2>1. losses' \in 0..MaxLosses
    BY Constants DEF Restart, CodexInv, TypeOK
  <2>2. /\ events' \in Seq([run : Sends \cup {None}, kind : Kinds \cup {"end"}])
        /\ Len(events') <= MaxEvents + MaxStarts /\ dispatchers' \in 0..MaxStarts
    BY <1>1, Constants
  <2>3. run' \in [Sends -> {"none", "begun", "started", "spoke", "ended"}]
    BY <1>1 DEF CodexInv, TypeOK
  <2>4. watcher' \in [Servers -> [at : {"none", "reader", "process"}, of : Servers \cup {None}]]
    BY DEF Restart, NotWatching
  <2>5. reader' \in [Servers -> {"none", "reading", "ended"}]
    BY <1>1
  <2> QED
    BY <2>1, <2>2, <2>3, <2>4, <2>5 DEF CodexInv, TypeOK, Restart, LoseLink
<1>5. RunInv' /\ CommandInv'
  BY <1>1 DEF RunInv, CommandInv, Preparing, Working
<1> QED
  BY <1>3, <1>4, <1>5 DEF CodexInv

-----------------------------------------------------------------------------
LEMMA CodexNext ==
    ASSUME CodexInv, [Next]_vars
    PROVE  CodexInv'
<1>1. CASE UNCHANGED vars
  BY <1>1 DEF CodexInv, TypeOK, RunInv, CommandInv, CountInv, Working, Bound, Reading, EndsIn,
              vars, kaneVars, command, tables, queue, servers, codex, history
<1>2. CASE \E t \in Turns : SendToRunning(t) \/ SendToNew(t)
  BY <1>2, SendToRunningStep, SendToNewStep
<1>3. CASE (\E t \in Turns : Control(t, "turn/steer") \/ Control(t, "turn/interrupt"))
           \/ TurnStarted
  BY <1>3, ControlStep, TurnStartedStep
<1>4. CASE RequestTimesOut \/ RequestFails \/ ControlDone \/ CodexAnswers \/ Respond
  BY <1>4, RequestStep
<1>5. CASE Initialized \/ ThreadReady
  BY <1>5, PreparingStep
<1>6. CASE Dispatch
  BY <1>6, DispatchStep
<1>7. CASE \E p \in Servers : Server(p)
  BY <1>7, ReaderStep, WatcherStep DEF Server
<1>8. CASE ProcessDies \/ ExitIsSeen
  BY <1>8, ProcessStep
<1>9. CASE KaneTimesOut \/ Disconnect \/ Reconnect
  BY <1>9, KaneStep
<1>10. CASE Restart
  BY <1>10, RestartStep
<1>11. CASE RunBegins
  BY <1>11, RunBeginsStep
<1>12. CASE \E n \in Sends, k \in Kinds : RunReports(n, k)
  BY <1>12, ReportsStep
<1> QED
  BY <1>1, <1>2, <1>3, <1>4, <1>5, <1>6, <1>7, <1>8, <1>9, <1>10, <1>11, <1>12
  DEF Next, Handler

LEMMA CodexHolds == Spec => []CodexInv
<1>1. Init => CodexInv
  <2> SUFFICES ASSUME Init
               PROVE  CodexInv
    OBVIOUS
  <2>1. TypeOK
    BY Constants DEF Init, TypeOK, NotWatching
  <2>2. Cardinality(Reading) = 0 /\ Cardinality(EndsIn(events)) = 0
    <3>1. Reading = {} /\ EndsIn(events) = {}
      BY DEF Init, Reading, EndsIn
    <3> QED
      BY <3>1, FS_EmptySet
  <2>3. CountInv
    <3>1. Len(events) = 0 /\ MaxEvents \in Nat
      BY Constants DEF Init
    <3> QED
      BY <2>2, <3>1 DEF Init, CountInv
  <2>4. RunInv /\ CommandInv
    BY DEF Init, RunInv, CommandInv, Preparing, Working
  <2> QED
    BY <2>1, <2>3, <2>4 DEF CodexInv
<1>2. CodexInv /\ [Next]_vars => CodexInv'
  BY CodexNext
<1> QED
  BY <1>1, <1>2, PTL DEF Spec

(* The state of the Connector and of its app-servers is well typed for any *)
(* number of Turns, sends, app-servers and losses; the queue is no longer  *)
(* than its bound and the readers that may still add their end.            *)
THEOREM CodexTyped == Spec => []TypeOK
<1>1. CodexInv => TypeOK
  BY DEF CodexInv
<1> QED
  BY <1>1, CodexHolds, PTL

(* main.py 121-137, 351-361: an app-server that is read has a dispatcher   *)
(* for its events, over any number of app-servers that share the queue, as *)
(* long as no frame failed to be sent.                                     *)
THEOREM EventsDispatched == Spec => []EventsHaveADispatcher
<1>1. CodexInv => EventsHaveADispatcher
  <2> SUFFICES ASSUME CodexInv, \E p \in Servers : reader[p] = "reading", "unsent" \notin slips
               PROVE  dispatchers > 0
    BY DEF EventsHaveADispatcher
  <2>1. Cardinality(Reading) \in Nat /\ Cardinality(Reading) > 0
    BY ReadingFinite
  <2>2. Cardinality(EndsIn(events)) \in Nat
    BY EventTypes, EndsFinite DEF CodexInv
  <2> QED
    BY <2>1, <2>2 DEF CodexInv, CountInv
<1> QED
  BY <1>1, CodexHolds, PTL

-----------------------------------------------------------------------------
(* Why a Turn that is over is told. What the queue s says of native turn n *)
(* and of the events beside the i-th:                                      *)

EndIn(s, n)       == \E i \in 1..Len(s) : s[i].run = n /\ s[i].kind \in Ends
EndAfter(s, i)    == \E j \in 1..Len(s) : i < j /\ s[j].run = s[i].run /\ s[j].kind \in Ends
StartIn(s, n)     == \E i \in 1..Len(s) : s[i].run = n /\ s[i].kind = "started"
StartBefore(s, j) == \E i \in 1..Len(s) : i < j /\ s[i].run = s[j].run /\ s[i].kind = "started"

(* A socket that is lost stops every Turn.                                 *)
LinkInv == link = "down" => \A t \in Turns : kane[t] = "stopped"

(* Codex works only while its process is up, and that process is read and  *)
(* watched by then.                                                        *)
Asked == step \in {"thread/start", "thread/resume", "turn/start"}
ServerInv ==
    /\ process = "up" => started \in Servers /\ reader[started] = "reading"
    /\ \A n \in Sends : Working(n) => process = "up"
    /\ \A p \in Servers : /\ watcher[p].at # "none" => p <= started
                          /\ watcher[p].at = "process" => reader[p] = "ended"
    /\ process = "up" /\ (Asked \/ \E n \in Sends : Working(n)) => watcher[started].at # "none"

(* The native turn of a send begins only after turn/start.                 *)
SendInv ==
    /\ stored \subseteq 1..sends /\ \A t \in Turns : turns[t] \in 0..sends
    /\ \A n \in Sends : n > sends => run[n] = "none"
    /\ step = "idle" => future = "none"
    /\ step \in {"initialize", "thread/start", "thread/resume"} => run[sends] = "none"
    /\ step = "initialize" => \A n \in Sends : ~Working(n)
    /\ step = "turn/start" => turns[subject] = sends
    /\ step = "turn/start" /\ future = "ok" => run[sends] # "none"

(* The end of a native turn is its last event, and what waits in the queue *)
(* is followed by the end of a reader, in the queue or still to come.      *)
QueueInv ==
    /\ events # <<>> => \/ events[Len(events)].kind = "end"
                        \/ started \in Servers /\ reader[started] = "reading"
    /\ \A i \in 1..Len(events) : events[i].kind # "end" =>
           /\ run[events[i].run] \notin {"none", "begun"}
           /\ events[i].kind \in Ends => run[events[i].run] = "ended"
    /\ \A i, j \in 1..Len(events) :
           i < j /\ events[i].kind \in Ends => events[j].run # events[i].run

(* Nothing of a reply that Kane has stored is still to come.               *)
StoredInv ==
    \A n \in stored : /\ ~Working(n)
                      /\ \A i \in 1..Len(events) : events[i].run # n
                      /\ ~(run[n] = "none" /\ step \in Preparing /\ sends = n)

(* A watcher waits for the process it was made for, and when that one is   *)
(* not the last it is done before the last can work.                       *)
WatcherInv ==
    \A p \in Servers : watcher[p].at = "process" =>
        /\ watcher[p].of = p
        /\ p # started => process # "up" \/ (step = "initialize" /\ future = "waiting")

(* A Turn that is active once its command is done has a native turn, and   *)
(* so has one of whose native turn more than its start was reported.       *)
Busy(t) == subject = t /\ step \in Preparing
NativeInv ==
    /\ \A t \in Turns : kane[t] = "active" /\ ~Busy(t) => native[t] # None
    /\ \A n \in Sends : run[n] \in {"started", "spoke"} /\ turns[turnOf[n]] = n =>
           native[turnOf[n]] # None \/ StartIn(events, n)
    /\ \A j \in 1..Len(events) :
           events[j].kind \notin {"started", "end"} /\ turns[turnOf[events[j].run]] = events[j].run =>
               native[turnOf[events[j].run]] # None \/ StartBefore(events, j)

(* Somebody will tell Kane the end: the watcher of an app-server that is   *)
(* gone, or the native turn itself, or its end in the queue.               *)
Gone == \E p \in Servers : watcher[p].at # "none" /\ (p = started => process # "up")
TellerInv ==
    /\ \A t \in Turns : kane[t] = "active" /\ ~Busy(t) =>
           Gone \/ \E n \in Sends : turnOf[n] = t /\ (Working(n) \/ EndIn(events, n))
    /\ step = "turn/start" /\ kane[subject] = "active" /\ future \in {"waiting", "ok"}
           /\ run[sends] # "none" =>
           \/ Gone \/ Working(sends) \/ EndIn(events, sends)
           \/ future = "waiting" /\ process # "up"
    /\ \A i \in 1..Len(events) : events[i].kind \notin Ends \cup {"end"} =>
           Gone \/ Working(events[i].run) \/ EndAfter(events, i)

Safe    == StoredInv /\ WatcherInv /\ NativeInv /\ TellerInv
ToldInv == LinkInv /\ ServerInv /\ SendInv /\ QueueInv /\ (slips = {} => Safe)

LEMMA QueueAppend ==
    ASSUME NEW s \in Seq(EventSet), NEW e \in EventSet
    PROVE  /\ \A n : EndIn(Append(s, e), n) <=> EndIn(s, n) \/ (e.run = n /\ e.kind \in Ends)
           /\ \A n : StartIn(s, n) => StartIn(Append(s, e), n)
           /\ e.kind = "started" => StartIn(Append(s, e), e.run)
           /\ \A i \in 1..Len(s) :
                  /\ EndAfter(s, i) => EndAfter(Append(s, e), i)
                  /\ e.run = s[i].run /\ e.kind \in Ends => EndAfter(Append(s, e), i)
                  /\ StartBefore(s, i) => StartBefore(Append(s, e), i)
           /\ StartIn(s, e.run) => StartBefore(Append(s, e), Len(s) + 1)
<1>1. /\ Len(s) \in Nat /\ Len(Append(s, e)) = Len(s) + 1
      /\ \A i \in 1..Len(s) : i \in 1..(Len(s) + 1) /\ i < Len(s) + 1 /\ Append(s, e)[i] = s[i]
      /\ Append(s, e)[Len(s) + 1] = e /\ Len(s) + 1 \in 1..(Len(s) + 1)
      /\ \A i \in 1..(Len(s) + 1) : i \in 1..Len(s) \/ i = Len(s) + 1
  OBVIOUS
<1>2. \A n : EndIn(Append(s, e), n) <=> EndIn(s, n) \/ (e.run = n /\ e.kind \in Ends)
  BY <1>1 DEF EndIn
<1>3. /\ \A n : StartIn(s, n) => StartIn(Append(s, e), n)
      /\ e.kind = "started" => StartIn(Append(s, e), e.run)
  BY <1>1 DEF StartIn
<1>4. ASSUME NEW i \in 1..Len(s)
      PROVE  /\ EndAfter(s, i) => EndAfter(Append(s, e), i)
             /\ e.run = s[i].run /\ e.kind \in Ends => EndAfter(Append(s, e), i)
  BY <1>1 DEF EndAfter
<1>5. ASSUME NEW i \in 1..Len(s)
      PROVE  StartBefore(s, i) => StartBefore(Append(s, e), i)
  BY <1>1 DEF StartBefore
<1>6. StartIn(s, e.run) => StartBefore(Append(s, e), Len(s) + 1)
  BY <1>1 DEF StartBefore, StartIn
<1> QED
  BY <1>2, <1>3, <1>4, <1>5, <1>6

LEMMA QueueTail ==
    ASSUME NEW s \in Seq(EventSet), s # <<>>
    PROVE  /\ \A n : EndIn(s, n) => \/ EndIn(Tail(s), n)
                                    \/ Head(s).run = n /\ Head(s).kind \in Ends
           /\ \A n : EndIn(Tail(s), n) => EndIn(s, n)
           /\ \A n : StartIn(s, n) => \/ StartIn(Tail(s), n)
                                      \/ Head(s).run = n /\ Head(s).kind = "started"
           /\ EndAfter(s, 1) => EndIn(Tail(s), Head(s).run)
           /\ ~StartBefore(s, 1)
           /\ \A i \in 1..Len(Tail(s)) :
                  /\ EndAfter(s, i + 1) => EndAfter(Tail(s), i)
                  /\ StartBefore(s, i + 1) =>
                         \/ StartBefore(Tail(s), i)
                         \/ Head(s).run = Tail(s)[i].run /\ Head(s).kind = "started"
<1>1. /\ Len(s) \in Nat \ {0} /\ Len(Tail(s)) = Len(s) - 1 /\ Head(s) = s[1]
      /\ \A i \in 1..Len(Tail(s)) : i + 1 \in 1..Len(s) /\ Tail(s)[i] = s[i + 1]
  BY HeadTail
<1>2. ASSUME NEW j \in 1..Len(s), j # 1
      PROVE  \E k \in 1..Len(Tail(s)) : k + 1 = j /\ Tail(s)[k] = s[j]
  <2>1. j - 1 \in 1..Len(Tail(s)) /\ (j - 1) + 1 = j
    BY <1>1, <1>2
  <2>2. Tail(s)[j - 1] = s[j]
    BY <1>1, <2>1
  <2> QED
    BY <2>1, <2>2
<1>3. ASSUME NEW n
      PROVE  /\ EndIn(s, n) => \/ EndIn(Tail(s), n)
                               \/ Head(s).run = n /\ Head(s).kind \in Ends
             /\ StartIn(s, n) => \/ StartIn(Tail(s), n)
                                 \/ Head(s).run = n /\ Head(s).kind = "started"
  <2>1. ASSUME EndIn(s, n)
        PROVE  \/ EndIn(Tail(s), n)
               \/ Head(s).run = n /\ Head(s).kind \in Ends
    <3>1. PICK j \in 1..Len(s) : s[j].run = n /\ s[j].kind \in Ends
      BY <2>1 DEF EndIn
    <3>2. CASE j = 1
      BY <1>1, <3>1, <3>2
    <3>3. CASE j # 1
      <4>1. PICK k \in 1..Len(Tail(s)) : Tail(s)[k] = s[j]
        BY <1>2, <3>3
      <4> QED
        BY <3>1, <4>1 DEF EndIn
    <3> QED
      BY <3>2, <3>3
  <2>2. ASSUME StartIn(s, n)
        PROVE  \/ StartIn(Tail(s), n)
               \/ Head(s).run = n /\ Head(s).kind = "started"
    <3>1. PICK j \in 1..Len(s) : s[j].run = n /\ s[j].kind = "started"
      BY <2>2 DEF StartIn
    <3>2. CASE j = 1
      BY <1>1, <3>1, <3>2
    <3>3. CASE j # 1
      <4>1. PICK k \in 1..Len(Tail(s)) : Tail(s)[k] = s[j]
        BY <1>2, <3>3
      <4> QED
        BY <3>1, <4>1 DEF StartIn
    <3> QED
      BY <3>2, <3>3
  <2> QED
    BY <2>1, <2>2
<1>4. \A n : EndIn(Tail(s), n) => EndIn(s, n)
  BY <1>1 DEF EndIn
<1>5. EndAfter(s, 1) => EndIn(Tail(s), Head(s).run)
  <2> SUFFICES ASSUME NEW j \in 1..Len(s), 1 < j, s[j].run = s[1].run, s[j].kind \in Ends
               PROVE  EndIn(Tail(s), Head(s).run)
    BY DEF EndAfter
  <2>1. PICK k \in 1..Len(Tail(s)) : Tail(s)[k] = s[j]
    BY <1>2
  <2> QED
    BY <1>1, <2>1 DEF EndIn
<1>6. ~StartBefore(s, 1)
  BY <1>1 DEF StartBefore
<1>7. ASSUME NEW i \in 1..Len(Tail(s))
      PROVE  EndAfter(s, i + 1) => EndAfter(Tail(s), i)
  <2> SUFFICES ASSUME NEW j \in 1..Len(s), i + 1 < j, s[j].run = s[i + 1].run, s[j].kind \in Ends
               PROVE  EndAfter(Tail(s), i)
    BY DEF EndAfter
  <2>1. j # 1
    BY <1>1
  <2>2. PICK k \in 1..Len(Tail(s)) : k + 1 = j /\ Tail(s)[k] = s[j]
    BY <1>2, <2>1
  <2>3. i < k /\ Tail(s)[i] = s[i + 1]
    BY <1>1, <2>2
  <2> QED
    BY <2>2, <2>3 DEF EndAfter
<1>8. ASSUME NEW i \in 1..Len(Tail(s))
      PROVE  StartBefore(s, i + 1) => \/ StartBefore(Tail(s), i)
                                      \/ Head(s).run = Tail(s)[i].run /\ Head(s).kind = "started"
  <2> SUFFICES ASSUME NEW j \in 1..Len(s), j < i + 1, s[j].run = s[i + 1].run,
                      s[j].kind = "started", j # 1
               PROVE  StartBefore(Tail(s), i)
    BY <1>1 DEF StartBefore
  <2>1. PICK k \in 1..Len(Tail(s)) : k + 1 = j /\ Tail(s)[k] = s[j]
    BY <1>2
  <2>2. k < i /\ Tail(s)[i] = s[i + 1]
    BY <1>1, <2>1
  <2> QED
    BY <2>1, <2>2 DEF StartBefore
<1> QED
  BY <1>3, <1>4, <1>5, <1>6, <1>7, <1>8

(* Whatever an event reports is a native turn of a send so far.            *)
LEMMA EventRuns ==
    ASSUME CodexInv
    PROVE  \A i \in 1..Len(events) :
               /\ events[i].kind \in Kinds \cup {"end"}
               /\ events[i].kind # "end" =>
                      /\ events[i].run \in Sends /\ events[i].run <= sends
                      /\ turnOf[events[i].run] \in Turns
                      /\ turns[turnOf[events[i].run]] \in Sends
<1>1. sends \in 0..MaxSends /\ turns \in [Turns -> Sends \cup {None}]
  BY DEF CodexInv, TypeOK
<1>2. ASSUME NEW n, Bound(n)
      PROVE  n \in Sends /\ n <= sends /\ turnOf[n] \in Turns /\ turns[turnOf[n]] \in Sends
  BY <1>1, <1>2, Constants DEF Bound, Sends
<1>3. \A i \in 1..Len(events) : events[i].kind \in Kinds \cup {"end"}
  BY EventTypes DEF CodexInv, EventSet
<1> QED
  BY <1>2, <1>3 DEF CodexInv, RunInv

LEMMA GoneKept ==
    ASSUME Gone, \A p \in Servers : watcher[p].at # "none" => watcher'[p].at # "none",
           \/ started' = started /\ (process' = "up" => process = "up")
           \/ \A p \in Servers : watcher[p].at # "none" => p # started'
    PROVE  Gone'
BY DEF Gone

(* A step that begins nothing and reports nothing.                         *)
Calm ==
    /\ UNCHANGED <<turns, turnOf, run, events, stored, sends, started, reader, watcher, slips>>
    /\ \A t \in Turns : native[t] # None => native'[t] # None
    /\ \A t \in Turns : kane'[t] = "active" =>
           /\ kane[t] = "active"
           /\ Busy(t) => \/ Busy(t)'
                         \/ step = "turn/start" /\ future = "ok" /\ native'[t] # None
    /\ process' = "up" <=> process = "up"
    /\ link' = "down" => link = "down" \/ \A t \in Turns : kane'[t] = "stopped"
    /\ \/ step' = step /\ subject' = subject
       \/ step' \notin Preparing
    /\ step' = "idle" => future' = "none" \/ UNCHANGED <<step, future>>
    /\ step = "initialize" =>
           \/ step' = "initialize" /\ future' = future
           \/ step' # "initialize" /\ future # "waiting"
           \/ \A p \in Servers : watcher[p].at = "process" => watcher[p].of = started
    /\ step' = "turn/start" =>
           \/ future' \in {future, "error", "lost"}
           \/ /\ future = "waiting" /\ future' = "ok"
              /\ process = "up" /\ run[sends] # "none"

LEMMA CalmStep ==
    ASSUME CodexInv, TypeOK', ToldInv, Calm
    PROVE  ToldInv'
<1>1. /\ UNCHANGED <<turns, turnOf, run, events, stored, sends, started, reader, watcher, slips>>
      /\ process' = "up" <=> process = "up"
      /\ (step' = step /\ subject' = subject) \/ step' \notin Preparing
  BY DEF Calm
<1>2. LinkInv'
  BY DEF Calm, ToldInv, LinkInv, TypeOK
<1>3. ServerInv'
  BY <1>1 DEF ToldInv, ServerInv, Asked, Preparing, Working
<1>4. SendInv'
  <2>1. step' = "turn/start" /\ future' = "ok" => run[sends] # "none"
    BY <1>1 DEF Calm, ToldInv, SendInv, Preparing
  <2> QED
    BY <1>1, <2>1 DEF Calm, ToldInv, SendInv, Preparing, Working
<1>5. QueueInv'
  BY <1>1 DEF ToldInv, QueueInv
<1>6. ASSUME slips' = {}
      PROVE  Safe'
  <2>1. StoredInv /\ WatcherInv /\ NativeInv /\ TellerInv
    BY <1>1, <1>6 DEF ToldInv, Safe
  <2>2. StoredInv'
    BY <1>1, <2>1 DEF StoredInv, Working, Preparing
  <2>3. WatcherInv'
    <3> SUFFICES ASSUME NEW p \in Servers, watcher[p].at = "process"
                 PROVE  /\ watcher[p].of = p
                        /\ p # started => process' # "up" \/ (step' = "initialize" /\ future' = "waiting")
      BY <1>1 DEF WatcherInv
    <3> QED
      BY <1>1, <2>1 DEF WatcherInv, Calm, Preparing
  <2>4. NativeInv'
    <3>1. \A t \in Turns : kane'[t] = "active" /\ ~Busy(t)' => native'[t] # None
      BY <2>1 DEF NativeInv, Calm
    <3>2. \A t \in Turns : native[t] # None => native'[t] # None
      BY DEF Calm
    <3>3. \A n \in Sends : run[n] \in {"started", "spoke"} /\ turns[turnOf[n]] = n =>
                native'[turnOf[n]] # None \/ StartIn(events, n)
      <4> SUFFICES ASSUME NEW n \in Sends, run[n] \in {"started", "spoke"}, turns[turnOf[n]] = n
                   PROVE  native'[turnOf[n]] # None \/ StartIn(events, n)
        OBVIOUS
      <4>1. turnOf[n] \in Turns
        BY DEF CodexInv, RunInv, Working, Bound
      <4> QED
        BY <2>1, <3>2, <4>1 DEF NativeInv
    <3>4. \A j \in 1..Len(events) :
            events[j].kind \notin {"started", "end"} /\ turns[turnOf[events[j].run]] = events[j].run =>
                native'[turnOf[events[j].run]] # None \/ StartBefore(events, j)
      BY <2>1, <3>2, EventRuns DEF NativeInv
    <3> QED
      BY <1>1, <3>1, <3>3, <3>4 DEF NativeInv
  <2>5. TellerInv'
    <3>1. Gone' <=> Gone
      BY <1>1 DEF Gone
    <3>2. ASSUME NEW t \in Turns, kane'[t] = "active", ~Busy(t)'
          PROVE  Gone \/ \E n \in Sends : turnOf[n] = t /\ (Working(n) \/ EndIn(events, n))
      <4>1. kane[t] = "active" /\ (Busy(t) => step = "turn/start" /\ future = "ok")
        BY <3>2 DEF Calm
      <4>2. CASE ~Busy(t)
        BY <2>1, <4>1, <4>2 DEF TellerInv
      <4>3. CASE Busy(t)
        <5>1. sends \in Sends /\ turnOf[sends] = t /\ subject = t
          BY <4>3, Constants DEF Busy, CodexInv, CommandInv, TypeOK, Sends
        <5>2. Gone \/ Working(sends) \/ EndIn(events, sends)
          BY <2>1, <4>1, <4>3, <5>1 DEF TellerInv, ToldInv, SendInv
        <5> QED
          BY <5>1, <5>2
      <4> QED
        BY <4>2, <4>3
    <3>3. ASSUME step' = "turn/start", kane'[subject'] = "active", future' \in {"waiting", "ok"},
                 run[sends] # "none"
          PROVE  \/ Gone \/ Working(sends) \/ EndIn(events, sends)
                 \/ future' = "waiting" /\ process' # "up"
      <4>1. step = "turn/start" /\ subject' = subject /\ subject \in Turns
        BY <1>1, <3>3 DEF Preparing, CodexInv, CommandInv
      <4>2. kane[subject] = "active"
        BY <3>3, <4>1 DEF Calm
      <4>3. \/ future' = future
            \/ future = "waiting" /\ future' = "ok" /\ process = "up"
        BY <3>3 DEF Calm
      <4> QED
        BY <1>1, <2>1, <3>3, <4>1, <4>2, <4>3 DEF TellerInv
    <3>4. \A n : Working(n)' <=> Working(n)
      BY <1>1 DEF Working
    <3> QED
      BY <1>1, <2>1, <3>1, <3>2, <3>3, <3>4 DEF TellerInv, Working
  <2> QED
    BY <2>2, <2>3, <2>4, <2>5 DEF Safe
<1> QED
  BY <1>2, <1>3, <1>4, <1>5, <1>6 DEF ToldInv

LEMMA CalmActions ==
    ASSUME CodexInv, TypeOK', ToldInv,
           \/ KaneTimesOut \/ Disconnect \/ Reconnect \/ CodexAnswers \/ RequestTimesOut
           \/ RequestFails \/ ControlDone \/ Respond \/ TurnStarted \/ ExitIsSeen
           \/ \E t \in Turns : Control(t, "turn/steer") \/ Control(t, "turn/interrupt")
    PROVE  ToldInv'
<1> USE DEF kaneVars, command, tables, queue, servers, codex, history
<1>1. CASE KaneTimesOut \/ Disconnect \/ Reconnect \/ Respond \/ ExitIsSeen
  <2>1. Calm
    BY <1>1 DEF KaneTimesOut, Disconnect, Reconnect, Respond, ExitIsSeen, Calm, Busy, Stops,
                LoseLink, CodexInv, TypeOK, CommandInv
  <2> QED
    BY <2>1, CalmStep
<1>2. CASE CodexAnswers \/ RequestTimesOut
  <2>1. step # "idle"
    BY <1>2 DEF CodexAnswers, RequestTimesOut, ToldInv, SendInv
  <2>2. step = "initialize" => \A p \in Servers : watcher[p].at = "process" => watcher[p].of = started
    BY <1>2 DEF CodexAnswers, RequestTimesOut, Spawning, WatcherReady
  <2>3. Calm
    BY <1>2, <2>1, <2>2 DEF CodexAnswers, RequestTimesOut, Calm, Busy
  <2> QED
    BY <2>3, CalmStep
<1>3. CASE RequestFails \/ ControlDone
  <2>1. subject \in Turns /\ step # "idle"
    BY <1>3 DEF RequestFails, ControlDone, CodexInv, CommandInv, ToldInv, SendInv
  <2>2. Calm
    BY <1>3, <2>1 DEF RequestFails, ControlDone, Calm, Busy, Reject, Over, Stops, Preparing,
                      CodexInv, TypeOK
  <2> QED
    BY <2>2, CalmStep
<1>4. CASE TurnStarted
  <2>1. subject \in Turns /\ sends # None
    BY <1>4, Constants DEF TurnStarted, CodexInv, TypeOK, CommandInv, Preparing, None
  <2>2. Calm
    BY <1>4, <2>1 DEF TurnStarted, Calm, Busy, Over, Preparing, CodexInv, TypeOK
  <2> QED
    BY <2>2, CalmStep
<1>5. CASE \E t \in Turns : Control(t, "turn/steer") \/ Control(t, "turn/interrupt")
  <2>1. Calm
    BY <1>5 DEF Control, Request, Reject, Over, Stops, Calm, Busy, Preparing, CodexInv, TypeOK
  <2> QED
    BY <2>1, CalmStep
<1> QED
  BY <1>1, <1>2, <1>3, <1>4, <1>5

-----------------------------------------------------------------------------
(* turn.send.                                                              *)

(* A process that is up is watched once start() has returned.              *)
LEMMA WatchStartedSets ==
    ASSUME CodexInv, ToldInv, WatchStarted
    PROVE  /\ \A p \in Servers : /\ watcher'[p].of = watcher[p].of
                                 /\ watcher'[p].at # watcher[p].at => watcher'[p].at = "reader"
                                 /\ watcher'[p].at # watcher[p].at => p = started
                                 /\ watcher[p].at # "none" => watcher'[p].at # "none"
           /\ process = "up" => watcher'[started].at # "none"
<1>1. watcher \in [Servers -> Watcher]
  BY DEF CodexInv, TypeOK, Watcher
<1>2. process = "up" => started \in Servers /\ reader[started] = "reading"
  BY DEF ToldInv, ServerInv
<1>3. \A p \in Servers : watcher[p] \in Watcher
  BY <1>1
<1>4. CASE watcher' = [watcher EXCEPT ![started].at = "reader"]
  <2>1. \A p \in Servers : watcher'[p] = IF p = started THEN [watcher[p] EXCEPT !.at = "reader"]
                                                   ELSE watcher[p]
    BY <1>1, <1>4
  <2>2. \A w \in Watcher : /\ [w EXCEPT !.at = "reader"].at = "reader"
                           /\ [w EXCEPT !.at = "reader"].of = w.of
    BY DEF Watcher
  <2> QED
    BY <1>2, <1>3, <2>1, <2>2
<1>5. CASE watcher' = watcher /\ ~(watcher[started].at = "none" /\ reader[started] = "reading")
  BY <1>2, <1>5
<1> QED
  BY <1>4, <1>5 DEF WatchStarted

(* A send that asks something of an app-server, or is rejected for want of *)
(* a socket: its Turn may get its binding.                                 *)
Sending(t) ==
    /\ UNCHANGED <<events, run, stored, slips, link>>
    /\ t \in Turns /\ sends' \in Sends /\ turnOf'[sends'] = t /\ run[sends'] = "none"
    /\ \/ sends' = sends + 1
       \/ sends' = sends /\ Busy(t)
    /\ \A n \in Sends : n # sends' => turnOf'[n] = turnOf[n]
    /\ \A u \in Turns : u # t => /\ kane'[u] = kane[u] /\ turns'[u] = turns[u]
                                 /\ native'[u] = native[u] /\ ~Busy(u)
    /\ \/ step' = "idle" /\ kane'[t] = "stopped"
       \/ subject' = t /\ step' \in Preparing /\ (link = "open" \/ kane'[t] = kane[t])
    /\ \/ turns'[t] = turns[t] /\ native'[t] = native[t]
       \/ turns'[t] = sends'
    /\ step' = "turn/start" => turns'[t] = sends'
    /\ step' = "idle" => future' = "none"
    /\ step' = "turn/start" => future' # "ok"

LEMMA SendingStep ==
    ASSUME CodexInv, CodexInv', ToldInv, NEW t, Sending(t), ServerInv', QueueInv',
           WatcherInv => WatcherInv', Gone => Gone',
           step' = "initialize" => \A n \in Sends : ~Working(n)
    PROVE  ToldInv'
<1>1. /\ UNCHANGED <<events, run, stored, slips, link>>
      /\ t \in Turns /\ sends' \in Sends /\ turnOf'[sends'] = t /\ run[sends'] = "none"
      /\ \A n \in Sends : n # sends' => turnOf'[n] = turnOf[n]
      /\ \A u \in Turns : u # t => /\ kane'[u] = kane[u] /\ turns'[u] = turns[u]
                                   /\ native'[u] = native[u] /\ ~Busy(u)
  BY DEF Sending
<1>2. \A n : Working(n)' <=> Working(n)
  BY <1>1 DEF Working
<1>3. /\ \A u \in Turns : u # t => ~Busy(u)'
      /\ Busy(t)' \/ kane'[t] = "stopped"
      /\ step' \in Preparing => subject' = t
  <2>1. "idle" \notin Preparing
    BY DEF Preparing
  <2> QED
    BY <1>1, <2>1 DEF Sending, Busy
<1>4. LinkInv'
  BY <1>1 DEF Sending, ToldInv, LinkInv, CodexInv, TypeOK
<1>5. SendInv'
  <2>1. sends \in Nat /\ sends' \in {sends, sends + 1}
    BY Constants DEF Sending, CodexInv, TypeOK
  <2>2. stored' \subseteq 1..sends'
    BY <1>1, <2>1 DEF ToldInv, SendInv
  <2>3. \A u \in Turns : turns'[u] \in 0..sends'
    BY <1>1, <2>1 DEF Sending, ToldInv, SendInv
  <2>4. \A n \in Sends : n > sends' => run[n] = "none"
    BY <2>1, Constants DEF ToldInv, SendInv
  <2> QED
    BY <1>1, <1>2, <1>3, <2>2, <2>3, <2>4 DEF Sending, SendInv, Preparing
<1>6. ASSUME slips' = {}
      PROVE  Safe'
  <2>1. StoredInv /\ WatcherInv /\ NativeInv /\ TellerInv
    BY <1>1, <1>6 DEF ToldInv, Safe
  <2>2. StoredInv'
    <3>1. \A n \in stored : n # sends'
      <4>1. CASE sends' = sends + 1
        BY <4>1, Constants DEF ToldInv, SendInv, CodexInv, TypeOK
      <4>2. CASE sends' = sends /\ Busy(t)
        BY <1>1, <2>1, <4>2 DEF StoredInv, Busy
      <4> QED
        BY <4>1, <4>2 DEF Sending
    <3> QED
      BY <1>1, <1>2, <2>1, <3>1 DEF StoredInv
  <2>3. /\ \A n \in Sends : run[n] # "none" =>
              n # sends' /\ turnOf'[n] = turnOf[n]
        /\ \A i \in 1..Len(events) : events[i].kind # "end" =>
              /\ events[i].run \in Sends /\ turnOf'[events[i].run] = turnOf[events[i].run]
              /\ events[i].run # sends' /\ turnOf[events[i].run] \in Turns
    <3>1. \A i \in 1..Len(events) : events[i].kind # "end" => run[events[i].run] # "none"
      BY DEF ToldInv, QueueInv
    <3> QED
      BY <1>1, <3>1, EventRuns
  <2>4. ASSUME NEW n \in Sends, run[n] # "none", turnOf[n] \in Turns, turns'[turnOf[n]] = n
        PROVE  turns[turnOf[n]] = n /\ native'[turnOf[n]] = native[turnOf[n]]
    <3>1. n # sends'
      BY <2>3, <2>4
    <3> QED
      BY <1>1, <2>4, <3>1 DEF Sending
  <2>5. NativeInv'
    <3>1. \A u \in Turns : kane'[u] = "active" /\ ~Busy(u)' => native'[u] # None
      BY <1>1, <1>3, <2>1 DEF NativeInv
    <3>2. ASSUME NEW n \in Sends, run[n] \in {"started", "spoke"}, turns'[turnOf'[n]] = n
          PROVE  native'[turnOf'[n]] # None \/ StartIn(events, n)
      <4>1. turnOf[n] \in Turns /\ turnOf'[n] = turnOf[n]
        BY <2>3, <3>2 DEF CodexInv, RunInv, Working, Bound
      <4> QED
        BY <2>1, <2>4, <3>2, <4>1 DEF NativeInv
    <3>3. ASSUME NEW j \in 1..Len(events), events[j].kind \notin {"started", "end"},
                 turns'[turnOf'[events[j].run]] = events[j].run
          PROVE  native'[turnOf'[events[j].run]] # None \/ StartBefore(events, j)
      <4>1. /\ events[j].run \in Sends /\ turnOf'[events[j].run] = turnOf[events[j].run]
            /\ run[events[j].run] # "none" /\ turnOf[events[j].run] \in Turns
        BY <2>3, <3>3 DEF ToldInv, QueueInv
      <4> QED
        BY <2>1, <2>4, <3>3, <4>1 DEF NativeInv
    <3> QED
      BY <1>1, <3>1, <3>2, <3>3 DEF NativeInv
  <2>6. TellerInv'
    <3>1. ASSUME NEW u \in Turns, kane'[u] = "active", ~Busy(u)'
          PROVE  Gone' \/ \E n \in Sends : turnOf'[n] = u /\ (Working(n) \/ EndIn(events, n))
      <4>1. u # t /\ kane[u] = "active" /\ ~Busy(u)
        BY <1>1, <1>3, <3>1
      <4>2. CASE Gone
        BY <4>2
      <4>3. CASE \E n \in Sends : turnOf[n] = u /\ (Working(n) \/ EndIn(events, n))
        <5>1. PICK n \in Sends : turnOf[n] = u /\ (Working(n) \/ EndIn(events, n))
          BY <4>3
        <5>2. run[n] # "none"
          BY <5>1 DEF Working, EndIn, Ends, ToldInv, QueueInv
        <5> QED
          BY <2>3, <5>1, <5>2
      <4> QED
        BY <2>1, <4>1, <4>2, <4>3 DEF TellerInv
    <3>2. \A i \in 1..Len(events) : events[i].kind \notin Ends \cup {"end"} =>
            Gone' \/ Working(events[i].run) \/ EndAfter(events, i)
      BY <2>1 DEF TellerInv
    <3> QED
      BY <1>1, <1>2, <3>1, <3>2 DEF TellerInv, Working
  <2> QED
    BY <2>1, <2>2, <2>5, <2>6 DEF Safe
<1> QED
  BY <1>4, <1>5, <1>6 DEF ToldInv

LEMMA WatchedServers ==
    ASSUME CodexInv, ToldInv, WatchStarted, UNCHANGED <<started, process, reader, run>>
    PROVE  ServerInv'
<1>1. started \in Nat /\ ServerInv
  BY Constants DEF CodexInv, TypeOK, ToldInv
<1>2. /\ process = "up" => started \in Servers /\ reader[started] = "reading"
      /\ \A n \in Sends : Working(n)' => process = "up"
  BY <1>1 DEF ServerInv, Working
<1>3. ASSUME NEW p \in Servers
      PROVE  /\ watcher'[p].at # "none" => p <= started
             /\ watcher'[p].at = "process" => reader[p] = "ended"
  <2>1. CASE watcher'[p].at = watcher[p].at
    BY <1>1, <2>1 DEF ServerInv
  <2>2. CASE watcher'[p].at # watcher[p].at
    <3>1. p = started /\ watcher'[p].at = "reader"
      BY <2>2, WatchStartedSets
    <3> QED
      BY <1>1, <3>1
  <2> QED
    BY <2>1, <2>2
<1> QED
  BY <1>2, <1>3, WatchStartedSets DEF ServerInv

LEMMA SendToRunningTold ==
    ASSUME CodexInv, CodexInv', ToldInv, NEW t \in Turns, SendToRunning(t)
    PROVE  ToldInv'
<1> USE DEF kaneVars, command, tables, queue, servers, codex, history
<1>1. /\ link = "open" /\ step = "idle" /\ kane[t] = "stopped" /\ sends < MaxSends
      /\ sends' = sends + 1 /\ turnOf' = [turnOf EXCEPT ![sends'] = t]
      /\ kane' = [kane EXCEPT ![t] = "active"]
      /\ UNCHANGED <<events, run, stored, slips, link, started, process, reader>>
      /\ WatchStarted /\ subject' = t /\ step' \in Preparing \ {"initialize"} /\ future' # "ok"
      /\ \/ turns' = turns /\ native' = native /\ step' # "turn/start"
         \/ /\ turns' = [turns EXCEPT ![t] = sends'] /\ native' = [native EXCEPT ![t] = None]
            /\ step' = "turn/start"
  BY DEF SendToRunning, SendArrives, GetThread, Request, Preparing
<1>2. /\ sends' \in Sends /\ run[sends'] = "none"
      /\ \A n \in Sends : turnOf'[n] = IF n = sends' THEN t ELSE turnOf[n]
  <2>1. sends \in Nat /\ sends' \in Sends /\ sends' > sends
    BY <1>1, Constants DEF CodexInv, TypeOK, Sends
  <2> QED
    BY <1>1, <2>1 DEF ToldInv, SendInv, CodexInv, TypeOK
<1>3. Sending(t)
  BY <1>1, <1>2 DEF Sending, Busy, Preparing, CodexInv, TypeOK
<1>4. ServerInv'
  BY <1>1, WatchedServers
<1>5. QueueInv'
  BY <1>1 DEF ToldInv, QueueInv
<1>6. WatcherInv => WatcherInv'
  BY <1>1, WatchStartedSets DEF WatcherInv
<1>7. Gone => Gone'
  BY <1>1, WatchStartedSets, GoneKept
<1> QED
  BY <1>1, <1>3, <1>4, <1>5, <1>6, <1>7, SendingStep

LEMMA SendToNewTold ==
    ASSUME CodexInv, CodexInv', ToldInv, NEW t \in Turns, SendToNew(t)
    PROVE  ToldInv'
<1> USE DEF kaneVars, command, tables, queue, servers, codex, history
<1>1. /\ link = "open" /\ step = "idle" /\ kane[t] = "stopped" /\ sends < MaxSends
      /\ sends' = sends + 1 /\ turnOf' = [turnOf EXCEPT ![sends'] = t]
      /\ kane' = [kane EXCEPT ![t] = "active"]
      /\ UNCHANGED <<events, run, stored, slips, link, turns, native, watcher>>
      /\ process # "up" /\ started < MaxStarts /\ started' = started + 1 /\ process' = "up"
      /\ reader' = [reader EXCEPT ![started'] = "reading"]
      /\ subject' = t /\ step' = "initialize" /\ future' = "waiting"
  BY DEF SendToNew, SendArrives, Alive
<1>2. /\ sends' \in Sends /\ run[sends'] = "none"
      /\ \A n \in Sends : turnOf'[n] = IF n = sends' THEN t ELSE turnOf[n]
  <2>1. sends \in Nat /\ sends' \in Sends /\ sends' > sends
    BY <1>1, Constants DEF CodexInv, TypeOK, Sends
  <2> QED
    BY <1>1, <2>1 DEF ToldInv, SendInv, CodexInv, TypeOK
<1>3. Sending(t)
  BY <1>1, <1>2 DEF Sending, Busy, Preparing, CodexInv, TypeOK
<1>4. /\ started \in Nat /\ started' \in Servers
      /\ \A p \in Servers : p <= started => p # started' /\ reader'[p] = reader[p]
      /\ \A p \in Servers : p <= started => p <= started'
      /\ reader'[started'] = "reading"
  BY <1>1, Constants DEF CodexInv, TypeOK, Servers
<1>5. ~\E n \in Sends : Working(n)
  BY <1>1 DEF ToldInv, ServerInv
<1>6. ServerInv'
  BY <1>1, <1>4, <1>5 DEF ToldInv, ServerInv, Asked, Working
<1>7. QueueInv'
  BY <1>1, <1>4 DEF ToldInv, QueueInv
<1>8. WatcherInv => WatcherInv'
  BY <1>1 DEF WatcherInv
<1>9. Gone => Gone'
  BY <1>1, <1>4 DEF Gone, ToldInv, ServerInv
<1> QED
  BY <1>3, <1>5, <1>6, <1>7, <1>8, <1>9, SendingStep

LEMMA PreparingTold ==
    ASSUME CodexInv, CodexInv', ToldInv, Initialized \/ ThreadReady
    PROVE  ToldInv'
<1> USE DEF kaneVars, command, tables, queue, servers, codex, history
<1> DEFINE t == subject
<1>1. /\ UNCHANGED <<events, run, stored, slips, link, started, process, reader, sends, turnOf>>
      /\ step \in {"initialize", "thread/start", "thread/resume"} /\ future = "ok"
      /\ t \in Turns /\ sends \in Sends /\ turnOf[sends] = t /\ run[sends] = "none" /\ Busy(t)
  BY Constants DEF Initialized, ThreadReady, CodexInv, TypeOK, CommandInv, Preparing, Sends,
                   ToldInv, SendInv, Busy
<1>2. /\ \/ WatchStarted
         \/ watcher' = watcher /\ (Asked \/ step' = "idle")
      /\ step' # "initialize" /\ future' # "ok"
      /\ \/ /\ step' = "idle" /\ future' = "none" /\ kane' = [kane EXCEPT ![t] = "stopped"]
         \/ step' \in Preparing /\ subject' = t /\ kane' = kane
      /\ \/ turns' = turns /\ native' = native /\ step' # "turn/start"
         \/ turns' = [turns EXCEPT ![t] = sends] /\ native' = [native EXCEPT ![t] = None]
  BY DEF Initialized, ThreadReady, BindAndStart, GetThread, Request, Reject, Over, Stops,
         Preparing, Asked
<1>3. Sending(t)
  BY <1>1, <1>2 DEF Sending, Busy, Preparing, CodexInv, TypeOK
<1>4. ServerInv'
  <2>1. CASE WatchStarted
    BY <1>1, <2>1, WatchedServers
  <2>2. CASE watcher' = watcher /\ (Asked \/ step' = "idle")
    BY <1>1, <2>2 DEF ToldInv, ServerInv, Working, Asked
  <2> QED
    BY <1>2, <2>1, <2>2
<1>5. QueueInv'
  BY <1>1 DEF ToldInv, QueueInv
<1>6. WatcherInv => WatcherInv'
  <2>1. CASE WatchStarted
    BY <1>1, <2>1, WatchStartedSets DEF WatcherInv
  <2>2. CASE watcher' = watcher
    BY <1>1, <2>2 DEF WatcherInv
  <2> QED
    BY <1>2, <2>1, <2>2
<1>7. Gone => Gone'
  <2>1. CASE WatchStarted
    BY <1>1, <2>1, WatchStartedSets, GoneKept
  <2>2. CASE watcher' = watcher
    BY <1>1, <2>2, GoneKept
  <2> QED
    BY <1>2, <2>1, <2>2
<1> QED
  BY <1>2, <1>3, <1>4, <1>5, <1>6, <1>7, SendingStep

-----------------------------------------------------------------------------
(* Codex.                                                                  *)

LEMMA RunBeginsTold ==
    ASSUME CodexInv, CodexInv', ToldInv, RunBegins
    PROVE  ToldInv'
<1> USE DEF kaneVars, command, tables, queue, servers, codex, history
<1>1. /\ UNCHANGED <<link, kane, stored, step, subject, future, turns, native, events, started,
                     process, reader, watcher, turnOf, sends, slips>>
      /\ step = "turn/start" /\ future = "waiting" /\ process = "up"
      /\ sends \in Sends /\ run[sends] = "none" /\ run'[sends] = "begun"
      /\ \A n \in Sends : n # sends => run'[n] = run[n]
  BY Constants DEF RunBegins, CodexInv, CommandInv, Preparing, TypeOK, Sends
<1>2. \A n \in Sends : Working(n)' <=> Working(n) \/ n = sends
  BY <1>1 DEF Working
<1>3. LinkInv'
  BY <1>1 DEF ToldInv, LinkInv
<1>4. ServerInv'
  BY <1>1, <1>2 DEF ToldInv, ServerInv, Asked
<1>5. SendInv'
  BY <1>1, Constants DEF ToldInv, SendInv, CodexInv, TypeOK
<1>6. QueueInv'
  <2>1. \A i \in 1..Len(events) : events[i].kind # "end" =>
          events[i].run \in Sends /\ events[i].run # sends
    BY <1>1, EventRuns DEF ToldInv, QueueInv
  <2> QED
    BY <1>1, <2>1 DEF ToldInv, QueueInv
<1>7. ASSUME slips' = {}
      PROVE  Safe'
  <2>1. StoredInv /\ WatcherInv /\ NativeInv /\ TellerInv
    BY <1>1, <1>7 DEF ToldInv, Safe
  <2>2. StoredInv'
    <3>1. sends \notin stored
      BY <1>1, <2>1 DEF StoredInv, Preparing
    <3>2. stored \subseteq Sends
      BY DEF CodexInv, TypeOK
    <3> QED
      BY <1>1, <1>2, <2>1, <3>1, <3>2 DEF StoredInv
  <2>3. WatcherInv'
    BY <1>1, <2>1 DEF WatcherInv
  <2>4. NativeInv'
    BY <1>1, <2>1 DEF NativeInv, Busy
  <2>5. TellerInv'
    <3>1. Gone' <=> Gone
      BY <1>1 DEF Gone
    <3>2. \A i \in 1..Len(events) : events[i].kind \notin Ends \cup {"end"} => events[i].run \in Sends
      BY EventRuns
    <3>3. ASSUME NEW n \in Sends, Working(n)
          PROVE  run'[n] \in {"begun", "started", "spoke"}
      BY <1>2, <3>3 DEF Working
    <3>4. \A t \in Turns : kane[t] = "active" /\ ~Busy(t) =>
            Gone \/ \E n \in Sends : turnOf[n] = t /\ (Working(n)' \/ EndIn(events, n))
      BY <1>2, <2>1 DEF TellerInv
    <3>5. run'[sends] \in {"begun", "started", "spoke"}
      BY <1>1
    <3> QED
      BY <1>1, <2>1, <3>1, <3>2, <3>3, <3>4, <3>5 DEF TellerInv, Busy, Working
  <2> QED
    BY <2>2, <2>3, <2>4, <2>5 DEF Safe
<1> QED
  BY <1>3, <1>4, <1>5, <1>6, <1>7 DEF ToldInv

LEMMA ReportsTold ==
    ASSUME CodexInv, CodexInv', ToldInv, NEW n \in Sends, NEW k \in Kinds, RunReports(n, k)
    PROVE  ToldInv'
<1> USE DEF kaneVars, command, tables, queue, servers, codex, history
<1> DEFINE e == Event(n, k)
<1>1. /\ UNCHANGED <<link, kane, stored, step, subject, future, turns, native, started,
                     process, reader, watcher, turnOf, sends, slips>>
      /\ events' = Append(events, e) /\ e \in EventSet /\ events \in Seq(EventSet)
      /\ e.run = n /\ e.kind = k /\ k \in Kinds /\ k # "end" /\ Working(n)
      /\ run[n] = "begun" <=> k = "started"
      /\ run'[n] = IF k = "started" THEN "started" ELSE IF k \in Ends THEN "ended" ELSE "spoke"
      /\ \A m \in Sends : m # n => run'[m] = run[m]
  BY EventTypes DEF RunReports, Reports, Working, Event, Kinds, Ends, CodexInv, TypeOK
<1>2. /\ Len(events) \in Nat /\ Len(events') = Len(events) + 1
      /\ \A i \in 1..Len(events') : i \in 1..Len(events) \/ i = Len(events) + 1
      /\ \A i \in 1..Len(events) : events'[i] = events[i]
      /\ events'[Len(events) + 1] = e
  BY <1>1
<1>3. /\ process = "up" /\ started \in Servers /\ reader[started] = "reading"
      /\ n <= sends /\ turnOf[n] \in Turns
  BY <1>1 DEF ToldInv, ServerInv, CodexInv, RunInv, Bound
<1>4. /\ \A m \in Sends : Working(m)' => Working(m)
      /\ \A m \in Sends : Working(m) => Working(m)' \/ (m = n /\ k \in Ends)
      /\ \A m \in Sends : run[m] \in {"none", "ended"} => run'[m] = run[m]
      /\ \A m \in Sends : run[m] \notin {"none", "begun"} => run'[m] \notin {"none", "begun"}
      /\ run'[n] \notin {"none", "begun"} /\ run[n] # "none" /\ run[n] # "ended"
  BY <1>1 DEF Working, Ends
<1>5. LinkInv'
  BY <1>1 DEF ToldInv, LinkInv
<1>6. ServerInv'
  BY <1>1, <1>4 DEF ToldInv, ServerInv, Asked
<1>7. SendInv'
  <2>1. step = "turn/start" => sends \in Sends
    BY Constants DEF CodexInv, CommandInv, Preparing, TypeOK, Sends
  <2>2. step \in {"initialize", "thread/start", "thread/resume"} => sends \in Sends
    BY Constants DEF CodexInv, CommandInv, Preparing, TypeOK, Sends
  <2> QED
    BY <1>1, <1>3, <1>4, <2>1, <2>2 DEF ToldInv, SendInv
<1>8. QueueInv'
  <2>1. events' # <<>> /\ started' \in Servers /\ reader'[started'] = "reading"
    BY <1>1, <1>2, <1>3
  <2>2. ASSUME NEW i \in 1..Len(events'), events'[i].kind # "end"
        PROVE  /\ run'[events'[i].run] \notin {"none", "begun"}
               /\ events'[i].kind \in Ends => run'[events'[i].run] = "ended"
    <3>1. CASE i \in 1..Len(events)
      BY <1>2, <1>4, <2>2, <3>1, EventRuns DEF ToldInv, QueueInv
    <3>2. CASE i = Len(events) + 1
      BY <1>1, <1>2, <1>4, <3>2 DEF Ends
    <3> QED
      BY <1>2, <3>1, <3>2
  <2>3. ASSUME NEW i \in 1..Len(events'), NEW j \in 1..Len(events'), i < j, events'[i].kind \in Ends
        PROVE  events'[j].run # events'[i].run
    <3>1. i \in 1..Len(events) /\ events'[i] = events[i]
      BY <1>2, <2>3
    <3>2. CASE j \in 1..Len(events)
      BY <1>2, <2>3, <3>1, <3>2 DEF ToldInv, QueueInv
    <3>3. CASE j = Len(events) + 1
      BY <1>1, <1>2, <1>4, <2>3, <3>1, <3>3 DEF ToldInv, QueueInv, Ends
    <3> QED
      BY <1>2, <3>2, <3>3
  <2> QED
    BY <2>1, <2>2, <2>3 DEF QueueInv
<1>9. ASSUME slips' = {}
      PROVE  Safe'
  <2>1. StoredInv /\ WatcherInv /\ NativeInv /\ TellerInv
    BY <1>1, <1>9 DEF ToldInv, Safe
  <2>2. /\ \A m : EndIn(events', m) <=> EndIn(events, m) \/ (m = n /\ k \in Ends)
        /\ \A m : StartIn(events, m) => StartIn(events', m)
        /\ k = "started" => StartIn(events', n)
        /\ \A i \in 1..Len(events) :
               /\ EndAfter(events, i) => EndAfter(events', i)
               /\ n = events[i].run /\ k \in Ends => EndAfter(events', i)
               /\ StartBefore(events, i) => StartBefore(events', i)
        /\ StartIn(events, n) => StartBefore(events', Len(events) + 1)
    BY <1>1, QueueAppend
  <2>3. StoredInv'
    <3>1. n \notin stored
      BY <1>1, <2>1 DEF StoredInv
    <3>2. stored \subseteq Sends
      BY DEF CodexInv, TypeOK
    <3>3. \A m \in stored, i \in 1..Len(events') : events'[i].run # m
      BY <1>1, <1>2, <2>1, <3>1 DEF StoredInv
    <3>4. \A m \in stored : run'[m] = run[m]
      BY <1>1, <3>1, <3>2
    <3> QED
      BY <1>1, <1>4, <2>1, <3>2, <3>3, <3>4 DEF StoredInv
  <2>4. WatcherInv'
    BY <1>1, <2>1 DEF WatcherInv
  <2>5. NativeInv'
    <3>1. \A t \in Turns : kane'[t] = "active" /\ ~Busy(t)' => native'[t] # None
      BY <1>1, <2>1 DEF NativeInv, Busy
    <3>2. ASSUME NEW m \in Sends, run'[m] \in {"started", "spoke"}, turns[turnOf[m]] = m
          PROVE  native[turnOf[m]] # None \/ StartIn(events', m)
      <4>1. CASE m = n /\ k = "started"
        BY <2>2, <4>1
      <4>2. CASE ~(m = n /\ k = "started")
        <5>1. run[m] \in {"started", "spoke"}
          BY <1>1, <3>2, <4>2 DEF Working
        <5> QED
          BY <2>1, <2>2, <3>2, <5>1 DEF NativeInv
      <4> QED
        BY <4>1, <4>2
    <3>3. ASSUME NEW j \in 1..Len(events'), events'[j].kind \notin {"started", "end"},
                 turns[turnOf[events'[j].run]] = events'[j].run
          PROVE  native[turnOf[events'[j].run]] # None \/ StartBefore(events', j)
      <4>1. CASE j \in 1..Len(events)
        BY <1>2, <2>1, <2>2, <3>3, <4>1 DEF NativeInv
      <4>2. CASE j = Len(events) + 1
        <5>1. events'[j].run = n /\ k # "started"
          BY <1>1, <1>2, <3>3, <4>2
        <5>2. run[n] \in {"started", "spoke"}
          BY <1>1, <5>1 DEF Working
        <5> QED
          BY <2>1, <2>2, <3>3, <4>2, <5>1, <5>2 DEF NativeInv
      <4> QED
        BY <1>2, <4>1, <4>2
    <3> QED
      BY <1>1, <3>1, <3>2, <3>3 DEF NativeInv
  <2>6. TellerInv'
    <3>1. Gone' <=> Gone
      BY <1>1 DEF Gone
    <3>2. \A m \in Sends : Working(m) \/ EndIn(events, m) => Working(m)' \/ EndIn(events', m)
      BY <1>4, <2>2
    <3>3. \A t \in Turns : kane'[t] = "active" /\ ~Busy(t)' =>
            Gone \/ \E m \in Sends : turnOf[m] = t /\ (Working(m)' \/ EndIn(events', m))
      BY <1>1, <2>1, <3>2 DEF TellerInv, Busy
    <3>4. ASSUME step' = "turn/start", kane'[subject'] = "active", future' \in {"waiting", "ok"},
                 run'[sends'] # "none"
          PROVE  \/ Gone \/ Working(sends)' \/ EndIn(events', sends)
                 \/ future' = "waiting" /\ process' # "up"
      <4>1. sends \in Sends
        BY <1>1, <3>4, Constants DEF CodexInv, CommandInv, Preparing, TypeOK, Sends
      <4>2. run[sends] # "none"
        BY <1>1, <1>4, <3>4, <4>1
      <4> QED
        BY <1>1, <2>1, <3>2, <3>4, <4>1, <4>2 DEF TellerInv
    <3>5. ASSUME NEW i \in 1..Len(events'), events'[i].kind \notin Ends \cup {"end"},
                 NEW m, m = events'[i].run
          PROVE  Gone \/ Working(m)' \/ EndAfter(events', i)
      <4>1. CASE i \in 1..Len(events)
        <5>1. m \in Sends /\ m = events[i].run
          BY <1>2, <3>5, <4>1, EventRuns
        <5>2. Gone \/ Working(m) \/ EndAfter(events, i)
          BY <1>2, <2>1, <3>5, <4>1, <5>1 DEF TellerInv
        <5> QED
          BY <1>4, <2>2, <4>1, <5>1, <5>2
      <4>2. CASE i = Len(events) + 1
        BY <1>1, <1>2, <1>4, <3>5, <4>2
      <4> QED
        BY <1>2, <4>1, <4>2
    <3> QED
      BY <1>1, <3>1, <3>3, <3>4, <3>5 DEF TellerInv, Working
  <2> QED
    BY <2>3, <2>4, <2>5, <2>6 DEF Safe
<1> QED
  BY <1>5, <1>6, <1>7, <1>8, <1>9 DEF ToldInv

-----------------------------------------------------------------------------
(* Events.                                                                 *)

(* What taking an event of native turn r does while nothing has slipped.   *)
Takes(k) ==
    LET r == Head(events).run
        t == TakenTurn
    IN  /\ slips = {}
        /\ k # "end" => turns[t] = r
        /\ \A u \in Turns : u # t \/ k \in {"delta", "ask", "end"} => native'[u] = native[u]
        /\ k = "started" => native'[t] # None
        /\ \A u \in Turns : kane'[u] = "active" => kane[u] = "active" \/ (u = t /\ k = "ask")
        /\ k \in Ends => kane'[t] = "stopped"
        /\ stored' = stored \/ (k \in Ends /\ stored' = stored \cup {r})

LEMMA TakesTold ==
    ASSUME CodexInv, CodexInv', ToldInv, NEW k \in Kinds \cup {"end"}, Taken(k), LinkInv',
           UNCHANGED <<step, subject, future, turns, started, process, reader, watcher, run,
                       turnOf, sends>>,
           stored' = stored \/ (k # "end" /\ stored' = stored \cup {turns[TakenTurn]}),
           slips' = {} => Takes(k)
    PROVE  ToldInv'
<1> DEFINE r == Head(events).run
           t == TakenTurn
<1>1. /\ events # <<>> /\ Head(events).kind = k /\ Head(events) = events[1]
      /\ events' = Tail(events) /\ events \in Seq(EventSet) /\ events' \in Seq(EventSet)
      /\ Len(events) \in Nat \ {0} /\ Len(events') = Len(events) - 1 /\ 1 \in 1..Len(events)
      /\ \A i \in 1..Len(events') : /\ i + 1 \in 1..Len(events) /\ events'[i] = events[i + 1]
                                    /\ 1 < i + 1
      /\ \A i, j \in 1..Len(events') : i < j => i + 1 < j + 1
  BY TakenFacts, EventTypes, HeadTail DEF CodexInv
<1>2. /\ k # "end" => /\ r \in Sends /\ t \in Turns /\ turnOf[r] = t
                      /\ turns[t] \in Sends /\ turns[t] \in 1..sends
      /\ k \in Ends => run[r] = "ended" /\ \A i \in 1..Len(events') : events'[i].run # r
  <2>1. k # "end" => r \in Sends /\ t \in Turns /\ turnOf[r] = t /\ turns[t] \in Sends
    BY TakenFacts DEF TakenTurn
  <2>2. k # "end" => turns[t] \in 1..sends
    BY <2>1, Constants DEF ToldInv, SendInv, CodexInv, TypeOK, Sends
  <2>3. k \in Ends => run[r] = "ended"
    BY <1>1 DEF ToldInv, QueueInv, Ends
  <2>4. k \in Ends => \A i \in 1..Len(events') : events'[i].run # r
    BY <1>1 DEF ToldInv, QueueInv
  <2> QED
    BY <2>1, <2>2, <2>3, <2>4
<1>3. ServerInv'
  BY DEF ToldInv, ServerInv, Asked, Working
<1>4. SendInv'
  <2>1. stored' \subseteq 1..sends
    BY <1>2 DEF ToldInv, SendInv
  <2> QED
    BY <2>1 DEF ToldInv, SendInv, Working
<1>5. QueueInv'
  <2>1. events' # <<>> => \/ events'[Len(events')].kind = "end"
                          \/ started \in Servers /\ reader[started] = "reading"
    <3>1. ASSUME events' # <<>>
          PROVE  events'[Len(events')] = events[Len(events)]
      <4>1. Len(events') \in 1..Len(events') /\ Len(events') + 1 = Len(events)
        BY <1>1, <3>1
      <4> QED
        BY <1>1, <4>1
    <3> QED
      BY <1>1, <3>1 DEF ToldInv, QueueInv
  <2>2. \A i \in 1..Len(events') : events'[i].kind # "end" =>
           /\ run[events'[i].run] \notin {"none", "begun"}
           /\ events'[i].kind \in Ends => run[events'[i].run] = "ended"
    BY <1>1 DEF ToldInv, QueueInv
  <2>3. \A i, j \in 1..Len(events') :
           i < j /\ events'[i].kind \in Ends => events'[j].run # events'[i].run
    BY <1>1 DEF ToldInv, QueueInv
  <2> QED
    BY <2>1, <2>2, <2>3 DEF QueueInv
<1>6. ASSUME slips' = {}
      PROVE  Safe'
  <2>1. /\ slips = {} /\ StoredInv /\ WatcherInv /\ NativeInv /\ TellerInv
        /\ k # "end" => turns[t] = r
        /\ \A u \in Turns : u # t \/ k \in {"delta", "ask", "end"} => native'[u] = native[u]
        /\ k = "started" => native'[t] # None
        /\ \A u \in Turns : kane'[u] = "active" => kane[u] = "active" \/ (u = t /\ k = "ask")
        /\ k \in Ends => kane'[t] = "stopped"
        /\ stored' = stored \/ (k \in Ends /\ stored' = stored \cup {r})
    BY <1>6 DEF Takes, ToldInv, Safe
  <2>2. /\ \A n : EndIn(events, n) => EndIn(events', n) \/ (r = n /\ k \in Ends)
        /\ \A n : StartIn(events, n) => StartIn(events', n) \/ (r = n /\ k = "started")
        /\ EndAfter(events, 1) => EndIn(events', r)
        /\ ~StartBefore(events, 1)
        /\ \A i \in 1..Len(events') :
               /\ EndAfter(events, i + 1) => EndAfter(events', i)
               /\ StartBefore(events, i + 1) =>
                      StartBefore(events', i) \/ (r = events'[i].run /\ k = "started")
    BY <1>1, QueueTail
  <2>3. StoredInv'
    <3>1. \A n \in stored : \A i \in 1..Len(events') : events'[i].run # n
      BY <1>1, <2>1 DEF StoredInv
    <3> QED
      BY <1>2, <2>1, <3>1 DEF StoredInv, Working
  <2>4. WatcherInv'
    BY <2>1 DEF WatcherInv
  <2>5. k = "ask" => native[t] # None
    BY <1>1, <1>2, <2>1, <2>2 DEF NativeInv
  <2>6. NativeInv'
    <3>1. ASSUME NEW u \in Turns, kane'[u] = "active", ~Busy(u)'
          PROVE  native'[u] # None
      <4>1. ~Busy(u)
        BY <3>1 DEF Busy
      <4>2. CASE u = t /\ k = "ask"
        BY <2>1, <2>5, <4>2
      <4>3. CASE ~(u = t /\ k = "ask")
        <5>1. native[u] # None
          BY <2>1, <3>1, <4>1, <4>3 DEF NativeInv
        <5>2. u # t \/ k \notin Ends
          BY <2>1, <3>1
        <5> QED
          BY <2>1, <5>1, <5>2 DEF Kinds
      <4> QED
        BY <4>2, <4>3
    <3>2. ASSUME NEW n \in Sends, run[n] \in {"started", "spoke"}, turns[turnOf[n]] = n
          PROVE  native'[turnOf[n]] # None \/ StartIn(events', n)
      <4>1. turnOf[n] \in Turns
        BY <3>2 DEF CodexInv, RunInv, Working, Bound
      <4>2. native[turnOf[n]] # None \/ StartIn(events, n)
        BY <2>1, <3>2 DEF NativeInv
      <4>3. CASE turnOf[n] # t \/ k \in {"delta", "ask", "end"}
        BY <1>2, <2>1, <2>2, <4>1, <4>2, <4>3
      <4>4. CASE turnOf[n] = t /\ k = "started"
        BY <2>1, <4>4
      <4>5. CASE turnOf[n] = t /\ k \in Ends
        BY <1>2, <2>1, <3>2, <4>5 DEF Ends
      <4> QED
        BY <4>3, <4>4, <4>5 DEF Kinds
    <3>3. ASSUME NEW j \in 1..Len(events'), events'[j].kind \notin {"started", "end"},
                 NEW n, n = events'[j].run, turns[turnOf[n]] = n
          PROVE  native'[turnOf[n]] # None \/ StartBefore(events', j)
      <4>1. j + 1 \in 1..Len(events) /\ events'[j] = events[j + 1]
        BY <1>1
      <4>2. turnOf[n] \in Turns
        BY <3>3, <4>1, EventRuns
      <4>3. native[turnOf[n]] # None \/ StartBefore(events, j + 1)
        BY <2>1, <3>3, <4>1 DEF NativeInv
      <4>4. CASE turnOf[n] # t \/ k \in {"delta", "ask", "end"}
        BY <1>2, <2>1, <2>2, <3>3, <4>2, <4>3, <4>4
      <4>5. CASE turnOf[n] = t /\ k = "started"
        BY <2>1, <4>5
      <4>6. CASE turnOf[n] = t /\ k \in Ends
        BY <1>2, <2>1, <3>3, <4>6 DEF Ends
      <4> QED
        BY <4>4, <4>5, <4>6 DEF Kinds
    <3> QED
      BY <3>1, <3>2, <3>3 DEF NativeInv
  <2>7. TellerInv'
    <3>1. Gone' <=> Gone
      BY DEF Gone
    <3>2. k = "ask" => Gone \/ Working(r) \/ EndIn(events', r)
      BY <1>1, <2>1, <2>2 DEF TellerInv, Ends
    <3>3. ASSUME NEW n \in Sends, Working(n) \/ EndIn(events, n), k \in Ends => turnOf[n] # t
          PROVE  Working(n) \/ EndIn(events', n)
      BY <1>2, <2>2, <3>3 DEF Ends
    <3>4. ASSUME NEW u \in Turns, kane'[u] = "active", ~Busy(u)'
          PROVE  Gone \/ \E n \in Sends : turnOf[n] = u /\ (Working(n) \/ EndIn(events', n))
      <4>1. ~Busy(u)
        BY <3>4 DEF Busy
      <4>2. CASE u = t /\ k = "ask"
        BY <1>2, <3>2, <4>2
      <4>3. CASE ~(u = t /\ k = "ask")
        <5>1. kane[u] = "active" /\ (k \in Ends => u # t)
          BY <2>1, <3>4, <4>3
        <5>2. Gone \/ \E n \in Sends : turnOf[n] = u /\ (Working(n) \/ EndIn(events, n))
          BY <2>1, <4>1, <5>1 DEF TellerInv
        <5> QED
          BY <3>3, <5>1, <5>2
      <4> QED
        BY <4>2, <4>3
    <3>5. ASSUME step = "turn/start", kane'[subject] = "active", future \in {"waiting", "ok"},
                 run[sends] # "none"
          PROVE  \/ Gone \/ Working(sends) \/ EndIn(events', sends)
                 \/ future = "waiting" /\ process # "up"
      <4>1. sends \in Sends /\ turnOf[sends] = subject /\ subject \in Turns /\ turns[subject] = sends
        BY <3>5, Constants DEF CodexInv, CommandInv, Preparing, TypeOK, Sends, ToldInv, SendInv
      <4>2. CASE subject = t /\ k = "ask"
        BY <2>1, <3>2, <4>1, <4>2
      <4>3. CASE ~(subject = t /\ k = "ask")
        <5>1. kane[subject] = "active" /\ (k \in Ends => subject # t)
          BY <2>1, <3>5, <4>1, <4>3
        <5>2. \/ Gone \/ Working(sends) \/ EndIn(events, sends)
              \/ future = "waiting" /\ process # "up"
          BY <2>1, <3>5, <5>1 DEF TellerInv
        <5> QED
          BY <3>3, <4>1, <5>1, <5>2
      <4> QED
        BY <4>2, <4>3
    <3>6. ASSUME NEW i \in 1..Len(events'), events'[i].kind \notin Ends \cup {"end"}
          PROVE  Gone \/ Working(events'[i].run) \/ EndAfter(events', i)
      BY <1>1, <2>1, <2>2, <3>6 DEF TellerInv
    <3> QED
      BY <3>1, <3>4, <3>5, <3>6 DEF TellerInv, Working
  <2> QED
    BY <2>3, <2>4, <2>6, <2>7 DEF Safe
<1> QED
  BY <1>3, <1>4, <1>5, <1>6 DEF ToldInv

LEMMA DispatchTold ==
    ASSUME CodexInv, CodexInv', ToldInv, Dispatch
    PROVE  ToldInv'
<1> USE DEF kaneVars, command, tables, queue, servers, codex, history
<1> DEFINE r == Head(events).run
           t == TakenTurn
<1>1. CASE DispatcherEnds
  <2>1. Taken("end") /\ UNCHANGED <<link, kane, stored, native, slips>>
    BY <1>1 DEF DispatcherEnds
  <2>2. LinkInv'
    BY <2>1 DEF ToldInv, LinkInv
  <2>3. slips' = {} => Takes("end")
    BY <2>1 DEF Takes, Ends
  <2> QED
    BY <1>1, <2>1, <2>2, <2>3, TakesTold DEF DispatcherEnds
<1>2. CASE RunStarted
  <2>1. /\ Taken("started") /\ UNCHANGED <<link, kane, stored>> /\ slips' = slips \cup Stray
        /\ native' = [native EXCEPT ![t] = r]
    BY <1>2 DEF RunStarted
  <2>2. r \in Sends /\ t \in Turns
    BY <2>1, TakenFacts
  <2>3. LinkInv'
    BY <2>1 DEF ToldInv, LinkInv
  <2>4. slips' = {} => Takes("started")
    BY <2>1, <2>2, Constants DEF Takes, Ends, Stray, CodexInv, TypeOK
  <2> QED
    BY <1>2, <2>1, <2>3, <2>4, TakesTold DEF RunStarted, Kinds
<1>3. CASE RunSays \/ RunAsks \/ RunEnds
  <2>1. PICK k \in {"delta", "ask"} \cup Ends :
          /\ Taken(k) /\ Report(t, k)
          /\ \/ native' = native
             \/ k \in Ends /\ native' = [native EXCEPT ![t] = None]
          /\ UNCHANGED <<step, subject, future, turns, started, process, reader, watcher, run,
                         turnOf, sends>>
    BY <1>3 DEF RunSays, RunAsks, RunEnds, Ends
  <2>2. /\ events # <<>> /\ Head(events).kind = k /\ k # "end" /\ k \in Kinds
        /\ r \in Sends /\ t \in Turns /\ turns[t] \in Sends
        /\ Len(events) \in Nat \ {0} /\ Head(events) = events[1]
    BY <2>1, TakenFacts, HeadTail, EventTypes DEF Kinds, Ends, CodexInv
  <2>3. CASE link # "open"
    <3>1. UNCHANGED <<link, kane, stored>> /\ slips' # {}
      BY <2>1, <2>3 DEF Report
    <3>2. LinkInv'
      BY <3>1 DEF ToldInv, LinkInv
    <3> QED
      BY <2>1, <2>2, <3>1, <3>2, TakesTold
  <2>4. CASE link = "open"
    <3>1. KaneHears(t, k) /\ slips' = slips \cup Stray
      BY <2>1, <2>4 DEF Report
    <3>2. LinkInv'
      BY <2>2, <2>4, <3>1 DEF KaneHears, LoseLink, LinkInv
    <3>3. stored' = stored \/ (k = "completed" /\ stored' = stored \cup {turns[t]})
      BY <3>1 DEF KaneHears
    <3>4. ASSUME slips' = {}
          PROVE  Takes(k)
      <4>1. slips = {} /\ turns[t] = r
        BY <3>1, <3>4 DEF Stray
      <4>2. r \notin stored
        <5>1. StoredInv
          BY <4>1 DEF ToldInv, Safe
        <5> QED
          BY <2>2, <5>1 DEF StoredInv
      <4>3. \A u \in Turns : kane'[u] = "active" => kane[u] = "active" \/ (u = t /\ k = "ask")
        BY <2>2, <3>1 DEF KaneHears, Stops, LoseLink, CodexInv, TypeOK
      <4>4. k \in Ends => kane'[t] = "stopped"
        BY <2>2, <3>1, <4>1, <4>2 DEF KaneHears, Stops, LoseLink, Ends, CodexInv, TypeOK
      <4>5. \A u \in Turns : u # t \/ k \in {"delta", "ask", "end"} => native'[u] = native[u]
        BY <2>1 DEF CodexInv, TypeOK, Ends
      <4>6. stored' = stored \/ (k \in Ends /\ stored' = stored \cup {r})
        BY <3>3, <4>1 DEF Ends
      <4>7. k # "started"
        BY <2>1 DEF Ends
      <4> QED
        BY <4>1, <4>3, <4>4, <4>5, <4>6, <4>7 DEF Takes
    <3> QED
      BY <2>1, <2>2, <3>2, <3>3, <3>4, TakesTold
  <2> QED
    BY <2>3, <2>4
<1> QED
  BY <1>1, <1>2, <1>3 DEF Dispatch

-----------------------------------------------------------------------------
(* The end of an app-server.                                               *)

LEMMA ReaderTold ==
    ASSUME CodexInv, CodexInv', ToldInv, NEW p \in Servers, ReaderEnds(p)
    PROVE  ToldInv'
<1> USE DEF kaneVars, command, tables, queue, servers, codex, history
<1>1. /\ UNCHANGED <<link, kane, stored, step, subject, turns, native, started, process, watcher,
                     run, turnOf, sends, slips>>
      /\ events' = Append(events, End) /\ End \in EventSet /\ events \in Seq(EventSet)
      /\ End.run = None /\ End.kind = "end" /\ End.kind \notin Ends
      /\ reader' = [reader EXCEPT ![p] = "ended"] /\ (p = started => process # "up")
      /\ future' = future \/ (future = "waiting" /\ ~Spawning /\ future' = "lost")
  BY EventTypes DEF ReaderEnds, End, Event, Ends, CodexInv
<1>2. /\ Len(events) \in Nat /\ Len(events') = Len(events) + 1
      /\ \A i \in 1..Len(events') : i \in 1..Len(events) \/ i = Len(events) + 1
      /\ \A i \in 1..Len(events) : events'[i] = events[i]
      /\ events'[Len(events) + 1] = End /\ Len(events') \in 1..Len(events')
  BY <1>1
<1>3. LinkInv'
  BY <1>1 DEF ToldInv, LinkInv
<1>4. ServerInv'
  BY <1>1 DEF ToldInv, ServerInv, Asked, Working, CodexInv, TypeOK
<1>5. SendInv'
  BY <1>1 DEF ToldInv, SendInv, Working
<1>6. QueueInv'
  <2>1. events'[Len(events')].kind = "end"
    BY <1>1, <1>2
  <2>2. \A i \in 1..Len(events') : events'[i].kind # "end" => i \in 1..Len(events)
    BY <1>1, <1>2
  <2>3. ASSUME NEW i \in 1..Len(events'), NEW j \in 1..Len(events'), i < j, events'[i].kind \in Ends
        PROVE  events'[j].run # events'[i].run
    <3>1. i \in 1..Len(events) /\ events'[i] = events[i] /\ events[i].kind # "end"
      BY <1>1, <1>2, <2>2, <2>3
    <3>2. CASE j \in 1..Len(events)
      BY <1>2, <2>3, <3>1, <3>2 DEF ToldInv, QueueInv
    <3>3. CASE j = Len(events) + 1
      BY <1>1, <1>2, <3>1, <3>3, EventRuns, Constants
    <3> QED
      BY <1>2, <3>2, <3>3
  <2>4. \A i \in 1..Len(events') : events'[i].kind # "end" =>
           /\ run[events'[i].run] \notin {"none", "begun"}
           /\ events'[i].kind \in Ends => run[events'[i].run] = "ended"
    BY <1>2, <2>2 DEF ToldInv, QueueInv
  <2> QED
    BY <1>1, <2>1, <2>3, <2>4 DEF QueueInv
<1>7. ASSUME slips' = {}
      PROVE  Safe'
  <2>1. StoredInv /\ WatcherInv /\ NativeInv /\ TellerInv
    BY <1>1, <1>7 DEF ToldInv, Safe
  <2>2. /\ \A n : EndIn(events, n) => EndIn(events', n)
        /\ \A n : StartIn(events, n) => StartIn(events', n)
        /\ \A i \in 1..Len(events) : /\ EndAfter(events, i) => EndAfter(events', i)
                                     /\ StartBefore(events, i) => StartBefore(events', i)
        /\ \A i \in 1..Len(events') : events'[i].kind # "end" =>
               i \in 1..Len(events) /\ events'[i] = events[i]
    BY <1>1, <1>2, QueueAppend
  <2>3. StoredInv'
    <3>1. None \notin stored
      BY Constants DEF CodexInv, TypeOK
    <3>2. \A n \in stored, i \in 1..Len(events') : events'[i].run # n
      BY <1>1, <1>2, <2>1, <3>1 DEF StoredInv
    <3> QED
      BY <1>1, <2>1, <3>2 DEF StoredInv, Working
  <2>4. WatcherInv'
    BY <1>1, <2>1 DEF WatcherInv, Spawning, WatcherReady
  <2>5. NativeInv'
    BY <1>1, <2>1, <2>2 DEF NativeInv, Busy
  <2>6. TellerInv'
    <3>1. Gone' <=> Gone
      BY <1>1 DEF Gone
    <3> QED
      BY <1>1, <2>1, <2>2, <3>1 DEF TellerInv, Busy, Working
  <2> QED
    BY <2>3, <2>4, <2>5, <2>6 DEF Safe
<1> QED
  BY <1>3, <1>4, <1>5, <1>6, <1>7 DEF ToldInv

LEMMA WakesTold ==
    ASSUME CodexInv, CodexInv', ToldInv, NEW p \in Servers, WatcherWakes(p)
    PROVE  ToldInv'
<1> USE DEF kaneVars, command, tables, queue, servers, codex, history
<1>1. /\ UNCHANGED <<link, kane, stored, step, subject, future, turns, native, started, process,
                     reader, run, turnOf, sends, events>>
      /\ watcher[p].at = "reader" /\ reader[p] = "ended"
      /\ watcher'[p].at = "process" /\ watcher'[p].of = started
      /\ \A q \in Servers : q # p => watcher'[q] = watcher[q]
      /\ slips' = {} => slips = {} /\ p = started
  BY DEF WatcherWakes, CodexInv, TypeOK
<1>2. LinkInv' /\ SendInv' /\ QueueInv'
  BY <1>1 DEF ToldInv, LinkInv, SendInv, QueueInv, Working
<1>3. ServerInv'
  BY <1>1 DEF ToldInv, ServerInv, Asked, Working
<1>4. ASSUME slips' = {}
      PROVE  Safe'
  <2>1. StoredInv /\ WatcherInv /\ NativeInv /\ TellerInv /\ p = started
    BY <1>1, <1>4 DEF ToldInv, Safe
  <2>2. StoredInv' /\ NativeInv'
    BY <1>1, <2>1 DEF StoredInv, NativeInv, Working, Busy
  <2>3. WatcherInv'
    BY <1>1, <2>1 DEF WatcherInv
  <2>4. Gone' <=> Gone
    BY <1>1 DEF Gone
  <2>5. TellerInv'
    BY <1>1, <2>1, <2>4 DEF TellerInv, Working, Busy
  <2> QED
    BY <2>2, <2>3, <2>5 DEF Safe
<1> QED
  BY <1>2, <1>3, <1>4 DEF ToldInv

(* A watcher that tells the Turns when nothing slipped tells every Turn    *)
(* that is active and has no command at work: Codex works on none then.    *)
LEMMA TellsTold ==
    ASSUME CodexInv, CodexInv', ToldInv, NEW p \in Servers, WatcherTells(p)
    PROVE  ToldInv'
<1> USE DEF kaneVars, command, tables, queue, servers, codex, history
<1>1. /\ UNCHANGED <<link, stored, step, subject, future, turns, started, process, reader, run,
                     turnOf, sends, events>>
      /\ watcher[p].at = "process" /\ (watcher[p].of = started => process = "exited")
      /\ watcher' = [watcher EXCEPT ![p] = NotWatching]
  BY DEF WatcherTells
<1>t. PICK told \in Told :
         /\ kane' = [t \in Turns |-> IF t \in told THEN "stopped" ELSE kane[t]]
         /\ native' = [t \in Turns |-> IF t \in told THEN None ELSE native[t]]
         /\ slips' = slips
              \cup (IF future = "ok" \/ \E i \in 1..Len(events) : events[i] # End
                    THEN {"overtaken"} ELSE {})
              \cup (IF link = "open" /\ told # WithNativeTurn THEN {"cut"} ELSE {})
  BY DEF WatcherTells
<1>s. ASSUME slips' = {}
      PROVE  /\ slips = {} /\ future # "ok" /\ \A i \in 1..Len(events) : events[i] = End
             /\ \/ /\ link = "open" /\ native' = [t \in Turns |-> None]
                   /\ kane' = [t \in Turns |-> IF native[t] # None THEN "stopped" ELSE kane[t]]
                \/ link # "open" /\ UNCHANGED <<kane, native>>
  <2>1. /\ slips = {} /\ future # "ok" /\ \A i \in 1..Len(events) : events[i] = End
        /\ link = "open" => told = WithNativeTurn
    BY <1>t, <1>s
  <2>2. CASE link = "open"
    BY <1>t, <2>1, <2>2 DEF WithNativeTurn
  <2>3. CASE link # "open"
    <3>1. told = {}
      BY <2>3 DEF Told
    <3> QED
      BY <1>t, <2>1, <2>3, <3>1 DEF CodexInv, TypeOK
  <2> QED
    BY <2>1, <2>2, <2>3
<1>2. /\ watcher'[p].at = "none" /\ \A q \in Servers : q # p => watcher'[q] = watcher[q]
  BY <1>1 DEF NotWatching, CodexInv, TypeOK
<1>3. LinkInv'
  BY <1>1, <1>t DEF ToldInv, LinkInv
<1>4. ServerInv'
  <2>1. p # started \/ process # "up"
    BY <1>1 DEF ToldInv, ServerInv
  <2> QED
    BY <1>1, <1>2, <2>1 DEF ToldInv, ServerInv, Asked, Working
<1>5. SendInv' /\ QueueInv'
  BY <1>1 DEF ToldInv, SendInv, QueueInv, Working
<1>6. ASSUME slips' = {}
      PROVE  Safe'
  <2>1. /\ StoredInv /\ WatcherInv /\ NativeInv /\ TellerInv /\ future # "ok"
        /\ \A i \in 1..Len(events) : events[i].kind = "end"
    BY <1>1, <1>6, <1>s DEF ToldInv, Safe, End, Event
  <2>2. process # "up" \/ step = "initialize"
    BY <1>1, <2>1 DEF WatcherInv
  <2>3. \A n \in Sends : ~Working(n)
    BY <2>2 DEF ToldInv, ServerInv, SendInv
  <2>4. \A t \in Turns : kane'[t] = "active" => Busy(t)' /\ link = "open"
    BY <1>1, <1>6, <1>s, <2>1 DEF NativeInv, ToldInv, LinkInv, Busy, CodexInv, TypeOK
  <2>5. StoredInv' /\ WatcherInv'
    BY <1>1, <1>2, <2>1 DEF StoredInv, WatcherInv, Working
  <2>6. NativeInv'
    BY <1>1, <1>6, <1>s, <2>1, <2>3, <2>4 DEF NativeInv, Working
  <2>7. TellerInv'
    <3>1. step = "turn/start" => subject \in Turns /\ process # "up"
      BY <2>2 DEF CodexInv, CommandInv
    <3> QED
      BY <1>1, <2>1, <2>4, <3>1 DEF TellerInv
  <2> QED
    BY <2>5, <2>6, <2>7 DEF Safe
<1> QED
  BY <1>3, <1>4, <1>5, <1>6 DEF ToldInv

LEMMA ProcessDiesTold ==
    ASSUME CodexInv, CodexInv', ToldInv, ProcessDies
    PROVE  ToldInv'
<1> USE DEF kaneVars, command, tables, queue, servers, codex, history
<1>1. /\ UNCHANGED <<link, kane, stored, step, subject, future, turns, native, started, watcher,
                     reader, turnOf, sends, events, slips>>
      /\ process = "up" /\ process' = "dead"
      /\ \A n \in Sends : run'[n] = IF Working(n) THEN "ended" ELSE run[n]
  BY DEF ProcessDies, RunsLost
<1>2. /\ \A n \in Sends : /\ ~Working(n)' /\ (run'[n] = "none" <=> run[n] = "none")
                          /\ run'[n] \notin {"begun", "started", "spoke"}
                          /\ run[n] \notin {"none", "begun"} => run'[n] \notin {"none", "begun"}
                          /\ run[n] = "ended" => run'[n] = "ended"
  BY <1>1 DEF Working
<1>3. step \in Preparing => sends \in Sends
  BY Constants DEF CodexInv, CommandInv, TypeOK, Sends
<1>4. LinkInv'
  BY <1>1 DEF ToldInv, LinkInv
<1>5. ServerInv'
  BY <1>1, <1>2 DEF ToldInv, ServerInv
<1>6. SendInv'
  BY <1>1, <1>2, <1>3 DEF ToldInv, SendInv, Preparing
<1>7. QueueInv'
  BY <1>1, <1>2, EventRuns DEF ToldInv, QueueInv
<1>8. ASSUME slips' = {}
      PROVE  Safe'
  <2>1. StoredInv /\ WatcherInv /\ NativeInv /\ TellerInv /\ stored \subseteq Sends
    BY <1>1, <1>8 DEF ToldInv, Safe, CodexInv, TypeOK
  <2>2. StoredInv'
    BY <1>1, <1>2, <2>1 DEF StoredInv
  <2>3. WatcherInv'
    BY <1>1, <2>1 DEF WatcherInv
  <2>4. NativeInv'
    BY <1>1, <1>2, <2>1 DEF NativeInv, Busy
  <2>5. Gone \/ (\E n \in Sends : Working(n)) => Gone'
    BY <1>1 DEF Gone, ToldInv, ServerInv
  <2>6. TellerInv'
    <3>1. \A i \in 1..Len(events) : events[i].kind \notin Ends \cup {"end"} => events[i].run \in Sends
      BY EventRuns
    <3>2. step = "turn/start" => sends \in Sends
      BY <1>3 DEF Preparing
    <3> QED
      BY <1>1, <1>2, <2>1, <2>5, <3>1, <3>2 DEF TellerInv, Busy
  <2> QED
    BY <2>2, <2>3, <2>4, <2>6 DEF Safe
<1> QED
  BY <1>4, <1>5, <1>6, <1>7, <1>8 DEF ToldInv

LEMMA RestartTold ==
    ASSUME CodexInv, CodexInv', ToldInv, Restart
    PROVE  ToldInv'
<1> USE DEF kaneVars, command, tables, queue, servers, codex, history
<1>1. /\ kane' = [t \in Turns |-> "stopped"] /\ step' = "idle" /\ future' = "none"
      /\ events' = <<>> /\ Len(events') = 0 /\ turns' = [t \in Turns |-> None]
      /\ process' # "up" /\ \A p \in Servers : watcher'[p].at = "none"
      /\ \A n \in Sends : run'[n] = IF Working(n) THEN "ended" ELSE run[n]
      /\ UNCHANGED <<stored, sends>> /\ sends \in Nat
  BY Constants DEF Restart, LoseLink, RunsLost, NotWatching, CodexInv, TypeOK
<1>2. \A n \in Sends : /\ ~Working(n)' /\ (run'[n] = "none" <=> run[n] = "none")
                       /\ run'[n] \notin {"started", "spoke"}
  BY <1>1 DEF Working
<1>3. LinkInv' /\ ServerInv' /\ QueueInv'
  BY <1>1, <1>2 DEF LinkInv, ServerInv, QueueInv
<1>4. SendInv'
  BY <1>1, <1>2 DEF ToldInv, SendInv, None
<1>5. Safe'
  <2>1. step' \notin Preparing /\ step' # "turn/start"
    BY <1>1 DEF Preparing
  <2>2. stored' \subseteq Sends /\ \A i \in 1..Len(events') : FALSE
    BY <1>1 DEF CodexInv, TypeOK
  <2> QED
    BY <1>1, <1>2, <2>1, <2>2 DEF Safe, StoredInv, WatcherInv, NativeInv, TellerInv
<1> QED
  BY <1>3, <1>4, <1>5 DEF ToldInv

LEMMA ToldNext ==
    ASSUME CodexInv, CodexInv', ToldInv, [Next]_vars
    PROVE  ToldInv'
<1>1. CASE UNCHANGED vars
  <2>1. Gone' <=> Gone
    BY <1>1 DEF Gone, vars, servers
  <2>2. LinkInv' /\ ServerInv' /\ SendInv' /\ QueueInv'
    BY <1>1 DEF ToldInv, LinkInv, ServerInv, SendInv, QueueInv, Asked, Working,
                vars, kaneVars, command, tables, queue, servers, codex, history
  <2>3. ASSUME slips' = {}
        PROVE  Safe'
    BY <1>1, <2>1, <2>3 DEF ToldInv, Safe, StoredInv, WatcherInv, NativeInv, TellerInv, Busy, Working,
                vars, kaneVars, command, tables, queue, servers, codex, history
  <2> QED
    BY <2>2, <2>3 DEF ToldInv
<1>2. CASE \E t \in Turns : SendToRunning(t) \/ SendToNew(t)
  BY <1>2, SendToRunningTold, SendToNewTold
<1>3. CASE (\E t \in Turns : Control(t, "turn/steer") \/ Control(t, "turn/interrupt"))
           \/ TurnStarted \/ ExitIsSeen
  BY <1>3, CalmActions DEF CodexInv
<1>4. CASE RequestTimesOut \/ RequestFails \/ ControlDone \/ CodexAnswers \/ Respond
  BY <1>4, CalmActions DEF CodexInv
<1>5. CASE Initialized \/ ThreadReady
  BY <1>5, PreparingTold
<1>6. CASE Dispatch
  BY <1>6, DispatchTold
<1>7. CASE \E p \in Servers : Server(p)
  BY <1>7, ReaderTold, WakesTold, TellsTold DEF Server
<1>8. CASE ProcessDies
  BY <1>8, ProcessDiesTold
<1>9. CASE KaneTimesOut \/ Disconnect \/ Reconnect
  BY <1>9, CalmActions DEF CodexInv
<1>10. CASE Restart
  BY <1>10, RestartTold
<1>11. CASE RunBegins
  BY <1>11, RunBeginsTold
<1>12. CASE \E n \in Sends, k \in Kinds : RunReports(n, k)
  BY <1>12, ReportsTold
<1> QED
  BY <1>1, <1>2, <1>3, <1>4, <1>5, <1>6, <1>7, <1>8, <1>9, <1>10, <1>11, <1>12 DEF Next, Handler

(* main.py 135-137, 351-372, 434-462: as long as no slip came first, a     *)
(* Turn that is active while neither a command nor a native turn of it is  *)
(* at work is about to be told: its end waits in the queue, with a         *)
(* dispatcher that will take it, or the watcher of an app-server that is   *)
(* gone will find its native turn.                                         *)
THEOREM IdleTurnsAreTold == Spec => []IdleTurnIsTold
<1>1. Init => ToldInv
  <2> SUFFICES ASSUME Init
               PROVE  ToldInv
    OBVIOUS
  <2>1. Len(events) = 0 /\ \A i \in 1..Len(events) : FALSE
    BY DEF Init
  <2>2. \A n \in Sends : ~Working(n)
    BY DEF Init, Working
  <2>3. LinkInv /\ ServerInv /\ SendInv /\ QueueInv
    BY <2>1, <2>2 DEF Init, LinkInv, ServerInv, SendInv, QueueInv, Asked, NotWatching, None
  <2>4. Safe
    BY <2>1, <2>2 DEF Init, Safe, StoredInv, WatcherInv, NativeInv, TellerInv, NotWatching
  <2> QED
    BY <2>3, <2>4 DEF ToldInv
<1>2. CodexInv /\ CodexInv' /\ ToldInv /\ [Next]_vars => ToldInv'
  BY ToldNext
<1>3. CodexInv /\ ToldInv => IdleTurnIsTold
  <2> SUFFICES ASSUME CodexInv, ToldInv, slips = {}, NEW t \in Turns, kane[t] = "active", Idle(t)
               PROVE  EndIsOnItsWay(t)
    BY DEF IdleTurnIsTold
  <2>1. ~Busy(t) /\ NativeInv /\ TellerInv
    BY DEF Busy, Idle, ToldInv, Safe
  <2>2. CASE Gone
    BY <2>1, <2>2 DEF NativeInv, Gone, EndIsOnItsWay
  <2>3. CASE ~Gone
    <3>1. PICK n \in Sends : turnOf[n] = t /\ EndIn(events, n)
      BY <2>1, <2>3 DEF TellerInv, Idle
    <3>2. PICK i \in 1..Len(events) : events[i].run = n /\ events[i].kind \in Ends
      BY <3>1 DEF EndIn
    <3>3. events # <<>> /\ Len(events) \in 1..Len(events) /\ i \in DOMAIN events
      BY <3>2, EventTypes DEF CodexInv
    <3>4. dispatchers = Cardinality(Reading) + Cardinality(EndsIn(events))
      BY DEF CodexInv, CountInv
    <3>5. Cardinality(Reading) \in Nat /\ Cardinality(EndsIn(events)) \in Nat
      BY ReadingFinite, EventTypes, EndsFinite DEF CodexInv
    <3>6. Cardinality(Reading) > 0 \/ Cardinality(EndsIn(events)) > 0
      <4>1. CASE events[Len(events)].kind = "end"
        <5>1. EndsIn(events) # {} /\ IsFiniteSet(EndsIn(events))
          BY <3>3, <4>1, EventTypes, EndsFinite DEF EndsIn, CodexInv
        <5> QED
          BY <3>5, <5>1, FS_EmptySet
      <4>2. CASE started \in Servers /\ reader[started] = "reading"
        BY <4>2, ReadingFinite
      <4> QED
        BY <3>3, <4>1, <4>2 DEF ToldInv, QueueInv
    <3> QED
      BY <3>1, <3>2, <3>3, <3>4, <3>5, <3>6 DEF EndIsOnItsWay
  <2> QED
    BY <2>2, <2>3
<1> QED
  BY <1>1, <1>2, <1>3, CodexHolds, PTL DEF Spec
=============================================================================
