----------------------- MODULE ConnectorSessionProofs -----------------------
(***************************************************************************)
(* Proofs about ConnectorSession for any number of sockets, codes,         *)
(* revocations and restarts, any commands, events and cache limit.         *)
(***************************************************************************)
EXTENDS ConnectorSession, SequenceTheorems, TLAPS

(* A code that waits to be used excludes a token and a connection: pairing *)
(* again is refused while connected and drops the token. Without it the    *)
(* hello of a code holder could replace the token of a live socket.        *)
CodeExcludesToken ==
    /\ code # 0 => token = 0 /\ websocket = NoSocket
    /\ websocket # NoSocket => token # 0
    /\ \A s \in Sockets : handler[s] = "hello" => held[s] # 0

(* What is known about an event: an event that took effect is remembered   *)
(* or was forgotten, and what is remembered took effect.                   *)
EffectsAreRemembered ==
    /\ \A e \in Events : applied[e] > 0 => e \in ToSet(seen) \cup forgotten
    /\ \A e \in ToSet(seen) : applied[e] > 0

SocketInv  == CodeExcludesToken /\ AttachedIsAuthorised
EventInv   == EffectsAreRemembered /\ EventAppliedOnce /\ AckedWasApplied
SessionInv == TypeOK /\ SocketInv /\ FuturesHaveASocket /\ EventInv

-----------------------------------------------------------------------------
(* Remembering an event: the limit holds, exactly the event is added, and  *)
(* what is dropped becomes forgotten.                                      *)
LEMMA RememberFacts ==
    ASSUME TypeOK, NEW e \in Events, Remember(e)
    PROVE  /\ seen' \in Seq(Events) /\ Len(seen') <= CacheLimit
           /\ forgotten' \subseteq Events
           /\ ToSet(seen') \subseteq ToSet(seen) \cup {e}
           /\ ToSet(seen) \cup {e} \subseteq ToSet(seen') \cup forgotten'
           /\ forgotten \subseteq forgotten'
<1> DEFINE grown == Append(seen, e)
<1>1. /\ grown \in Seq(Events) /\ Len(grown) = Len(seen) + 1
      /\ Len(seen) \in Nat /\ CacheLimit \in Nat /\ Len(seen) <= CacheLimit
      /\ forgotten \subseteq Events
  BY SessionAssumption DEF TypeOK, FlagsOK, StoreOK, SocketsOK, CallsOK, EventsOK
<1>2. ToSet(grown) = ToSet(seen) \cup {e}
  <2>1. \A i \in 1..Len(seen) : grown[i] = seen[i]
    BY DEF TypeOK, FlagsOK, StoreOK, SocketsOK, CallsOK, EventsOK
  <2>2. grown[Len(grown)] = e
    BY DEF TypeOK, FlagsOK, StoreOK, SocketsOK, CallsOK, EventsOK
  <2>3. DOMAIN grown = 1..(Len(seen) + 1) /\ DOMAIN seen = 1..Len(seen)
    BY <1>1 DEF TypeOK, FlagsOK, StoreOK, SocketsOK, CallsOK, EventsOK
  <2> QED
    BY <1>1, <2>1, <2>2, <2>3 DEF ToSet
<1>3. CASE Len(grown) > CacheLimit
  <2>1. seen' = Tail(grown) /\ forgotten' = forgotten \cup {Head(grown)}
    BY <1>3 DEF Remember
  <2>2. /\ Tail(grown) \in Seq(Events) /\ Len(Tail(grown)) = Len(grown) - 1
        /\ \A i \in 1..(Len(grown) - 1) : Tail(grown)[i] = grown[i + 1]
        /\ Head(grown) = grown[1] /\ Head(grown) \in Events
    BY <1>1
  <2>3. DOMAIN Tail(grown) = 1..(Len(grown) - 1) /\ DOMAIN grown = 1..Len(grown)
    BY <1>1, <2>2
  <2>4. ToSet(Tail(grown)) \subseteq ToSet(grown)
    BY <1>1, <2>2, <2>3 DEF ToSet
  <2>5. ToSet(grown) \subseteq ToSet(Tail(grown)) \cup {Head(grown)}
    <3> SUFFICES ASSUME NEW i \in 1..Len(grown)
                 PROVE  grown[i] \in ToSet(Tail(grown)) \cup {Head(grown)}
      BY <2>3 DEF ToSet
    <3>1. CASE i = 1
      BY <3>1, <2>2
    <3>2. CASE i # 1
      <4>1. i - 1 \in 1..(Len(grown) - 1) /\ Tail(grown)[i - 1] = grown[i]
        BY <3>2, <1>1, <2>2
      <4> QED
        BY <4>1, <2>3 DEF ToSet
    <3> QED
      BY <3>1, <3>2
  <2> HIDE DEF grown
  <2> QED
    BY <1>1, <1>2, <2>1, <2>2, <2>4, <2>5
<1>4. CASE ~(Len(grown) > CacheLimit)
  <2>1. seen' = grown /\ forgotten' = forgotten
    BY <1>4 DEF Remember
  <2> HIDE DEF grown
  <2> QED
    BY <1>1, <1>2, <1>4, <2>1
<1> QED
  BY <1>3, <1>4
(* The bounds are natural numbers.                                         *)
LEMMA BoundsAreNat ==
    /\ MaxCodes \in Nat /\ 1 \in 0..MaxCodes /\ MaxRevokes \in Nat /\ MaxRestarts \in Nat
    /\ CacheLimit \in Nat
  BY SessionAssumption

(* Types. *)
LEMMA TypeStep ==
    ASSUME TypeOK, Next
    PROVE  TypeOK'
<1> USE BoundsAreNat
<1>1. CASE PairAgent
  <2>0. FlagsOK'
    BY <1>1 DEF TypeOK, FlagsOK, PairAgent, store, pairing, sockets, calls, facts, counts
  <2>1. StoreOK'
    BY <1>1
    DEF TypeOK, StoreOK, Statuses, Active, PairAgent, store, pairing, sockets, calls, facts, counts
  <2>2. SocketsOK'
    BY <1>1
    DEF TypeOK, SocketsOK, PairAgent, store, pairing, sockets, calls, facts, counts
  <2>3. CallsOK'
    BY <1>1
    DEF TypeOK, CallsOK, PairAgent, store, pairing, sockets, calls, facts, counts
  <2>4. EventsOK'
    BY <1>1
    DEF TypeOK, EventsOK, PairAgent, store, pairing, sockets, calls, facts, counts
  <2> QED
    BY <2>0, <2>1, <2>2, <2>3, <2>4 DEF TypeOK
<1>2. CASE DisconnectAgent
  <2>0. FlagsOK'
    BY <1>2 DEF TypeOK, FlagsOK, DisconnectAgent, Detach, store, pairing, sockets, calls, facts, counts
  <2>1. StoreOK'
    BY <1>2
    DEF TypeOK, StoreOK, Statuses, Active, DisconnectAgent, Detach, store, pairing, sockets, calls, facts, counts
  <2>2. SocketsOK'
    BY <1>2
    DEF TypeOK, SocketsOK, DisconnectAgent, Detach, store, pairing, sockets, calls, facts, counts
  <2>3. CallsOK'
    BY <1>2
    DEF TypeOK, CallsOK, DisconnectAgent, Detach, store, pairing, sockets, calls, facts, counts
  <2>4. EventsOK'
    BY <1>2
    DEF TypeOK, EventsOK, DisconnectAgent, Detach, store, pairing, sockets, calls, facts, counts
  <2> QED
    BY <2>0, <2>1, <2>2, <2>3, <2>4 DEF TypeOK
<1>3. CASE DisconnectReturns
  BY <1>3
  DEF TypeOK, FlagsOK, StoreOK, SocketsOK, CallsOK, EventsOK, Statuses, Active, DisconnectReturns, InterruptIfActive, store, pairing, sockets, calls, facts, counts
<1>4. CASE RestartAPI
  <2>1. seen' \in Seq(Events) /\ Len(seen') = 0
    BY <1>4 DEF RestartAPI
  <2>2. ToSet(seen) \subseteq Events
    BY DEF TypeOK, FlagsOK, StoreOK, SocketsOK, CallsOK, EventsOK, ToSet
  <2>0. FlagsOK'
    BY <1>4 DEF TypeOK, FlagsOK, RestartAPI
  <2>3. StoreOK'
    BY <1>4 DEF TypeOK, StoreOK, Statuses, Active, RestartAPI, InterruptIfActive
  <2>4. SocketsOK'
    BY <1>4 DEF TypeOK, SocketsOK, RestartAPI
  <2>5. CallsOK'
    BY <1>4 DEF TypeOK, CallsOK, RestartAPI
  <2>6. EventsOK'
    BY <1>4, <2>1, <2>2 DEF TypeOK, EventsOK, RestartAPI
  <2> QED
    BY <2>0, <2>3, <2>4, <2>5, <2>6 DEF TypeOK
<1>5. ASSUME NEW s \in Sockets, Connect(s)
     PROVE  TypeOK'
  BY <1>5
  DEF TypeOK, FlagsOK, StoreOK, SocketsOK, CallsOK, EventsOK, Statuses, Active, Connect, store, pairing, sockets, calls, facts, counts
<1>6. ASSUME NEW s \in Sockets, Hello(s)
     PROVE  TypeOK'
  <2>0. FlagsOK'
    BY <1>6 DEF TypeOK, FlagsOK, Hello, CodeStillValid, TokenStillValid, store, pairing, sockets, calls, facts, counts
  <2>1. StoreOK'
    BY <1>6
    DEF TypeOK, StoreOK, Statuses, Active, Hello, CodeStillValid, TokenStillValid, store, pairing, sockets, calls, facts, counts
  <2>2. SocketsOK'
    BY <1>6
    DEF TypeOK, SocketsOK, Hello, CodeStillValid, TokenStillValid, store, pairing, sockets, calls, facts, counts
  <2>3. CallsOK'
    BY <1>6
    DEF TypeOK, CallsOK, Hello, CodeStillValid, TokenStillValid, store, pairing, sockets, calls, facts, counts
  <2>4. EventsOK'
    BY <1>6
    DEF TypeOK, EventsOK, Hello, CodeStillValid, TokenStillValid, store, pairing, sockets, calls, facts, counts
  <2> QED
    BY <2>0, <2>1, <2>2, <2>3, <2>4 DEF TypeOK
<1>7. ASSUME NEW s \in Sockets, FrameRefused(s)
     PROVE  TypeOK'
  BY <1>7
  DEF TypeOK, FlagsOK, StoreOK, SocketsOK, CallsOK, EventsOK, Statuses, Active, FrameRefused, store, pairing, sockets, calls, facts, counts
<1>8. ASSUME NEW s \in Sockets, PeerLost(s)
     PROVE  TypeOK'
  BY <1>8
  DEF TypeOK, FlagsOK, StoreOK, SocketsOK, CallsOK, EventsOK, Statuses, Active, PeerLost, store, pairing, sockets, calls, facts, counts
<1>9. ASSUME NEW s \in Sockets, HandlerEnds(s)
     PROVE  TypeOK'
  <2>0. FlagsOK'
    BY <1>9 DEF TypeOK, FlagsOK, HandlerEnds, Detach, InterruptIfActive, store, pairing, sockets, calls, facts, counts
  <2>1. StoreOK'
    BY <1>9
    DEF TypeOK, StoreOK, Statuses, Active, HandlerEnds, Detach, InterruptIfActive, store, pairing, sockets, calls, facts, counts
  <2>2. SocketsOK'
    BY <1>9
    DEF TypeOK, SocketsOK, HandlerEnds, Detach, InterruptIfActive, store, pairing, sockets, calls, facts, counts
  <2>3. CallsOK'
    BY <1>9
    DEF TypeOK, CallsOK, HandlerEnds, Detach, InterruptIfActive, store, pairing, sockets, calls, facts, counts
  <2>4. EventsOK'
    BY <1>9
    DEF TypeOK, EventsOK, HandlerEnds, Detach, InterruptIfActive, store, pairing, sockets, calls, facts, counts
  <2> QED
    BY <2>0, <2>1, <2>2, <2>3, <2>4 DEF TypeOK
<1>10. ASSUME NEW s \in Sockets, NEW c \in Commands, PeerAnswers(s, c)
     PROVE  TypeOK'
  BY <1>10
  DEF TypeOK, FlagsOK, StoreOK, SocketsOK, CallsOK, EventsOK, PeerAnswers, store, pairing, sockets, calls, facts, counts
<1>11. ASSUME NEW s \in Sockets, NEW e \in Events, EventApplied(s, e)
     PROVE  TypeOK'
  <2>1. /\ seen' \in Seq(Events) /\ Len(seen') <= CacheLimit
        /\ forgotten' \subseteq Events
    BY <1>11, RememberFacts DEF EventApplied
  <2>2. messages' \in [Replies -> Nat] /\ turn' \in Statuses /\ permission' \in BOOLEAN
    BY <1>11 DEF EventApplied, Apply, TypeOK, FlagsOK, StoreOK, SocketsOK, CallsOK, EventsOK, Statuses, Active, Replies
  <2> QED
    BY <1>11, <2>1, <2>2
    DEF TypeOK, FlagsOK, StoreOK, SocketsOK, CallsOK, EventsOK, EventApplied, Ack, AfterFrame, store, pairing, sockets, calls, facts, counts, Sockets, Commands
<1>12. ASSUME NEW s \in Sockets, NEW e \in Events, EventRepeated(s, e)
     PROVE  TypeOK'
  BY <1>12
  DEF TypeOK, FlagsOK, StoreOK, SocketsOK, CallsOK, EventsOK, Statuses, Active, EventRepeated, Ack, AfterFrame, store, pairing, sockets, calls, facts, counts
<1>13. ASSUME NEW s \in Sockets, NEW e \in Events, EventRefused(s, e)
     PROVE  TypeOK'
  BY <1>13
  DEF TypeOK, FlagsOK, StoreOK, SocketsOK, CallsOK, EventsOK, Statuses, Active, EventRefused, store, pairing, sockets, calls, facts, counts
<1>14. ASSUME NEW c \in Commands, IssueCommand(c)
     PROVE  TypeOK'
  <2>0. FlagsOK'
    BY <1>14 DEF TypeOK, FlagsOK, IssueCommand, store, pairing, sockets, calls, facts, counts
  <2>1. StoreOK'
    BY <1>14
    DEF TypeOK, StoreOK, Statuses, Active, IssueCommand, store, pairing, sockets, calls, facts, counts
  <2>2. SocketsOK'
    BY <1>14
    DEF TypeOK, SocketsOK, IssueCommand, store, pairing, sockets, calls, facts, counts
  <2>3. CallsOK'
    BY <1>14
    DEF TypeOK, CallsOK, SocketsOK, IssueCommand, store, pairing, sockets, calls, facts, counts
  <2>4. EventsOK'
    BY <1>14
    DEF TypeOK, EventsOK, IssueCommand, store, pairing, sockets, calls, facts, counts
  <2> QED
    BY <2>0, <2>1, <2>2, <2>3, <2>4 DEF TypeOK
<1>15. ASSUME NEW c \in Commands, SendCommand(c)
     PROVE  TypeOK'
  BY <1>15
  DEF TypeOK, FlagsOK, StoreOK, SocketsOK, CallsOK, EventsOK, Statuses, Active, SendCommand, store, pairing, sockets, calls, facts, counts
<1>16. ASSUME NEW c \in Commands, SendFails(c)
     PROVE  TypeOK'
  BY <1>16
  DEF TypeOK, FlagsOK, StoreOK, SocketsOK, CallsOK, EventsOK, Statuses, Active, SendFails, CommandOver, Failed, InterruptIfActive, store, pairing, sockets, calls, facts, counts
<1>17. ASSUME NEW c \in Commands, CommandReturns(c)
     PROVE  TypeOK'
  BY <1>17
  DEF TypeOK, FlagsOK, StoreOK, SocketsOK, CallsOK, EventsOK, Statuses, Active, CommandReturns, CommandOver, Accepted, Failed, InterruptIfActive, store, pairing, sockets, calls, facts, counts
<1>18. ASSUME NEW c \in Commands, CommandTimesOut(c)
     PROVE  TypeOK'
  BY <1>18
  DEF TypeOK, FlagsOK, StoreOK, SocketsOK, CallsOK, EventsOK, Statuses, Active, CommandTimesOut, CommandOver, Failed, InterruptIfActive, store, pairing, sockets, calls, facts, counts
<1> QED
  BY <1>1, <1>2, <1>3, <1>4, <1>5, <1>6, <1>7, <1>8, <1>9,
     <1>10, <1>11, <1>12, <1>13, <1>14, <1>15, <1>16, <1>17, <1>18
  DEF Next, SocketStep, CommandStep

(* The attached socket keeps its authority through every step. *)
LEMMA SocketStepInv ==
    ASSUME TypeOK, TypeOK', SocketInv, Next
    PROVE  SocketInv'
<1>1. CASE PairAgent
  BY <1>1
  DEF TypeOK, FlagsOK, StoreOK, SocketsOK, CallsOK, EventsOK, SocketInv, CodeExcludesToken, AttachedIsAuthorised, Sockets, NoSocket, PairAgent, store, pairing, sockets, calls, facts, counts
<1>2. CASE DisconnectAgent
  BY <1>2
  DEF TypeOK, FlagsOK, StoreOK, SocketsOK, CallsOK, EventsOK, SocketInv, CodeExcludesToken, AttachedIsAuthorised, Sockets, NoSocket, DisconnectAgent, Detach, store, pairing, sockets, calls, facts, counts
<1>3. CASE DisconnectReturns
  BY <1>3
  DEF TypeOK, FlagsOK, StoreOK, SocketsOK, CallsOK, EventsOK, SocketInv, CodeExcludesToken, AttachedIsAuthorised, Sockets, NoSocket, DisconnectReturns, InterruptIfActive, store, pairing, sockets, calls, facts, counts
<1>4. CASE RestartAPI
  BY <1>4
  DEF TypeOK, FlagsOK, StoreOK, SocketsOK, CallsOK, EventsOK, SocketInv, CodeExcludesToken, AttachedIsAuthorised, Sockets, NoSocket, RestartAPI, InterruptIfActive, store, pairing, sockets, calls, facts, counts
<1>5. ASSUME NEW s \in Sockets, Connect(s)
     PROVE  SocketInv'
  BY <1>5
  DEF TypeOK, FlagsOK, StoreOK, SocketsOK, CallsOK, EventsOK, SocketInv, CodeExcludesToken, AttachedIsAuthorised, Sockets, NoSocket, Connect, store, pairing, sockets, calls, facts, counts
<1>6. ASSUME NEW s \in Sockets, Hello(s)
     PROVE  SocketInv'
  BY <1>6
  DEF TypeOK, FlagsOK, StoreOK, SocketsOK, CallsOK, EventsOK, SocketInv, CodeExcludesToken, AttachedIsAuthorised, Sockets, NoSocket, Hello, CodeStillValid, TokenStillValid, store, pairing, sockets, calls, facts, counts
<1>7. ASSUME NEW s \in Sockets, FrameRefused(s)
     PROVE  SocketInv'
  BY <1>7
  DEF TypeOK, FlagsOK, StoreOK, SocketsOK, CallsOK, EventsOK, SocketInv, CodeExcludesToken, AttachedIsAuthorised, Sockets, NoSocket, FrameRefused, store, pairing, sockets, calls, facts, counts
<1>8. ASSUME NEW s \in Sockets, PeerLost(s)
     PROVE  SocketInv'
  BY <1>8
  DEF TypeOK, FlagsOK, StoreOK, SocketsOK, CallsOK, EventsOK, SocketInv, CodeExcludesToken, AttachedIsAuthorised, Sockets, NoSocket, PeerLost, store, pairing, sockets, calls, facts, counts
<1>9. ASSUME NEW s \in Sockets, HandlerEnds(s)
     PROVE  SocketInv'
  BY <1>9
  DEF TypeOK, FlagsOK, StoreOK, SocketsOK, CallsOK, EventsOK, SocketInv, CodeExcludesToken, AttachedIsAuthorised, Sockets, NoSocket, HandlerEnds, Detach, InterruptIfActive, store, pairing, sockets, calls, facts, counts
<1>10. ASSUME NEW s \in Sockets, NEW c \in Commands, PeerAnswers(s, c)
     PROVE  SocketInv'
  BY <1>10
  DEF TypeOK, FlagsOK, StoreOK, SocketsOK, CallsOK, EventsOK, SocketInv, CodeExcludesToken, AttachedIsAuthorised, Sockets, NoSocket, PeerAnswers, store, pairing, sockets, calls, facts, counts
<1>11. ASSUME NEW s \in Sockets, NEW e \in Events, EventApplied(s, e)
     PROVE  SocketInv'
  BY <1>11
  DEF TypeOK, FlagsOK, StoreOK, SocketsOK, CallsOK, EventsOK, SocketInv, CodeExcludesToken, AttachedIsAuthorised, Sockets, NoSocket, EventApplied, Accepts, Apply, Completes, Ack, AfterFrame, store, pairing, sockets, calls, facts, counts
<1>12. ASSUME NEW s \in Sockets, NEW e \in Events, EventRepeated(s, e)
     PROVE  SocketInv'
  BY <1>12
  DEF TypeOK, FlagsOK, StoreOK, SocketsOK, CallsOK, EventsOK, SocketInv, CodeExcludesToken, AttachedIsAuthorised, Sockets, NoSocket, EventRepeated, Ack, AfterFrame, store, pairing, sockets, calls, facts, counts
<1>13. ASSUME NEW s \in Sockets, NEW e \in Events, EventRefused(s, e)
     PROVE  SocketInv'
  BY <1>13
  DEF TypeOK, FlagsOK, StoreOK, SocketsOK, CallsOK, EventsOK, SocketInv, CodeExcludesToken, AttachedIsAuthorised, Sockets, NoSocket, EventRefused, store, pairing, sockets, calls, facts, counts
<1>14. ASSUME NEW c \in Commands, IssueCommand(c)
     PROVE  SocketInv'
  BY <1>14
  DEF TypeOK, FlagsOK, StoreOK, SocketsOK, CallsOK, EventsOK, SocketInv, CodeExcludesToken, AttachedIsAuthorised, Sockets, NoSocket, IssueCommand, store, pairing, sockets, calls, facts, counts
<1>15. ASSUME NEW c \in Commands, SendCommand(c)
     PROVE  SocketInv'
  BY <1>15
  DEF TypeOK, FlagsOK, StoreOK, SocketsOK, CallsOK, EventsOK, SocketInv, CodeExcludesToken, AttachedIsAuthorised, Sockets, NoSocket, SendCommand, store, pairing, sockets, calls, facts, counts
<1>16. ASSUME NEW c \in Commands, SendFails(c)
     PROVE  SocketInv'
  BY <1>16
  DEF TypeOK, FlagsOK, StoreOK, SocketsOK, CallsOK, EventsOK, SocketInv, CodeExcludesToken, AttachedIsAuthorised, Sockets, NoSocket, SendFails, CommandOver, Failed, InterruptIfActive, store, pairing, sockets, calls, facts, counts
<1>17. ASSUME NEW c \in Commands, CommandReturns(c)
     PROVE  SocketInv'
  BY <1>17
  DEF TypeOK, FlagsOK, StoreOK, SocketsOK, CallsOK, EventsOK, SocketInv, CodeExcludesToken, AttachedIsAuthorised, Sockets, NoSocket, CommandReturns, CommandOver, Accepted, Failed, InterruptIfActive, store, pairing, sockets, calls, facts, counts
<1>18. ASSUME NEW c \in Commands, CommandTimesOut(c)
     PROVE  SocketInv'
  BY <1>18
  DEF TypeOK, FlagsOK, StoreOK, SocketsOK, CallsOK, EventsOK, SocketInv, CodeExcludesToken, AttachedIsAuthorised, Sockets, NoSocket, CommandTimesOut, CommandOver, Failed, InterruptIfActive, store, pairing, sockets, calls, facts, counts
<1> QED
  BY <1>1, <1>2, <1>3, <1>4, <1>5, <1>6, <1>7, <1>8, <1>9,
     <1>10, <1>11, <1>12, <1>13, <1>14, <1>15, <1>16, <1>17, <1>18
  DEF Next, SocketStep, CommandStep

(* Detaching resolves every future of the socket, so the rest keep theirs. *)
LEMMA FutureStep ==
    ASSUME TypeOK, FuturesHaveASocket, Next
    PROVE  FuturesHaveASocket'
<1>1. CASE PairAgent
  BY <1>1
  DEF TypeOK, FlagsOK, StoreOK, SocketsOK, CallsOK, EventsOK, FuturesHaveASocket, Sockets, NoSocket, PairAgent, store, pairing, sockets, calls, facts, counts
<1>2. CASE DisconnectAgent
  BY <1>2
  DEF TypeOK, FlagsOK, StoreOK, SocketsOK, CallsOK, EventsOK, FuturesHaveASocket, Sockets, NoSocket, DisconnectAgent, Detach, store, pairing, sockets, calls, facts, counts
<1>3. CASE DisconnectReturns
  BY <1>3
  DEF TypeOK, FlagsOK, StoreOK, SocketsOK, CallsOK, EventsOK, FuturesHaveASocket, Sockets, NoSocket, DisconnectReturns, InterruptIfActive, store, pairing, sockets, calls, facts, counts
<1>4. CASE RestartAPI
  BY <1>4
  DEF TypeOK, FlagsOK, StoreOK, SocketsOK, CallsOK, EventsOK, FuturesHaveASocket, Sockets, NoSocket, RestartAPI, InterruptIfActive, store, pairing, sockets, calls, facts, counts
<1>5. ASSUME NEW s \in Sockets, Connect(s)
     PROVE  FuturesHaveASocket'
  BY <1>5
  DEF TypeOK, FlagsOK, StoreOK, SocketsOK, CallsOK, EventsOK, FuturesHaveASocket, Sockets, NoSocket, Connect, store, pairing, sockets, calls, facts, counts
<1>6. ASSUME NEW s \in Sockets, Hello(s)
     PROVE  FuturesHaveASocket'
  BY <1>6
  DEF TypeOK, FlagsOK, StoreOK, SocketsOK, CallsOK, EventsOK, FuturesHaveASocket, Sockets, NoSocket, Hello, CodeStillValid, TokenStillValid, store, pairing, sockets, calls, facts, counts
<1>7. ASSUME NEW s \in Sockets, FrameRefused(s)
     PROVE  FuturesHaveASocket'
  BY <1>7
  DEF TypeOK, FlagsOK, StoreOK, SocketsOK, CallsOK, EventsOK, FuturesHaveASocket, Sockets, NoSocket, FrameRefused, store, pairing, sockets, calls, facts, counts
<1>8. ASSUME NEW s \in Sockets, PeerLost(s)
     PROVE  FuturesHaveASocket'
  BY <1>8
  DEF TypeOK, FlagsOK, StoreOK, SocketsOK, CallsOK, EventsOK, FuturesHaveASocket, Sockets, NoSocket, PeerLost, store, pairing, sockets, calls, facts, counts
<1>9. ASSUME NEW s \in Sockets, HandlerEnds(s)
     PROVE  FuturesHaveASocket'
  BY <1>9
  DEF TypeOK, FlagsOK, StoreOK, SocketsOK, CallsOK, EventsOK, FuturesHaveASocket, Sockets, NoSocket, HandlerEnds, Detach, InterruptIfActive, store, pairing, sockets, calls, facts, counts
<1>10. ASSUME NEW s \in Sockets, NEW c \in Commands, PeerAnswers(s, c)
     PROVE  FuturesHaveASocket'
  BY <1>10
  DEF TypeOK, FlagsOK, StoreOK, SocketsOK, CallsOK, EventsOK, FuturesHaveASocket, Sockets, NoSocket, PeerAnswers, store, pairing, sockets, calls, facts, counts
<1>11. ASSUME NEW s \in Sockets, NEW e \in Events, EventApplied(s, e)
     PROVE  FuturesHaveASocket'
  BY <1>11
  DEF TypeOK, FlagsOK, StoreOK, SocketsOK, CallsOK, EventsOK, FuturesHaveASocket, Sockets, NoSocket, EventApplied, Accepts, Apply, Completes, Ack, AfterFrame, store, pairing, sockets, calls, facts, counts
<1>12. ASSUME NEW s \in Sockets, NEW e \in Events, EventRepeated(s, e)
     PROVE  FuturesHaveASocket'
  BY <1>12
  DEF TypeOK, FlagsOK, StoreOK, SocketsOK, CallsOK, EventsOK, FuturesHaveASocket, Sockets, NoSocket, EventRepeated, Ack, AfterFrame, store, pairing, sockets, calls, facts, counts
<1>13. ASSUME NEW s \in Sockets, NEW e \in Events, EventRefused(s, e)
     PROVE  FuturesHaveASocket'
  BY <1>13
  DEF TypeOK, FlagsOK, StoreOK, SocketsOK, CallsOK, EventsOK, FuturesHaveASocket, Sockets, NoSocket, EventRefused, store, pairing, sockets, calls, facts, counts
<1>14. ASSUME NEW c \in Commands, IssueCommand(c)
     PROVE  FuturesHaveASocket'
  BY <1>14
  DEF TypeOK, FlagsOK, StoreOK, SocketsOK, CallsOK, EventsOK, FuturesHaveASocket, Sockets, NoSocket, IssueCommand, store, pairing, sockets, calls, facts, counts
<1>15. ASSUME NEW c \in Commands, SendCommand(c)
     PROVE  FuturesHaveASocket'
  BY <1>15
  DEF TypeOK, FlagsOK, StoreOK, SocketsOK, CallsOK, EventsOK, FuturesHaveASocket, Sockets, NoSocket, SendCommand, store, pairing, sockets, calls, facts, counts
<1>16. ASSUME NEW c \in Commands, SendFails(c)
     PROVE  FuturesHaveASocket'
  BY <1>16
  DEF TypeOK, FlagsOK, StoreOK, SocketsOK, CallsOK, EventsOK, FuturesHaveASocket, Sockets, NoSocket, SendFails, CommandOver, Failed, InterruptIfActive, store, pairing, sockets, calls, facts, counts
<1>17. ASSUME NEW c \in Commands, CommandReturns(c)
     PROVE  FuturesHaveASocket'
  <2>1. \E outcome \in {"accepted", "failed"} : CommandOver(c, outcome)
    BY <1>17 DEF CommandReturns
  <2> QED
    BY <2>1 DEF TypeOK, CallsOK, FuturesHaveASocket, CommandOver, sockets
<1>18. ASSUME NEW c \in Commands, CommandTimesOut(c)
     PROVE  FuturesHaveASocket'
  BY <1>18
  DEF TypeOK, FlagsOK, StoreOK, SocketsOK, CallsOK, EventsOK, FuturesHaveASocket, Sockets, NoSocket, CommandTimesOut, CommandOver, Failed, InterruptIfActive, store, pairing, sockets, calls, facts, counts
<1> QED
  BY <1>1, <1>2, <1>3, <1>4, <1>5, <1>6, <1>7, <1>8, <1>9,
     <1>10, <1>11, <1>12, <1>13, <1>14, <1>15, <1>16, <1>17, <1>18
  DEF Next, SocketStep, CommandStep

(* Events: remembered once they took effect, applied again only when forgotten, and acknowledged only then. *)
LEMMA EventStep ==
    ASSUME TypeOK, EventInv, Next
    PROVE  EventInv'
<1>1. CASE PairAgent
  BY <1>1
  DEF EventInv, EffectsAreRemembered, EventAppliedOnce, AckedWasApplied, PairAgent, store, pairing, sockets, calls, facts, counts
<1>2. CASE DisconnectAgent
  BY <1>2
  DEF EventInv, EffectsAreRemembered, EventAppliedOnce, AckedWasApplied, DisconnectAgent, Detach, store, pairing, sockets, calls, facts, counts
<1>3. CASE DisconnectReturns
  BY <1>3
  DEF EventInv, EffectsAreRemembered, EventAppliedOnce, AckedWasApplied, DisconnectReturns, InterruptIfActive, store, pairing, sockets, calls, facts, counts
<1>4. CASE RestartAPI
  <2>1. ToSet(seen') = {} /\ forgotten' = forgotten \cup ToSet(seen)
    BY <1>4 DEF RestartAPI, ToSet
  <2> QED
    BY <1>4, <2>1
    DEF RestartAPI, EventInv, EffectsAreRemembered, EventAppliedOnce, AckedWasApplied
<1>5. ASSUME NEW s \in Sockets, Connect(s)
     PROVE  EventInv'
  BY <1>5
  DEF EventInv, EffectsAreRemembered, EventAppliedOnce, AckedWasApplied, Connect, store, pairing, sockets, calls, facts, counts
<1>6. ASSUME NEW s \in Sockets, Hello(s)
     PROVE  EventInv'
  BY <1>6
  DEF EventInv, EffectsAreRemembered, EventAppliedOnce, AckedWasApplied, Hello, CodeStillValid, TokenStillValid, store, pairing, sockets, calls, facts, counts
<1>7. ASSUME NEW s \in Sockets, FrameRefused(s)
     PROVE  EventInv'
  BY <1>7
  DEF EventInv, EffectsAreRemembered, EventAppliedOnce, AckedWasApplied, FrameRefused, store, pairing, sockets, calls, facts, counts
<1>8. ASSUME NEW s \in Sockets, PeerLost(s)
     PROVE  EventInv'
  BY <1>8
  DEF EventInv, EffectsAreRemembered, EventAppliedOnce, AckedWasApplied, PeerLost, store, pairing, sockets, calls, facts, counts
<1>9. ASSUME NEW s \in Sockets, HandlerEnds(s)
     PROVE  EventInv'
  BY <1>9
  DEF EventInv, EffectsAreRemembered, EventAppliedOnce, AckedWasApplied, HandlerEnds, Detach, InterruptIfActive, store, pairing, sockets, calls, facts, counts
<1>10. ASSUME NEW s \in Sockets, NEW c \in Commands, PeerAnswers(s, c)
     PROVE  EventInv'
  BY <1>10
  DEF EventInv, EffectsAreRemembered, EventAppliedOnce, AckedWasApplied, PeerAnswers, store, pairing, sockets, calls, facts, counts
<1>11. ASSUME NEW s \in Sockets, NEW e \in Events, EventApplied(s, e)
     PROVE  EventInv'
  <2>1. /\ ToSet(seen') \subseteq ToSet(seen) \cup {e}
        /\ ToSet(seen) \cup {e} \subseteq ToSet(seen') \cup forgotten'
        /\ forgotten \subseteq forgotten'
    BY <1>11, RememberFacts DEF EventApplied
  <2>2. /\ e \notin ToSet(seen)
        /\ applied' = [applied EXCEPT ![e] = @ + 1]
        /\ acked' \subseteq acked \cup {e}
    BY <1>11 DEF EventApplied, Ack
  <2>3. applied \in [Events -> Nat]
    BY DEF TypeOK, FlagsOK, StoreOK, SocketsOK, CallsOK, EventsOK
  <2>4. \A r \in Replies : messages'[r] <= 1
    BY <1>11 DEF EventApplied, Apply, Completes, TypeOK, FlagsOK, StoreOK, SocketsOK, CallsOK, EventsOK, EventInv, EventAppliedOnce
  <2>5. \A f \in Events : applied'[f] > 0 => f \in ToSet(seen') \cup forgotten'
    BY <2>1, <2>2, <2>3 DEF EventInv, EffectsAreRemembered
  <2>6. \A f \in Events : applied[f] > 0 => applied'[f] > 0
    BY <2>2, <2>3
  <2>7. applied'[e] > 0
    BY <2>2, <2>3
  <2>8. \A f \in ToSet(seen') : applied'[f] > 0
    <3>1. ToSet(seen) \subseteq Events
      BY DEF TypeOK, FlagsOK, StoreOK, SocketsOK, CallsOK, EventsOK, ToSet
    <3> QED
      BY <2>1, <2>6, <2>7, <3>1 DEF EventInv, EffectsAreRemembered
  <2>9. \A f \in Events : applied'[f] > 1 => f \in forgotten'
    BY <2>1, <2>2, <2>3 DEF EventInv, EffectsAreRemembered, EventAppliedOnce
  <2>10. \A f \in acked' : applied'[f] > 0
    BY <2>2, <2>6, <2>7 DEF TypeOK, FlagsOK, StoreOK, SocketsOK, CallsOK, EventsOK, EventInv, AckedWasApplied
  <2> QED
    BY <2>4, <2>5, <2>8, <2>9, <2>10
    DEF EventInv, EffectsAreRemembered, EventAppliedOnce, AckedWasApplied
<1>12. ASSUME NEW s \in Sockets, NEW e \in Events, EventRepeated(s, e)
     PROVE  EventInv'
  BY <1>12
  DEF EventInv, EffectsAreRemembered, EventAppliedOnce, AckedWasApplied, EventRepeated, Ack, AfterFrame, store, pairing, sockets, calls, facts, counts
<1>13. ASSUME NEW s \in Sockets, NEW e \in Events, EventRefused(s, e)
     PROVE  EventInv'
  BY <1>13
  DEF EventInv, EffectsAreRemembered, EventAppliedOnce, AckedWasApplied, EventRefused, store, pairing, sockets, calls, facts, counts
<1>14. ASSUME NEW c \in Commands, IssueCommand(c)
     PROVE  EventInv'
  BY <1>14
  DEF EventInv, EffectsAreRemembered, EventAppliedOnce, AckedWasApplied, IssueCommand, store, pairing, sockets, calls, facts, counts
<1>15. ASSUME NEW c \in Commands, SendCommand(c)
     PROVE  EventInv'
  BY <1>15
  DEF EventInv, EffectsAreRemembered, EventAppliedOnce, AckedWasApplied, SendCommand, store, pairing, sockets, calls, facts, counts
<1>16. ASSUME NEW c \in Commands, SendFails(c)
     PROVE  EventInv'
  BY <1>16
  DEF EventInv, EffectsAreRemembered, EventAppliedOnce, AckedWasApplied, SendFails, CommandOver, Failed, InterruptIfActive, store, pairing, sockets, calls, facts, counts
<1>17. ASSUME NEW c \in Commands, CommandReturns(c)
     PROVE  EventInv'
  BY <1>17
  DEF EventInv, EffectsAreRemembered, EventAppliedOnce, AckedWasApplied, CommandReturns, CommandOver, Accepted, Failed, InterruptIfActive, store, pairing, sockets, calls, facts, counts
<1>18. ASSUME NEW c \in Commands, CommandTimesOut(c)
     PROVE  EventInv'
  BY <1>18
  DEF EventInv, EffectsAreRemembered, EventAppliedOnce, AckedWasApplied, CommandTimesOut, CommandOver, Failed, InterruptIfActive, store, pairing, sockets, calls, facts, counts
<1> QED
  BY <1>1, <1>2, <1>3, <1>4, <1>5, <1>6, <1>7, <1>8, <1>9,
     <1>10, <1>11, <1>12, <1>13, <1>14, <1>15, <1>16, <1>17, <1>18
  DEF Next, SocketStep, CommandStep

-----------------------------------------------------------------------------
(* The session invariant holds in every reachable state.                   *)
THEOREM SessionConsistent == Spec => []SessionInv
<1>1. Init => SessionInv
  <2> SUFFICES ASSUME Init
               PROVE  SessionInv
    OBVIOUS
  <2>1. TypeOK
    <3>0. FlagsOK
      BY DEF Init, FlagsOK
    <3>1. StoreOK
      BY BoundsAreNat DEF Init, StoreOK, Statuses
    <3>2. SocketsOK
      BY BoundsAreNat DEF Init, SocketsOK
    <3>3. CallsOK
      BY DEF Init, CallsOK
    <3>4. EventsOK
      BY BoundsAreNat DEF Init, EventsOK
    <3> QED
      BY <3>0, <3>1, <3>2, <3>3, <3>4 DEF TypeOK
  <2>2. ToSet(seen) = {}
    BY DEF Init, ToSet
  <2> QED
    BY <2>1, <2>2
    DEF Init, SessionInv, SocketInv, CodeExcludesToken, AttachedIsAuthorised,
        FuturesHaveASocket, EventInv, EffectsAreRemembered, EventAppliedOnce,
        AckedWasApplied, NoSocket
<1>2. SessionInv /\ [Next]_vars => SessionInv'
  <2> SUFFICES ASSUME SessionInv, [Next]_vars
               PROVE  SessionInv'
    OBVIOUS
  <2>1. CASE Next
    BY <2>1, TypeStep, SocketStepInv, FutureStep, EventStep DEF SessionInv
  <2>2. CASE UNCHANGED vars
    BY <2>2
    DEF vars, store, pairing, sockets, calls, facts, counts, SessionInv, TypeOK, FlagsOK, StoreOK, SocketsOK, CallsOK, EventsOK,
        SocketInv, CodeExcludesToken, AttachedIsAuthorised, FuturesHaveASocket,
        EventInv, EffectsAreRemembered, EventAppliedOnce, AckedWasApplied
  <2> QED
    BY <2>1, <2>2
<1> QED
  BY <1>1, <1>2, PTL DEF Spec

(* The handlers, the credentials, the request table and the memory of      *)
(* events are well typed, and that memory is never longer than its bound,  *)
(* for any number of sockets, codes, restarts and events.                  *)
THEOREM SessionTyped == Spec => []TypeOK
<1>1. SessionInv => TypeOK
  BY DEF SessionInv
<1> QED
  BY <1>1, SessionConsistent, PTL

(* The adapter is attached only to a socket that holds the current token.  *)
THEOREM AuthorityHolds == Spec => []AttachedIsAuthorised
<1>1. SessionInv => AttachedIsAuthorised
  BY DEF SessionInv, SocketInv
<1> QED
  BY <1>1, SessionConsistent, PTL

(* No caller waits for an answer that the adapter would drop.              *)
THEOREM NoOrphanedFuture == Spec => []FuturesHaveASocket
<1>1. SessionInv => FuturesHaveASocket
  BY DEF SessionInv
<1> QED
  BY <1>1, SessionConsistent, PTL

(* An event takes effect once while it is remembered, a reply always once. *)
THEOREM EventsOnce == Spec => []EventAppliedOnce
<1>1. SessionInv => EventAppliedOnce
  BY DEF SessionInv, EventInv
<1> QED
  BY <1>1, SessionConsistent, PTL

(* An acknowledged event took effect.                                      *)
THEOREM AckMeansApplied == Spec => []AckedWasApplied
<1>1. SessionInv => AckedWasApplied
  BY DEF SessionInv, EventInv
<1> QED
  BY <1>1, SessionConsistent, PTL
=============================================================================
