--------------------------- MODULE KanaloaWaitProofs ---------------------------
(***************************************************************************)
(* Proofs about who waits for what in KanaloaAcp: jobs for the lock and    *)
(* for answers, and Turns for their user.                                  *)
(***************************************************************************)
EXTENDS KanaloaAcpProofs

(* A session DSH has created and the adapter has not bound yet.            *)
Minted(j) == phase[j] = "new" /\ future[j] = "ok"

(* A job that works with a session, or that will when it goes on.          *)
Carries(j) ==
    \/ phase[j] \in {"ready", "prompt", "resume"}
    \/ phase[j] \in {"queued", "starting"} /\ session[j] # NoSession

(* A session belongs to one Turn for good, from before its first prompt.   *)
BindInv ==
    /\ \A t \in Turns : ref[t] # NoSession => owner[ref[t]] = t
    /\ \A s \in Sessions : owner[s] # NoTurn => s <= minted
    /\ \A j \in Jobs : Carries(j) =>
          session[j] \in Sessions /\ owner[session[j]] = turnOf[j]
    /\ \A j \in Jobs : Minted(j) => session[j] <= minted /\ owner[session[j]] = NoTurn
    /\ \A i, j \in Jobs : Minted(i) /\ Minted(j) /\ session[i] = session[j] => i = j

(* The lock is held exactly while its job starts or stops the subprocess.  *)
LockInv ==
    /\ \A j \in Jobs : lock = j <=> phase[j] \in {"starting", "stopping"}
    /\ \A j \in Jobs : phase[j] = "starting" => process \in {"starting", "dead"}
    /\ \A j \in Jobs : phase[j] = "stopping" => process \in {"stopping", "dead"}
    /\ process = "starting" => \E j \in Jobs : phase[j] = "starting"
    /\ process = "stopping" => \E j \in Jobs : phase[j] = "stopping"

(* A request that is not a steer waits only where its answer, or the end   *)
(* of the process, will be read.                                           *)
Served(j) ==
    /\ phase[j] = "steer" => kind[j] = "steer"
    /\ future[j] = "waiting" /\ phase[j] # "steer" =>
          /\ phase[j] \in {"starting", "new", "prompt", "resume"}
          /\ j \in asked /\ reader = "reading" /\ process # "none"

(* Nothing that could write a request is left while the process stops.     *)
Quiet(j) ==
    /\ phase[j] # "ready"
    /\ phase[j] \in {"new", "prompt", "resume"} => future[j] = "lost"

ServedInv ==
    /\ process \in {"starting", "up"} => reader = "reading"
    /\ \A i, j \in Jobs : phase[i] = "stopping" => Quiet(j)
    /\ \A j \in Jobs : Served(j)

(* A Turn that waits has a prompt at work, and a request that was neither  *)
(* answered nor withdrawn.                                                 *)
Unanswered(p, t) ==
    /\ asker[p] # NoSession /\ owner[asker[p]] = t
    /\ permission[p] \in {"pending", "failed"}

WaitInv ==
    \A t \in Turns : turn[t] = "waiting_user" =>
        /\ \E j \in Jobs : phase[j] = "prompt" /\ turnOf[j] = t
        /\ \E p \in Permissions : Unanswered(p, t)

AllKept == \A t \in Turns : turn[t] # "deleted"

KanaloaInv == JobsInv /\ BindInv /\ LockInv /\ (AllKept => ServedInv) /\ WaitInv

-----------------------------------------------------------------------------
(* What a step has to keep for the jobs it does not touch.                 *)

LEMMA BindKept ==
    ASSUME BindInv, UNCHANGED <<ref, owner, minted>>,
           \A i \in Jobs :
              \/ /\ phase'[i] = phase[i] /\ session'[i] = session[i] /\ turnOf'[i] = turnOf[i]
                 /\ future'[i] \in {future[i], "lost"}
              \/ /\ phase'[i] = "new" => future'[i] # "ok"
                 /\ Carries(i)' =>
                       session'[i] \in Sessions /\ owner[session'[i]] = turnOf'[i]
    PROVE  BindInv'
<1>1. ASSUME NEW i \in Jobs, Minted(i)'
      PROVE  Minted(i) /\ session'[i] = session[i]
  BY <1>1 DEF Minted
<1>2. ASSUME NEW i \in Jobs, Carries(i)'
      PROVE  session'[i] \in Sessions /\ owner[session'[i]] = turnOf'[i]
  BY <1>2 DEF BindInv, Carries
<1>3. ASSUME NEW i \in Jobs, Minted(i)'
      PROVE  session'[i] <= minted /\ owner[session'[i]] = NoTurn
  BY <1>1, <1>3 DEF BindInv
<1>4. ASSUME NEW i \in Jobs, NEW k \in Jobs, Minted(i)', Minted(k)', session'[i] = session'[k]
      PROVE  i = k
  <2>1. Minted(i) /\ Minted(k) /\ session[i] = session[k]
    BY <1>1, <1>4
  <2> QED
    BY <2>1 DEF BindInv
<1>5. /\ \A t \in Turns : ref'[t] # NoSession => owner'[ref'[t]] = t
      /\ \A s \in Sessions : owner'[s] # NoTurn => s <= minted'
  BY DEF BindInv
<1> QED
  BY <1>2, <1>3, <1>4, <1>5 DEF BindInv

LEMMA LockKept ==
    ASSUME LockInv, UNCHANGED <<lock, process>>,
           \A i \in Jobs : \/ phase'[i] = phase[i]
                           \/ /\ phase[i] \notin {"starting", "stopping"}
                              /\ phase'[i] \notin {"starting", "stopping"}
    PROVE  LockInv'
<1>1. \A i \in Jobs : /\ phase'[i] = "starting" <=> phase[i] = "starting"
                      /\ phase'[i] = "stopping" <=> phase[i] = "stopping"
  OBVIOUS
<1> QED
  BY <1>1 DEF LockInv

(* A step of job j that starts and stops nothing.                          *)
LEMMA ServedKept ==
    ASSUME ServedInv, NEW j \in Jobs, UNCHANGED <<process, reader>>, OthersKept(j),
           \A i \in Jobs \ {j} : kind'[i] = kind[i] /\ (i \in asked => i \in asked'),
           phase'[j] # "stopping", Served(j)',
           (\E i \in Jobs : phase[i] = "stopping") => Quiet(j)'
    PROVE  ServedInv'
<1>1. ASSUME NEW i \in Jobs PROVE Served(i)'
  <2>1. CASE i # j
    BY <2>1 DEF ServedInv, Served, OthersKept
  <2> QED
    BY <2>1
<1>2. ASSUME NEW i \in Jobs, NEW k \in Jobs, phase'[i] = "stopping"
      PROVE  Quiet(k)'
  <2>1. phase[i] = "stopping"
    BY <1>2 DEF OthersKept
  <2>2. CASE k # j
    BY <2>1, <2>2 DEF ServedInv, Quiet, OthersKept
  <2> QED
    BY <2>1, <2>2
<1>3. process' \in {"starting", "up"} => reader' = "reading"
  BY DEF ServedInv
<1> QED
  BY <1>1, <1>2, <1>3 DEF ServedInv

(* A step that leaves the jobs where they are, but may reject requests.    *)
LEMMA QuietKeepsServed ==
    ASSUME ServedInv, UNCHANGED <<phase, kind, asked>>,
           \A i \in Jobs : future'[i] \in {future[i], "lost"},
           process' \in {process, "dead"},
           reader' = reader \/ \A i \in Jobs : future'[i] # "waiting",
           process' \in {"starting", "up"} => reader' = "reading"
    PROVE  ServedInv'
<1>1. ASSUME NEW i \in Jobs PROVE Served(i)'
  BY DEF ServedInv, Served
<1>2. ASSUME NEW i \in Jobs, NEW k \in Jobs, phase'[i] = "stopping"
      PROVE  Quiet(k)'
  BY <1>2 DEF ServedInv, Quiet
<1> QED
  BY <1>1, <1>2 DEF ServedInv

(* A Turn comes to wait only with a request, and what it waits for stays.  *)
LEMMA WaitKept ==
    ASSUME WaitInv,
           \A t \in Turns : turn'[t] = "waiting_user" => turn[t] = "waiting_user",
           \A j \in Jobs : phase[j] = "prompt" /\ turnOf[j] \in Turns =>
              \/ phase'[j] = "prompt" /\ turnOf'[j] = turnOf[j]
              \/ turn'[turnOf[j]] # "waiting_user",
           \A t \in Turns, p \in Permissions : Unanswered(p, t) =>
              Unanswered(p, t)' \/ turn'[t] # "waiting_user"
    PROVE  WaitInv'
<1> SUFFICES ASSUME NEW t \in Turns, turn'[t] = "waiting_user"
             PROVE  /\ \E j \in Jobs : phase'[j] = "prompt" /\ turnOf'[j] = t
                    /\ \E p \in Permissions : Unanswered(p, t)'
  BY DEF WaitInv
<1>1. turn[t] = "waiting_user"
  OBVIOUS
<1>2. PICK j \in Jobs : phase[j] = "prompt" /\ turnOf[j] = t
  BY <1>1 DEF WaitInv
<1>3. PICK p \in Permissions : Unanswered(p, t)
  BY <1>1 DEF WaitInv
<1> QED
  BY <1>2, <1>3

-----------------------------------------------------------------------------
(* How a job moves on: it ends, it asks, or it goes through the lock.      *)

(* A coroutine that ends without having held the lock.                     *)
LEMMA FinishKeepsThem ==
    ASSUME JobsInv, LockInv, BindInv, NEW j \in Jobs, Finish(j),
           phase[j] \notin {"starting", "stopping"},
           UNCHANGED <<ref, owner, minted, lock, process, reader>>
    PROVE  BindInv' /\ LockInv' /\ (ServedInv => ServedInv')
<1>1. JobTypes
  BY JobTypesHold DEF JobsInv
<1>2. /\ phase'[j] = "over" /\ OthersKept(j)
      /\ \A i \in Jobs \ {j} : turnOf'[i] = turnOf[i]
  BY <1>1, FinishStep
<1>3. /\ future'[j] = "none" /\ asked' = asked \ {j}
      /\ \A i \in Jobs \ {j} : kind'[i] = kind[i]
  BY <1>1 DEF Finish, JobTypes, JobsInv, TypeOK
<1>4. BindInv'
  BY <1>2, BindKept DEF OthersKept, Carries
<1>5. LockInv'
  BY <1>2, LockKept DEF OthersKept
<1>6. ServedInv => ServedInv'
  BY <1>2, <1>3, ServedKept DEF Served, Quiet
<1> QED
  BY <1>4, <1>5, <1>6

(* A written request is one the subprocess has received and will answer.   *)
LEMMA AskServed ==
    ASSUME JobTypes, NEW j \in Jobs, NEW to \in Phases, Ask(j, to)
    PROVE  /\ future'[j] = "waiting" => j \in asked' /\ process \notin {"none", "dead"}
           /\ future'[j] # "ok"
           /\ \A i \in Jobs \ {j} : i \in asked => i \in asked'
           /\ OthersKept(j) \/ session' # session
BY AskStep DEF Ask, JobTypes, OthersKept

(* The next prompt of a job that is not stopped at the lock, or a steer.   *)
LEMMA AskKeepsThem ==
    ASSUME JobsInv, LockInv, BindInv, NEW j \in Jobs, NEW to \in {"prompt", "steer"}, Ask(j, to),
           phase[j] \notin {"starting", "stopping"},
           to = "prompt" => /\ phase[j] = "ready" \/ (phase[j] = "prompt" /\ future[j] # "lost")
                            /\ turnOf'[j] = turnOf[j],
           to = "steer" => kind'[j] = "steer",
           \A i \in Jobs \ {j} : kind'[i] = kind[i] /\ turnOf'[i] = turnOf[i],
           UNCHANGED <<ref, owner, minted, lock, process, reader, session>>
    PROVE  BindInv' /\ LockInv' /\ (ServedInv => ServedInv')
<1>1. JobTypes /\ process \in {"none", "starting", "up", "stopping", "dead"}
  BY JobTypesHold DEF JobsInv, TypeOK
<1>2. /\ phase'[j] = to /\ OthersKept(j)
      /\ future'[j] = "waiting" => j \in asked' /\ process \notin {"none", "dead"}
      /\ \A i \in Jobs \ {j} : i \in asked => i \in asked'
  BY <1>1, AskStep, AskServed DEF Phases
<1>3. BindInv'
  <2>1. to = "prompt" => session'[j] \in Sessions /\ owner[session'[j]] = turnOf'[j]
    BY DEF BindInv, Carries
  <2> QED
    BY <1>2, <2>1, BindKept DEF OthersKept, Carries
<1>4. LockInv'
  BY <1>2, LockKept DEF OthersKept
<1>5. ASSUME ServedInv
      PROVE  ServedInv'
  <2>1. CASE to = "steer"
    BY <1>2, <1>5, <2>1, ServedKept DEF Served, Quiet
  <2>2. CASE to = "prompt"
    <3>1. \A i \in Jobs : phase[i] # "stopping"
      BY <1>5, <2>2 DEF ServedInv, Quiet
    <3>2. process # "stopping"
      BY <3>1 DEF LockInv
    <3>3. Served(j)'
      BY <1>1, <1>2, <1>5, <2>2, <3>2 DEF Served, ServedInv
    <3> QED
      BY <1>2, <1>5, <2>2, <3>1, <3>3, ServedKept
  <2> QED
    BY <2>1, <2>2
<1> QED
  BY <1>3, <1>4, <1>5

(* What a job has seen of its Turn's session is a session of that Turn.    *)
Enters(j, t) == phase[j] = "idle" \/ (phase[j] \in {"queued", "starting"} /\ turnOf[j] = t)

LEMMA SeenIsOwn ==
    ASSUME JobsInv, BindInv, NEW j \in Jobs, NEW t \in Turns, Enters(j, t)
    PROVE  Seen(j, t) # NoSession => Seen(j, t) \in Sessions /\ owner[Seen(j, t)] = t
<1>1. ref \in [Turns -> Sessions \cup {NoSession}]
  BY DEF JobsInv, TypeOK
<1>2. CASE phase[j] = "idle"
  BY <1>1, <1>2 DEF Seen, BindInv
<1>3. CASE phase[j] # "idle"
  BY <1>3 DEF Seen, Enters, BindInv, Carries
<1> QED
  BY <1>2, <1>3

(* With a process that is up a job goes on to a session of its own Turn.   *)
LEMMA GoOnBinds ==
    ASSUME JobsInv, BindInv, NEW j \in Jobs, NEW t \in Turns, NEW k, GoOn(j, t, k),
           Enters(j, t), k = "resume" => Seen(j, t) \in Sessions
    PROVE  /\ OthersKept(j)
           /\ phase'[j] \in {"resume", "ready", "new"}
           /\ phase'[j] = "new" => future'[j] # "ok"
           /\ phase'[j] \in {"ready", "resume"} =>
                 session'[j] \in Sessions /\ owner[session'[j]] = t
           /\ \A i \in Jobs \ {j} : i \in asked => i \in asked'
           /\ phase'[j] # "ready" /\ future'[j] = "waiting" =>
                 j \in asked' /\ process \notin {"none", "dead"}
           /\ phase'[j] = "ready" => future'[j] = future[j]
<1> USE Constants
<1>1. JobTypes /\ ref \in [Turns -> Sessions \cup {NoSession}] /\ active \subseteq Sessions
  BY JobTypesHold DEF JobsInv, TypeOK
<1>2. /\ OthersKept(j) /\ phase'[j] \in {"resume", "ready", "new"}
      /\ phase'[j] = "resume" => k = "resume" /\ (Seen(j, t) # NoSession => session'[j] = Seen(j, t))
      /\ phase'[j] = "new" => future'[j] # "ok"
  BY <1>1, GoOnStep
<1> DEFINE s == IF Seen(j, t) = NoSession THEN ref[t] ELSE Seen(j, t)
<1>3. s # NoSession => s \in Sessions /\ owner[s] = t
  BY <1>1, SeenIsOwn DEF BindInv
<1>4. phase'[j] \in {"ready", "resume"} => session'[j] \in Sessions /\ owner[session'[j]] = t
  <2>1. CASE k = "resume"
    <3>1. session'[j] = s /\ s # NoSession
      BY <1>1, <2>1 DEF GoOn, JobTypes
    <3> QED
      BY <1>3, <3>1
  <2>2. CASE k # "resume" /\ s \in active
    <3>1. session'[j] = s /\ s # NoSession
      BY <1>1, <2>2 DEF GoOn, JobTypes
    <3> QED
      BY <1>3, <3>1
  <2>3. CASE k # "resume" /\ s \notin active
    <3>1. Ask(j, "new")
      BY <2>3 DEF GoOn
    <3> QED
      BY <1>1, <3>1, AskStep DEF Phases
  <2> QED
    BY <2>1, <2>2, <2>3
<1>5. \/ \E to \in {"resume", "new"} : Ask(j, to)
      \/ phase' = [phase EXCEPT ![j] = "ready"] /\ UNCHANGED <<future, asked>>
  BY DEF GoOn
<1>6. /\ \A i \in Jobs \ {j} : i \in asked => i \in asked'
      /\ phase'[j] # "ready" /\ future'[j] = "waiting" =>
            j \in asked' /\ process \notin {"none", "dead"}
      /\ phase'[j] = "ready" => future'[j] = future[j]
  <2>1. ASSUME NEW to \in {"resume", "new"}, Ask(j, to)
        PROVE  /\ \A i \in Jobs \ {j} : i \in asked => i \in asked'
               /\ phase'[j] # "ready"
               /\ future'[j] = "waiting" => j \in asked' /\ process \notin {"none", "dead"}
    BY <1>1, <2>1, AskStep, AskServed DEF Phases
  <2>2. ASSUME phase' = [phase EXCEPT ![j] = "ready"], UNCHANGED <<future, asked>>
        PROVE  phase'[j] = "ready"
    BY <1>1, <2>2 DEF JobTypes
  <2> QED
    BY <1>5, <2>1, <2>2
<1> QED
  BY <1>2, <1>4, <1>6

LEMMA EnsureKeepsThem ==
    ASSUME JobsInv, BindInv, LockInv, NEW j \in Jobs, NEW t \in Turns, NEW k,
           EnsureProcess(j, t, k), lock = NoJob, phase[j] \in {"idle", "queued"},
           Enters(j, t), k = "resume" => Seen(j, t) \in Sessions, turnOf'[j] = t,
           \A i \in Jobs \ {j} : kind'[i] = kind[i] /\ turnOf'[i] = turnOf[i],
           UNCHANGED <<ref, owner, minted>>
    PROVE  BindInv' /\ LockInv' /\ (ServedInv => ServedInv')
<1> USE Constants
<1>1. JobTypes /\ process \in {"none", "starting", "up", "stopping", "dead"}
  BY JobTypesHold DEF JobsInv, TypeOK
<1>2. \A i \in Jobs : phase[i] \notin {"starting", "stopping"}
  BY DEF LockInv
<1>3. process \in {"none", "up", "dead"}
  BY <1>1, <1>2 DEF LockInv
<1>4. CASE Alive /\ initialized
  <2>1. GoOn(j, t, k) /\ UNCHANGED <<lock, process, reader>> /\ process \in {"up", "dead"}
    BY <1>3, <1>4 DEF EnsureProcess, Alive, proc
  <2>2. /\ OthersKept(j)
        /\ phase'[j] \in {"resume", "ready", "new"}
        /\ phase'[j] = "new" => future'[j] # "ok"
        /\ phase'[j] \in {"ready", "resume"} =>
              session'[j] \in Sessions /\ owner[session'[j]] = t
        /\ \A i \in Jobs \ {j} : i \in asked => i \in asked'
        /\ phase'[j] # "ready" /\ future'[j] = "waiting" =>
              j \in asked' /\ process \notin {"none", "dead"}
        /\ phase'[j] = "ready" => future'[j] = future[j]
    BY <2>1, GoOnBinds
  <2>3. BindInv'
    BY <2>2, BindKept DEF OthersKept, Carries
  <2>4. LockInv'
    BY <1>2, <2>1, <2>2, LockKept DEF OthersKept
  <2>5. ASSUME ServedInv
        PROVE  ServedInv'
    <3>1. Served(j)'
      BY <1>3, <2>1, <2>2, <2>5 DEF Served, ServedInv
    <3> QED
      BY <1>2, <2>1, <2>2, <2>5, <3>1, ServedKept
  <2> QED
    BY <2>3, <2>4, <2>5
<1>5. CASE ~(Alive /\ initialized)
  <2> DEFINE f == IF process = "none" THEN future ELSE Rejected(future)
  <2>1. /\ process' = "starting" /\ reader' = "reading" /\ lock' = j /\ asked' = {j}
        /\ phase' = [phase EXCEPT ![j] = "starting"]
        /\ future' = [f EXCEPT ![j] = "waiting"]
        /\ session' = [session EXCEPT ![j] = Seen(j, t)]
    BY <1>5 DEF EnsureProcess
  <2>2. /\ f \in [Jobs -> Futures] /\ \A i \in Jobs : f[i] \in {future[i], "lost"}
        /\ process # "none" => \A i \in Jobs : f[i] # "waiting"
    BY <1>1 DEF JobTypes, Rejected, Futures
  <2> HIDE DEF f
  <2>3. /\ phase'[j] = "starting" /\ future'[j] = "waiting" /\ OthersKept(j)
        /\ \A i \in Jobs \ {j} : process # "none" => future'[i] # "waiting"
    BY <1>1, <2>1, <2>2 DEF JobTypes, OthersKept
  <2>4. BindInv'
    <3>1. session'[j] = Seen(j, t)
      BY <1>1, <2>1 DEF JobTypes
    <3> QED
      BY <2>1, <2>3, <3>1, BindKept, SeenIsOwn DEF OthersKept, Carries
  <2>5. LockInv'
    BY <1>2, <2>1, <2>3 DEF LockInv, OthersKept
  <2>6. ASSUME ServedInv
        PROVE  ServedInv'
    <3>1. ASSUME NEW i \in Jobs \ {j} PROVE Served(i)'
      BY <2>3, <2>6 DEF ServedInv, Served, OthersKept
    <3>2. Served(j)'
      BY <2>1, <2>3 DEF Served
    <3>3. \A i \in Jobs : phase'[i] # "stopping"
      BY <1>2, <2>3 DEF OthersKept
    <3> QED
      BY <2>1, <3>1, <3>2, <3>3 DEF ServedInv
  <2> QED
    BY <2>4, <2>5, <2>6
<1> QED
  BY <1>4, <1>5

LEMMA EnterKeepsThem ==
    ASSUME JobsInv, BindInv, LockInv, NEW j \in Jobs, NEW t \in Turns, NEW k,
           Enter(j, t, k), phase[j] = "idle",
           k = "resume" => Seen(j, t) \in Sessions, turnOf'[j] = t,
           \A i \in Jobs \ {j} : kind'[i] = kind[i] /\ turnOf'[i] = turnOf[i],
           UNCHANGED <<ref, owner, minted>>
    PROVE  BindInv' /\ LockInv' /\ (ServedInv => ServedInv')
<1>1. CASE lock = NoJob
  BY <1>1, EnsureKeepsThem DEF Enter, Enters
<1>2. CASE lock # NoJob
  <2>1. /\ phase' = [phase EXCEPT ![j] = "queued"]
        /\ session' = [session EXCEPT ![j] = Seen(j, t)]
        /\ UNCHANGED <<proc, loaded, asked, future>>
    BY <1>2 DEF Enter
  <2>2. phase'[j] = "queued" /\ OthersKept(j)
    BY <2>1, JobTypesHold DEF JobsInv, JobTypes, OthersKept
  <2>3. BindInv'
    <3>1. session'[j] = Seen(j, t)
      BY <2>1, JobTypesHold DEF JobsInv, JobTypes
    <3> QED
      BY <2>1, <2>2, <3>1, BindKept, SeenIsOwn DEF OthersKept, Carries, Enters
  <2>4. LockInv'
    BY <2>1, <2>2, LockKept DEF OthersKept, proc
  <2>5. ServedInv => ServedInv'
    <3>1. ServedInv => Served(j)' /\ Quiet(j)'
      BY <2>1, <2>2 DEF ServedInv, Served, Quiet
    <3> QED
      BY <2>1, <2>2, <3>1, ServedKept DEF proc
  <2> QED
    BY <2>3, <2>4, <2>5
<1> QED
  BY <1>1, <1>2

(* The subprocess is there: its starter leaves the lock and goes on.       *)
LEMMA InitializedKeepsThem ==
    ASSUME JobsInv, BindInv, LockInv, NEW j \in Jobs, Initialized(j)
    PROVE  BindInv' /\ LockInv' /\ (ServedInv => ServedInv')
<1> USE Constants
<1>1. JobFacts(j) /\ lock \in Jobs \cup {NoJob}
  BY DEF JobsInv, TypeOK
<1>2. /\ phase[j] = "starting" /\ future[j] = "ok"
      /\ process' = IF process = "starting" THEN "up" ELSE process
      /\ lock' = NoJob /\ GoOn(j, turnOf[j], kind[j])
      /\ UNCHANGED <<turns, reader, minted, kind, turnOf>>
  BY DEF Initialized
<1>3. /\ turnOf[j] \in Turns /\ Enters(j, turnOf[j])
      /\ kind[j] = "resume" => Seen(j, turnOf[j]) \in Sessions
  BY <1>1, <1>2 DEF JobFacts, Open, Enters, Seen
<1>4. process \in {"starting", "dead"} /\ \A i \in Jobs \ {j} : phase[i] \notin {"starting", "stopping"}
  BY <1>2 DEF LockInv
<1>5. /\ OthersKept(j)
      /\ phase'[j] \in {"resume", "ready", "new"}
      /\ phase'[j] = "new" => future'[j] # "ok"
      /\ phase'[j] \in {"ready", "resume"} =>
            session'[j] \in Sessions /\ owner[session'[j]] = turnOf[j]
      /\ \A i \in Jobs \ {j} : i \in asked => i \in asked'
      /\ phase'[j] # "ready" /\ future'[j] = "waiting" =>
            j \in asked' /\ process \notin {"none", "dead"}
      /\ phase'[j] = "ready" => future'[j] = future[j]
  BY <1>2, <1>3, GoOnBinds
<1>6. BindInv'
  BY <1>2, <1>5, BindKept DEF OthersKept, Carries, turns
<1>7. LockInv'
  BY <1>2, <1>4, <1>5 DEF LockInv, OthersKept
<1>8. ASSUME ServedInv
      PROVE  ServedInv'
  <2>1. process' \in {"starting", "up"} => reader' = "reading"
    BY <1>2, <1>4, <1>8 DEF ServedInv
  <2>2. Served(j)'
    BY <1>2, <1>4, <1>5, <2>1 DEF Served
  <2>3. ASSUME NEW i \in Jobs \ {j} PROVE Served(i)'
    BY <1>2, <1>4, <1>5, <1>8 DEF ServedInv, Served, OthersKept
  <2>4. \A i \in Jobs : phase'[i] # "stopping"
    BY <1>4, <1>5 DEF OthersKept
  <2> QED
    BY <2>1, <2>2, <2>3, <2>4 DEF ServedInv
<1> QED
  BY <1>6, <1>7, <1>8

(* The answer of DSH: a created session is new to everybody.               *)
LEMMA AnswerKeepsThem ==
    ASSUME JobsInv, BindInv, LockInv, NEW j \in Jobs, Answer(j)
    PROVE  BindInv' /\ LockInv' /\ (ServedInv => ServedInv')
<1> USE Constants
<1>1. JobTypes /\ minted \in 0..MaxSessions /\ owner \in [Sessions -> Turns \cup {NoTurn}]
  BY JobTypesHold DEF JobsInv, TypeOK
<1>2. /\ UNCHANGED <<turns, proc, asked, phase, kind, turnOf>>
      /\ reader = "reading" /\ future[j] = "waiting"
  BY DEF Answer
<1>3. PICK a \in Answers(j) :
         /\ (phase[j] = "new" /\ a = "ok") => minted < MaxSessions
         /\ future' = [future EXCEPT ![j] = a]
         /\ IF a = "ok" /\ phase[j] = "new"
            THEN /\ minted' = minted + 1
                 /\ session' = [session EXCEPT ![j] = minted']
            ELSE UNCHANGED <<minted, session>>
  BY DEF Answer
<1>4. a # "waiting" /\ (a = "lost" => FALSE)
  BY DEF Answers, Outcomes
<1>5. future'[j] = a /\ \A i \in Jobs \ {j} : future'[i] = future[i]
  BY <1>1, <1>3 DEF JobTypes
<1>6. LockInv'
  BY <1>2, LockKept DEF proc
<1>7. ASSUME ServedInv
      PROVE  ServedInv'
  <2>1. ASSUME NEW i \in Jobs PROVE Served(i)'
    BY <1>2, <1>4, <1>5, <1>7 DEF ServedInv, Served, proc
  <2>2. ASSUME NEW i \in Jobs, NEW k \in Jobs, phase'[i] = "stopping"
        PROVE  Quiet(k)'
    BY <1>2, <1>5, <1>7, <2>2 DEF ServedInv, Quiet
  <2> QED
    BY <1>2, <1>7, <2>1, <2>2 DEF ServedInv, proc
<1>8. BindInv'
  <2>1. CASE a = "ok" /\ phase[j] = "new"
    <3>1. /\ minted' = minted + 1 /\ minted' \in Sessions
          /\ session'[j] = minted' /\ \A i \in Jobs \ {j} : session'[i] = session[i]
      BY <1>1, <1>3, <2>1 DEF Sessions, JobTypes
    <3>2. owner[minted'] = NoTurn /\ \A i \in Jobs : Minted(i) => session[i] <= minted
      BY <1>1, <3>1 DEF BindInv
    <3>3. \A i \in Jobs \ {j} : Minted(i)' <=> Minted(i)
      BY <1>2, <1>5 DEF Minted
    <3>4. ASSUME NEW s \in Sessions, owner'[s] # NoTurn
          PROVE  s <= minted'
      BY <1>1, <1>2, <3>1, <3>4 DEF BindInv, turns
    <3>5. ASSUME NEW i \in Jobs, Minted(i)'
          PROVE  session'[i] <= minted' /\ owner'[session'[i]] = NoTurn
      <4>1. CASE i = j
        BY <1>1, <1>2, <3>1, <3>2, <4>1 DEF turns
      <4>2. CASE i # j
        <5>1. session[i] <= minted /\ owner[session[i]] = NoTurn /\ session[i] \in Sessions \cup {NoSession}
          BY <1>1, <3>3, <3>5, <4>2 DEF BindInv, JobTypes
        <5> QED
          BY <1>1, <1>2, <3>1, <4>2, <5>1 DEF turns, Sessions, NoSession
      <4> QED
        BY <4>1, <4>2
    <3>6. ASSUME NEW i \in Jobs, NEW k \in Jobs, Minted(i)', Minted(k)', session'[i] = session'[k]
          PROVE  i = k
      <4>1. \A m \in Jobs \ {j} : Minted(m)' => session'[m] # session'[j]
        BY <1>1, <3>1, <3>2, <3>3
      <4>2. CASE i # j /\ k # j
        <5>1. Minted(i) /\ Minted(k) /\ session[i] = session[k]
          BY <3>1, <3>3, <3>6, <4>2
        <5> QED
          BY <5>1 DEF BindInv
      <4> QED
        BY <3>6, <4>1, <4>2
    <3>7. ASSUME NEW i \in Jobs, Carries(i)'
          PROVE  session'[i] \in Sessions /\ owner'[session'[i]] = turnOf'[i]
      BY <1>2, <2>1, <3>1, <3>7 DEF BindInv, turns, Carries
    <3>8. \A t \in Turns : ref'[t] # NoSession => owner'[ref'[t]] = t
      BY <1>2 DEF BindInv, turns
    <3> QED
      BY <3>4, <3>5, <3>6, <3>7, <3>8 DEF BindInv
  <2>2. CASE ~(a = "ok" /\ phase[j] = "new")
    <3>1. UNCHANGED <<minted, session>>
      BY <1>3, <2>2
    <3>2. Carries(j) =>
             session[j] \in Sessions /\ owner[session[j]] = turnOf[j]
      BY DEF BindInv
    <3> QED
      BY <1>2, <1>5, <2>2, <3>1, <3>2, BindKept DEF turns, Carries
  <2> QED
    BY <2>1, <2>2
<1> QED
  BY <1>6, <1>7, <1>8

(* A new session is bound to the Turn of its job.                          *)
LEMMA SessionReadyKeepsThem ==
    ASSUME JobsInv, BindInv, LockInv, NEW j \in Jobs, SessionReady(j)
    PROVE  BindInv' /\ LockInv' /\ (ServedInv => ServedInv')
<1> USE Constants
<1>1. /\ JobTypes /\ JobFacts(j)
      /\ owner \in [Sessions -> Turns \cup {NoTurn}] /\ ref \in [Turns -> Sessions \cup {NoSession}]
      /\ minted \in Nat
  BY JobTypesHold DEF JobsInv, TypeOK
<1>2. /\ phase[j] = "new" /\ future[j] = "ok"
      /\ owner' = [owner EXCEPT ![session[j]] = turnOf[j]]
      /\ UNCHANGED <<proc, minted>>
      /\ \/ Finish(j) /\ UNCHANGED ref
         \/ /\ phase' = [phase EXCEPT ![j] = "ready"]
            /\ ref' = [ref EXCEPT ![turnOf[j]] = session[j]]
            /\ UNCHANGED <<asked, kind, turnOf, session, future>>
  BY DEF SessionReady
<1> DEFINE s == session[j]  t == turnOf[j]
<1>3. s \in Sessions /\ t \in Turns /\ Minted(j)
  BY <1>1, <1>2 DEF JobFacts, Open, Minted
<1>4. s <= minted /\ owner[s] = NoTurn
  BY <1>3 DEF BindInv
<1>5. owner'[s] = t /\ \A r \in Sessions \ {s} : owner'[r] = owner[r]
  BY <1>1, <1>2, <1>3
<1>6. /\ phase'[j] \in {"over", "ready"} /\ OthersKept(j) /\ future'[j] \in {"none", "ok"}
      /\ phase'[j] = "ready" => session'[j] = s /\ turnOf'[j] = t
      /\ \A i \in Jobs \ {j} : /\ turnOf'[i] = turnOf[i] /\ kind'[i] = kind[i]
                               /\ i \in asked => i \in asked'
  <2>1. CASE Finish(j)
    <3>1. /\ phase'[j] = "over" /\ OthersKept(j)
          /\ \A i \in Jobs \ {j} : turnOf'[i] = turnOf[i]
      BY <1>1, <2>1, FinishStep
    <3>2. /\ future'[j] = "none" /\ asked' = asked \ {j}
          /\ \A i \in Jobs \ {j} : kind'[i] = kind[i]
      BY <1>1, <2>1 DEF Finish, JobTypes, JobsInv, TypeOK
    <3> QED
      BY <3>1, <3>2
  <2>2. CASE ~Finish(j)
    BY <1>1, <1>2, <2>2 DEF JobTypes, OthersKept
  <2> QED
    BY <2>1, <2>2
<1>7. ref' = ref \/ ref' = [ref EXCEPT ![t] = s]
  BY <1>2
<1> HIDE DEF s, t
<1>8. LockInv'
  BY <1>2, <1>6, LockKept DEF OthersKept, proc
<1>9. ASSUME ServedInv
      PROVE  ServedInv'
  <2>1. \A i \in Jobs : phase[i] # "stopping"
    BY <1>2, <1>9 DEF ServedInv, Quiet
  <2> QED
    BY <1>2, <1>6, <1>9, <2>1, ServedKept DEF Served, proc
<1>10. BindInv'
  <2>1. ASSUME NEW u \in Turns, ref'[u] # NoSession
        PROVE  owner'[ref'[u]] = u
    <3>1. CASE ref'[u] = s /\ u = t
      BY <1>5, <3>1
    <3>2. CASE ~(ref'[u] = s /\ u = t)
      <4>1. ref'[u] = ref[u]
        BY <1>1, <1>3, <1>7, <3>2
      <4>2. owner[ref[u]] = u /\ ref[u] \in Sessions
        BY <1>1, <2>1, <4>1 DEF BindInv
      <4> QED
        BY <1>4, <1>5, <4>1, <4>2
    <3> QED
      BY <3>1, <3>2
  <2>2. ASSUME NEW r \in Sessions, owner'[r] # NoTurn
        PROVE  r <= minted'
    BY <1>2, <1>4, <1>5, <2>2 DEF BindInv
  <2>3. ASSUME NEW i \in Jobs, Carries(i)'
        PROVE  session'[i] \in Sessions /\ owner'[session'[i]] = turnOf'[i]
    <3>1. CASE i = j
      BY <1>3, <1>5, <1>6, <2>3, <3>1 DEF Carries
    <3>2. CASE i # j
      <4>1. session'[i] = session[i] /\ session[i] \in Sessions /\ owner[session[i]] = turnOf[i]
            /\ turnOf[i] \in Turns
        BY <1>6, <2>3, <3>2 DEF BindInv, Carries, OthersKept, JobsInv, JobFacts, Open
      <4> QED
        BY <1>4, <1>5, <1>6, <3>2, <4>1
    <3> QED
      BY <3>1, <3>2
  <2>4. ASSUME NEW i \in Jobs, Minted(i)'
        PROVE  i # j /\ Minted(i) /\ session'[i] = session[i]
    BY <1>6, <2>4 DEF Minted, OthersKept
  <2>5. ASSUME NEW i \in Jobs, Minted(i)'
        PROVE  session'[i] <= minted' /\ owner'[session'[i]] = NoTurn
    <3>1. session[i] # s /\ session[i] <= minted /\ owner[session[i]] = NoTurn
      BY <1>3, <2>4, <2>5 DEF BindInv, s
    <3>2. session[i] \in Sessions
      BY <2>4, <2>5 DEF JobsInv, JobFacts, Minted
    <3> QED
      BY <1>2, <1>5, <2>4, <2>5, <3>1, <3>2
  <2>6. ASSUME NEW i \in Jobs, NEW k \in Jobs, Minted(i)', Minted(k)', session'[i] = session'[k]
        PROVE  i = k
    <3>1. Minted(i) /\ Minted(k) /\ session[i] = session[k]
      BY <2>4, <2>6
    <3> QED
      BY <3>1 DEF BindInv
  <2> QED
    BY <2>1, <2>2, <2>3, <2>5, <2>6 DEF BindInv
<1> QED
  BY <1>8, <1>9, <1>10

(* The initialize request failed: everybody is told, and the end awaited.  *)
LEMMA StartFailsKeepsThem ==
    ASSUME JobsInv, BindInv, LockInv, NEW j \in Jobs, StartFails(j)
    PROVE  BindInv' /\ LockInv' /\ (ServedInv => ServedInv')
<1>1. JobTypes
  BY JobTypesHold DEF JobsInv
<1>2. /\ phase[j] = "starting" /\ phase' = [phase EXCEPT ![j] = "stopping"]
      /\ future' = Rejected(future) /\ LoopIsIdle
      /\ process' = (IF process = "dead" THEN "dead" ELSE "stopping") /\ reader' = "none"
      /\ UNCHANGED <<turns, lock, dsh, kind, turnOf, session>>
  BY DEF StartFails
<1>3. /\ phase'[j] = "stopping" /\ \A i \in Jobs \ {j} : phase'[i] = phase[i]
      /\ \A i \in Jobs : /\ future'[i] \in {future[i], "lost"}
                         /\ future'[i] \notin {"waiting", "unsent"}
  BY <1>1, <1>2 DEF JobTypes, Rejected
<1>4. \A i \in Jobs \ {j} : phase[i] \notin {"starting", "stopping"}
  BY <1>2 DEF LockInv
<1>5. BindInv'
  BY <1>2, <1>3, BindKept DEF turns, dsh, Carries
<1>6. LockInv'
  BY <1>2, <1>3, <1>4 DEF LockInv
<1>7. ASSUME ServedInv
      PROVE  ServedInv'
  <2>1. ASSUME NEW i \in Jobs PROVE Served(i)'
    BY <1>2, <1>3, <1>7 DEF ServedInv, Served
  <2>2. ASSUME NEW i \in Jobs PROVE Quiet(i)'
    <3>1. phase[i] # "ready" /\ (phase[i] \in {"new", "prompt", "resume"} => future[i] \in {"waiting", "unsent"})
      BY <1>2 DEF LoopIsIdle, Runnable
    <3>2. future[i] \in {"waiting", "unsent"} => future'[i] = "lost"
      BY <1>3
    <3> QED
      BY <1>3, <3>1, <3>2 DEF Quiet
  <2>3. process' \notin {"starting", "up"}
    BY <1>2
  <2> QED
    BY <2>1, <2>2, <2>3 DEF ServedInv
<1> QED
  BY <1>5, <1>6, <1>7

(* The subprocess has ended, and its starter with it.                      *)
LEMMA StopReturnsKeepsThem ==
    ASSUME JobsInv, BindInv, LockInv, NEW j \in Jobs, StopReturns(j)
    PROVE  BindInv' /\ LockInv' /\ (ServedInv => ServedInv')
<1> USE Constants
<1>1. JobTypes
  BY JobTypesHold DEF JobsInv
<1>2. /\ phase[j] = "stopping" /\ process' = "none" /\ lock' = NoJob /\ Finish(j)
      /\ UNCHANGED <<ref, owner, minted, reader>>
  BY DEF StopReturns
<1>3. /\ phase'[j] = "over" /\ OthersKept(j)
      /\ \A i \in Jobs \ {j} : turnOf'[i] = turnOf[i]
  BY <1>1, <1>2, FinishStep
<1>4. future'[j] = "none" /\ \A i \in Jobs \ {j} : kind'[i] = kind[i]
  BY <1>1, <1>2 DEF Finish, JobTypes, JobsInv, TypeOK
<1>5. \A i \in Jobs \ {j} : phase[i] \notin {"starting", "stopping"}
  BY <1>2 DEF LockInv
<1>6. BindInv'
  BY <1>2, <1>3, BindKept DEF OthersKept, Carries
<1>7. LockInv'
  BY <1>2, <1>3, <1>5 DEF LockInv, OthersKept
<1>8. ASSUME ServedInv
      PROVE  ServedInv'
  <2>1. \A i \in Jobs \ {j} : future[i] = "waiting" => phase[i] = "steer"
    BY <1>2, <1>5, <1>8 DEF ServedInv, Served, Quiet
  <2>2. ASSUME NEW i \in Jobs PROVE Served(i)'
    BY <1>3, <1>4, <1>8, <2>1 DEF ServedInv, Served, OthersKept
  <2>3. \A i \in Jobs : phase'[i] # "stopping"
    BY <1>3, <1>5 DEF OthersKept
  <2> QED
    BY <1>2, <2>2, <2>3 DEF ServedInv
<1> QED
  BY <1>6, <1>7, <1>8

-----------------------------------------------------------------------------
(* All steps.                                                              *)

LEMMA JobStepKeepsThem ==
    ASSUME JobsInv, BindInv, LockInv, NEW j \in Jobs, JobStep(j)
    PROVE  BindInv' /\ LockInv' /\ (ServedInv => ServedInv')
<1> USE Constants
<1>1. /\ JobTypes /\ JobFacts(j)
      /\ kind \in [Jobs -> {"none", "send", "loop", "steer", "resume"}]
      /\ turnOf \in [Jobs -> Turns \cup {NoTurn}] /\ owner \in [Sessions -> Turns \cup {NoTurn}]
  BY JobTypesHold DEF JobsInv, TypeOK
<1>2. CASE Answer(j)
  BY <1>2, AnswerKeepsThem
<1>3. CASE DrainFails(j)
  <2>1. /\ \A i \in Jobs : future'[i] \in {future[i], "lost"}
        /\ UNCHANGED <<turns, proc, dsh, phase, kind, turnOf, session>>
    BY <1>1, <1>3 DEF DrainFails, JobTypes
  <2>2. BindInv' /\ LockInv'
    BY <2>1, BindKept, LockKept DEF Carries, turns, proc, dsh
  <2>3. ServedInv => ServedInv'
    BY <2>1, QuietKeepsServed DEF proc, dsh, ServedInv
  <2> QED
    BY <2>2, <2>3
<1>4. CASE GetLock(j)
  <2>1. /\ phase[j] = "queued" /\ lock = NoJob /\ EnsureProcess(j, turnOf[j], kind[j])
        /\ UNCHANGED <<turns, minted, kind, turnOf>>
    BY <1>4 DEF GetLock
  <2>2. /\ turnOf[j] \in Turns /\ Enters(j, turnOf[j])
        /\ kind[j] = "resume" => Seen(j, turnOf[j]) \in Sessions
    BY <1>1, <2>1 DEF JobFacts, Open, Enters, Seen
  <2> QED
    BY <2>1, <2>2, EnsureKeepsThem DEF turns
<1>5. CASE Initialized(j)
  BY <1>5, InitializedKeepsThem
<1>6. CASE StartFails(j)
  BY <1>6, StartFailsKeepsThem
<1>7. CASE StopReturns(j)
  BY <1>7, StopReturnsKeepsThem
<1>8. CASE SessionReady(j)
  BY <1>8, SessionReadyKeepsThem
<1>f. ASSUME Finish(j), phase[j] \in {"new", "ready", "prompt", "steer", "resume"},
             UNCHANGED <<ref, owner, minted, proc>>
      PROVE  BindInv' /\ LockInv' /\ (ServedInv => ServedInv')
  BY <1>f, FinishKeepsThem DEF proc
<1>a. ASSUME Ask(j, "prompt"), phase[j] = "ready" \/ (phase[j] = "prompt" /\ future[j] # "lost"),
             UNCHANGED <<turns, minted, proc, kind, turnOf, session>>
      PROVE  BindInv' /\ LockInv' /\ (ServedInv => ServedInv')
  BY <1>a, AskKeepsThem DEF turns, proc
<1>9. CASE SessionFails(j)
  BY <1>9, <1>f DEF SessionFails
<1>10. CASE PromptStarts(j)
  BY <1>10, <1>a DEF PromptStarts
<1>11. CASE LoopStarts(j)
  <2>1. phase[j] = "ready" /\ UNCHANGED <<turns, proc, minted>>
    BY <1>11 DEF LoopStarts
  <2>2. \/ Ask(j, "prompt") /\ UNCHANGED <<kind, turnOf, session>>
        \/ Finish(j)
    BY <1>11 DEF LoopStarts
  <2> QED
    BY <1>a, <1>f, <2>1, <2>2 DEF turns
<1>12. CASE PromptOver(j)
  BY <1>12, <1>f DEF PromptOver
<1>13. CASE LoopBreaks(j)
  BY <1>13, <1>f DEF LoopBreaks, LoopEnds
<1>14. CASE LoopCompletes(j)
  BY <1>14, <1>f DEF LoopCompletes, LoopEnds, IterationDone
<1>15. CASE LoopContinues(j)
  BY <1>15, <1>a DEF LoopContinues, IterationDone
<1>16. CASE SteerOver(j)
  BY <1>16, <1>f DEF SteerOver
<1>17. CASE ResumeOver(j)
  <2>1. owner[session[j]] = turnOf[j] /\ session[j] \in Sessions
    BY <1>17 DEF ResumeOver, BindInv, Carries
  <2>2. owner' = owner
    BY <1>1, <1>17, <2>1 DEF ResumeOver
  <2> QED
    BY <1>17, <1>f, <2>2 DEF ResumeOver
<1> QED
  BY <1>2, <1>3, <1>4, <1>5, <1>6, <1>7, <1>8, <1>9, <1>10, <1>11, <1>12, <1>13, <1>14, <1>15,
     <1>16, <1>17 DEF JobStep

LEMMA UserStepKeepsThem ==
    ASSUME JobsInv, BindInv, LockInv, NEW t \in Turns, UserStep(t) \/ CancelReturns(t)
    PROVE  BindInv' /\ LockInv' /\ (ServedInv => ServedInv')
<1> USE Constants
<1>1. /\ JobTypes
      /\ kind \in [Jobs -> {"none", "send", "loop", "steer", "resume"}]
      /\ turnOf \in [Jobs -> Turns \cup {NoTurn}] /\ ref \in [Turns -> Sessions \cup {NoSession}]
  BY JobTypesHold DEF JobsInv, TypeOK
<1>2. ASSUME NEW j \in Jobs, Send(j, t)
      PROVE  BindInv' /\ LockInv' /\ (ServedInv => ServedInv')
  <2>1. PICK k \in Kinds[j] \cap {"send", "loop"} : kind' = [kind EXCEPT ![j] = k] /\ Enter(j, t, k)
    BY <1>2 DEF Send
  <2>2. /\ phase[j] = "idle" /\ turnOf' = [turnOf EXCEPT ![j] = t]
        /\ UNCHANGED <<ref, owner, minted>>
    BY <1>2 DEF Send
  <2>3. turnOf'[j] = t /\ \A i \in Jobs \ {j} : kind'[i] = kind[i] /\ turnOf'[i] = turnOf[i]
    BY <1>1, <2>1, <2>2
  <2> QED
    BY <2>1, <2>2, <2>3, EnterKeepsThem
<1>3. ASSUME NEW j \in Jobs, phase[j] = "idle", phase' = [phase EXCEPT ![j] = "over"],
             UNCHANGED <<ref, owner, minted, proc, asked, kind, turnOf, session, future>>
      PROVE  BindInv' /\ LockInv' /\ (ServedInv => ServedInv')
  <2>1. phase'[j] = "over" /\ OthersKept(j)
    BY <1>1, <1>3 DEF JobTypes, OthersKept
  <2>2. BindInv'
    BY <1>3, <2>1, BindKept DEF OthersKept, Carries
  <2>3. LockInv'
    BY <1>3, <2>1, LockKept DEF OthersKept, proc
  <2>4. ServedInv => Served(j)' /\ Quiet(j)'
    BY <1>3, <2>1 DEF ServedInv, Served, Quiet
  <2>5. ServedInv => ServedInv'
    BY <1>3, <2>1, <2>4, ServedKept DEF proc
  <2> QED
    BY <2>2, <2>3, <2>5
<1>4. ASSUME NEW j \in Jobs, Steer(j, t)
      PROVE  BindInv' /\ LockInv' /\ (ServedInv => ServedInv')
  <2>1. phase[j] = "idle" /\ UNCHANGED <<ref, owner, minted, proc, session>>
    BY <1>4 DEF Steer
  <2>2. \/ phase' = [phase EXCEPT ![j] = "over"] /\ UNCHANGED <<kind, turnOf, future, asked>>
        \/ /\ Ask(j, "steer") /\ kind' = [kind EXCEPT ![j] = "steer"]
           /\ turnOf' = [turnOf EXCEPT ![j] = t]
    BY <1>4 DEF Steer
  <2>3. ASSUME Ask(j, "steer"), kind' = [kind EXCEPT ![j] = "steer"],
               turnOf' = [turnOf EXCEPT ![j] = t]
        PROVE  BindInv' /\ LockInv' /\ (ServedInv => ServedInv')
    <3>1. kind'[j] = "steer" /\ \A i \in Jobs \ {j} : kind'[i] = kind[i] /\ turnOf'[i] = turnOf[i]
      BY <1>1, <2>3
    <3> QED
      BY <2>1, <2>3, <3>1, AskKeepsThem DEF proc
  <2> QED
    BY <1>3, <2>1, <2>2, <2>3
<1>5. ASSUME NEW j \in Jobs, Resume(j, t)
      PROVE  BindInv' /\ LockInv' /\ (ServedInv => ServedInv')
  <2>1. phase[j] = "idle" /\ UNCHANGED <<ref, owner, minted>>
    BY <1>5 DEF Resume
  <2>2. CASE ref[t] = NoSession
    BY <1>3, <1>5, <2>1, <2>2 DEF Resume
  <2>3. CASE ref[t] # NoSession
    <3>1. /\ kind' = [kind EXCEPT ![j] = "resume"] /\ turnOf' = [turnOf EXCEPT ![j] = t]
          /\ Enter(j, t, "resume")
      BY <1>5, <2>3 DEF Resume
    <3>2. turnOf'[j] = t /\ \A i \in Jobs \ {j} : kind'[i] = kind[i] /\ turnOf'[i] = turnOf[i]
      BY <1>1, <3>1
    <3>3. Seen(j, t) \in Sessions
      BY <1>1, <2>1, <2>3 DEF Seen
    <3> QED
      BY <2>1, <3>1, <3>2, <3>3, EnterKeepsThem
  <2> QED
    BY <2>2, <2>3
<1>6. CASE Cancel(t) \/ StopLoop(t) \/ DeleteTurn(t) \/ CancelReturns(t)
  <2>1. UNCHANGED <<ref, owner, proc, dsh, work>>
    BY <1>6 DEF Cancel, StopLoop, DeleteTurn, CancelReturns, turns
  <2>2. BindInv' /\ LockInv'
    BY <2>1, BindKept, LockKept DEF Carries, proc, dsh, work
  <2>3. ServedInv => ServedInv'
    BY <2>1, QuietKeepsServed DEF proc, dsh, work, ServedInv
  <2> QED
    BY <2>2, <2>3
<1> QED
  BY <1>2, <1>4, <1>5, <1>6 DEF UserStep

(* The Turn of a session at work is known.                                 *)
LEMMA WorkingOwner ==
    ASSUME JobsInv, BindInv, NEW s \in Sessions, Working(s)
    PROVE  /\ owner[s] \in Turns
           /\ \E j \in Jobs : phase[j] = "prompt" /\ turnOf[j] = owner[s]
<1>1. PICK j \in asked : phase[j] = "prompt" /\ session[j] = s
  BY DEF Working
<1>2. j \in Jobs
  BY DEF JobsInv, TypeOK
<1>3. owner[s] = turnOf[j] /\ turnOf[j] \in Turns
  BY <1>1, <1>2 DEF BindInv, Carries, JobsInv, JobFacts, Open
<1> QED
  BY <1>1, <1>2, <1>3

LEMMA OtherStepKeepsThem ==
    ASSUME JobsInv, BindInv, LockInv,
           \/ \E p \in Permissions, s \in Sessions : PermissionAsked(p, s)
           \/ \E p \in Permissions : Respond(p) \/ ResponseWritten(p)
           \/ \E s \in Sessions : UpdateOfDeletedTurn(s)
           \/ ProcessDies \/ ExitIsKnown \/ ReaderSeesEnd
    PROVE  BindInv' /\ LockInv' /\ (AllKept /\ ServedInv => ServedInv')
<1> USE Constants
<1>1. JobTypes
  BY JobTypesHold DEF JobsInv
<1>2. ASSUME UNCHANGED <<ref, owner, dsh, work>>
      PROVE  BindInv' /\ (lock' = lock /\ process' = process => LockInv')
  BY <1>2, BindKept, LockKept DEF Carries, dsh, work
<1>3. ASSUME UNCHANGED <<dsh, work, process, reader>>
      PROVE  ServedInv => ServedInv'
  BY <1>3, QuietKeepsServed DEF dsh, work, ServedInv
<1>4. ASSUME NEW p \in Permissions, NEW s \in Sessions, PermissionAsked(p, s)
      PROVE  BindInv' /\ LockInv' /\ (AllKept /\ ServedInv => ServedInv')
  <2>1. UNCHANGED <<ref, owner, dsh, work, process, lock>>
    BY <1>4 DEF PermissionAsked
  <2>2. AllKept => UNCHANGED reader
    BY <1>4, WorkingOwner DEF PermissionAsked, AllKept
  <2> QED
    BY <1>2, <1>3, <2>1, <2>2
<1>5. ASSUME NEW s \in Sessions, UpdateOfDeletedTurn(s)
      PROVE  BindInv' /\ LockInv' /\ (AllKept /\ ServedInv => ServedInv')
  <2>1. UNCHANGED <<ref, owner, dsh, work, process, lock>>
    BY <1>5 DEF UpdateOfDeletedTurn, turns
  <2>2. ~AllKept
    BY <1>5, WorkingOwner DEF UpdateOfDeletedTurn, AllKept
  <2> QED
    BY <1>2, <2>1, <2>2
<1>6. ASSUME NEW p \in Permissions, Respond(p) \/ ResponseWritten(p)
      PROVE  BindInv' /\ LockInv' /\ (AllKept /\ ServedInv => ServedInv')
  <2>1. UNCHANGED <<ref, owner, dsh, work, proc>>
    BY <1>6 DEF Respond, ResponseWritten, turns
  <2> QED
    BY <1>2, <1>3, <2>1 DEF proc
<1>7. CASE ProcessDies
  <2>1. /\ process \in {"starting", "up"} /\ process' = "dead"
        /\ UNCHANGED <<turns, dsh, work, reader, lock>>
    BY <1>7 DEF ProcessDies
  <2>2. LockInv'
    BY <2>1 DEF LockInv, work
  <2>3. ServedInv => ServedInv'
    BY <2>1, QuietKeepsServed DEF dsh, work
  <2> QED
    BY <1>2, <2>1, <2>2, <2>3 DEF turns
<1>8. CASE ExitIsKnown
  <2>1. UNCHANGED <<turns, dsh, work, process, reader, lock>>
    BY <1>8 DEF ExitIsKnown
  <2> QED
    BY <1>2, <1>3, <2>1 DEF turns
<1>9. CASE ReaderSeesEnd
  <2>1. /\ process = "dead" /\ future' = Rejected(future)
        /\ UNCHANGED <<ref, owner, dsh, phase, kind, turnOf, session, process, lock>>
    BY <1>9 DEF ReaderSeesEnd
  <2>2. \A i \in Jobs : future'[i] \in {future[i], "lost"} /\ future'[i] # "waiting"
    BY <1>1, <2>1 DEF Rejected, JobTypes
  <2>3. BindInv' /\ LockInv'
    BY <2>1, <2>2, BindKept, LockKept DEF Carries, dsh
  <2>4. ServedInv => ServedInv'
    BY <2>1, <2>2, QuietKeepsServed DEF dsh
  <2> QED
    BY <2>3, <2>4
<1> QED
  BY <1>4, <1>5, <1>6, <1>7, <1>8, <1>9

(* What is deleted stays deleted.                                          *)
LEMMA DeletedForGood ==
    ASSUME JobsInv, [Next]_vars, AllKept'
    PROVE  AllKept
<1> SUFFICES ASSUME NEW t \in Turns, turn[t] = "deleted"
             PROVE  turn'[t] = "deleted"
  BY DEF AllKept
<1>1. turn \in [Turns -> Active \cup Settled \cup {"deleted"}]
  BY DEF JobsInv, TypeOK
<1>2. ASSUME NEW u, NEW s, Emit(u, s) \/ EmitIfActive(u, s) \/ UNCHANGED turn
      PROVE  turn'[t] = "deleted"
  BY <1>1, <1>2 DEF Emit, EmitIfActive, IsActive, Active
<1>3. ASSUME NEW j \in Jobs, JobStep(j)
      PROVE  turn'[t] = "deleted"
  BY <1>2, <1>3
  DEF JobStep, Answer, DrainFails, GetLock, Initialized, StartFails, StopReturns, SessionReady,
      SessionFails, PromptStarts, LoopStarts, PromptOver, LoopBreaks, LoopCompletes, LoopContinues,
      SteerOver, ResumeOver, turns
<1>4. ASSUME NEW u \in Turns, UserStep(u) \/ CancelReturns(u)
      PROVE  turn'[t] = "deleted"
  <2>1. CASE DeleteTurn(u)
    BY <1>1, <2>1 DEF DeleteTurn
  <2>2. CASE ~DeleteTurn(u)
    BY <1>2, <1>4, <2>2 DEF UserStep, Send, Steer, Resume, Cancel, StopLoop, CancelReturns, turns
  <2> QED
    BY <2>1, <2>2
<1>5. CASE ReaderSeesEnd
  BY <1>1, <1>5 DEF ReaderSeesEnd, IsActive, Active
<1>6. ASSUME \/ \E p \in Permissions, s \in Sessions : PermissionAsked(p, s)
             \/ \E p \in Permissions : Respond(p) \/ ResponseWritten(p)
             \/ \E s \in Sessions : UpdateOfDeletedTurn(s)
             \/ ProcessDies \/ ExitIsKnown \/ UNCHANGED vars
      PROVE  turn'[t] = "deleted"
  BY <1>2, <1>6 DEF PermissionAsked, Respond, ResponseWritten, UpdateOfDeletedTurn, ProcessDies,
                    ExitIsKnown, vars, turns
<1> QED
  BY <1>3, <1>4, <1>5, <1>6 DEF Next

-----------------------------------------------------------------------------
(* Turns that wait for their user.                                         *)

(* A Turn that is moved on no longer waits; no other comes to wait.        *)
LEMMA EmitMovesOn ==
    ASSUME JobsInv, NEW t \in Turns, NEW s \in {"running", "finished", "failed", "interrupted"},
           Emit(t, s) \/ EmitIfActive(t, s)
    PROVE  /\ turn'[t] # "waiting_user"
           /\ \A u \in Turns : turn'[u] = "waiting_user" => turn[u] = "waiting_user"
<1>1. turn \in [Turns -> Active \cup Settled \cup {"deleted"}]
  BY DEF JobsInv, TypeOK
<1> QED
  BY <1>1 DEF Emit, EmitIfActive, IsActive, Active

(* A step in which requests and owners stay.                               *)
LEMMA WaitKeptByJob ==
    ASSUME JobsInv, WaitInv, UNCHANGED userVars,
           \A s \in Sessions : owner[s] \in Turns => owner'[s] = owner[s],
           \A t \in Turns : turn'[t] = "waiting_user" => turn[t] = "waiting_user",
           \A j \in Jobs : phase[j] = "prompt" /\ turnOf[j] \in Turns =>
              \/ phase'[j] = "prompt" /\ turnOf'[j] = turnOf[j]
              \/ turn'[turnOf[j]] # "waiting_user"
    PROVE  WaitInv'
<1>1. ASSUME NEW t \in Turns, NEW p \in Permissions, Unanswered(p, t)
      PROVE  Unanswered(p, t)'
  <2>1. asker[p] \in Sessions
    BY <1>1 DEF Unanswered, JobsInv, TypeOK
  <2> QED
    BY <1>1, <2>1 DEF Unanswered, userVars
<1> QED
  BY <1>1, WaitKept

LEMMA JobStepKeepsWait ==
    ASSUME JobsInv, BindInv, WaitInv, NEW j \in Jobs, JobStep(j)
    PROVE  WaitInv'
<1> USE Constants
<1>1. /\ JobTypes /\ JobFacts(j)
      /\ turnOf \in [Jobs -> Turns \cup {NoTurn}] /\ owner \in [Sessions -> Turns \cup {NoTurn}]
      /\ ref \in [Turns -> Sessions \cup {NoSession}] /\ loaded \subseteq Sessions
  BY JobTypesHold DEF JobsInv, TypeOK
<1>q. ASSUME UNCHANGED <<turn, owner, turnOf, userVars>>,
             \A i \in Jobs : phase[i] = "prompt" => phase'[i] = "prompt"
      PROVE  WaitInv'
  BY <1>q, WaitKeptByJob
<1>f. ASSUME Finish(j), Open(j), UNCHANGED userVars,
             \A s \in Sessions : owner[s] \in Turns => owner'[s] = owner[s],
             \/ \E s \in {"finished", "failed", "interrupted"} :
                   Emit(turnOf[j], s) \/ EmitIfActive(turnOf[j], s)
             \/ UNCHANGED turn /\ (phase[j] # "prompt" \/ ~IsActive(turnOf[j]))
      PROVE  WaitInv'
  <2>1. turnOf[j] \in Turns
    BY <1>1, <1>f DEF JobFacts
  <2>2. /\ OthersKept(j)
        /\ \A i \in Jobs \ {j} : turnOf'[i] = turnOf[i]
    BY <1>1, <1>f, FinishStep
  <2>3. /\ \A t \in Turns : turn'[t] = "waiting_user" => turn[t] = "waiting_user"
        /\ phase[j] = "prompt" => turn'[turnOf[j]] # "waiting_user"
    BY <1>f, <2>1, EmitMovesOn DEF IsActive, Active
  <2> QED
    BY <1>f, <2>2, <2>3, WaitKeptByJob DEF OthersKept
<1>g. ASSUME OthersKept(j), phase[j] # "prompt", UNCHANGED <<turn, owner, turnOf, userVars>>
      PROVE  WaitInv'
  BY <1>g, <1>q DEF OthersKept
<1>2. CASE Answer(j) \/ DrainFails(j)
  BY <1>2, <1>q DEF Answer, DrainFails, turns
<1>3. CASE GetLock(j)
  <2>1. OthersKept(j)
    BY <1>1, <1>3, EnsureStep DEF GetLock, JobFacts, Open
  <2> QED
    BY <1>3, <1>g, <2>1 DEF GetLock, turns
<1>4. CASE Initialized(j)
  <2>1. OthersKept(j)
    BY <1>1, <1>4, GoOnStep DEF Initialized, JobFacts, Open
  <2> QED
    BY <1>4, <1>g, <2>1 DEF Initialized, turns
<1>5. CASE StartFails(j)
  <2>1. /\ phase[j] = "starting" /\ phase' = [phase EXCEPT ![j] = "stopping"]
        /\ UNCHANGED <<turns, turnOf, userVars>>
    BY <1>5 DEF StartFails
  <2>2. \A i \in Jobs : phase[i] = "prompt" => phase'[i] = "prompt"
    BY <1>1, <2>1 DEF JobTypes
  <2> QED
    BY <1>q, <2>1, <2>2 DEF turns
<1>6. CASE StopReturns(j)
  BY <1>6, <1>f DEF StopReturns, Open
<1>7. CASE SessionReady(j)
  <2>1. /\ phase[j] = "new" /\ future[j] = "ok" /\ UNCHANGED <<turn, userVars>>
        /\ owner' = [owner EXCEPT ![session[j]] = turnOf[j]]
    BY <1>7 DEF SessionReady
  <2>2. \A s \in Sessions : owner[s] \in Turns => owner'[s] = owner[s]
    <3>1. owner[session[j]] = NoTurn
      BY <2>1 DEF BindInv, Minted
    <3> QED
      BY <1>1, <2>1, <3>1
  <2>3. CASE Finish(j)
    BY <1>f, <2>1, <2>2, <2>3 DEF Open
  <2>4. CASE phase' = [phase EXCEPT ![j] = "ready"] /\ UNCHANGED turnOf
    <3>1. \A i \in Jobs : phase[i] = "prompt" => phase'[i] = "prompt"
      BY <1>1, <2>1, <2>4 DEF JobTypes
    <3> QED
      BY <2>1, <2>2, <2>4, <3>1, WaitKeptByJob
  <2> QED
    BY <1>7, <2>3, <2>4 DEF SessionReady
<1>8. CASE SessionFails(j)
  BY <1>8, <1>f DEF SessionFails, Open
<1>a. ASSUME Ask(j, "prompt"), UNCHANGED <<turns, turnOf, userVars>>
      PROVE  WaitInv'
  <2>1. \A i \in Jobs : phase[i] = "prompt" => phase'[i] = "prompt"
    BY <1>1, <1>a, AskStep DEF Phases
  <2> QED
    BY <1>a, <1>q, <2>1 DEF turns
<1>9. CASE PromptStarts(j)
  BY <1>9, <1>a DEF PromptStarts
<1>10. CASE LoopStarts(j)
  <2>1. phase[j] = "ready" /\ UNCHANGED <<turns, userVars>>
    BY <1>10 DEF LoopStarts
  <2>2. (Ask(j, "prompt") /\ UNCHANGED turnOf) \/ Finish(j)
    BY <1>10 DEF LoopStarts
  <2> QED
    BY <1>a, <1>f, <2>1, <2>2 DEF turns, Open
<1>11. CASE PromptOver(j)
  <2>1. \E s \in {"finished", "failed", "interrupted"} :
           Emit(turnOf[j], s) \/ EmitIfActive(turnOf[j], s)
    BY <1>11 DEF PromptOver
  <2> QED
    BY <1>11, <1>f, <2>1 DEF PromptOver, Open
<1>12. CASE LoopBreaks(j)
  <2>1. \/ \E s \in {"finished", "failed", "interrupted"} :
              Emit(turnOf[j], s) \/ EmitIfActive(turnOf[j], s)
        \/ UNCHANGED turn /\ ~IsActive(turnOf[j])
    BY <1>12 DEF LoopBreaks
  <2> QED
    BY <1>12, <1>f, <2>1 DEF LoopBreaks, LoopEnds, Open
<1>13. CASE LoopCompletes(j)
  BY <1>13, <1>f DEF LoopCompletes, LoopEnds, IterationDone, Open
<1>14. CASE LoopContinues(j)
  BY <1>14, <1>a DEF LoopContinues
<1>15. CASE SteerOver(j)
  BY <1>15, <1>f DEF SteerOver, Open
<1>16. CASE ResumeOver(j)
  <2>1. owner[session[j]] = turnOf[j] /\ session[j] \in Sessions
    BY <1>16 DEF ResumeOver, BindInv, Carries
  <2>2. owner' = owner
    BY <1>1, <1>16, <2>1 DEF ResumeOver
  <2> QED
    BY <1>16, <1>f, <2>2 DEF ResumeOver, Open
<1> QED
  BY <1>2, <1>3, <1>4, <1>5, <1>6, <1>7, <1>8, <1>9, <1>10, <1>11, <1>12, <1>13, <1>14, <1>15,
     <1>16 DEF JobStep

LEMMA UserStepKeepsWait ==
    ASSUME JobsInv, BindInv, WaitInv, NEW t \in Turns, UserStep(t) \/ CancelReturns(t)
    PROVE  WaitInv'
<1> USE Constants
<1>1. /\ JobTypes /\ turn \in [Turns -> Active \cup Settled \cup {"deleted"}]
      /\ turnOf \in [Jobs -> Turns \cup {NoTurn}]
      /\ ref \in [Turns -> Sessions \cup {NoSession}] /\ loaded \subseteq Sessions
      /\ asker \in [Permissions -> Sessions \cup {NoSession}]
  BY JobTypesHold DEF JobsInv, TypeOK
<1>2. ASSUME NEW j \in Jobs, phase[j] = "idle", UNCHANGED <<owner, userVars>>,
             \A i \in Jobs \ {j} : phase'[i] = phase[i] /\ turnOf'[i] = turnOf[i],
             \/ \E s \in {"running", "interrupted"} : Emit(t, s)
             \/ UNCHANGED turn
      PROVE  WaitInv'
  <2>1. \A u \in Turns : turn'[u] = "waiting_user" => turn[u] = "waiting_user"
    BY <1>2, EmitMovesOn
  <2>2. \A i \in Jobs : phase[i] = "prompt" => phase'[i] = "prompt" /\ turnOf'[i] = turnOf[i]
    BY <1>2
  <2> QED
    BY <1>2, <2>1, <2>2, WaitKeptByJob
<1>3. ASSUME NEW j \in Jobs, Send(j, t)
      PROVE  WaitInv'
  <2>1. phase[j] = "idle" /\ OthersKept(j)
    BY <1>1, <1>3, EnterStep DEF Send
  <2>2. /\ \A i \in Jobs \ {j} : turnOf'[i] = turnOf[i]
        /\ Emit(t, "running") /\ UNCHANGED <<owner, userVars>>
    BY <1>1, <1>3 DEF Send
  <2> QED
    BY <1>2, <2>1, <2>2 DEF OthersKept
<1>4. ASSUME NEW j \in Jobs, Steer(j, t)
      PROVE  WaitInv'
  <2>1. \A i \in Jobs \ {j} : phase'[i] = phase[i]
    BY <1>1, <1>4, AskStep DEF Steer, Phases, JobTypes
  <2>2. /\ \A i \in Jobs \ {j} : turnOf'[i] = turnOf[i]
        /\ phase[j] = "idle" /\ UNCHANGED <<owner, userVars>>
    BY <1>1, <1>4 DEF Steer
  <2>3. Emit(t, "interrupted") \/ UNCHANGED turn
    BY <1>4 DEF Steer
  <2> QED
    BY <1>2, <2>1, <2>2, <2>3
<1>5. ASSUME NEW j \in Jobs, Resume(j, t)
      PROVE  WaitInv'
  <2>1. \A i \in Jobs \ {j} : phase'[i] = phase[i]
    BY <1>1, <1>5, EnterStep DEF Resume, OthersKept, JobTypes
  <2>2. /\ \A i \in Jobs \ {j} : turnOf'[i] = turnOf[i]
        /\ phase[j] = "idle" /\ UNCHANGED <<owner, userVars>>
    BY <1>1, <1>5 DEF Resume
  <2>3. Emit(t, "interrupted") \/ Emit(t, "running")
    BY <1>5 DEF Resume
  <2> QED
    BY <1>2, <2>1, <2>2, <2>3
<1>6. CASE Cancel(t)
  <2>1. UNCHANGED <<ref, owner, phase, turnOf, asker>>
    BY <1>6 DEF Cancel, work
  <2>2. \/ EmitIfActive(t, "interrupted")
        \/ UNCHANGED <<turn, permission>>
    BY <1>6 DEF Cancel
  <2>3. \/ UNCHANGED permission
        \/ permission' = [p \in Permissions |-> IF permission[p] = "pending" /\ asker[p] = ref[t]
                                               THEN "cancelled" ELSE permission[p]]
           /\ ref[t] # NoSession
    BY <1>6 DEF Cancel
  <2>4. ref[t] # NoSession => owner[ref[t]] = t
    BY DEF BindInv
  <2>5. /\ \A u \in Turns : turn'[u] = "waiting_user" => turn[u] = "waiting_user"
        /\ turn'[t] = "waiting_user" => UNCHANGED permission
    BY <2>2, EmitMovesOn
  <2>6. ASSUME NEW u \in Turns, NEW p \in Permissions, Unanswered(p, u), turn'[u] = "waiting_user"
        PROVE  Unanswered(p, u)'
    <3>1. CASE UNCHANGED permission
      BY <2>1, <2>6, <3>1 DEF Unanswered
    <3>2. CASE permission' # permission
      <4>1. u # t
        BY <2>5, <2>6, <3>2
      <4>2. asker[p] # ref[t]
        BY <2>3, <2>4, <2>6, <3>2, <4>1 DEF Unanswered
      <4>3. permission'[p] = permission[p]
        BY <2>3, <4>2
      <4> QED
        BY <2>1, <2>6, <4>3 DEF Unanswered
    <3> QED
      BY <3>1, <3>2
  <2> QED
    BY <2>1, <2>5, <2>6, WaitKept
<1>7. CASE StopLoop(t) \/ CancelReturns(t)
  <2>1. UNCHANGED <<owner, phase, turnOf, permission, asker>>
    BY <1>7 DEF StopLoop, CancelReturns, turns, work, userVars
  <2>2. \A u \in Turns : turn'[u] = "waiting_user" => turn[u] = "waiting_user"
    <3>1. UNCHANGED turn \/ EmitIfActive(t, "interrupted")
      BY <1>7 DEF StopLoop, CancelReturns, turns
    <3> QED
      BY <3>1, EmitMovesOn
  <2> QED
    BY <2>1, <2>2, WaitKept DEF Unanswered
<1>8. CASE DeleteTurn(t)
  <2>1. UNCHANGED <<owner, phase, turnOf, userVars>> /\ turn' = [turn EXCEPT ![t] = "deleted"]
    BY <1>8 DEF DeleteTurn, work
  <2>2. \A u \in Turns : turn'[u] = "waiting_user" => turn[u] = "waiting_user"
    BY <1>1, <2>1
  <2> QED
    BY <2>1, <2>2, WaitKeptByJob
<1> QED
  BY <1>3, <1>4, <1>5, <1>6, <1>7, <1>8 DEF UserStep

LEMMA OtherStepKeepsWait ==
    ASSUME JobsInv, BindInv, WaitInv,
           \/ \E p \in Permissions, s \in Sessions : PermissionAsked(p, s)
           \/ \E p \in Permissions : Respond(p) \/ ResponseWritten(p)
           \/ \E s \in Sessions : UpdateOfDeletedTurn(s)
           \/ ProcessDies \/ ExitIsKnown \/ ReaderSeesEnd
    PROVE  WaitInv'
<1> USE Constants
<1>1. /\ turn \in [Turns -> Active \cup Settled \cup {"deleted"}]
      /\ permission \in [Permissions -> {"none", "pending", "resolved", "cancelled", "failed"}]
      /\ asker \in [Permissions -> Sessions \cup {NoSession}]
  BY DEF JobsInv, TypeOK
<1>2. ASSUME NEW p \in Permissions, NEW s \in Sessions, PermissionAsked(p, s)
      PROVE  WaitInv'
  <2>1. /\ owner[s] \in Turns /\ permission[p] = "none"
        /\ permission' = [permission EXCEPT ![p] = "pending"] /\ asker' = [asker EXCEPT ![p] = s]
        /\ Emit(owner[s], "waiting_user") /\ UNCHANGED <<owner, phase, turnOf>>
    BY <1>2, WorkingOwner DEF PermissionAsked, work
  <2>2. \E j \in Jobs : phase[j] = "prompt" /\ turnOf[j] = owner[s]
    BY <1>2, WorkingOwner DEF PermissionAsked
  <2>3. Unanswered(p, owner[s])'
    BY <1>1, <2>1 DEF Unanswered
  <2>4. ASSUME NEW u \in Turns, NEW q \in Permissions, Unanswered(q, u)
        PROVE  Unanswered(q, u)'
    BY <1>1, <2>1, <2>4 DEF Unanswered
  <2>5. ASSUME NEW u \in Turns \ {owner[s]}, turn'[u] = "waiting_user"
        PROVE  turn[u] = "waiting_user"
    BY <1>1, <2>1, <2>5 DEF Emit
  <2> SUFFICES ASSUME NEW u \in Turns, turn'[u] = "waiting_user"
               PROVE  /\ \E j \in Jobs : phase'[j] = "prompt" /\ turnOf'[j] = u
                      /\ \E q \in Permissions : Unanswered(q, u)'
    BY DEF WaitInv
  <2>6. CASE u = owner[s]
    BY <2>1, <2>2, <2>3, <2>6
  <2>7. CASE u # owner[s]
    BY <2>1, <2>4, <2>5, <2>7 DEF WaitInv
  <2> QED
    BY <2>6, <2>7
<1>3. ASSUME NEW p \in Permissions, Respond(p)
      PROVE  WaitInv'
  <2>1. /\ permission' \in {permission, [permission EXCEPT ![p] = "failed"]}
        /\ UNCHANGED <<turn, owner, phase, turnOf, asker>>
    BY <1>3 DEF Respond, turns, work
  <2>2. \A u \in Turns, q \in Permissions : Unanswered(q, u) => Unanswered(q, u)'
    BY <1>1, <2>1 DEF Unanswered
  <2> QED
    BY <2>1, <2>2, WaitKept
<1>4. ASSUME NEW p \in Permissions, ResponseWritten(p)
      PROVE  WaitInv'
  <2>1. /\ UNCHANGED <<owner, phase, turnOf, asker>>
        /\ \/ permission' = [permission EXCEPT ![p] = "resolved"] /\ Emit(owner[asker[p]], "running")
           \/ UNCHANGED <<permission, turn>>
    BY <1>4 DEF ResponseWritten, work
  <2>2. \A u \in Turns : turn'[u] = "waiting_user" => turn[u] = "waiting_user"
    BY <1>1, <2>1 DEF Emit
  <2>3. ASSUME NEW u \in Turns, NEW q \in Permissions, Unanswered(q, u)
        PROVE  Unanswered(q, u)' \/ turn'[u] # "waiting_user"
    <3>1. CASE permission'[q] = permission[q]
      BY <2>1, <2>3, <3>1 DEF Unanswered
    <3>2. CASE permission'[q] # permission[q]
      <4>1. q = p /\ Emit(u, "running")
        BY <1>1, <2>1, <2>3, <3>2 DEF Unanswered
      <4> QED
        BY <4>1, EmitMovesOn
    <3> QED
      BY <3>1, <3>2
  <2> QED
    BY <2>1, <2>2, <2>3, WaitKept
<1>5. CASE ReaderSeesEnd
  <2>1. /\ turn' = [t \in Turns |-> IF IsActive(t) /\ \E s \in Sessions : owner[s] = t
                                    THEN "interrupted" ELSE turn[t]]
    BY <1>5 DEF ReaderSeesEnd
  <2>2. ASSUME NEW t \in Turns, turn[t] = "waiting_user"
        PROVE  turn'[t] # "waiting_user"
    <3>1. PICK p \in Permissions : Unanswered(p, t)
      BY <2>2 DEF WaitInv
    <3>2. asker[p] \in Sessions /\ owner[asker[p]] = t
      BY <1>1, <3>1 DEF Unanswered
    <3> QED
      BY <2>1, <2>2, <3>2 DEF IsActive, Active
  <2>3. \A t \in Turns : turn'[t] # "waiting_user"
    BY <2>1, <2>2
  <2> QED
    BY <2>3 DEF WaitInv
<1>6. CASE (\E s \in Sessions : UpdateOfDeletedTurn(s)) \/ ProcessDies \/ ExitIsKnown
  <2>1. UNCHANGED <<turn, owner, phase, turnOf, permission, asker>>
    BY <1>6 DEF UpdateOfDeletedTurn, ProcessDies, ExitIsKnown, turns, work, userVars
  <2> QED
    BY <2>1, WaitKept DEF Unanswered
<1> QED
  BY <1>2, <1>3, <1>4, <1>5, <1>6

-----------------------------------------------------------------------------
LEMMA KanaloaConsistent == Spec => []KanaloaInv
<1>1. Init => KanaloaInv
  <2> SUFFICES ASSUME Init PROVE KanaloaInv
    OBVIOUS
  <2> USE Constants
  <2>1. BindInv
    BY DEF Init, BindInv, Carries, Minted
  <2>2. LockInv
    BY DEF Init, LockInv
  <2>3. ServedInv
    BY DEF Init, ServedInv, Served, Quiet
  <2>4. WaitInv
    BY DEF Init, WaitInv
  <2> QED
    BY <2>1, <2>2, <2>3, <2>4, JobsConsistent DEF KanaloaInv
<1>2. KanaloaInv /\ [Next]_vars => KanaloaInv'
  <2> SUFFICES ASSUME KanaloaInv, [Next]_vars PROVE KanaloaInv'
    OBVIOUS
  <2>1. JobsInv /\ BindInv /\ LockInv /\ WaitInv /\ (AllKept => ServedInv)
    BY DEF KanaloaInv
  <2>2. JobsInv'
    BY <2>1, JobsConsistent
  <2>3. AllKept' => AllKept /\ ServedInv
    BY <2>1, DeletedForGood
  <2>4. BindInv' /\ LockInv' /\ (AllKept /\ ServedInv => ServedInv') /\ WaitInv'
    <3>1. CASE UNCHANGED vars
      BY <2>1, <3>1 DEF BindInv, LockInv, ServedInv, WaitInv, Carries, Minted,
                        Served, Quiet, Unanswered, vars, turns, proc, dsh, work,
                        userVars
    <3>2. CASE \E j \in Jobs : JobStep(j)
      BY <2>1, <3>2, JobStepKeepsThem, JobStepKeepsWait
    <3>3. CASE \E t \in Turns : UserStep(t) \/ CancelReturns(t)
      BY <2>1, <3>3, UserStepKeepsThem, UserStepKeepsWait
    <3>4. CASE \/ \E p \in Permissions, s \in Sessions : PermissionAsked(p, s)
               \/ \E p \in Permissions : Respond(p) \/ ResponseWritten(p)
               \/ \E s \in Sessions : UpdateOfDeletedTurn(s)
               \/ ProcessDies \/ ExitIsKnown \/ ReaderSeesEnd
      BY <2>1, <3>4, OtherStepKeepsThem, OtherStepKeepsWait
    <3> QED
      BY <3>1, <3>2, <3>3, <3>4 DEF Next
  <2> QED
    BY <2>2, <2>3, <2>4 DEF KanaloaInv
<1> QED
  BY <1>1, <1>2, PTL DEF Spec

(* kanaloa_adapter.py, _ensure_process, _send_request, _handle_disconnect: *)
(* a job waits for the lock only behind one that starts or stops the       *)
(* subprocess, and for an answer only where a reader will deliver it or    *)
(* its rejection, unless a Turn was deleted or the request is a steer.     *)
THEOREM SomebodyAnswers == Spec => []NobodyWaitsForNothing
<1>1. KanaloaInv => NobodyWaitsForNothing
  <2> SUFFICES ASSUME KanaloaInv, NEW j \in Jobs
               PROVE  /\ lock = NoJob \/ phase[lock] \in {"starting", "stopping"}
                      /\ Hung(j) => kind[j] = "steer" \/ \E t \in Turns : turn[t] = "deleted"
    BY DEF NobodyWaitsForNothing
  <2>1. lock = NoJob \/ phase[lock] \in {"starting", "stopping"}
    BY DEF KanaloaInv, LockInv, JobsInv, TypeOK
  <2>2. ASSUME Hung(j), AllKept
        PROVE  kind[j] = "steer"
    BY <2>2 DEF KanaloaInv, ServedInv, Served, Hung
  <2> QED
    BY <2>1, <2>2 DEF AllKept
<1> QED
  BY <1>1, KanaloaConsistent, PTL

(* A Turn that waits for the user has a request of one of its sessions     *)
(* open, or an answer was lost and a prompt of it is still to be rejected: *)
(* what withdraws the last request moves the Turn on in the same step.     *)
THEOREM WaitingHasARequest == Spec => []WaitingTurnHasItsRequest
<1>1. KanaloaInv => WaitingTurnHasItsRequest
  <2> SUFFICES ASSUME KanaloaInv, NEW t \in Turns, turn[t] = "waiting_user"
               PROVE  \E p \in Permissions :
                        /\ asker[p] # NoSession /\ owner[asker[p]] = t
                        /\ \/ permission[p] = "pending"
                           \/ permission[p] = "failed" /\ \E j \in Jobs : Open(j) /\ turnOf[j] = t
    BY DEF WaitingTurnHasItsRequest
  <2>1. PICK p \in Permissions : Unanswered(p, t)
    BY DEF KanaloaInv, WaitInv
  <2>2. \E j \in Jobs : Open(j) /\ turnOf[j] = t
    BY DEF KanaloaInv, WaitInv, Open
  <2> QED
    BY <2>1, <2>2 DEF Unanswered
<1> QED
  BY <1>1, KanaloaConsistent, PTL
=============================================================================
