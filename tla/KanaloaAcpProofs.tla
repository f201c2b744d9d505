--------------------------- MODULE KanaloaAcpProofs ---------------------------
(***************************************************************************)
(* Proofs about KanaloaAcp for any sets of Turns, jobs and permissions and *)
(* any numbers of sessions, deaths, deletions and iterations.              *)
(***************************************************************************)
EXTENDS KanaloaAcp, TLAPS

Phases  == {"idle", "queued", "starting", "stopping", "new", "ready", "prompt", "steer",
            "resume", "over"}
Futures == Outcomes \cup {"none", "waiting", "unsent", "ok", "error", "lost"}

(* What the phase of a job says about its Turn and its session.            *)
JobFacts(j) ==
    /\ Open(j) => turnOf[j] \in Turns
    /\ phase[j] = "new" /\ future[j] = "ok" => session[j] \in Sessions
    /\ phase[j] = "resume" => session[j] \in Sessions
    /\ phase[j] \in {"queued", "starting"} /\ kind[j] = "resume" => session[j] \in Sessions

JobsInv == TypeOK /\ \A j \in Jobs : JobFacts(j)

(* A registered loop is at a prompt of its Turn, and a loop that was       *)
(* stopped still carries the flag and is at the prompt it was stopped at.  *)
InLoop(j) == phase[j] = "prompt" /\ kind[j] = "loop"

LoopInv ==
    /\ \A t \in Turns : loops[t] # NoJob => InLoop(loops[t]) /\ turnOf[loops[t]] = t
    /\ \A j \in Jobs : stopMark[j] # NoMark =>
          InLoop(j) /\ "stopped" \in flags[j] /\ prompts[j] <= stopMark[j]

AcpInv == JobsInv /\ LoopInv

-----------------------------------------------------------------------------
LEMMA Constants ==
    /\ LoopLimit \in Nat /\ LoopLimit >= 1 /\ NoMark \in Nat
    /\ MaxSessions \in Nat /\ MaxDeaths \in Nat /\ MaxDeletes \in Nat
    /\ NoJob \notin Jobs /\ NoTurn \notin Turns
    /\ Sessions \subseteq Nat /\ NoSession \notin Sessions
BY KanaloaAssumption DEF NoMark, Sessions, NoSession

(* The parts of a state that jobs are about.                               *)
JobTypes ==
    /\ phase \in [Jobs -> Phases] /\ future \in [Jobs -> Futures]
    /\ turnOf \in [Jobs -> Turns \cup {NoTurn}]
    /\ session \in [Jobs -> Sessions \cup {NoSession}]
    /\ asked \subseteq Jobs

LEMMA JobTypesHold == ASSUME TypeOK PROVE JobTypes
BY DEF TypeOK, JobTypes, Phases, Futures

(* A step of job j: of the others it can only reject the request.          *)
OthersKept(j) ==
    \A i \in Jobs \ {j} : /\ phase'[i] = phase[i] /\ session'[i] = session[i]
                          /\ future'[i] \in {future[i], "lost"}

LEMMA AskStep ==
    ASSUME JobTypes, NEW j \in Jobs, NEW to \in Phases, Ask(j, to)
    PROVE  /\ phase' \in [Jobs -> Phases] /\ phase'[j] = to
           /\ future' \in [Jobs -> Futures] /\ future'[j] # "ok"
           /\ asked' \subseteq Jobs
           /\ \A i \in Jobs \ {j} : phase'[i] = phase[i] /\ future'[i] = future[i]
<1>1. \E f \in {"lost", "unsent", "waiting"} : future' = [future EXCEPT ![j] = f]
  BY DEF Ask
<1>2. asked' \subseteq Jobs
  BY DEF Ask, JobTypes
<1> QED
  BY <1>1, <1>2 DEF Ask, JobTypes, Futures

LEMMA FinishStep ==
    ASSUME JobTypes, NEW j \in Jobs, Finish(j)
    PROVE  /\ phase' \in [Jobs -> Phases] /\ phase'[j] = "over"
           /\ future' \in [Jobs -> Futures] /\ turnOf' \in [Jobs -> Turns \cup {NoTurn}]
           /\ session' \in [Jobs -> Sessions \cup {NoSession}]
           /\ asked' \subseteq Jobs
           /\ OthersKept(j)
           /\ \A i \in Jobs \ {j} : turnOf'[i] = turnOf[i]
BY DEF Finish, JobTypes, Phases, Futures, OthersKept

LEMMA SeenIsASession ==
    ASSUME JobTypes, ref \in [Turns -> Sessions \cup {NoSession}],
           NEW j \in Jobs, NEW t \in Turns
    PROVE  Seen(j, t) \in Sessions \cup {NoSession}
BY DEF JobTypes, Seen

LEMMA GoOnStep ==
    ASSUME JobTypes, ref \in [Turns -> Sessions \cup {NoSession}],
           NEW j \in Jobs, NEW t \in Turns, NEW k, GoOn(j, t, k)
    PROVE  /\ phase' \in [Jobs -> Phases] /\ future' \in [Jobs -> Futures]
           /\ session' \in [Jobs -> Sessions \cup {NoSession}]
           /\ asked' \subseteq Jobs
           /\ OthersKept(j)
           /\ phase'[j] \in {"resume", "ready", "new"}
           /\ phase'[j] = "resume" => k = "resume" /\ (Seen(j, t) # NoSession => session'[j] = Seen(j, t))
           /\ phase'[j] = "new" => future'[j] # "ok"
<1> DEFINE s == IF Seen(j, t) = NoSession THEN ref[t] ELSE Seen(j, t)
<1>0. {"resume", "ready", "new"} \subseteq Phases
  BY DEF Phases
<1>s. s \in Sessions \cup {NoSession} /\ (Seen(j, t) # NoSession => s = Seen(j, t))
  BY SeenIsASession
<1>1. CASE k = "resume"
  <2>1. Ask(j, "resume") /\ session' = [session EXCEPT ![j] = s]
    BY <1>1 DEF GoOn
  <2> QED
    BY <1>0, <1>1, <1>s, <2>1, AskStep DEF JobTypes, OthersKept
<1>2. CASE k # "resume" /\ s \in active
  <2>1. /\ phase' = [phase EXCEPT ![j] = "ready"]
        /\ session' = [session EXCEPT ![j] = s]
        /\ UNCHANGED <<future, asked>>
    BY <1>2 DEF GoOn
  <2> QED
    BY <1>0, <1>s, <2>1 DEF JobTypes, OthersKept
<1>3. CASE k # "resume" /\ s \notin active
  <2>1. Ask(j, "new") /\ session' = [session EXCEPT ![j] = NoSession]
    BY <1>3 DEF GoOn
  <2> QED
    BY <1>0, <2>1, AskStep DEF JobTypes, OthersKept
<1> QED
  BY <1>1, <1>2, <1>3

LEMMA EnsureStep ==
    ASSUME JobTypes, ref \in [Turns -> Sessions \cup {NoSession}], loaded \subseteq Sessions,
           NEW j \in Jobs, NEW t \in Turns, NEW k, EnsureProcess(j, t, k)
    PROVE  /\ phase' \in [Jobs -> Phases] /\ future' \in [Jobs -> Futures]
           /\ session' \in [Jobs -> Sessions \cup {NoSession}]
           /\ asked' \subseteq Jobs /\ loaded' \subseteq Sessions
           /\ process' \in {process, "starting"} /\ reader' \in {reader, "reading"}
           /\ exitKnown' \in {exitKnown, FALSE} /\ initialized' \in {initialized, FALSE}
           /\ lock' \in {lock, j}
           /\ OthersKept(j)
           /\ phase'[j] \in {"resume", "ready", "new", "starting"}
           /\ phase'[j] = "resume" => k = "resume" /\ (Seen(j, t) # NoSession => session'[j] = Seen(j, t))
           /\ phase'[j] = "starting" => session'[j] = Seen(j, t)
           /\ phase'[j] = "new" => future'[j] # "ok"
<1>1. CASE Alive /\ initialized
  <2>1. GoOn(j, t, k) /\ UNCHANGED <<proc, loaded>>
    BY <1>1 DEF EnsureProcess
  <2> QED
    BY <2>1, GoOnStep DEF proc
<1>2. CASE ~(Alive /\ initialized)
  <2> DEFINE f == IF process = "none" THEN future ELSE Rejected(future)
  <2>1. /\ process' = "starting" /\ exitKnown' = FALSE /\ initialized' = FALSE
        /\ reader' = "reading" /\ lock' = j /\ loaded' = {} /\ asked' = {j}
        /\ phase' = [phase EXCEPT ![j] = "starting"]
        /\ future' = [f EXCEPT ![j] = "waiting"]
        /\ session' = [session EXCEPT ![j] = Seen(j, t)]
    BY <1>2 DEF EnsureProcess
  <2>2. f \in [Jobs -> Futures] /\ \A i \in Jobs : f[i] \in {future[i], "lost"}
    BY DEF JobTypes, Rejected, Futures
  <2> HIDE DEF f
  <2> QED
    BY <2>1, <2>2, SeenIsASession DEF JobTypes, Phases, Futures, OthersKept
<1> QED
  BY <1>1, <1>2

LEMMA EnterStep ==
    ASSUME JobTypes, ref \in [Turns -> Sessions \cup {NoSession}], loaded \subseteq Sessions,
           NEW j \in Jobs, NEW t \in Turns, NEW k, Enter(j, t, k)
    PROVE  /\ phase' \in [Jobs -> Phases] /\ future' \in [Jobs -> Futures]
           /\ session' \in [Jobs -> Sessions \cup {NoSession}]
           /\ asked' \subseteq Jobs /\ loaded' \subseteq Sessions
           /\ process' \in {process, "starting"} /\ reader' \in {reader, "reading"}
           /\ exitKnown' \in {exitKnown, FALSE} /\ initialized' \in {initialized, FALSE}
           /\ lock' \in {lock, j}
           /\ OthersKept(j)
           /\ phase'[j] \in {"resume", "ready", "new", "starting", "queued"}
           /\ phase'[j] = "resume" => k = "resume" /\ (Seen(j, t) # NoSession => session'[j] = Seen(j, t))
           /\ phase'[j] \in {"queued", "starting"} => session'[j] = Seen(j, t)
           /\ phase'[j] = "new" => future'[j] # "ok"
<1>1. CASE lock = NoJob
  BY <1>1, EnsureStep DEF Enter
<1>2. CASE lock # NoJob
  <2>1. /\ phase' = [phase EXCEPT ![j] = "queued"]
        /\ session' = [session EXCEPT ![j] = Seen(j, t)]
        /\ UNCHANGED <<proc, loaded, asked, future>>
    BY <1>2 DEF Enter
  <2> QED
    BY <2>1, SeenIsASession DEF JobTypes, Phases, OthersKept, proc
<1> QED
  BY <1>1, <1>2

-----------------------------------------------------------------------------
(* Types and facts of the jobs, action by action.                          *)

(* A step of job j keeps the facts of the others.                          *)
LEMMA OthersFacts ==
    ASSUME JobsInv, NEW j \in Jobs, OthersKept(j),
           \A i \in Jobs \ {j} : turnOf'[i] = turnOf[i] /\ kind'[i] = kind[i],
           JobFacts(j)'
    PROVE  \A i \in Jobs : JobFacts(i)'
<1>1. ASSUME NEW i \in Jobs \ {j} PROVE JobFacts(i)'
  <2>1. JobFacts(i)
    BY DEF JobsInv
  <2>2. /\ phase'[i] = phase[i] /\ session'[i] = session[i] /\ turnOf'[i] = turnOf[i]
        /\ kind'[i] = kind[i] /\ future'[i] \in {future[i], "lost"}
    BY DEF OthersKept
  <2> QED
    BY <2>1, <2>2 DEF JobFacts, Open
<1> QED
  BY <1>1

LEMMA EmitStep ==
    ASSUME TypeOK, NEW t, NEW s \in Active \cup Settled, Emit(t, s) \/ EmitIfActive(t, s)
    PROVE  turn' \in [Turns -> Active \cup Settled \cup {"deleted"}]
BY DEF TypeOK, Emit, EmitIfActive

LEMMA AnswerStep ==
    ASSUME JobsInv, NEW j \in Jobs, Answer(j)
    PROVE  JobsInv'
<1> USE Constants
<1>1. JobTypes /\ TypeOK /\ JobFacts(j)
  BY JobTypesHold DEF JobsInv
<1>2. PICK a \in Answers(j) :
         /\ (phase[j] = "new" /\ a = "ok") => minted < MaxSessions
         /\ future' = [future EXCEPT ![j] = a]
         /\ IF a = "ok" /\ phase[j] = "new"
            THEN /\ minted' = minted + 1
                 /\ session' = [session EXCEPT ![j] = minted']
                 /\ loaded' = loaded \cup {minted'}
            ELSE /\ loaded' = IF a = "ok" /\ phase[j] = "resume"
                              THEN loaded \cup {session[j]} ELSE loaded
                 /\ UNCHANGED <<minted, session>>
  BY DEF Answer
<1>3. UNCHANGED <<turns, proc, asked, phase, kind, turnOf, prompts, loopVars, userVars, history>>
  BY DEF Answer
<1>4. a \in Futures
  BY DEF Answers, Futures
<1>l. loaded \subseteq Sessions
  BY <1>1 DEF TypeOK
<1>5. future' \in [Jobs -> Futures] /\ future'[j] = a
  BY <1>1, <1>2, <1>4 DEF JobTypes
<1>6. CASE a = "ok" /\ phase[j] = "new"
  <2>1. minted' \in Sessions /\ minted' \in 0..MaxSessions
    BY <1>1, <1>2, <1>6 DEF TypeOK, Sessions
  <2>2. session' \in [Jobs -> Sessions \cup {NoSession}] /\ session'[j] \in Sessions
    BY <1>1, <1>2, <1>6, <2>1 DEF JobTypes
  <2>3. loaded' \subseteq Sessions
    BY <1>2, <1>6, <1>l, <2>1
  <2>4. TypeOK'
    BY <1>1, <1>3, <1>5, <2>1, <2>2, <2>3
    DEF TypeOK, Futures, turns, proc, loopVars, userVars, history
  <2>5. OthersKept(j)
    BY <1>1, <1>2, <1>3, <1>6 DEF OthersKept, JobTypes
  <2>6. JobFacts(j)'
    BY <1>1, <1>3, <1>6, <2>2 DEF JobFacts, Open
  <2> QED
    BY <1>3, <2>4, <2>5, <2>6, OthersFacts DEF JobsInv, turns
<1>7. CASE ~(a = "ok" /\ phase[j] = "new")
  <2>1. UNCHANGED <<minted, session>> /\ loaded' \subseteq Sessions
    <3>1. phase[j] = "resume" => session[j] \in Sessions
      BY <1>1 DEF JobFacts
    <3> QED
      BY <1>2, <1>7, <1>l, <3>1
  <2>2. TypeOK'
    BY <1>1, <1>3, <1>5, <2>1 DEF TypeOK, Futures, turns, proc, loopVars, userVars, history
  <2>3. OthersKept(j)
    BY <1>1, <1>2, <1>3, <2>1 DEF OthersKept, JobTypes
  <2>4. JobFacts(j)'
    BY <1>1, <1>3, <1>5, <1>7, <2>1 DEF JobFacts, Open, turns
  <2> QED
    BY <1>3, <2>2, <2>3, <2>4, OthersFacts DEF JobsInv, turns
<1> QED
  BY <1>6, <1>7

(* Steps to the next phase through the lock.                               *)
LEMMA EnterKeepsJobs ==
    ASSUME JobsInv, NEW j \in Jobs, NEW t \in Turns, NEW k \in Kinds[j] \cup {"none"},
           Enter(j, t, k) \/ EnsureProcess(j, t, k),
           k = "resume" => Seen(j, t) \in Sessions,
           kind' \in [Jobs -> {"none", "send", "loop", "steer", "resume"}], kind'[j] = k,
           \A i \in Jobs \ {j} : kind'[i] = kind[i] /\ turnOf'[i] = turnOf[i],
           turnOf' \in [Jobs -> Turns \cup {NoTurn}], turnOf'[j] = t,
           turn' \in [Turns -> Active \cup Settled \cup {"deleted"}],
           UNCHANGED <<ref, owner, active, minted, prompts, loopVars, userVars, history>>
    PROVE  JobsInv'
<1> USE Constants
<1>1. JobTypes /\ TypeOK /\ ref \in [Turns -> Sessions \cup {NoSession}] /\ loaded \subseteq Sessions
  BY JobTypesHold DEF JobsInv, TypeOK
<1>2. /\ phase' \in [Jobs -> Phases] /\ future' \in [Jobs -> Futures]
      /\ session' \in [Jobs -> Sessions \cup {NoSession}]
      /\ asked' \subseteq Jobs /\ loaded' \subseteq Sessions
      /\ process' \in {process, "starting"} /\ reader' \in {reader, "reading"}
      /\ exitKnown' \in {exitKnown, FALSE} /\ initialized' \in {initialized, FALSE}
      /\ lock' \in {lock, j}
      /\ OthersKept(j)
      /\ phase'[j] \in {"resume", "ready", "new", "starting", "queued"}
      /\ phase'[j] = "resume" => k = "resume" /\ (Seen(j, t) # NoSession => session'[j] = Seen(j, t))
      /\ phase'[j] \in {"queued", "starting"} => session'[j] = Seen(j, t)
      /\ phase'[j] = "new" => future'[j] # "ok"
  BY <1>1, EnterStep, EnsureStep
<1>3. \A i \in Jobs : kind'[i] \in Kinds[i] \cup {"none"}
  BY <1>1 DEF TypeOK
<1>4. TypeOK'
  <2>1. /\ process' \in {"none", "starting", "up", "stopping", "dead"}
        /\ exitKnown' \in BOOLEAN /\ initialized' \in BOOLEAN
        /\ reader' \in {"none", "reading", "ended"}
        /\ lock' \in Jobs \cup {NoJob}
    <3>1. /\ process \in {"none", "starting", "up", "stopping", "dead"}
          /\ exitKnown \in BOOLEAN /\ initialized \in BOOLEAN
          /\ reader \in {"none", "reading", "ended"}
          /\ lock \in Jobs \cup {NoJob}
      BY <1>1 DEF TypeOK
    <3>2. /\ process' \in {process, "starting"} /\ reader' \in {reader, "reading"}
          /\ exitKnown' \in {exitKnown, FALSE} /\ initialized' \in {initialized, FALSE}
          /\ lock' \in {lock, j}
      BY <1>2
    <3> QED
      BY <3>1, <3>2, Zenon
  <2>2. /\ UNCHANGED <<ref, owner, active, minted, prompts, loops, flags, permission, asker,
                       answering, cancelling, stopMark, deaths, deletes>>
    BY DEF loopVars, userVars, history
  <2> QED
    BY <1>1, <1>2, <1>3, <2>1, <2>2 DEF TypeOK, Phases, Futures
<1>5. JobFacts(j)'
  BY <1>2 DEF JobFacts, Open
<1> QED
  BY <1>2, <1>4, <1>5, OthersFacts DEF JobsInv

(* A coroutine that ends.                                                  *)
LEMMA FinishKeepsJobs ==
    ASSUME JobsInv, NEW j \in Jobs, Finish(j),
           turn' \in [Turns -> Active \cup Settled \cup {"deleted"}],
           owner' \in [Sessions -> Turns \cup {NoTurn}],
           active' \subseteq Sessions, loaded' \subseteq Sessions,
           loops' \in [Turns -> Jobs \cup {NoJob}], lock' \in Jobs \cup {NoJob},
           process' \in {process, "none"}, exitKnown' \in BOOLEAN,
           UNCHANGED <<ref, minted, initialized, reader, userVars, deaths, deletes>>
    PROVE  JobsInv'
<1> USE Constants
<1>1. JobTypes /\ TypeOK
  BY JobTypesHold DEF JobsInv
<1>2. /\ phase' \in [Jobs -> Phases] /\ phase'[j] = "over"
      /\ future' \in [Jobs -> Futures] /\ turnOf' \in [Jobs -> Turns \cup {NoTurn}]
      /\ session' \in [Jobs -> Sessions \cup {NoSession}]
      /\ asked' \subseteq Jobs
      /\ OthersKept(j)
      /\ \A i \in Jobs \ {j} : turnOf'[i] = turnOf[i]
  BY <1>1, FinishStep
<1>3. /\ \A i \in Jobs : kind'[i] \in Kinds[i] \cup {"none"}
      /\ kind' \in [Jobs -> {"none", "send", "loop", "steer", "resume"}]
      /\ \A i \in Jobs \ {j} : kind'[i] = kind[i]
      /\ prompts' \in [Jobs -> 0..LoopLimit] /\ stopMark' \in [Jobs -> 0..NoMark]
      /\ flags' \in [Jobs -> SUBSET {"stopped", "cancelled"}]
  BY <1>1 DEF Finish, TypeOK
<1>4. process' \in {"none", "starting", "up", "stopping", "dead"}
  BY <1>1 DEF TypeOK
<1>5. TypeOK'
  BY <1>1, <1>2, <1>3, <1>4 DEF TypeOK, Phases, Futures, userVars
<1>6. JobFacts(j)'
  BY <1>2 DEF JobFacts, Open
<1> QED
  BY <1>2, <1>3, <1>5, <1>6, OthersFacts DEF JobsInv

(* A step that leaves the jobs where they are, but may reject requests.    *)
LEMMA QuietKeepsJobs ==
    ASSUME JobsInv, TypeOK', UNCHANGED <<ref, phase, kind, turnOf, session>>,
           \A i \in Jobs : future'[i] \in {future[i], "lost"}
    PROVE  JobsInv'
<1>1. ASSUME NEW i \in Jobs PROVE JobFacts(i)'
  <2>1. JobFacts(i) /\ future'[i] \in {future[i], "lost"}
    BY DEF JobsInv
  <2> QED
    BY <2>1 DEF JobFacts, Open
<1> QED
  BY <1>1 DEF JobsInv

(* A request written in the phase to of job j.                             *)
LEMMA AskKeepsJobs ==
    ASSUME JobsInv, NEW j \in Jobs, NEW to \in {"prompt", "steer"}, Ask(j, to),
           kind' \in [Jobs -> {"none", "send", "loop", "steer", "resume"}],
           kind'[j] \in Kinds[j],
           \A i \in Jobs \ {j} : kind'[i] = kind[i] /\ turnOf'[i] = turnOf[i],
           turnOf' \in [Jobs -> Turns \cup {NoTurn}], turnOf'[j] \in Turns,
           prompts' \in [Jobs -> 0..LoopLimit], loops' \in [Turns -> Jobs \cup {NoJob}],
           UNCHANGED <<turns, proc, loaded, minted, session, flags, userVars, history>>
    PROVE  JobsInv'
<1> USE Constants
<1>1. JobTypes /\ TypeOK
  BY JobTypesHold DEF JobsInv
<1>2. /\ phase' \in [Jobs -> Phases] /\ phase'[j] = to
      /\ future' \in [Jobs -> Futures] /\ future'[j] # "ok"
      /\ asked' \subseteq Jobs
      /\ \A i \in Jobs \ {j} : phase'[i] = phase[i] /\ future'[i] = future[i]
  BY <1>1, AskStep DEF Phases
<1>3. \A i \in Jobs : kind'[i] \in Kinds[i] \cup {"none"}
  BY <1>1 DEF TypeOK
<1>4. TypeOK'
  BY <1>1, <1>2, <1>3 DEF TypeOK, Phases, Futures, turns, proc, userVars, history
<1>5. OthersKept(j)
  BY <1>2 DEF OthersKept
<1>6. JobFacts(j)'
  BY <1>2 DEF JobFacts, Open
<1> QED
  BY <1>4, <1>5, <1>6, OthersFacts DEF JobsInv, turns

(* The steps of a job.                                                     *)
LEMMA JobStepKeepsJobs ==
    ASSUME JobsInv, NEW j \in Jobs, JobStep(j)
    PROVE  JobsInv'
<1> USE Constants
<1>1. JobTypes /\ TypeOK /\ JobFacts(j)
  BY JobTypesHold DEF JobsInv
<1>2. CASE Answer(j)
  BY <1>2, AnswerStep
<1>3. CASE DrainFails(j)
  <2>1. TypeOK'
    BY <1>1, <1>3 DEF DrainFails, TypeOK, turns, proc, dsh, loopVars, userVars, history
  <2>2. \A i \in Jobs : future'[i] \in {future[i], "lost"}
    BY <1>1, <1>3 DEF DrainFails, JobTypes
  <2> QED
    BY <1>3, <2>1, <2>2, QuietKeepsJobs DEF DrainFails, turns
<1>a. /\ turn \in [Turns -> Active \cup Settled \cup {"deleted"}]
      /\ owner \in [Sessions -> Turns \cup {NoTurn}]
      /\ active \subseteq Sessions /\ loaded \subseteq Sessions
      /\ loops \in [Turns -> Jobs \cup {NoJob}] /\ lock \in Jobs \cup {NoJob}
      /\ exitKnown \in BOOLEAN
  BY <1>1 DEF TypeOK
<1>b. /\ kind \in [Jobs -> {"none", "send", "loop", "steer", "resume"}]
      /\ kind[j] \in Kinds[j] \cup {"none"}
      /\ turnOf \in [Jobs -> Turns \cup {NoTurn}]
      /\ prompts \in [Jobs -> 0..LoopLimit]
  BY <1>1 DEF TypeOK
<1>c. ASSUME NEW s \in Active \cup Settled, Emit(turnOf[j], s) \/ EmitIfActive(turnOf[j], s)
      PROVE  turn' \in [Turns -> Active \cup Settled \cup {"deleted"}]
  BY <1>1, <1>c, EmitStep
<1>d. "interrupted" \in Settled /\ "finished" \in Settled /\ "failed" \in Settled
  BY DEF Settled
<1>e. ASSUME Finish(j), turn' \in [Turns -> Active \cup Settled \cup {"deleted"}],
             owner' \in [Sessions -> Turns \cup {NoTurn}], active' \subseteq Sessions,
             loops' \in [Turns -> Jobs \cup {NoJob}],
             UNCHANGED <<ref, proc, loaded, minted, userVars, deaths, deletes>>
      PROVE  JobsInv'
  BY <1>a, <1>e, FinishKeepsJobs DEF proc
<1>4. CASE SessionReady(j)
  <2>1. /\ owner' = [owner EXCEPT ![session[j]] = turnOf[j]]
        /\ active' = active \cup {session[j]}
        /\ UNCHANGED <<turn, proc, loaded, minted, loops, userVars, deaths, deletes>>
        /\ phase[j] = "new" /\ future[j] = "ok"
    BY <1>4 DEF SessionReady
  <2>2. session[j] \in Sessions /\ turnOf[j] \in Turns
    BY <1>1, <2>1 DEF JobFacts, Open
  <2>3. owner' \in [Sessions -> Turns \cup {NoTurn}] /\ active' \subseteq Sessions
    BY <1>a, <2>1, <2>2
  <2>4. CASE turn[turnOf[j]] = "deleted"
    <3>1. Finish(j) /\ UNCHANGED ref
      BY <1>4, <2>4 DEF SessionReady
    <3> QED
      BY <1>a, <1>e, <2>1, <2>3, <3>1
  <2>5. CASE turn[turnOf[j]] # "deleted"
    <3>1. /\ phase' = [phase EXCEPT ![j] = "ready"]
          /\ ref' = [ref EXCEPT ![turnOf[j]] = session[j]]
          /\ UNCHANGED <<asked, kind, turnOf, session, future, prompts, flags, stopMark>>
      BY <1>4, <2>5 DEF SessionReady
    <3>2. /\ ref' \in [Turns -> Sessions \cup {NoSession}]
          /\ \A t \in Turns : ref[t] \in Sessions => ref'[t] \in Sessions
      BY <1>1, <2>2, <3>1 DEF TypeOK
    <3>3. phase' \in [Jobs -> Phases] /\ phase'[j] = "ready" /\ OthersKept(j)
      BY <1>1, <3>1 DEF JobTypes, Phases, OthersKept
    <3>4. TypeOK'
      BY <1>1, <2>1, <2>3, <3>1, <3>2, <3>3 DEF TypeOK, Phases, proc, userVars
    <3>5. JobFacts(j)'
      BY <2>2, <3>1, <3>3 DEF JobFacts, Open
    <3> QED
      BY <3>1, <3>2, <3>3, <3>4, <3>5, OthersFacts DEF JobsInv
  <2> QED
    BY <2>4, <2>5
<1>5. CASE SessionFails(j)
  BY <1>5, <1>a, <1>c, <1>d, <1>e DEF SessionFails
<1>6. CASE PromptStarts(j)
  <2>1. turnOf[j] \in Turns /\ kind[j] \in Kinds[j]
    BY <1>1, <1>6 DEF PromptStarts, JobFacts, Open, TypeOK
  <2>2. prompts' \in [Jobs -> 0..LoopLimit]
    BY <1>b, <1>6 DEF PromptStarts
  <2> QED
    BY <1>6, <1>a, <1>b, <2>1, <2>2, AskKeepsJobs DEF PromptStarts, loopVars
<1>7. CASE LoopStarts(j)
  <2>1. turnOf[j] \in Turns /\ kind[j] \in Kinds[j]
    BY <1>1, <1>7 DEF LoopStarts, JobFacts, Open, TypeOK
  <2>2. UNCHANGED <<turns, proc, loaded, minted, userVars, deaths, deletes>>
    BY <1>7 DEF LoopStarts
  <2>3. CASE IsActive(turnOf[j])
    <3>1. /\ Ask(j, "prompt") /\ prompts' = [prompts EXCEPT ![j] = 1]
          /\ loops' = [loops EXCEPT ![turnOf[j]] = j]
          /\ UNCHANGED <<kind, turnOf, session, flags, stopMark>>
      BY <1>7, <2>3 DEF LoopStarts
    <3>2. prompts' \in [Jobs -> 0..LoopLimit] /\ loops' \in [Turns -> Jobs \cup {NoJob}]
      <4>1. 1 \in 0..LoopLimit
        OBVIOUS
      <4>2. loops' \in [Turns -> Jobs \cup {NoJob}]
        BY <1>a, <3>1
      <4> QED
        BY <1>b, <3>1, <4>1, <4>2
    <3> QED
      BY <1>b, <2>1, <2>2, <3>1, <3>2, AskKeepsJobs DEF history
  <2>4. CASE ~IsActive(turnOf[j])
    <3>1. Finish(j) /\ loops' = [loops EXCEPT ![turnOf[j]] = NoJob]
      BY <1>7, <2>4 DEF LoopStarts
    <3>2. loops' \in [Turns -> Jobs \cup {NoJob}]
      BY <1>a, <3>1
    <3> QED
      BY <1>a, <1>e, <2>2, <3>1, <3>2 DEF turns
  <2> QED
    BY <2>3, <2>4
<1>8. CASE PromptOver(j)
  <2>1. turn' \in [Turns -> Active \cup Settled \cup {"deleted"}]
    <3>1. \/ Emit(turnOf[j], "interrupted") \/ EmitIfActive(turnOf[j], "finished")
          \/ EmitIfActive(turnOf[j], "failed") \/ EmitIfActive(turnOf[j], "interrupted")
      BY <1>8 DEF PromptOver
    <3> QED
      BY <1>c, <1>d, <3>1
  <2> QED
    BY <1>8, <1>a, <1>e, <2>1 DEF PromptOver
<1>f. ASSUME LoopEnds(j), turn' \in [Turns -> Active \cup Settled \cup {"deleted"}]
      PROVE  JobsInv'
  <2>1. loops' \in [Turns -> Jobs \cup {NoJob}]
    BY <1>a, <1>f DEF LoopEnds
  <2> QED
    BY <1>a, <1>e, <1>f, <2>1 DEF LoopEnds
<1>9. CASE LoopBreaks(j)
  <2>1. \/ Emit(turnOf[j], "interrupted") \/ Emit(turnOf[j], "failed")
        \/ EmitIfActive(turnOf[j], "interrupted") \/ UNCHANGED turn
    BY <1>9 DEF LoopBreaks
  <2>2. turn' \in [Turns -> Active \cup Settled \cup {"deleted"}]
    BY <1>a, <1>c, <1>d, <2>1
  <2> QED
    BY <1>9, <1>f, <2>2 DEF LoopBreaks
<1>10. CASE LoopCompletes(j)
  BY <1>10, <1>c, <1>d, <1>f DEF LoopCompletes
<1>11. CASE LoopContinues(j)
  <2>1. turnOf[j] \in Turns /\ kind[j] \in Kinds[j] /\ prompts[j] < LoopLimit
    BY <1>1, <1>11 DEF LoopContinues, IterationDone, MayContinue, JobFacts, Open, TypeOK
  <2>2. prompts' \in [Jobs -> 0..LoopLimit]
    BY <1>b, <1>11, <2>1 DEF LoopContinues
  <2> QED
    BY <1>11, <1>a, <1>b, <2>1, <2>2, AskKeepsJobs DEF LoopContinues, loopVars
<1>12. CASE SteerOver(j)
  <2>1. turn' \in [Turns -> Active \cup Settled \cup {"deleted"}]
    BY <1>12, <1>a, <1>c, <1>d DEF SteerOver
  <2> QED
    BY <1>12, <1>a, <1>e, <2>1 DEF SteerOver
<1>13. CASE ResumeOver(j)
  <2>1. turn' \in [Turns -> Active \cup Settled \cup {"deleted"}]
    BY <1>13, <1>a, <1>c, <1>d DEF ResumeOver
  <2>2. session[j] \in Sessions /\ turnOf[j] \in Turns
    BY <1>1, <1>13 DEF ResumeOver, JobFacts, Open
  <2>3. owner' \in [Sessions -> Turns \cup {NoTurn}] /\ active' \subseteq Sessions
    BY <1>13, <1>a, <2>2 DEF ResumeOver
  <2> QED
    BY <1>13, <1>a, <1>e, <2>1, <2>3 DEF ResumeOver
<1>g. phase[j] \in {"queued", "starting"} =>
         /\ Seen(j, turnOf[j]) = session[j]
         /\ kind[j] = "resume" => session[j] \in Sessions
  BY <1>1 DEF JobFacts, Seen
<1>14. CASE GetLock(j)
  <2>1. turnOf[j] \in Turns /\ phase[j] = "queued" /\ EnsureProcess(j, turnOf[j], kind[j])
    BY <1>1, <1>14 DEF GetLock, JobFacts, Open
  <2> QED
    BY <1>14, <1>a, <1>b, <1>g, <2>1, EnterKeepsJobs DEF GetLock, turns
<1>15. CASE Initialized(j)
  <2>1. turnOf[j] \in Turns /\ phase[j] = "starting"
    BY <1>1, <1>15 DEF Initialized, JobFacts, Open
  <2>2. ref \in [Turns -> Sessions \cup {NoSession}]
    BY <1>1 DEF TypeOK
  <2>3. GoOn(j, turnOf[j], kind[j])
    BY <1>15 DEF Initialized
  <2>4. /\ phase' \in [Jobs -> Phases] /\ future' \in [Jobs -> Futures]
        /\ session' \in [Jobs -> Sessions \cup {NoSession}]
        /\ asked' \subseteq Jobs
        /\ OthersKept(j)
        /\ phase'[j] \in {"resume", "ready", "new"}
        /\ phase'[j] = "resume" => kind[j] = "resume" /\ (Seen(j, turnOf[j]) # NoSession => session'[j] = Seen(j, turnOf[j]))
        /\ phase'[j] = "new" => future'[j] # "ok"
    BY <1>1, <2>1, <2>2, <2>3, GoOnStep
  <2>5. process' \in {"none", "starting", "up", "stopping", "dead"}
    BY <1>1, <1>15 DEF Initialized, TypeOK
  <2>6. TypeOK'
    BY <1>1, <1>15, <2>4, <2>5
    DEF Initialized, TypeOK, Phases, Futures, turns, loopVars, userVars, history
  <2>7. JobFacts(j)'
    BY <1>15, <1>g, <2>1, <2>4, Constants DEF Initialized, JobFacts, Open
  <2> QED
    BY <1>15, <2>4, <2>6, <2>7, OthersFacts DEF Initialized, JobsInv, turns
<1>16. CASE StartFails(j)
  <2>1. \A i \in Jobs : future'[i] \in {future[i], "lost"}
    BY <1>1, <1>16 DEF StartFails, Rejected, JobTypes
  <2>2. /\ phase' \in [Jobs -> Phases] /\ future' \in [Jobs -> Futures] /\ phase'[j] = "stopping"
        /\ \A i \in Jobs \ {j} : phase'[i] = phase[i]
    BY <1>1, <1>16 DEF StartFails, Rejected, JobTypes, Phases, Futures
  <2>3. TypeOK'
    BY <1>1, <1>16, <2>2 DEF StartFails, TypeOK, Phases, Futures, turns, dsh, loopVars, userVars, history
  <2>4. turnOf[j] \in Turns
    BY <1>1, <1>16 DEF StartFails, JobFacts, Open
  <2>5. JobFacts(j)' /\ OthersKept(j)
    BY <1>16, <2>1, <2>2, <2>4 DEF StartFails, JobFacts, Open, OthersKept
  <2> QED
    BY <1>16, <2>3, <2>5, OthersFacts DEF StartFails, JobsInv, turns
<1>17. CASE StopReturns(j)
  <2>1. turn' \in [Turns -> Active \cup Settled \cup {"deleted"}]
    BY <1>17, <1>c, <1>d DEF StopReturns
  <2> QED
    BY <1>17, <1>a, <2>1, FinishKeepsJobs DEF StopReturns
<1> QED
  BY <1>2, <1>3, <1>4, <1>5, <1>6, <1>7, <1>8, <1>9, <1>10, <1>11, <1>12, <1>13, <1>14, <1>15,
     <1>16, <1>17 DEF JobStep

(* The steps of users.                                                     *)
LEMMA UserStepKeepsJobs ==
    ASSUME JobsInv, NEW t \in Turns, UserStep(t) \/ CancelReturns(t)
    PROVE  JobsInv'
<1> USE Constants
<1>1. JobTypes /\ TypeOK /\ \A j \in Jobs : JobFacts(j)
  BY JobTypesHold DEF JobsInv
<1>2. /\ turn \in [Turns -> Active \cup Settled \cup {"deleted"}]
      /\ ref \in [Turns -> Sessions \cup {NoSession}]
      /\ kind \in [Jobs -> {"none", "send", "loop", "steer", "resume"}]
      /\ \A j \in Jobs : kind[j] \in Kinds[j] \cup {"none"}
      /\ turnOf \in [Jobs -> Turns \cup {NoTurn}]
  BY <1>1 DEF TypeOK
<1>3. ASSUME NEW s \in Active \cup Settled, Emit(t, s) \/ EmitIfActive(t, s)
      PROVE  turn' \in [Turns -> Active \cup Settled \cup {"deleted"}]
  BY <1>1, <1>3, EmitStep
<1>4. "interrupted" \in Settled /\ "running" \in Active
  BY DEF Settled, Active
<1>5. ASSUME NEW j \in Jobs, Send(j, t)
      PROVE  JobsInv'
  <2>1. PICK k \in Kinds[j] \cap {"send", "loop"} : kind' = [kind EXCEPT ![j] = k] /\ Enter(j, t, k)
    BY <1>5 DEF Send
  <2>2. /\ Emit(t, "running") /\ turnOf' = [turnOf EXCEPT ![j] = t]
        /\ UNCHANGED <<ref, owner, active, minted, prompts, loopVars, userVars, history>>
    BY <1>5 DEF Send
  <2>3. /\ kind' \in [Jobs -> {"none", "send", "loop", "steer", "resume"}] /\ kind'[j] = k
        /\ turnOf' \in [Jobs -> Turns \cup {NoTurn}] /\ turnOf'[j] = t
        /\ \A i \in Jobs \ {j} : kind'[i] = kind[i] /\ turnOf'[i] = turnOf[i]
    BY <1>2, <2>1, <2>2
  <2> QED
    BY <1>3, <1>4, <2>1, <2>2, <2>3, EnterKeepsJobs
<1>6. ASSUME NEW j \in Jobs,
             phase' = [phase EXCEPT ![j] = "over"], Emit(t, "interrupted"),
             UNCHANGED <<ref, owner, active, proc, dsh, kind, turnOf, session, future, prompts,
                         loopVars, userVars, history>>
      PROVE  JobsInv'
  <2>1. phase' \in [Jobs -> Phases] /\ phase'[j] = "over" /\ \A i \in Jobs \ {j} : phase'[i] = phase[i]
    BY <1>1, <1>6 DEF JobTypes, Phases
  <2>2. TypeOK'
    BY <1>1, <1>3, <1>4, <1>6, <2>1 DEF TypeOK, Phases, proc, dsh, loopVars, userVars, history
  <2>3. JobFacts(j)' /\ OthersKept(j)
    BY <1>6, <2>1 DEF JobFacts, Open, OthersKept
  <2> QED
    BY <1>6, <2>2, <2>3, OthersFacts DEF JobsInv
<1>7. ASSUME NEW j \in Jobs, Steer(j, t)
      PROVE  JobsInv'
  <2>1. UNCHANGED <<ref, owner, active, proc, loaded, minted, session, prompts, loopVars, userVars, history>>
    BY <1>7 DEF Steer
  <2>2. CASE ref[t] = NoSession
    BY <1>6, <1>7, <2>1, <2>2 DEF Steer, dsh
  <2>3. CASE ref[t] # NoSession
    <3>1. /\ Ask(j, "steer") /\ kind' = [kind EXCEPT ![j] = "steer"]
          /\ turnOf' = [turnOf EXCEPT ![j] = t] /\ UNCHANGED turn /\ "steer" \in Kinds[j]
      BY <1>7, <2>3 DEF Steer
    <3>2. /\ kind' \in [Jobs -> {"none", "send", "loop", "steer", "resume"}] /\ kind'[j] = "steer"
          /\ turnOf' \in [Jobs -> Turns \cup {NoTurn}] /\ turnOf'[j] = t
          /\ \A i \in Jobs \ {j} : kind'[i] = kind[i] /\ turnOf'[i] = turnOf[i]
      BY <1>2, <3>1
    <3>3. prompts' \in [Jobs -> 0..LoopLimit] /\ loops' \in [Turns -> Jobs \cup {NoJob}]
      BY <1>1, <2>1 DEF TypeOK, loopVars
    <3> QED
      BY <2>1, <3>1, <3>2, <3>3, AskKeepsJobs DEF turns, loopVars
  <2> QED
    BY <2>2, <2>3
<1>8. ASSUME NEW j \in Jobs, Resume(j, t)
      PROVE  JobsInv'
  <2>1. UNCHANGED <<ref, owner, active, minted, prompts, loopVars, userVars, history>>
    BY <1>8 DEF Resume
  <2>2. CASE ref[t] = NoSession
    BY <1>6, <1>8, <2>1, <2>2 DEF Resume, dsh
  <2>3. CASE ref[t] # NoSession
    <3>1. /\ Emit(t, "running") /\ kind' = [kind EXCEPT ![j] = "resume"]
          /\ turnOf' = [turnOf EXCEPT ![j] = t] /\ Enter(j, t, "resume") /\ "resume" \in Kinds[j]
      BY <1>8, <2>3 DEF Resume
    <3>2. /\ kind' \in [Jobs -> {"none", "send", "loop", "steer", "resume"}] /\ kind'[j] = "resume"
          /\ turnOf' \in [Jobs -> Turns \cup {NoTurn}] /\ turnOf'[j] = t
          /\ \A i \in Jobs \ {j} : kind'[i] = kind[i] /\ turnOf'[i] = turnOf[i]
      BY <1>2, <3>1
    <3>3. Seen(j, t) \in Sessions
      BY <1>2, <1>8, <2>3 DEF Seen, Resume
    <3> QED
      BY <1>3, <1>4, <2>1, <3>1, <3>2, <3>3, EnterKeepsJobs
  <2> QED
    BY <2>2, <2>3
<1>9. CASE Cancel(t)
  <2>1. UNCHANGED <<ref, owner, proc, dsh, work, loops, asker, answering, history>>
    BY <1>9 DEF Cancel
  <2>2. turn' \in [Turns -> Active \cup Settled \cup {"deleted"}]
    <3>1. EmitIfActive(t, "interrupted") \/ UNCHANGED turn
      BY <1>9 DEF Cancel
    <3> QED
      BY <1>2, <1>3, <1>4, <3>1
  <2>3. /\ flags' \in [Jobs -> SUBSET {"stopped", "cancelled"}]
        /\ permission' \in [Permissions -> {"none", "pending", "resolved", "cancelled", "failed"}]
        /\ active' \subseteq Sessions /\ cancelling' \subseteq Turns
    <3>1. /\ flags \in [Jobs -> SUBSET {"stopped", "cancelled"}]
          /\ permission \in [Permissions -> {"none", "pending", "resolved", "cancelled", "failed"}]
          /\ active \subseteq Sessions /\ cancelling \subseteq Turns
      BY <1>1 DEF TypeOK
    <3>2. CASE ref[t] = NoSession
      BY <1>9, <3>1, <3>2 DEF Cancel
    <3>3. CASE ref[t] # NoSession
      <4>1. flags' = flags \/ flags' = [flags EXCEPT ![loops[t]] = @ \cup {"cancelled"}]
        BY <1>9, <3>3 DEF Cancel
      <4>2. permission' = [p \in Permissions |->
                             IF permission[p] = "pending" /\ asker[p] = ref[t]
                             THEN "cancelled" ELSE permission[p]]
        BY <1>9, <3>3 DEF Cancel
      <4>3. active' = active \ {ref[t]} /\ cancelling' \subseteq cancelling \cup {t}
        BY <1>9, <3>3 DEF Cancel
      <4>4. flags' \in [Jobs -> SUBSET {"stopped", "cancelled"}]
        BY <3>1, <4>1
      <4>5. permission' \in [Permissions -> {"none", "pending", "resolved", "cancelled", "failed"}]
        BY <3>1, <4>2
      <4> QED
        BY <3>1, <4>3, <4>4, <4>5
    <3> QED
      BY <3>2, <3>3
  <2>4. TypeOK'
    BY <1>1, <2>1, <2>2, <2>3 DEF TypeOK, proc, dsh, work, history
  <2> QED
    BY <2>1, <2>4, QuietKeepsJobs DEF work
<1>10. CASE StopLoop(t)
  <2>1. UNCHANGED <<turns, proc, dsh, work, loops, userVars, deaths, deletes>>
    BY <1>10 DEF StopLoop
  <2>2. /\ flags' \in [Jobs -> SUBSET {"stopped", "cancelled"}]
        /\ stopMark' \in [Jobs -> 0..NoMark]
    <3>1. /\ flags \in [Jobs -> SUBSET {"stopped", "cancelled"}]
          /\ stopMark \in [Jobs -> 0..NoMark] /\ prompts \in [Jobs -> 0..LoopLimit]
          /\ loops[t] \in Jobs \cup {NoJob}
      BY <1>1 DEF TypeOK
    <3>2. loops[t] \in Jobs /\ prompts[loops[t]] \in 0..NoMark
      BY <1>10, <3>1 DEF StopLoop, NoMark
    <3> QED
      BY <1>10, <3>1, <3>2 DEF StopLoop
  <2>3. TypeOK'
    BY <1>1, <2>1, <2>2 DEF TypeOK, turns, proc, dsh, work, userVars
  <2> QED
    BY <2>1, <2>3, QuietKeepsJobs DEF work, turns
<1>11. CASE DeleteTurn(t)
  <2>1. /\ UNCHANGED <<ref, owner, active, proc, dsh, work, loopVars, userVars, stopMark, deaths>>
        /\ deletes' \in 0..MaxDeletes /\ turn' = [turn EXCEPT ![t] = "deleted"]
    BY <1>1, <1>11 DEF DeleteTurn, TypeOK
  <2>2. TypeOK'
    BY <1>1, <2>1 DEF TypeOK, proc, dsh, work, loopVars, userVars
  <2> QED
    BY <2>1, <2>2, QuietKeepsJobs DEF work
<1>12. CASE CancelReturns(t)
  <2>1. /\ UNCHANGED <<ref, owner, active, proc, dsh, work, loopVars, permission, asker, answering, history>>
        /\ turn' \in [Turns -> Active \cup Settled \cup {"deleted"}]
        /\ cancelling' \subseteq cancelling
    BY <1>3, <1>4, <1>12 DEF CancelReturns
  <2>2. TypeOK'
    BY <1>1, <2>1 DEF TypeOK, proc, dsh, work, loopVars, history
  <2> QED
    BY <2>1, <2>2, QuietKeepsJobs DEF work
<1> QED
  BY <1>5, <1>7, <1>8, <1>9, <1>10, <1>11, <1>12 DEF UserStep

(* Permissions and the subprocess.                                         *)
LEMMA OtherStepKeepsJobs ==
    ASSUME JobsInv,
           \/ \E p \in Permissions, s \in Sessions : PermissionAsked(p, s)
           \/ \E p \in Permissions : Respond(p) \/ ResponseWritten(p)
           \/ \E s \in Sessions : UpdateOfDeletedTurn(s)
           \/ ProcessDies \/ ExitIsKnown \/ ReaderSeesEnd
    PROVE  JobsInv'
<1> USE Constants
<1>1. JobTypes /\ TypeOK
  BY JobTypesHold DEF JobsInv
<1>2. /\ permission \in [Permissions -> {"none", "pending", "resolved", "cancelled", "failed"}]
      /\ asker \in [Permissions -> Sessions \cup {NoSession}]
      /\ answering \in [Permissions -> 0..2]
      /\ turn \in [Turns -> Active \cup Settled \cup {"deleted"}]
      /\ reader \in {"none", "reading", "ended"}
  BY <1>1 DEF TypeOK
<1>3. "interrupted" \in Settled /\ "running" \in Active /\ "waiting_user" \in Active
  BY DEF Settled, Active
<1>4. ASSUME NEW p \in Permissions, NEW s \in Sessions, PermissionAsked(p, s)
      PROVE  JobsInv'
  <2>1. /\ permission' \in [Permissions -> {"none", "pending", "resolved", "cancelled", "failed"}]
        /\ asker' \in [Permissions -> Sessions \cup {NoSession}]
        /\ reader' \in {"none", "reading", "ended"}
        /\ UNCHANGED <<ref, owner, active, process, exitKnown, initialized, lock, dsh, work, loopVars,
                       answering, cancelling, history>>
    BY <1>2, <1>4 DEF PermissionAsked
  <2>2. turn' \in [Turns -> Active \cup Settled \cup {"deleted"}]
    BY <1>1, <1>3, <1>4, EmitStep DEF PermissionAsked
  <2>3. TypeOK'
    BY <1>1, <2>1, <2>2 DEF TypeOK, dsh, work, loopVars, history
  <2> QED
    BY <2>1, <2>3, QuietKeepsJobs DEF work
<1>5. ASSUME NEW p \in Permissions, Respond(p)
      PROVE  JobsInv'
  <2>1. /\ permission' \in [Permissions -> {"none", "pending", "resolved", "cancelled", "failed"}]
        /\ answering' \in [Permissions -> 0..2]
        /\ UNCHANGED <<turns, proc, dsh, work, loopVars, asker, cancelling, history>>
    BY <1>2, <1>5 DEF Respond
  <2>2. TypeOK'
    BY <1>1, <2>1 DEF TypeOK, turns, proc, dsh, work, loopVars, history
  <2> QED
    BY <2>1, <2>2, QuietKeepsJobs DEF work, turns
<1>6. ASSUME NEW p \in Permissions, ResponseWritten(p)
      PROVE  JobsInv'
  <2>1. /\ permission' \in [Permissions -> {"none", "pending", "resolved", "cancelled", "failed"}]
        /\ answering' \in [Permissions -> 0..2]
        /\ UNCHANGED <<ref, owner, active, proc, dsh, work, loopVars, asker, cancelling, history>>
    BY <1>2, <1>6 DEF ResponseWritten
  <2>2. turn' \in [Turns -> Active \cup Settled \cup {"deleted"}]
    BY <1>1, <1>2, <1>3, <1>6, EmitStep DEF ResponseWritten
  <2>3. TypeOK'
    BY <1>1, <2>1, <2>2 DEF TypeOK, proc, dsh, work, loopVars, history
  <2> QED
    BY <2>1, <2>3, QuietKeepsJobs DEF work
<1>7. ASSUME NEW s \in Sessions, UpdateOfDeletedTurn(s)
      PROVE  JobsInv'
  <2>1. TypeOK'
    BY <1>1, <1>7 DEF UpdateOfDeletedTurn, TypeOK, turns, dsh, work, loopVars, userVars, history
  <2> QED
    BY <1>7, <2>1, QuietKeepsJobs DEF UpdateOfDeletedTurn, work, turns
<1>8. CASE ProcessDies
  <2>1. TypeOK'
    BY <1>1, <1>8 DEF ProcessDies, TypeOK, turns, dsh, work, loopVars, userVars
  <2> QED
    BY <1>8, <2>1, QuietKeepsJobs DEF ProcessDies, work, turns
<1>9. CASE ExitIsKnown
  <2>1. TypeOK'
    BY <1>1, <1>9 DEF ExitIsKnown, TypeOK, turns, dsh, work, loopVars, userVars, history
  <2> QED
    BY <1>9, <2>1, QuietKeepsJobs DEF ExitIsKnown, work, turns
<1>10. CASE ReaderSeesEnd
  <2>1. /\ future' \in [Jobs -> Futures] /\ \A i \in Jobs : future'[i] \in {future[i], "lost"}
    BY <1>1, <1>10 DEF ReaderSeesEnd, Rejected, JobTypes, Futures
  <2>2. /\ permission' \in [Permissions -> {"none", "pending", "resolved", "cancelled", "failed"}]
        /\ turn' \in [Turns -> Active \cup Settled \cup {"deleted"}]
    BY <1>2, <1>3, <1>10 DEF ReaderSeesEnd
  <2>3. /\ flags' \in [Jobs -> SUBSET {"stopped", "cancelled"}]
        /\ loops' \in [Turns -> Jobs \cup {NoJob}]
    <3>1. flags \in [Jobs -> SUBSET {"stopped", "cancelled"}]
      BY <1>1 DEF TypeOK
    <3> QED
      BY <1>10, <3>1 DEF ReaderSeesEnd
  <2>4. /\ active' = {} /\ reader' = "ended"
        /\ UNCHANGED <<ref, owner, process, exitKnown, initialized, lock, dsh, phase, kind, turnOf,
                       session, prompts, asker, answering, cancelling, history>>
    BY <1>10 DEF ReaderSeesEnd
  <2>5. TypeOK'
    BY <1>1, <2>1, <2>2, <2>3, <2>4 DEF TypeOK, Futures, dsh, history
  <2> QED
    BY <2>1, <2>4, <2>5, QuietKeepsJobs
<1> QED
  BY <1>4, <1>5, <1>6, <1>7, <1>8, <1>9, <1>10

LEMMA JobsConsistent ==
    /\ Init => JobsInv
    /\ JobsInv /\ [Next]_vars => JobsInv'
<1>1. Init => JobsInv
  <2> SUFFICES ASSUME Init PROVE JobsInv
    OBVIOUS
  <2> USE Constants
  <2>1. /\ 0 \in 0..MaxSessions /\ 0 \in 0..MaxDeaths /\ 0 \in 0..MaxDeletes
        /\ 0 \in 0..LoopLimit /\ NoMark \in 0..NoMark
    OBVIOUS
  <2>a. /\ turn \in [Turns -> Active \cup Settled \cup {"deleted"}]
        /\ ref \in [Turns -> Sessions \cup {NoSession}]
        /\ owner \in [Sessions -> Turns \cup {NoTurn}]
        /\ loops \in [Turns -> Jobs \cup {NoJob}]
    BY DEF Init, Settled
  <2>b. /\ phase \in [Jobs -> Phases] /\ future \in [Jobs -> Futures]
        /\ kind \in [Jobs -> {"none", "send", "loop", "steer", "resume"}]
        /\ \A j \in Jobs : kind[j] \in Kinds[j] \cup {"none"}
        /\ turnOf \in [Jobs -> Turns \cup {NoTurn}]
        /\ session \in [Jobs -> Sessions \cup {NoSession}]
    BY DEF Init, Phases, Futures
  <2>c. /\ flags \in [Jobs -> SUBSET {"stopped", "cancelled"}]
        /\ prompts \in [Jobs -> 0..LoopLimit] /\ stopMark \in [Jobs -> 0..NoMark]
    BY <2>1 DEF Init
  <2>d. /\ permission \in [Permissions -> {"none", "pending", "resolved", "cancelled", "failed"}]
        /\ asker \in [Permissions -> Sessions \cup {NoSession}]
        /\ answering \in [Permissions -> 0..2]
    BY DEF Init
  <2>2. TypeOK
    BY <2>1, <2>a, <2>b, <2>c, <2>d DEF Init, TypeOK, Phases, Futures
  <2>3. \A j \in Jobs : JobFacts(j)
    BY DEF Init, JobFacts, Open
  <2> QED
    BY <2>2, <2>3 DEF JobsInv
<1>2. ASSUME JobsInv, [Next]_vars PROVE JobsInv'
  <2>1. CASE UNCHANGED vars
    <3>1. TypeOK'
      BY <1>2, <2>1
      DEF JobsInv, TypeOK, vars, turns, proc, dsh, work, loopVars, userVars, history
    <3> QED
      BY <1>2, <2>1, <3>1, QuietKeepsJobs DEF vars, turns, work
  <2> QED
    BY <1>2, <2>1, JobStepKeepsJobs, UserStepKeepsJobs, OtherStepKeepsJobs DEF Next
<1> QED
  BY <1>1, <1>2

-----------------------------------------------------------------------------
(* Loops.                                                                  *)

(* A step that touches no loop at a prompt, and registers none.            *)
LEMMA LoopsKept ==
    ASSUME AcpInv,
           \A i \in Jobs :
              \/ /\ phase'[i] = phase[i] /\ kind'[i] = kind[i] /\ turnOf'[i] = turnOf[i]
                 /\ prompts'[i] = prompts[i] /\ stopMark'[i] = stopMark[i]
                 /\ flags[i] \subseteq flags'[i]
              \/ ~InLoop(i) /\ stopMark'[i] \in {stopMark[i], NoMark},
           \A t \in Turns : loops'[t] \in {loops[t], NoJob}
    PROVE  LoopInv'
<1>1. LoopInv /\ loops \in [Turns -> Jobs \cup {NoJob}]
  BY DEF AcpInv, JobsInv, TypeOK
<1>2. ASSUME NEW t \in Turns, loops'[t] # NoJob
      PROVE  InLoop(loops[t])' /\ turnOf'[loops[t]] = t /\ loops'[t] = loops[t]
  <2>1. loops'[t] = loops[t] /\ loops[t] \in Jobs
    BY <1>1, <1>2
  <2>2. InLoop(loops[t]) /\ turnOf[loops[t]] = t
    BY <1>1, <1>2, <2>1 DEF LoopInv
  <2> QED
    BY <2>1, <2>2 DEF InLoop
<1>3. ASSUME NEW i \in Jobs, stopMark'[i] # NoMark
      PROVE  InLoop(i)' /\ "stopped" \in flags'[i] /\ prompts'[i] <= stopMark'[i]
  <2>1. stopMark[i] # NoMark => InLoop(i) /\ "stopped" \in flags[i] /\ prompts[i] <= stopMark[i]
    BY <1>1 DEF LoopInv
  <2> QED
    BY <1>3, <2>1 DEF InLoop
<1> QED
  BY <1>2, <1>3 DEF LoopInv, InLoop

(* A loop that ends, at its prompt or before it.                           *)
LEMMA LoopEndKept ==
    ASSUME AcpInv, NEW j \in Jobs, Finish(j), turnOf[j] \in Turns,
           loops' = [loops EXCEPT ![turnOf[j]] = NoJob] \/ (~InLoop(j) /\ UNCHANGED loops)
    PROVE  LoopInv'
<1>1. LoopInv /\ JobTypes /\ loops \in [Turns -> Jobs \cup {NoJob}]
  BY JobTypesHold DEF AcpInv, JobsInv, TypeOK
<1>2. /\ kind \in [Jobs -> {"none", "send", "loop", "steer", "resume"}]
      /\ flags \in [Jobs -> SUBSET {"stopped", "cancelled"}]
      /\ prompts \in [Jobs -> 0..LoopLimit] /\ stopMark \in [Jobs -> 0..NoMark]
  BY DEF AcpInv, JobsInv, TypeOK
<1>3. /\ stopMark'[j] = NoMark
      /\ \A i \in Jobs \ {j} :
            /\ phase'[i] = phase[i] /\ kind'[i] = kind[i] /\ turnOf'[i] = turnOf[i]
            /\ prompts'[i] = prompts[i] /\ stopMark'[i] = stopMark[i] /\ flags'[i] = flags[i]
  BY <1>1, <1>2 DEF Finish, JobTypes
<1>4. ASSUME NEW t \in Turns, loops'[t] # NoJob
      PROVE  loops'[t] = loops[t] /\ loops[t] \in Jobs \ {j}
  <2>1. loops'[t] = loops[t] /\ loops[t] \in Jobs
    BY <1>1, <1>4
  <2>2. InLoop(loops[t]) /\ turnOf[loops[t]] = t
    BY <1>1, <1>4, <2>1 DEF LoopInv
  <2>3. loops[t] # j
    BY <1>1, <1>4, <2>1, <2>2
  <2> QED
    BY <2>1, <2>3
<1>5. ASSUME NEW t \in Turns, loops'[t] # NoJob
      PROVE  InLoop(loops[t])' /\ turnOf'[loops'[t]] = t
  <2>1. InLoop(loops[t]) /\ turnOf[loops[t]] = t /\ loops'[t] = loops[t] /\ loops[t] \in Jobs \ {j}
    BY <1>1, <1>4, <1>5 DEF LoopInv
  <2> QED
    BY <1>3, <2>1 DEF InLoop
<1>6. ASSUME NEW i \in Jobs, stopMark'[i] # NoMark
      PROVE  InLoop(i)' /\ "stopped" \in flags'[i] /\ prompts'[i] <= stopMark'[i]
  BY <1>1, <1>3, <1>6 DEF LoopInv, InLoop
<1> QED
  BY <1>5, <1>6 DEF LoopInv, InLoop

(* A job that is at no loop goes on, or starts.                            *)
LEMMA MoveKeepsLoops ==
    ASSUME AcpInv, NEW j \in Jobs, ~InLoop(j),
           \A i \in Jobs \ {j} : /\ phase'[i] = phase[i] /\ kind'[i] = kind[i]
                                 /\ turnOf'[i] = turnOf[i] /\ prompts'[i] = prompts[i],
           UNCHANGED <<loops, flags, stopMark>>
    PROVE  LoopInv'
BY LoopsKept

(* The jobs stay where they are.                                           *)
LEMMA QuietKeepsLoops ==
    ASSUME AcpInv, UNCHANGED <<phase, kind, turnOf, prompts, stopMark>>,
           \A i \in Jobs : flags[i] \subseteq flags'[i],
           \A t \in Turns : loops'[t] \in {loops[t], NoJob}
    PROVE  LoopInv'
BY LoopsKept

LEMMA JobStepKeepsLoops ==
    ASSUME AcpInv, NEW j \in Jobs, JobStep(j)
    PROVE  LoopInv'
<1> USE Constants
<1>1. JobTypes /\ TypeOK /\ JobFacts(j) /\ LoopInv
  BY JobTypesHold DEF AcpInv, JobsInv
<1>2. /\ kind \in [Jobs -> {"none", "send", "loop", "steer", "resume"}]
      /\ turnOf \in [Jobs -> Turns \cup {NoTurn}]
      /\ prompts \in [Jobs -> 0..LoopLimit] /\ loops \in [Turns -> Jobs \cup {NoJob}]
      /\ flags \in [Jobs -> SUBSET {"stopped", "cancelled"}] /\ stopMark \in [Jobs -> 0..NoMark]
      /\ ref \in [Turns -> Sessions \cup {NoSession}] /\ loaded \subseteq Sessions
  BY <1>1 DEF TypeOK
<1>q. ASSUME UNCHANGED <<phase, kind, turnOf, prompts, loopVars, history>>
      PROVE  LoopInv'
  BY <1>q, QuietKeepsLoops DEF loopVars, history
<1>f. ASSUME Finish(j), UNCHANGED loops, Open(j), ~InLoop(j)
      PROVE  LoopInv'
  BY <1>1, <1>f, LoopEndKept DEF JobFacts
<1>3. CASE Answer(j)
  BY <1>3, <1>q DEF Answer
<1>4. CASE DrainFails(j)
  BY <1>4, <1>q DEF DrainFails
<1>5. CASE GetLock(j)
  <2>1. OthersKept(j)
    BY <1>1, <1>2, <1>5, EnsureStep DEF GetLock, JobFacts, Open
  <2> QED
    BY <1>5, <2>1, MoveKeepsLoops DEF GetLock, OthersKept, InLoop, loopVars, history
<1>6. CASE Initialized(j)
  <2>1. OthersKept(j)
    BY <1>1, <1>2, <1>6, GoOnStep DEF Initialized, JobFacts, Open
  <2> QED
    BY <1>6, <2>1, MoveKeepsLoops DEF Initialized, OthersKept, InLoop, loopVars, history
<1>7. CASE StartFails(j)
  <2>1. /\ phase' = [phase EXCEPT ![j] = "stopping"] /\ phase[j] = "starting"
        /\ UNCHANGED <<kind, turnOf, prompts, loopVars, history>>
    BY <1>7 DEF StartFails
  <2>2. \A i \in Jobs \ {j} : phase'[i] = phase[i]
    BY <1>1, <2>1 DEF JobTypes
  <2> QED
    BY <2>1, <2>2, MoveKeepsLoops DEF InLoop, loopVars, history
<1>8. CASE StopReturns(j)
  BY <1>8, <1>f DEF StopReturns, Open, InLoop
<1>9. CASE SessionReady(j)
  <2>1. CASE turn[turnOf[j]] = "deleted"
    BY <1>9, <1>f, <2>1 DEF SessionReady, Open, InLoop
  <2>2. CASE turn[turnOf[j]] # "deleted"
    <3>1. /\ phase' = [phase EXCEPT ![j] = "ready"] /\ phase[j] = "new"
          /\ UNCHANGED <<kind, turnOf, prompts, flags, stopMark, loops>>
      BY <1>9, <2>2 DEF SessionReady
    <3>2. \A i \in Jobs \ {j} : phase'[i] = phase[i]
      BY <1>1, <3>1 DEF JobTypes
    <3> QED
      BY <3>1, <3>2, MoveKeepsLoops DEF InLoop
  <2> QED
    BY <2>1, <2>2
<1>10. CASE SessionFails(j)
  BY <1>10, <1>f DEF SessionFails, Open, InLoop
<1>11. CASE PromptStarts(j)
  <2>1. /\ phase[j] = "ready" /\ Ask(j, "prompt") /\ prompts' = [prompts EXCEPT ![j] = 1]
        /\ UNCHANGED <<kind, turnOf, loopVars, history>>
    BY <1>11 DEF PromptStarts
  <2>2. \A i \in Jobs \ {j} : phase'[i] = phase[i] /\ prompts'[i] = prompts[i]
    BY <1>1, <1>2, <2>1, AskStep DEF Phases
  <2> QED
    BY <2>1, <2>2, MoveKeepsLoops DEF InLoop, loopVars, history
<1>12. CASE LoopStarts(j)
  <2>1. turnOf[j] \in Turns /\ phase[j] = "ready" /\ kind[j] = "loop" /\ stopMark[j] = NoMark
    BY <1>1, <1>12 DEF LoopStarts, JobFacts, Open, LoopInv, InLoop
  <2>2. CASE IsActive(turnOf[j])
    <3>1. /\ Ask(j, "prompt") /\ prompts' = [prompts EXCEPT ![j] = 1]
          /\ loops' = [loops EXCEPT ![turnOf[j]] = j]
          /\ UNCHANGED <<kind, turnOf, flags, stopMark>>
      BY <1>12, <2>2 DEF LoopStarts
    <3>2. /\ phase'[j] = "prompt"
          /\ \A i \in Jobs \ {j} : phase'[i] = phase[i] /\ prompts'[i] = prompts[i]
      BY <1>1, <1>2, <3>1, AskStep DEF Phases
    <3>3. ASSUME NEW t \in Turns, loops'[t] # NoJob
          PROVE  InLoop(loops[t])' /\ turnOf'[loops'[t]] = t
      <4>1. CASE t = turnOf[j]
        <5>1. loops'[t] = j
          BY <1>2, <3>1, <4>1
        <5> QED
          BY <2>1, <3>1, <3>2, <4>1, <5>1 DEF InLoop
      <4>2. CASE t # turnOf[j]
        <5>1. loops'[t] = loops[t] /\ loops[t] \in Jobs
          BY <1>2, <3>1, <3>3, <4>2
        <5>2. InLoop(loops[t]) /\ turnOf[loops[t]] = t /\ loops[t] # j
          BY <1>1, <3>3, <4>2, <5>1 DEF LoopInv
        <5> QED
          BY <3>1, <3>2, <5>1, <5>2 DEF InLoop
      <4> QED
        BY <4>1, <4>2
    <3>4. ASSUME NEW i \in Jobs, stopMark'[i] # NoMark
          PROVE  InLoop(i)' /\ "stopped" \in flags'[i] /\ prompts'[i] <= stopMark'[i]
      BY <1>1, <2>1, <3>1, <3>2, <3>4 DEF LoopInv, InLoop
    <3> QED
      BY <3>3, <3>4 DEF LoopInv, InLoop
  <2>3. CASE ~IsActive(turnOf[j])
    <3>1. Finish(j) /\ loops' = [loops EXCEPT ![turnOf[j]] = NoJob]
      BY <1>12, <2>3 DEF LoopStarts
    <3> QED
      BY <2>1, <3>1, LoopEndKept
  <2> QED
    BY <2>2, <2>3
<1>13. CASE PromptOver(j)
  BY <1>13, <1>f DEF PromptOver, Open, InLoop
<1>l. ASSUME LoopEnds(j), phase[j] = "prompt"
      PROVE  LoopInv'
  <2>1. turnOf[j] \in Turns
    BY <1>1, <1>l DEF JobFacts, Open
  <2> QED
    BY <1>l, <2>1, LoopEndKept DEF LoopEnds
<1>14. CASE LoopBreaks(j)
  BY <1>14, <1>l DEF LoopBreaks
<1>15. CASE LoopCompletes(j)
  BY <1>15, <1>l DEF LoopCompletes, IterationDone
<1>16. CASE LoopContinues(j)
  <2>1. stopMark[j] = NoMark
    BY <1>1, <1>16 DEF LoopContinues, MayContinue, LoopInv
  <2>2. /\ Ask(j, "prompt") /\ prompts' = [prompts EXCEPT ![j] = @ + 1] /\ phase[j] = "prompt"
        /\ UNCHANGED <<kind, turnOf, loops, flags, stopMark>>
    BY <1>16 DEF LoopContinues, IterationDone, loopVars, history
  <2>3. /\ phase'[j] = "prompt" /\ \A i \in Jobs : phase'[i] = phase[i]
        /\ \A i \in Jobs \ {j} : prompts'[i] = prompts[i]
    BY <1>1, <1>2, <2>2, AskStep DEF Phases
  <2>4. ASSUME NEW t \in Turns, loops'[t] # NoJob
        PROVE  InLoop(loops[t])' /\ turnOf'[loops'[t]] = t
    BY <1>1, <1>2, <2>2, <2>3, <2>4 DEF LoopInv, InLoop
  <2>5. ASSUME NEW i \in Jobs, stopMark'[i] # NoMark
        PROVE  InLoop(i)' /\ "stopped" \in flags'[i] /\ prompts'[i] <= stopMark'[i]
    BY <1>1, <2>1, <2>2, <2>3, <2>5 DEF LoopInv, InLoop
  <2> QED
    BY <2>4, <2>5 DEF LoopInv, InLoop
<1>17. CASE SteerOver(j)
  BY <1>17, <1>f DEF SteerOver, Open, InLoop
<1>18. CASE ResumeOver(j)
  BY <1>18, <1>f DEF ResumeOver, Open, InLoop
<1> QED
  BY <1>3, <1>4, <1>5, <1>6, <1>7, <1>8, <1>9, <1>10, <1>11, <1>12, <1>13, <1>14, <1>15,
     <1>16, <1>17, <1>18 DEF JobStep

LEMMA OtherStepKeepsLoops ==
    ASSUME AcpInv, [Next]_vars, ~\E j \in Jobs : JobStep(j)
    PROVE  LoopInv'
<1> USE Constants
<1>1. JobTypes /\ TypeOK /\ LoopInv
  BY JobTypesHold DEF AcpInv, JobsInv
<1>2. /\ kind \in [Jobs -> {"none", "send", "loop", "steer", "resume"}]
      /\ turnOf \in [Jobs -> Turns \cup {NoTurn}]
      /\ prompts \in [Jobs -> 0..LoopLimit] /\ loops \in [Turns -> Jobs \cup {NoJob}]
      /\ flags \in [Jobs -> SUBSET {"stopped", "cancelled"}] /\ stopMark \in [Jobs -> 0..NoMark]
      /\ ref \in [Turns -> Sessions \cup {NoSession}] /\ loaded \subseteq Sessions
  BY <1>1 DEF TypeOK
<1>q. ASSUME UNCHANGED <<phase, kind, turnOf, prompts, stopMark, loops, flags>>
      PROVE  LoopInv'
  BY <1>q, QuietKeepsLoops
<1>3. ASSUME NEW t \in Turns, NEW j \in Jobs, Send(j, t)
      PROVE  LoopInv'
  <2>1. OthersKept(j) /\ phase[j] = "idle"
    BY <1>1, <1>2, <1>3, EnterStep DEF Send
  <2>2. \A i \in Jobs \ {j} : kind'[i] = kind[i] /\ turnOf'[i] = turnOf[i]
    BY <1>2, <1>3 DEF Send
  <2>3. UNCHANGED <<prompts, loopVars, history>>
    BY <1>3 DEF Send
  <2> QED
    BY <2>1, <2>2, <2>3, MoveKeepsLoops DEF OthersKept, InLoop, loopVars, history
<1>4. ASSUME NEW t \in Turns, NEW j \in Jobs, Steer(j, t)
      PROVE  LoopInv'
  <2>1. phase[j] = "idle" /\ UNCHANGED <<prompts, loopVars, history>>
    BY <1>4 DEF Steer
  <2>2. \A i \in Jobs \ {j} : kind'[i] = kind[i] /\ turnOf'[i] = turnOf[i]
    BY <1>2, <1>4 DEF Steer
  <2>3. \A i \in Jobs \ {j} : phase'[i] = phase[i]
    BY <1>1, <1>4, AskStep DEF Steer, Phases, JobTypes
  <2> QED
    BY <2>1, <2>2, <2>3, MoveKeepsLoops DEF InLoop, loopVars, history
<1>5. ASSUME NEW t \in Turns, NEW j \in Jobs, Resume(j, t)
      PROVE  LoopInv'
  <2>1. phase[j] = "idle" /\ UNCHANGED <<prompts, loopVars, history>>
    BY <1>5 DEF Resume
  <2>2. \A i \in Jobs \ {j} : kind'[i] = kind[i] /\ turnOf'[i] = turnOf[i]
    BY <1>2, <1>5 DEF Resume
  <2>3. \A i \in Jobs \ {j} : phase'[i] = phase[i]
    BY <1>1, <1>2, <1>5, EnterStep DEF Resume, OthersKept, JobTypes
  <2> QED
    BY <2>1, <2>2, <2>3, MoveKeepsLoops DEF InLoop, loopVars, history
<1>6. ASSUME NEW t \in Turns, Cancel(t)
      PROVE  LoopInv'
  <2>1. UNCHANGED <<work, loops, history>>
    BY <1>6 DEF Cancel
  <2>2. flags' = flags \/ flags' = [flags EXCEPT ![loops[t]] = @ \cup {"cancelled"}]
    BY <1>6 DEF Cancel
  <2>3. \A i \in Jobs : flags[i] \subseteq flags'[i]
    BY <1>2, <2>2
  <2> QED
    BY <2>1, <2>3, QuietKeepsLoops DEF work, history
<1>7. ASSUME NEW t \in Turns, StopLoop(t)
      PROVE  LoopInv'
  <2> DEFINE j == loops[t]
  <2>1. /\ j \in Jobs /\ InLoop(j)
        /\ flags' = [flags EXCEPT ![j] = @ \cup {"stopped"}]
        /\ stopMark' = [stopMark EXCEPT ![j] = prompts[j]]
        /\ UNCHANGED <<phase, kind, turnOf, prompts, loops>>
    BY <1>1, <1>2, <1>7 DEF StopLoop, LoopInv, work
  <2> HIDE DEF j
  <2>2. /\ "stopped" \in flags'[j] /\ stopMark'[j] = prompts[j] /\ prompts[j] \in Nat
        /\ \A i \in Jobs \ {j} : flags'[i] = flags[i] /\ stopMark'[i] = stopMark[i]
    BY <1>2, <2>1
  <2>3. ASSUME NEW i \in Jobs, stopMark'[i] # NoMark
        PROVE  InLoop(i)' /\ "stopped" \in flags'[i] /\ prompts'[i] <= stopMark'[i]
    <3>1. CASE i = j
      BY <2>1, <2>2, <3>1 DEF InLoop
    <3>2. CASE i # j
      BY <1>1, <2>1, <2>2, <2>3, <3>2 DEF LoopInv, InLoop
    <3> QED
      BY <3>1, <3>2
  <2> QED
    BY <1>1, <2>1, <2>3 DEF LoopInv, InLoop
<1>8. CASE ReaderSeesEnd
  <2>1. /\ UNCHANGED <<phase, kind, turnOf, prompts, stopMark>>
        /\ \A i \in Jobs : flags[i] \subseteq flags'[i]
        /\ \A t \in Turns : loops'[t] \in {loops[t], NoJob}
    BY <1>2, <1>8 DEF ReaderSeesEnd, history
  <2> QED
    BY <2>1, QuietKeepsLoops
<1>9. CASE UNCHANGED vars
  BY <1>9, <1>q DEF vars, work, loopVars, history
<1>10. ASSUME NEW t \in Turns, DeleteTurn(t) \/ CancelReturns(t)
       PROVE  LoopInv'
  BY <1>10, <1>q DEF DeleteTurn, CancelReturns, work, loopVars, history
<1>11. ASSUME NEW p \in Permissions, NEW s \in Sessions, PermissionAsked(p, s)
       PROVE  LoopInv'
  BY <1>11, <1>q DEF PermissionAsked, work, loopVars, history
<1>12. ASSUME NEW p \in Permissions, Respond(p) \/ ResponseWritten(p)
       PROVE  LoopInv'
  BY <1>12, <1>q DEF Respond, ResponseWritten, work, loopVars, history
<1>13. ASSUME NEW s \in Sessions, UpdateOfDeletedTurn(s)
       PROVE  LoopInv'
  BY <1>13, <1>q DEF UpdateOfDeletedTurn, work, loopVars, history
<1>14. CASE ProcessDies \/ ExitIsKnown
  BY <1>14, <1>q DEF ProcessDies, ExitIsKnown, work, loopVars, history
<1> QED
  BY <1>3, <1>4, <1>5, <1>6, <1>7, <1>8, <1>9, <1>10, <1>11, <1>12, <1>13, <1>14
  DEF Next, UserStep

LEMMA AcpConsistent == Spec => []AcpInv
<1>1. Init => AcpInv
  <2> SUFFICES ASSUME Init PROVE AcpInv
    OBVIOUS
  <2>1. LoopInv
    BY DEF Init, LoopInv
  <2> QED
    BY <2>1, JobsConsistent DEF AcpInv
<1>2. AcpInv /\ [Next]_vars => AcpInv'
  BY JobsConsistent, JobStepKeepsLoops, OtherStepKeepsLoops DEF AcpInv
<1> QED
  BY <1>1, <1>2, PTL DEF Spec

-----------------------------------------------------------------------------
(* The state of the adapter, of DSH and of the requests in flight is well  *)
(* typed: no session is bound, loaded or resumed that DSH did not create.  *)
THEOREM AcpTyped == Spec => []TypeOK
<1> QED
  BY AcpConsistent, PTL DEF AcpInv, JobsInv

(* Stop ends Loop Mode (kanaloa_runtime.py): no steer, answer or death of  *)
(* the subprocess lets a stopped loop start another iteration.             *)
THEOREM StopHolds == Spec => []StopEndsLoop
<1>1. AcpInv => StopEndsLoop
  BY DEF AcpInv, LoopInv, StopEndsLoop
<1> QED
  BY <1>1, AcpConsistent, PTL

(* A Turn finishes only on a completed outcome (_execute_prompt and the    *)
(* loop), never from silence, a lost process or a withdrawn request.       *)
THEOREM CompletionHolds == Spec => CompletionNeedsAnAnswer
<1>1. ASSUME JobsInv, [Next]_vars, NEW t \in Turns, turn'[t] = "finished", turn[t] # "finished"
      PROVE  \E j \in Jobs : /\ turnOf[j] = t /\ future[j] = "completed"
                            /\ Open(j) /\ phase'[j] = "over"
  <2>1. JobTypes /\ turn \in [Turns -> Active \cup Settled \cup {"deleted"}]
    BY <1>1, JobTypesHold DEF JobsInv, TypeOK
  <2>2. ASSUME NEW u, NEW s, Emit(u, s) \/ EmitIfActive(u, s)
        PROVE  u = t /\ s = "finished"
    BY <1>1, <2>1, <2>2 DEF Emit, EmitIfActive
  <2>3. turn' # turn
    BY <1>1
  <2>4. ASSUME NEW j \in Jobs, PromptOver(j)
        PROVE  turnOf[j] = t /\ future[j] = "completed" /\ Open(j) /\ phase'[j] = "over"
    <3>1. phase[j] = "prompt" /\ Finish(j)
      BY <2>4 DEF PromptOver
    <3>2. turnOf[j] = t /\ future[j] = "completed"
      BY <2>2, <2>4 DEF PromptOver
    <3> QED
      BY <2>1, <3>1, <3>2, FinishStep DEF Open
  <2>5. ASSUME NEW j \in Jobs, LoopCompletes(j)
        PROVE  turnOf[j] = t /\ future[j] = "completed" /\ Open(j) /\ phase'[j] = "over"
    <3>1. phase[j] = "prompt" /\ future[j] = "completed" /\ Finish(j) /\ turnOf[j] = t
      BY <2>2, <2>5 DEF LoopCompletes, IterationDone, LoopEnds
    <3> QED
      BY <2>1, <3>1, FinishStep DEF Open
  <2>6. ASSUME NEW j \in Jobs, JobStep(j), ~PromptOver(j), ~LoopCompletes(j)
        PROVE  FALSE
    BY <2>2, <2>3, <2>6
    DEF JobStep, Answer, DrainFails, GetLock, Initialized, StartFails, StopReturns, SessionReady,
        SessionFails, PromptStarts, LoopStarts, LoopBreaks, LoopContinues, SteerOver, ResumeOver, turns
  <2>7. ASSUME NEW u \in Turns, UserStep(u) \/ CancelReturns(u)
        PROVE  FALSE
    <3>1. ~DeleteTurn(u)
      BY <1>1, <2>1 DEF DeleteTurn
    <3> QED
      BY <2>2, <2>3, <2>7, <3>1 DEF UserStep, Send, Steer, Resume, Cancel, StopLoop, CancelReturns, turns
  <2>8. ~ReaderSeesEnd
    BY <1>1, <2>1 DEF ReaderSeesEnd
  <2>9. ASSUME NEW p \in Permissions, NEW s \in Sessions, PermissionAsked(p, s)
        PROVE  FALSE
    BY <2>2, <2>9 DEF PermissionAsked
  <2>10. ASSUME NEW p \in Permissions, Respond(p) \/ ResponseWritten(p)
         PROVE  FALSE
    BY <2>2, <2>3, <2>10 DEF Respond, ResponseWritten, turns
  <2>11. ASSUME \/ \E s \in Sessions : UpdateOfDeletedTurn(s)
                \/ ProcessDies \/ ExitIsKnown \/ UNCHANGED vars
         PROVE  FALSE
    BY <2>3, <2>11 DEF UpdateOfDeletedTurn, ProcessDies, ExitIsKnown, vars, turns
  <2> QED
    BY <1>1, <2>4, <2>5, <2>6, <2>7, <2>8, <2>9, <2>10, <2>11 DEF Next
<1>2. AcpInv /\ [Next]_vars =>
        \A t \in Turns : turn'[t] = "finished" /\ turn[t] # "finished" =>
          \E j \in Jobs : /\ turnOf[j] = t /\ future[j] = "completed"
                          /\ Open(j) /\ phase'[j] = "over"
  BY <1>1 DEF AcpInv
<1> QED
  BY <1>2, AcpConsistent, PTL DEF Spec, CompletionNeedsAnAnswer
=============================================================================
