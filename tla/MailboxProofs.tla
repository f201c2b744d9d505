---------------------------- MODULE MailboxProofs ----------------------------
(***************************************************************************)
(* Proofs about Harness, continued: who is going to deliver an input, and  *)
(* what the mailboxes hold.                                                *)
(***************************************************************************)
EXTENDS HarnessProofs

Sorted(s) == \A i, j \in 1..Len(s) : i < j => s[i] < s[j]
Held(t)   == {mailbox[t][i] : i \in 1..Len(mailbox[t])}

(* A pending input is in one place: with the handler that appended it,     *)
(* with a task, in its Turn's mailbox, or still on the list of startup.    *)
HasOwner(m) ==
    \/ call[m] \in {"appended", "saved"}
    \/ job[m] = "scheduled"
    \/ m \in Held(turnOf[m])

Idle(m) == call[m] = "idle" /\ job[m] = "idle"

HeldInv ==
    \A t \in Turns :
        /\ Sorted(mailbox[t])
        /\ \A m \in Held(t) : /\ turnOf[m] = t /\ Idle(m)
                              /\ turn[t].status # "deleted" => row[m] = "pending"

PhaseInv ==
    /\ phase \in {"down", "probing"} =>
          (\A m \in Msgs : Idle(m)) /\ (\A t \in Turns : mailbox[t] = <<>>)
    /\ phase = "settling" =>
          /\ \A m \in Msgs : call[m] = "idle"
          /\ \A m \in toSettle, t \in Turns : \A k \in Held(t) : k < m

OwnedInv ==
    /\ \A m \in Msgs : ~(call[m] \in {"appended", "saved"} /\ job[m] = "scheduled")
    /\ phase \in {"up", "settling"} =>
          \A m \in 1..n : row[m] = "pending" =>
              m \in skipped \/ (phase = "settling" /\ m \in toSettle) \/ HasOwner(m)

OwnerInv == HeldInv /\ PhaseInv /\ OwnedInv

-----------------------------------------------------------------------------
(* Mailboxes as sorted sequences.                                          *)

LEMMA HeldTypes ==
    ASSUME TypeOK, NEW t \in Turns
    PROVE  /\ mailbox[t] \in Seq(1..n) /\ Len(mailbox[t]) \in Nat
           /\ \A i \in 1..Len(mailbox[t]) : mailbox[t][i] \in 1..n /\ mailbox[t][i] \in Held(t)
           /\ \A m \in Held(t) : m \in 1..n /\ m \in Msgs /\ m \in Nat
<1>1. mailbox[t] \in Seq(1..n) /\ n \in 0..MaxMsgs
  BY DEF TypeOK
<1>2. \A i \in 1..Len(mailbox[t]) : mailbox[t][i] \in 1..n
  BY <1>1
<1>3. \A m \in 1..n : m \in Msgs /\ m \in Nat
  BY <1>1, HarnessAssumption DEF Msgs
<1> QED
  BY <1>1, <1>2, <1>3 DEF Held

LEMMA AppendSorted ==
    ASSUME NEW k \in Nat, NEW s \in Seq(1..k), Sorted(s), NEW x \in Nat,
           \A i \in 1..Len(s) : s[i] < x
    PROVE  /\ Sorted(Append(s, x))
           /\ {Append(s, x)[i] : i \in 1..Len(Append(s, x))} = {s[i] : i \in 1..Len(s)} \cup {x}
<1> DEFINE a == Append(s, x)
<1>1. /\ Len(a) = Len(s) + 1 /\ Len(s) \in Nat
      /\ \A i \in 1..Len(s) : a[i] = s[i]
      /\ a[Len(s) + 1] = x
  OBVIOUS
<1>2. \A i \in 1..Len(a) : i \in 1..Len(s) \/ i = Len(s) + 1
  BY <1>1
<1>3. \A i \in 1..Len(s) : i \in 1..Len(a)
  BY <1>1
<1>4. Len(s) + 1 \in 1..Len(a)
  BY <1>1
<1>5. ASSUME NEW i \in 1..Len(a), NEW j \in 1..Len(a), i < j
      PROVE  a[i] < a[j]
  <2>1. i \in 1..Len(s)
    BY <1>1, <1>5
  <2>2. CASE j \in 1..Len(s)
    BY <1>1, <1>5, <2>1, <2>2 DEF Sorted
  <2>3. CASE j = Len(s) + 1
    BY <1>1, <2>1, <2>3
  <2> QED
    BY <1>2, <2>2, <2>3
<1> HIDE DEF a
<1>6. {a[i] : i \in 1..Len(a)} = {s[i] : i \in 1..Len(s)} \cup {x}
  <2>1. ASSUME NEW v \in {a[i] : i \in 1..Len(a)}
        PROVE  v \in {s[i] : i \in 1..Len(s)} \cup {x}
    <3>1. PICK i \in 1..Len(a) : v = a[i]
      OBVIOUS
    <3> QED
      BY <1>1, <1>2, <3>1
  <2>2. ASSUME NEW v \in {s[i] : i \in 1..Len(s)} \cup {x}
        PROVE  v \in {a[i] : i \in 1..Len(a)}
    <3>1. CASE v = x
      BY <1>1, <1>4, <3>1
    <3>2. CASE v # x
      <4>1. PICK i \in 1..Len(s) : v = s[i]
        BY <3>2
      <4> QED
        BY <1>1, <1>3, <4>1
    <3> QED
      BY <3>1, <3>2
  <2> QED
    BY <2>1, <2>2
<1> QED
  BY <1>5, <1>6 DEF Sorted, a

LEMMA TailSorted ==
    ASSUME NEW k \in Nat, NEW s \in Seq(1..k), Sorted(s), s # <<>>
    PROVE  /\ Sorted(Tail(s)) /\ Head(s) \in {s[i] : i \in 1..Len(s)}
           /\ {Tail(s)[i] : i \in 1..Len(Tail(s))} = {s[i] : i \in 1..Len(s)} \ {Head(s)}
<1> DEFINE r == Tail(s)
<1>1. /\ Len(s) \in Nat /\ Len(s) >= 1 /\ Len(r) = Len(s) - 1 /\ Head(s) = s[1]
      /\ \A i \in 1..Len(r) : r[i] = s[i + 1]
  OBVIOUS
<1>2. \A i \in 1..Len(s) : s[i] \in Nat
  OBVIOUS
<1> HIDE DEF r
<1>3. \A i \in 1..Len(r) : i + 1 \in 1..Len(s) /\ i \in Int
  BY <1>1
<1>4. \A i \in 1..Len(s) : i # 1 => i - 1 \in 1..Len(r) /\ s[i] = r[i - 1]
  BY <1>1
<1>5. 1 \in 1..Len(s)
  BY <1>1
<1>6. \A i \in 1..Len(s) : i # 1 => s[1] < s[i]
  BY <1>5 DEF Sorted
<1>7. Sorted(r)
  BY <1>1, <1>3 DEF Sorted
<1>8. {r[i] : i \in 1..Len(r)} = {s[i] : i \in 1..Len(s)} \ {s[1]}
  <2>1. ASSUME NEW v \in {r[i] : i \in 1..Len(r)}
        PROVE  v \in {s[i] : i \in 1..Len(s)} \ {s[1]}
    <3>1. PICK i \in 1..Len(r) : v = r[i]
      OBVIOUS
    <3>2. i + 1 \in 1..Len(s) /\ i + 1 # 1 /\ v = s[i + 1]
      BY <1>1, <1>3, <3>1
    <3>3. s[1] < v /\ v \in Nat /\ s[1] \in Nat
      BY <1>2, <1>5, <1>6, <3>2
    <3> QED
      BY <3>2, <3>3
  <2>2. ASSUME NEW v \in {s[i] : i \in 1..Len(s)} \ {s[1]}
        PROVE  v \in {r[i] : i \in 1..Len(r)}
    <3>1. PICK i \in 1..Len(s) : v = s[i] /\ i # 1
      OBVIOUS
    <3> QED
      BY <1>4, <3>1
  <2> QED
    BY <2>1, <2>2
<1> QED
  BY <1>1, <1>5, <1>7, <1>8 DEF r

LEMMA RemoveSorted ==
    ASSUME NEW k \in Nat, NEW s \in Seq(1..k), Sorted(s), NEW x \in 1..Len(s)
    PROVE  /\ Sorted(RemoveAt(s, x))
           /\ {RemoveAt(s, x)[i] : i \in 1..Len(RemoveAt(s, x))} =
                  {s[i] : i \in 1..Len(s)} \ {s[x]}
<1> DEFINE r == RemoveAt(s, x)
<1>1. Len(s) \in Nat /\ x \in Nat /\ x <= Len(s) /\ x >= 1
  OBVIOUS
<1>2. /\ SubSeq(s, 1, x - 1) \in Seq(1..k) /\ Len(SubSeq(s, 1, x - 1)) = x - 1
      /\ \A i \in 1..(x - 1) : SubSeq(s, 1, x - 1)[i] = s[i]
  BY <1>1
<1>3. /\ SubSeq(s, x + 1, Len(s)) \in Seq(1..k)
      /\ Len(SubSeq(s, x + 1, Len(s))) = Len(s) - x
      /\ \A i \in 1..(Len(s) - x) : SubSeq(s, x + 1, Len(s))[i] = s[i + x]
  BY <1>1
<1> DEFINE a == SubSeq(s, 1, x - 1)
           b == SubSeq(s, x + 1, Len(s))
<1>9. r = a \o b
  BY DEF RemoveAt
<1> HIDE DEF a, b
<1>10. /\ Len(a) = x - 1 /\ Len(b) = Len(s) - x
       /\ a \in Seq(1..k) /\ b \in Seq(1..k)
       /\ \A i \in 1..(x - 1) : a[i] = s[i]
       /\ \A i \in 1..(Len(s) - x) : b[i] = s[i + x]
  BY <1>2, <1>3 DEF a, b
<1>11. /\ Len(r) = Len(a) + Len(b)
       /\ \A i \in 1..(Len(a) + Len(b)) : r[i] = IF i <= Len(a) THEN a[i] ELSE b[i - Len(a)]
  <2>1. /\ Len(a \o b) = Len(a) + Len(b)
        /\ \A i \in 1..(Len(a) + Len(b)) :
              (a \o b)[i] = IF i <= Len(a) THEN a[i] ELSE b[i - Len(a)]
    <3>1. a \in Seq(1..k) /\ b \in Seq(1..k)
      BY <1>10
    <3> QED
      BY ONLY <3>1, ConcatProperties
  <2> QED
    BY <1>9, <2>1
<1>4. /\ Len(r) = Len(s) - 1
      /\ \A i \in 1..(Len(s) - 1) : r[i] = IF i < x THEN s[i] ELSE s[i + 1]
  <2>1. Len(r) = Len(s) - 1
    BY <1>1, <1>10, <1>11
  <2>2. ASSUME NEW i \in 1..(Len(s) - 1)
        PROVE  r[i] = IF i < x THEN s[i] ELSE s[i + 1]
    <3>1. i \in 1..(Len(a) + Len(b))
      BY <1>1, <1>10
    <3>2. CASE i < x
      <4>1. i \in 1..(x - 1) /\ i <= Len(a)
        BY <1>1, <1>10, <3>2
      <4> QED
        BY <1>10, <1>11, <3>1, <3>2, <4>1
    <3>3. CASE ~(i < x)
      <4>1. /\ i - (x - 1) \in 1..(Len(s) - x) /\ ~(i <= Len(a))
            /\ i - (x - 1) + x = i + 1
        BY <1>1, <1>10, <3>3
      <4>2. r[i] = b[i - (x - 1)]
        BY <1>10, <1>11, <3>1, <4>1
      <4>3. b[i - (x - 1)] = s[i - (x - 1) + x]
        BY <1>10, <4>1
      <4> QED
        BY <3>3, <4>1, <4>2, <4>3
    <3> QED
      BY <3>2, <3>3
  <2> QED
    BY <2>1, <2>2
<1> HIDE DEF r
<1>5. \A i \in 1..Len(s) : s[i] \in Nat
  OBVIOUS
<1>6. \A i \in 1..Len(r) : i \in 1..Len(s) /\ i + 1 \in 1..Len(s) /\ i \in Nat
  BY <1>1, <1>4
<1>7. Sorted(r)
  <2> SUFFICES ASSUME NEW i \in 1..Len(r), NEW j \in 1..Len(r), i < j
               PROVE  r[i] < r[j]
    BY DEF Sorted
  <2>1. \A p, q \in 1..Len(s) : p < q => s[p] < s[q]
    BY DEF Sorted
  <2>2. /\ i \in 1..Len(s) /\ i + 1 \in 1..Len(s) /\ j \in 1..Len(s) /\ j + 1 \in 1..Len(s)
        /\ i \in Nat /\ j \in Nat
    BY <1>6
  <2>3. CASE j < x
    BY <1>1, <1>4, <2>1, <2>2, <2>3
  <2>4. CASE ~(j < x)
    <3>1. r[j] = s[j + 1]
      BY <1>1, <1>4, <2>4
    <3>2. r[i] \in {s[i], s[i + 1]}
      BY <1>1, <1>4
    <3> QED
      BY <1>1, <2>1, <2>2, <3>1, <3>2
  <2> QED
    BY <2>3, <2>4
<1>8. {r[i] : i \in 1..Len(r)} = {s[i] : i \in 1..Len(s)} \ {s[x]}
  <2>1. \A p, q \in 1..Len(s) : p < q => s[p] < s[q]
    BY DEF Sorted
  <2>2. ASSUME NEW v \in {r[i] : i \in 1..Len(r)}
        PROVE  v \in {s[i] : i \in 1..Len(s)} \ {s[x]}
    <3>1. PICK i \in 1..Len(r) : v = r[i]
      OBVIOUS
    <3>2. CASE i < x
      <4>1. v = s[i] /\ s[i] < s[x] /\ i \in 1..Len(s)
        BY <1>1, <1>4, <1>6, <2>1, <3>1, <3>2
      <4>2. s[i] \in Nat /\ s[x] \in Nat
        BY <1>5, <4>1
      <4> QED
        BY <4>1, <4>2
    <3>3. CASE ~(i < x)
      <4>3. i \in Nat /\ i + 1 \in 1..Len(s) /\ i \in 1..(Len(s) - 1)
        BY <1>4, <1>6
      <4>4. x < i + 1
        BY <1>1, <3>3, <4>3
      <4>1. v = s[i + 1] /\ i + 1 \in 1..Len(s) /\ x < i + 1
        BY <1>4, <3>1, <3>3, <4>3, <4>4
      <4>2. s[x] < s[i + 1] /\ s[i + 1] \in Nat /\ s[x] \in Nat
        BY <1>5, <2>1, <4>1
      <4> QED
        BY <4>1, <4>2
    <3> QED
      BY <3>2, <3>3
  <2>3. ASSUME NEW v \in {s[i] : i \in 1..Len(s)} \ {s[x]}
        PROVE  v \in {r[i] : i \in 1..Len(r)}
    <3>1. PICK i \in 1..Len(s) : v = s[i] /\ i # x
      OBVIOUS
    <3>2. CASE i < x
      <4>1. i \in 1..Len(r) /\ r[i] = v
        BY <1>1, <1>4, <3>1, <3>2
      <4> QED
        BY <4>1
    <3>3. CASE ~(i < x)
      <4>1. i - 1 \in 1..Len(r) /\ r[i - 1] = v
        BY <1>1, <1>4, <3>1, <3>3
      <4> QED
        BY <4>1
    <3> QED
      BY <3>2, <3>3
  <2> QED
    BY <2>2, <2>3
<1> QED
  BY <1>7, <1>8 DEF r

-----------------------------------------------------------------------------
(* What a step may do to an input, so that its ownership stays clear.      *)

RowKept(m) == row'[m] = row[m] \/ (row[m] # "pending" /\ row'[m] # "pending")

(* It stays where it is, *)
Stays(m) ==
    /\ RowKept(m)
    /\ \/ call'[m] = call[m]
       \/ call[m] = "appended" /\ call'[m] = "saved"
       \/ call[m] \in {"claimed", "awaiting"} /\ call'[m] \in {"awaiting", "idle"}
    /\ \/ job'[m] = job[m]
       \/ job[m] \in {"claimed", "saved", "awaiting"} /\ job'[m] \in {"saved", "awaiting", "idle"}
    /\ \A t \in Turns : m \in Held(t) => m \in Held(t)'
    /\ m \in toSettle /\ m \notin toSettle' => row'[m] # "pending" \/ m \in skipped' \/ phase = "up"

(* it is claimed, *)
Taken(m) ==
    /\ row'[m] # "pending"
    /\ \A t \in Turns : m \notin Held(t)'
    /\ ~(call'[m] \in {"appended", "saved"} /\ job'[m] = "scheduled")
    /\ phase \in {"down", "probing"} => Idle(m)'
    /\ phase # "up" => call'[m] = "idle"

(* or its mailbox hands it to a task.                                      *)
Scheduled(m) ==
    /\ \A t \in Turns : m \notin Held(t)'
    /\ call'[m] = "idle" /\ job'[m] = "scheduled"
    /\ phase \in {"up", "settling"}

(* The inputs of a deleted Turn stay with it.                              *)
LEMMA StaysWithdrawn ==
    ASSUME LedgerInv, GoodStep, NEW m \in Msgs, m \in 1..n, turnOf' = turnOf, n' = n,
           turn[turnOf[m]].status = "deleted"
    PROVE  turn'[turnOf[m]].status = "deleted"
<1>1. StageOf(m) = "withdrawn" /\ ~(m > n)
  BY HarnessAssumption DEF StageOf, LedgerInv, TypeOK
<1>2. \A k \in Msgs : StageOf(k) # "withdrawn" => k # m
  BY <1>1
<1>3. StageOf(m)' = "withdrawn"
  BY <1>1, <1>2, Zenon
  DEF GoodStep, LedgerMove, Ledger!ledgerVars, Ledger!LedgerNext, Ledger!Accept,
      Ledger!Claim, Ledger!Deliver, Ledger!Settle, Ledger!Withdraw
<1> QED
  BY <1>1, <1>3 DEF StageOf

LEMMA OwnerStep ==
    ASSUME LedgerInv, OwnerInv, GoodStep,
           UNCHANGED <<n, turnOf, phase>>, toSettle' \subseteq toSettle, skipped \subseteq skipped',
           \A t \in Turns : Sorted(mailbox'[t]) /\ \A m \in Held(t)' : m \in Held(t),
           phase \in {"down", "probing"} => UNCHANGED mailbox,
           \A m \in Msgs : Stays(m) \/ Taken(m) \/ Scheduled(m)
    PROVE  OwnerInv'
<1>1. TypeOK /\ HeldInv /\ PhaseInv /\ OwnedInv
  BY DEF LedgerInv, OwnerInv
<1>2. \A t \in Turns : \A m \in Held(t) : m \in 1..n /\ m \in Msgs /\ m \in Nat
  BY <1>1, HeldTypes
<1>3. \A m \in 1..n : m \in Msgs /\ turnOf[m] \in Turns
  BY <1>1, AcceptedInputs
<1>4. HeldInv'
  <2> SUFFICES ASSUME NEW t \in Turns, NEW m \in Held(t)'
               PROVE  /\ turnOf'[m] = t /\ Idle(m)'
                      /\ turn'[t].status # "deleted" => row'[m] = "pending"
    BY DEF HeldInv
  <2>1. m \in Held(t) /\ m \in Msgs
    BY <1>2
  <2>2. turnOf[m] = t /\ Idle(m) /\ (turn[t].status # "deleted" => row[m] = "pending")
    BY <1>1, <2>1 DEF HeldInv
  <2>3. Stays(m)
    BY <2>1 DEF Taken, Scheduled
  <2>4. turn'[t].status # "deleted" => turn[t].status # "deleted"
    BY <2>1, <2>2, <1>2, StaysWithdrawn
  <2> QED
    BY <2>2, <2>3, <2>4 DEF Stays, RowKept, Idle
<1>5. PhaseInv'
  <2>1. ASSUME phase \in {"down", "probing"}
        PROVE  (\A m \in Msgs : Idle(m)') /\ (\A t \in Turns : mailbox'[t] = <<>>)
    <3>1. (\A m \in Msgs : Idle(m)) /\ (\A t \in Turns : mailbox[t] = <<>>)
      BY <1>1, <2>1 DEF PhaseInv
    <3> QED
      BY <2>1, <3>1 DEF Idle, Stays, Taken, Scheduled
  <2>2. ASSUME phase = "settling"
        PROVE  /\ \A m \in Msgs : call'[m] = "idle"
               /\ \A m \in toSettle', t \in Turns : \A i \in Held(t)' : i < m
    <3>1. /\ \A m \in Msgs : call[m] = "idle"
          /\ \A m \in toSettle, t \in Turns : \A i \in Held(t) : i < m
      BY <1>1, <2>2 DEF PhaseInv
    <3> QED
      BY <2>2, <3>1 DEF Stays, Taken, Scheduled
  <2> QED
    BY <2>1, <2>2 DEF PhaseInv
<1>6. OwnedInv'
  <2>1. ASSUME NEW m \in Msgs
        PROVE  ~(call'[m] \in {"appended", "saved"} /\ job'[m] = "scheduled")
    BY <1>1 DEF OwnedInv, Stays, Taken, Scheduled
  <2>2. ASSUME phase \in {"up", "settling"}, NEW m \in 1..n, row'[m] = "pending"
        PROVE  m \in skipped' \/ (phase = "settling" /\ m \in toSettle') \/ HasOwner(m)'
    <3>1. m \in Msgs /\ turnOf[m] \in Turns
      BY <1>3, <2>2
    <3>2. CASE Scheduled(m)
      BY <3>2 DEF Scheduled, HasOwner
    <3>3. CASE Stays(m)
      <4>1. row[m] = "pending"
        BY <2>2, <3>3 DEF Stays, RowKept
      <4>2. m \in skipped \/ (phase = "settling" /\ m \in toSettle) \/ HasOwner(m)
        BY <1>1, <2>2, <4>1 DEF OwnedInv
      <4>3. HasOwner(m) => HasOwner(m)'
        BY <3>1, <3>3 DEF HasOwner, Stays
      <4> QED
        BY <2>2, <3>3, <4>2, <4>3 DEF Stays
    <3> QED
      BY <2>2, <3>1, <3>2, <3>3 DEF Taken
  <2> QED
    BY <2>1, <2>2 DEF OwnedInv
<1> QED
  BY <1>4, <1>5, <1>6 DEF OwnerInv

(* Steps that move at most one input and leave the mailboxes alone.        *)
LEMMA OneInputMoves ==
    ASSUME LedgerInv, OwnerInv, GoodStep, NEW m,
           UNCHANGED <<n, turnOf, phase, mailbox>>,
           skipped \subseteq skipped', toSettle' \subseteq toSettle,
           toSettle \subseteq toSettle' \cup {m},
           \A k \in Msgs \ {m} : /\ row'[k] = row[k]
                                 /\ call'[k] = call[k]
                                 /\ job'[k] = job[k],
           m \in Msgs => Stays(m) \/ Taken(m)
    PROVE  OwnerInv'
<1>1. \A t \in Turns : Held(t)' = Held(t)
  BY DEF Held
<1>2. \A k \in Msgs \ {m} : Stays(k)
  BY <1>1 DEF Stays, RowKept
<1>3. \A t \in Turns : Sorted(mailbox'[t])
  BY DEF OwnerInv, HeldInv
<1> QED
  BY <1>1, <1>2, <1>3, OwnerStep

(* Steps that move no input at all.                                        *)
LEMMA NoInputMoves ==
    ASSUME LedgerInv, OwnerInv, GoodStep,
           UNCHANGED <<n, turnOf, row, phase, mailbox, call, job, toSettle, skipped>>
    PROVE  OwnerInv'
<1>1. \A m \in Msgs : Stays(m)
  BY DEF Stays, RowKept, Held
<1> QED
  BY <1>1, OneInputMoves

(* An input that is with a coroutine is in no mailbox.                     *)
LEMMA BusyIsNotHeld ==
    ASSUME OwnerInv, NEW m \in Msgs, ~Idle(m)
    PROVE  \A t \in Turns : m \notin Held(t)
BY DEF OwnerInv, HeldInv

-----------------------------------------------------------------------------
(* The actions.                                                            *)

LEMMA OwnerUserStep ==
    ASSUME LedgerInv, OwnerInv, GoodStep,
           \/ \E t \in Turns : CreateTurn(t) \/ CancelTurn(t) \/ ResumeTurn(t)
           \/ DisconnectReturns \/ DisconnectAgent \/ RemoveAgent \/ PairAgent
           \/ \E t \in Turns : ControlAnswers(t)
           \/ \E t \in Turns : KeepUnsent(t) \/ KeepLive(t) \/ InterruptLost(t)
    PROVE  OwnerInv'
<1> USE DEF ledgerState, startup, process
<1>1. UNCHANGED <<n, turnOf, row, phase, mailbox, call, job, toSettle, skipped>>
  BY DEF CreateTurn, CancelTurn, ResumeTurn, DisconnectReturns, DisconnectAgent, RemoveAgent, PairAgent,
         ControlAnswers, CancelReturns, ResumeReturns, KeepUnsent, KeepLive, InterruptLost
<1> QED
  BY <1>1, NoInputMoves

LEMMA OwnerEventStep ==
    ASSUME LedgerInv, OwnerInv, GoodStep,
           \/ \E t \in Turns : \/ AgentBound(t) \/ AgentDelta(t) \/ AgentReplies(t)
                               \/ AgentWaits(t) \/ AgentResumed(t)
                               \/ AgentInterrupted(t) \/ AgentFailed(t)
           \/ AgentDetaches \/ AgentAttaches
    PROVE  OwnerInv'
<1> USE DEF ledgerState, startup, process
<1>1. UNCHANGED <<n, turnOf, row, phase, mailbox, call, job, toSettle, skipped>>
  BY DEF AgentBound, AgentDelta, AgentReplies, AgentWaits, AgentResumed, AgentInterrupted,
         AgentFailed, AgentMoves, AgentDetaches, AgentAttaches
<1> QED
  BY <1>1, NoInputMoves

LEMMA OwnerHandlerStep ==
    ASSUME LedgerInv, OwnerInv, GoodStep, NEW m \in Msgs,
           \/ DispatchRevive(m) \/ DispatchClaim(m) \/ DispatchDeliver(m)
           \/ DispatchAccepted(m) \/ DispatchFailed(m)
    PROVE  OwnerInv'
<1> USE DEF ledgerState, startup, process
<1>1. ~Idle(m) /\ phase = "up"
  BY DEF DispatchRevive, DispatchClaim, DispatchDeliver, DispatchAccepted, DispatchFailed,
         Idle, OwnerInv, PhaseInv, LedgerInv, TypeOK
<1>2. \A t \in Turns : m \notin Held(t)
  BY <1>1, BusyIsNotHeld
<1>3. /\ UNCHANGED <<n, turnOf, phase, mailbox, job, toSettle, skipped>>
      /\ \A k \in Msgs \ {m} : row'[k] = row[k] /\ call'[k] = call[k]
  BY DEF DispatchRevive, DispatchClaim, DispatchDeliver, DispatchAccepted, DispatchFailed,
         ClaimInbound, CompleteInbound, LedgerInv, TypeOK
<1>4. \A t \in Turns : Held(t)' = Held(t)
  BY <1>3 DEF Held
<1>5. CASE DispatchClaim(m)
  <2>1. row'[m] # "pending" /\ call'[m] \in {"claimed", "idle"}
    BY <1>5 DEF DispatchClaim, ClaimInbound, Claimable, LedgerInv, TypeOK
  <2>2. Taken(m)
    BY <1>1, <1>2, <1>4, <2>1 DEF Taken
  <2> QED
    BY <1>3, <2>2, OneInputMoves
<1>6. CASE DispatchRevive(m) \/ DispatchDeliver(m) \/ DispatchFailed(m)
  <2>1. Stays(m)
    BY <1>3, <1>4, <1>6
    DEF DispatchRevive, DispatchDeliver, DispatchFailed, Stays, RowKept, LedgerInv, TypeOK
  <2> QED
    BY <1>3, <2>1, OneInputMoves
<1>7. CASE DispatchAccepted(m)
  <2>1. row[m] # "pending"
    BY <1>7 DEF DispatchAccepted, LedgerInv, ClaimsAgree
  <2>2. Stays(m)
    BY <1>3, <1>4, <1>7, <2>1
    DEF DispatchAccepted, CompleteInbound, Stays, RowKept, LedgerInv, TypeOK
  <2> QED
    BY <1>3, <2>2, OneInputMoves
<1> QED
  BY <1>5, <1>6, <1>7

LEMMA OwnerTaskStep ==
    ASSUME LedgerInv, OwnerInv, GoodStep, NEW m \in Msgs,
           \/ FollowupClaim(m) \/ FollowupSave(m) \/ FollowupFindsNoAdapter(m)
           \/ JobDeliver(m) \/ JobAccepted(m) \/ JobFailed(m)
    PROVE  OwnerInv'
<1> USE DEF ledgerState, startup, process
<1>1. ~Idle(m) /\ phase \notin {"down", "probing"}
  BY DEF FollowupClaim, FollowupSave, FollowupFindsNoAdapter, JobDeliver, JobAccepted,
         JobFailed, Idle, OwnerInv, PhaseInv, LedgerInv, TypeOK
<1>2. \A t \in Turns : m \notin Held(t)
  BY <1>1, BusyIsNotHeld
<1>3. /\ UNCHANGED <<n, turnOf, phase, mailbox, call, skipped>>
      /\ toSettle' \subseteq toSettle /\ toSettle \subseteq toSettle' \cup {m}
      /\ \A k \in Msgs \ {m} : row'[k] = row[k] /\ job'[k] = job[k]
  BY DEF FollowupClaim, FollowupSave, FollowupFindsNoAdapter, JobDeliver, JobAccepted,
         JobFailed, JobEnds, ClaimInbound, CompleteInbound, LedgerInv, TypeOK
<1>4. \A t \in Turns : Held(t)' = Held(t)
  BY <1>3 DEF Held
<1>5. CASE FollowupClaim(m)
  <2>1. row'[m] # "pending" /\ job'[m] \in {"claimed", "idle"}
    BY <1>5 DEF FollowupClaim, ClaimInbound, Claimable, LedgerInv, TypeOK
  <2>2. phase # "up" => call'[m] = "idle"
    BY <1>1, <1>3 DEF OwnerInv, PhaseInv, LedgerInv, TypeOK
  <2>3. Taken(m)
    BY <1>1, <1>2, <1>4, <2>1, <2>2 DEF Taken
  <2> QED
    BY <1>3, <2>3, OneInputMoves
<1>6. CASE ~FollowupClaim(m)
  <2>1. row[m] # "pending" /\ row'[m] # "pending"
    BY <1>6 DEF FollowupSave, FollowupFindsNoAdapter, JobDeliver, JobAccepted, JobFailed,
                CompleteInbound, LedgerInv, ClaimsAgree, TypeOK
  <2>2. job[m] \in {"claimed", "saved", "awaiting"} /\ job'[m] \in {"saved", "awaiting", "idle"}
    BY <1>6 DEF FollowupSave, FollowupFindsNoAdapter, JobDeliver, JobAccepted, JobFailed,
                JobEnds, LedgerInv, TypeOK
  <2>3. Stays(m)
    BY <1>3, <1>4, <2>1, <2>2 DEF Stays, RowKept
  <2> QED
    BY <1>3, <2>3, OneInputMoves
<1> QED
  BY <1>5, <1>6

LEMMA OwnerFinishStep ==
    ASSUME LedgerInv, OwnerInv, GoodStep, NEW t \in Turns, AgentFinishes(t)
    PROVE  OwnerInv'
<1> USE DEF ledgerState, startup, process
<1>1. /\ UNCHANGED <<n, turnOf, row, phase, call, toSettle, skipped>>
      /\ phase \in {"up", "settling"} /\ t \in Turns
  BY DEF AgentFinishes, AgentSpeaks
<1>2. CASE ~FollowupReady(t)
  <2>1. UNCHANGED <<mailbox, job>>
    BY <1>2 DEF AgentFinishes
  <2> QED
    BY <1>1, <2>1, NoInputMoves
<1>3. CASE FollowupReady(t)
  <2> DEFINE m == Head(mailbox[t])
  <2>1. /\ mailbox[t] # <<>>
        /\ mailbox' = [mailbox EXCEPT ![t] = Tail(mailbox[t])]
        /\ job' = [job EXCEPT ![m] = "scheduled"]
    BY <1>3, Zenon DEF AgentFinishes, FollowupReady
  <2>2. mailbox[t] \in Seq(1..n) /\ n \in Nat /\ Sorted(mailbox[t])
    BY DEF LedgerInv, TypeOK, OwnerInv, HeldInv
  <2>3. /\ Sorted(Tail(mailbox[t])) /\ m \in Held(t)
        /\ {Tail(mailbox[t])[i] : i \in 1..Len(Tail(mailbox[t]))} = Held(t) \ {m}
    BY <2>1, <2>2, TailSorted DEF Held
  <2> HIDE DEF m
  <2>4. /\ mailbox'[t] = Tail(mailbox[t])
        /\ \A u \in Turns \ {t} : mailbox'[u] = mailbox[u]
    BY <2>1 DEF LedgerInv, TypeOK
  <2>5. Held(t)' = Held(t) \ {m} /\ \A u \in Turns \ {t} : Held(u)' = Held(u)
    BY <2>3, <2>4 DEF Held
  <2>6. m \in Msgs /\ turnOf[m] = t /\ Idle(m)
    BY <2>3, HeldTypes DEF OwnerInv, HeldInv, LedgerInv
  <2>7. \A u \in Turns \ {t} : m \notin Held(u)
    BY <2>6 DEF OwnerInv, HeldInv
  <2>8. Scheduled(m)
    <3>1. \A u \in Turns : m \notin Held(u)'
      BY <2>5, <2>7
    <3>2. call'[m] = "idle"
      BY <1>1, <2>6 DEF Idle
    <3>3. job'[m] = "scheduled"
      BY <2>1, <2>6 DEF LedgerInv, TypeOK
    <3> QED
      BY <1>1, <3>1, <3>2, <3>3 DEF Scheduled
  <2>9. \A k \in Msgs \ {m} : Stays(k)
    BY <1>1, <2>1, <2>5 DEF Stays, RowKept, LedgerInv, TypeOK
  <2>10. \A u \in Turns : Sorted(mailbox'[u]) /\ \A k \in Held(u)' : k \in Held(u)
    BY <2>3, <2>4, <2>5 DEF OwnerInv, HeldInv
  <2> QED
    BY <1>1, <2>8, <2>9, <2>10, OwnerStep
<1> QED
  BY <1>2, <1>3

LEMMA OwnerBoundaryStep ==
    ASSUME LedgerInv, OwnerInv, GoodStep, NEW t \in Turns, AgentBoundary(t)
    PROVE  OwnerInv'
<1> USE DEF ledgerState, startup, process
<1>1. /\ UNCHANGED <<n, turnOf, phase, call, toSettle, skipped>>
      /\ phase \in {"up", "settling"}
  BY DEF AgentBoundary, AgentSpeaks
<1>2. PICK i \in 1..Len(mailbox[t]) :
        /\ mailbox' = [mailbox EXCEPT ![t] = RemoveAt(mailbox[t], i)]
        /\ ClaimInbound(mailbox[t][i])
        /\ job' = [job EXCEPT ![mailbox[t][i]] = IF Claimable(mailbox[t][i]) THEN "saved" ELSE @]
  BY Zenon DEF AgentBoundary, SteerPositions
<1> DEFINE m == mailbox[t][i]
<1>3. mailbox[t] \in Seq(1..n) /\ n \in Nat /\ Sorted(mailbox[t])
  BY DEF LedgerInv, TypeOK, OwnerInv, HeldInv
<1>4. /\ Sorted(RemoveAt(mailbox[t], i)) /\ m \in Held(t)
      /\ {RemoveAt(mailbox[t], i)[j] : j \in 1..Len(RemoveAt(mailbox[t], i))} = Held(t) \ {m}
  BY <1>3, RemoveSorted DEF Held
<1>5. ClaimInbound(m) /\ job' = [job EXCEPT ![m] = IF Claimable(m) THEN "saved" ELSE @]
  BY <1>2
<1> HIDE DEF m
<1>6. /\ mailbox'[t] = RemoveAt(mailbox[t], i)
      /\ \A u \in Turns \ {t} : mailbox'[u] = mailbox[u]
  BY <1>2 DEF LedgerInv, TypeOK
<1>7. Held(t)' = Held(t) \ {m} /\ \A u \in Turns \ {t} : Held(u)' = Held(u)
  BY <1>4, <1>6 DEF Held
<1>8. m \in Msgs /\ turnOf[m] = t /\ Idle(m)
  BY <1>4, HeldTypes DEF OwnerInv, HeldInv, LedgerInv
<1>9. \A u \in Turns \ {t} : m \notin Held(u)
  BY <1>8 DEF OwnerInv, HeldInv
<1>10. Taken(m)
  <2>1. row'[m] # "pending"
    BY <1>5, <1>8 DEF ClaimInbound, Claimable, LedgerInv, TypeOK
  <2> QED
    BY <1>1, <1>7, <1>8, <1>9, <2>1 DEF Taken, Idle
<1>11. \A k \in Msgs \ {m} : Stays(k)
  BY <1>1, <1>5, <1>7 DEF Stays, RowKept, ClaimInbound, LedgerInv, TypeOK
<1>12. \A u \in Turns : Sorted(mailbox'[u]) /\ \A k \in Held(u)' : k \in Held(u)
  BY <1>4, <1>6, <1>7 DEF OwnerInv, HeldInv
<1> QED
  BY <1>1, <1>10, <1>11, <1>12, OwnerStep

(* A new input is held by its Turn's mailbox or by its handler.            *)
LEMMA OwnerAppendStep ==
    ASSUME LedgerInv, OwnerInv, GoodStep, NEW t \in Turns,
           EnqueueInput(t) \/ DispatchInput(t)
    PROVE  OwnerInv'
<1> USE DEF ledgerState, startup, process
<1>1. /\ UNCHANGED <<turn, phase, job, toSettle, skipped>> /\ phase = "up"
      /\ n' = n + 1 /\ n < MaxMsgs /\ n \in Nat /\ MaxMsgs \in Nat
      /\ turnOf' = [turnOf EXCEPT ![n + 1] = t]
      /\ row' = [row EXCEPT ![n + 1] = "pending"]
  BY HarnessAssumption
  DEF EnqueueInput, DispatchInput, Serving, AppendInput, LedgerInv, TypeOK
<1>2. /\ n + 1 \in Msgs /\ \A m \in 1..n : m \in Msgs /\ m # n + 1 /\ m < n + 1 /\ m \in Nat
      /\ \A m \in 1..n' : m \in 1..n \/ m = n + 1
  BY <1>1 DEF Msgs
<1>7. PICK x \in Msgs : x = n + 1 /\ x \in Nat
  BY <1>1, <1>2
<1>3. /\ turnOf'[x] = t /\ row'[x] = "pending"
      /\ call[x] = "idle" /\ job[x] = "idle"
      /\ \A m \in Msgs \ {x} : turnOf'[m] = turnOf[m] /\ row'[m] = row[m]
  BY <1>1, <1>2, <1>7 DEF LedgerInv, TypeOK
<1>4. \A u \in Turns : \A m \in Held(u) : m \in 1..n
  BY HeldTypes DEF LedgerInv
<1>5. CASE EnqueueInput(t)
  <2>1. mailbox' = [mailbox EXCEPT ![t] = Append(mailbox[t], x)] /\ call' = call
    BY <1>5, <1>7, Zenon DEF EnqueueInput
  <2>2. mailbox[t] \in Seq(1..n) /\ Sorted(mailbox[t])
    BY DEF LedgerInv, TypeOK, OwnerInv, HeldInv
  <2>3. \A i \in 1..Len(mailbox[t]) : mailbox[t][i] < x
    BY <1>2, <1>7, HeldTypes DEF LedgerInv
  <2>4. /\ mailbox'[t] = Append(mailbox[t], x)
        /\ \A u \in Turns \ {t} : mailbox'[u] = mailbox[u]
    BY <2>1 DEF LedgerInv, TypeOK
  <2>5. /\ Sorted(mailbox'[t]) /\ Held(t)' = Held(t) \cup {x}
        /\ \A u \in Turns \ {t} : Held(u)' = Held(u)
    <3>1. /\ Sorted(Append(mailbox[t], x))
          /\ {Append(mailbox[t], x)[i] : i \in 1..Len(Append(mailbox[t], x))}
                = {mailbox[t][i] : i \in 1..Len(mailbox[t])} \cup {x}
      <4>1. n \in Nat /\ x \in Nat
        BY <1>1, <1>7
      <4> QED
        BY ONLY <2>2, <2>3, <4>1, AppendSorted
    <3> QED
      BY <2>4, <3>1 DEF Held
  <2>6. HeldInv'
    <3>1. \A u \in Turns : Sorted(mailbox'[u])
      BY <2>4, <2>5 DEF OwnerInv, HeldInv
    <3>2. ASSUME NEW u \in Turns, NEW m \in Held(u), m \in 1..n
          PROVE  /\ turnOf'[m] = u /\ Idle(m)'
                 /\ turn'[u].status # "deleted" => row'[m] = "pending"
      BY <1>1, <1>2, <1>7, <1>3, <2>1, <3>2 DEF OwnerInv, HeldInv, Idle
    <3>3. Idle(x)'
      BY <1>1, <1>3, <2>1 DEF Idle
    <3> QED
      BY <1>3, <1>4, <2>5, <3>1, <3>2, <3>3 DEF HeldInv
  <2>7. OwnedInv'
    <3>1. ASSUME NEW m \in 1..n, row'[m] = "pending"
          PROVE  m \in skipped' \/ HasOwner(m)'
      <4>1. m \in skipped \/ HasOwner(m)
        BY <1>1, <1>2, <1>7, <1>3, <3>1 DEF OwnerInv, OwnedInv
      <4>2. turnOf[m] \in Turns
        BY AcceptedInputs DEF LedgerInv
      <4> QED
        BY <1>1, <1>2, <1>7, <1>3, <2>1, <2>5, <4>1, <4>2 DEF HasOwner
    <3>2. HasOwner(x)'
      BY <1>3, <2>5 DEF HasOwner
    <3> QED
      BY <1>1, <1>2, <1>3, <1>7, <2>1, <3>1, <3>2 DEF OwnerInv, OwnedInv
  <2> QED
    BY <1>1, <2>6, <2>7 DEF OwnerInv, PhaseInv
<1>6. CASE DispatchInput(t)
  <2>1. mailbox' = mailbox /\ call' = [call EXCEPT ![x] = "appended"]
    BY <1>6, <1>7 DEF DispatchInput
  <2>2. call'[x] = "appended" /\ \A m \in Msgs \ {x} : call'[m] = call[m]
    BY <1>2, <1>7, <2>1 DEF LedgerInv, TypeOK
  <2>3. \A u \in Turns : Held(u)' = Held(u)
    BY <2>1 DEF Held
  <2>4. HeldInv'
    <3>1. ASSUME NEW u \in Turns, NEW m \in Held(u), m \in 1..n
          PROVE  /\ turnOf'[m] = u /\ Idle(m)'
                 /\ turn'[u].status # "deleted" => row'[m] = "pending"
      BY <1>1, <1>2, <1>7, <1>3, <2>2, <3>1 DEF OwnerInv, HeldInv, Idle
    <3> QED
      BY <1>4, <2>1, <2>3, <3>1 DEF HeldInv, OwnerInv
  <2>5. OwnedInv'
    <3>1. ASSUME NEW m \in 1..n, row'[m] = "pending"
          PROVE  m \in skipped' \/ HasOwner(m)'
      <4>1. m \in skipped \/ HasOwner(m)
        BY <1>1, <1>2, <1>7, <1>3, <3>1 DEF OwnerInv, OwnedInv
      <4>2. turnOf[m] \in Turns
        BY AcceptedInputs DEF LedgerInv
      <4> QED
        BY <1>1, <1>2, <1>7, <1>3, <2>2, <2>3, <4>1, <4>2 DEF HasOwner
    <3>2. HasOwner(x)'
      BY <2>2 DEF HasOwner
    <3> QED
      BY <1>1, <1>2, <1>3, <1>7, <2>2, <3>1, <3>2 DEF OwnerInv, OwnedInv
  <2> QED
    BY <1>1, <2>4, <2>5 DEF OwnerInv, PhaseInv
<1> QED
  BY <1>5, <1>6

LEMMA OwnerDeleteStep ==
    ASSUME LedgerInv, OwnerInv, GoodStep, NEW c \in Conversations, DeleteConversation(c)
    PROVE  OwnerInv'
<1> USE DEF ledgerState, startup, process
<1>1. /\ UNCHANGED <<n, turnOf, phase, mailbox, call, job, toSettle, skipped>> /\ phase = "up"
      /\ \A m \in Msgs : row'[m] = IF turnOf[m] \in c THEN "none" ELSE row[m]
      /\ \A t \in Turns : t \in c /\ Exists(t) => turn'[t].status = "deleted"
      /\ \A t \in Turns : ~(t \in c /\ Exists(t)) => turn'[t] = turn[t]
  BY DEF DeleteConversation, NoState, Serving
<1>2. \A t \in Turns : Held(t)' = Held(t)
  BY <1>1 DEF Held
<1>3. HeldInv'
  <2> SUFFICES ASSUME NEW t \in Turns, NEW m \in Held(t)
               PROVE  /\ turnOf'[m] = t /\ Idle(m)'
                      /\ turn'[t].status # "deleted" => row'[m] = "pending"
    BY <1>1, <1>2 DEF HeldInv, OwnerInv
  <2>1. /\ turnOf[m] = t /\ Idle(m) /\ m \in Msgs /\ m \in 1..n
        /\ turn[t].status # "deleted" => row[m] = "pending"
    BY HeldTypes DEF OwnerInv, HeldInv, LedgerInv
  <2>2. turn[t].status # "none"
    BY <2>1 DEF LedgerInv, RowsHaveTurns
  <2> QED
    BY <1>1, <2>1, <2>2 DEF Idle, Exists
<1>4. OwnedInv'
  <2>1. \A m \in 1..n : m \in Msgs
    BY AcceptedInputs DEF LedgerInv
  <2> QED
    BY <1>1, <1>2, <2>1, AcceptedInputs DEF OwnerInv, OwnedInv, HasOwner, LedgerInv
<1> QED
  BY <1>1, <1>2, <1>3, <1>4 DEF OwnerInv, PhaseInv

LEMMA OwnerRestartStep ==
    ASSUME LedgerInv, OwnerInv, GoodStep,
           Crash \/ Restart \/ ListUnsettled \/ StartServing
    PROVE  OwnerInv'
<1> USE DEF ledgerState, startup, process
<1>1. CASE Crash
  <2>1. /\ phase' = "down" /\ n' = n
        /\ \A t \in Turns : mailbox'[t] = <<>>
        /\ \A m \in Msgs : call'[m] = "idle" /\ job'[m] = "idle"
    BY <1>1 DEF Crash
  <2>2. \A t \in Turns : Sorted(mailbox'[t]) /\ Held(t)' = {}
    BY <2>1 DEF Sorted, Held
  <2> QED
    BY <2>1, <2>2 DEF OwnerInv, HeldInv, PhaseInv, OwnedInv, Idle
<1>2. CASE Restart
  <2>1. /\ UNCHANGED <<turn, n, turnOf, row, mailbox, call, job>>
        /\ phase = "down" /\ phase' = "probing"
    BY <1>2 DEF Restart
  <2>2. HeldInv'
    BY <2>1 DEF OwnerInv, HeldInv, Held, Idle
  <2> QED
    BY <2>1, <2>2 DEF OwnerInv, PhaseInv, OwnedInv, Idle
<1>3. CASE ListUnsettled
  <2>1. /\ UNCHANGED <<turn, n, turnOf, row, mailbox, call, job>>
        /\ phase = "probing" /\ phase' = "settling"
        /\ toSettle' = {m \in 1..n : row[m] # "none"}
    BY <1>3 DEF ListUnsettled
  <2>2. HeldInv'
    BY <2>1 DEF OwnerInv, HeldInv, Held, Idle
  <2>3. /\ \A m \in Msgs : Idle(m)
        /\ \A t \in Turns : mailbox[t] = <<>> /\ Held(t)' = {}
    BY <2>1 DEF OwnerInv, PhaseInv, Held
  <2>4. PhaseInv'
    BY <2>1, <2>3 DEF PhaseInv, Idle
  <2>5. OwnedInv'
    BY <2>1, <2>3 DEF OwnedInv, Idle
  <2> QED
    BY <2>2, <2>4, <2>5 DEF OwnerInv
<1>4. CASE StartServing
  <2>1. /\ UNCHANGED <<turn, n, turnOf, row, mailbox, call, job, skipped>>
        /\ phase = "settling" /\ phase' = "up" /\ toSettle = {}
    BY <1>4 DEF StartServing
  <2>2. HeldInv'
    BY <2>1 DEF OwnerInv, HeldInv, Held, Idle
  <2>3. OwnedInv'
    BY <2>1 DEF OwnerInv, OwnedInv, HasOwner, Held
  <2> QED
    BY <2>1, <2>2, <2>3 DEF OwnerInv, PhaseInv
<1> QED
  BY <1>1, <1>2, <1>3, <1>4

(* Reconciliation goes through the ledger in order, so that what it puts   *)
(* into a mailbox is older than what it has still to look at.              *)
LEMMA OwnerSettleStep ==
    ASSUME LedgerInv, OwnerInv, GoodStep, NEW m \in Msgs,
           \/ SettleDispatching(m) \/ SettleWithoutAdapter(m) \/ SettleByDelivery(m)
           \/ SettleByQueueing(m)
    PROVE  OwnerInv'
<1> USE DEF ledgerState, startup, process
<1>1. /\ UNCHANGED <<n, turnOf, phase, call>> /\ phase = "settling"
      /\ m \in toSettle /\ job[m] = "idle" /\ call[m] = "idle"
      /\ \A k \in toSettle : m <= k
  BY DEF SettleDispatching, SettleWithoutAdapter, SettleByDelivery, SettleByQueueing, NextRow,
         OwnerInv, PhaseInv
<1>2. \A t \in Turns : m \notin Held(t)
  <2>1. m \in Int
    BY HarnessAssumption DEF Msgs
  <2> QED
    BY <1>1, <2>1 DEF OwnerInv, PhaseInv
<1>3. CASE SettleDispatching(m) \/ SettleWithoutAdapter(m)
  <2>1. /\ UNCHANGED <<row, mailbox, job>> /\ toSettle' = toSettle \ {m}
        /\ (row[m] = "dispatching" /\ skipped' = skipped) \/ skipped' = skipped \cup {m}
    BY <1>3 DEF SettleDispatching, SettleWithoutAdapter
  <2>2. Stays(m)
    BY <1>1, <2>1 DEF Stays, RowKept, Held
  <2> QED
    BY <1>1, <2>1, <2>2, OneInputMoves
<1>4. CASE SettleByDelivery(m)
  <2>1. /\ UNCHANGED <<mailbox, toSettle, skipped>>
        /\ ClaimInbound(m) /\ job' = [job EXCEPT ![m] = "claimed"]
    BY <1>4 DEF SettleByDelivery
  <2>2. \A t \in Turns : Held(t)' = Held(t)
    BY <2>1 DEF Held
  <2>3. row'[m] # "pending" /\ job'[m] = "claimed"
    BY <2>1 DEF ClaimInbound, Claimable, LedgerInv, TypeOK
  <2>4. Taken(m)
    BY <1>1, <1>2, <2>2, <2>3 DEF Taken
  <2>5. \A k \in Msgs \ {m} : row'[k] = row[k] /\ job'[k] = job[k]
    BY <2>1 DEF ClaimInbound, LedgerInv, TypeOK
  <2> QED
    BY <1>1, <2>1, <2>4, <2>5, OneInputMoves
<1>5. CASE SettleByQueueing(m)
  <2> DEFINE t == turnOf[m]
  <2>1. /\ UNCHANGED <<turn, row, job, skipped>> /\ row[m] = "pending"
        /\ toSettle' = toSettle \ {m}
        /\ mailbox' = [mailbox EXCEPT ![t] = IF Contains(mailbox[t], m)
                                             THEN mailbox[t] ELSE Append(mailbox[t], m)]
    BY <1>5, Zenon DEF SettleByQueueing
  <2>2. t \in Turns /\ m \in 1..n /\ m \in Nat
    BY <2>1, BoundTurn, HarnessAssumption DEF Msgs
  <2>3. ~Contains(mailbox[t], m)
    BY <1>2, <2>2 DEF Contains, Held
  <2>4. /\ mailbox'[t] = Append(mailbox[t], m)
        /\ \A u \in Turns \ {t} : mailbox'[u] = mailbox[u]
    BY <2>1, <2>2, <2>3 DEF LedgerInv, TypeOK
  <2>5. n \in Nat /\ mailbox[t] \in Seq(1..n) /\ Sorted(mailbox[t])
    BY <2>2 DEF LedgerInv, TypeOK, OwnerInv, HeldInv
  <2>6. \A i \in 1..Len(mailbox[t]) : mailbox[t][i] < m
    BY <1>1, <2>2 DEF OwnerInv, PhaseInv, Held
  <2> HIDE DEF t
  <2>7. /\ Sorted(Append(mailbox[t], m))
        /\ {Append(mailbox[t], m)[i] : i \in 1..Len(Append(mailbox[t], m))}
              = {mailbox[t][i] : i \in 1..Len(mailbox[t])} \cup {m}
    BY ONLY <2>2, <2>5, <2>6, AppendSorted
  <2>8. t = turnOf[m]
    BY DEF t
  <2>9. PICK u \in Turns : u = t
    BY <2>2
  <2>10. /\ Sorted(mailbox'[u]) /\ Held(u)' = Held(u) \cup {m}
         /\ \A v \in Turns \ {u} : Held(v)' = Held(v) /\ mailbox'[v] = mailbox[v]
    <3>1. /\ mailbox'[u] = Append(mailbox[u], m)
          /\ \A v \in Turns \ {u} : mailbox'[v] = mailbox[v]
      BY <2>4, <2>9
    <3>2. /\ Sorted(Append(mailbox[u], m))
          /\ {Append(mailbox[u], m)[i] : i \in 1..Len(Append(mailbox[u], m))}
                = {mailbox[u][i] : i \in 1..Len(mailbox[u])} \cup {m}
      BY <2>7, <2>9
    <3>3. Held(u)' = Held(u) \cup {m}
      BY <3>1, <3>2 DEF Held
    <3>4. \A v \in Turns \ {u} : Held(v)' = Held(v)
      BY <3>1 DEF Held
    <3> QED
      BY <3>1, <3>2, <3>3, <3>4
  <2>11. \A k \in toSettle' : m < k
    <3>1. \A k \in toSettle : k \in Int /\ m \in Int
      BY <2>2 DEF LedgerInv, TypeOK
    <3> QED
      BY <1>1, <2>1, <3>1
  <2>12. HeldInv'
    BY <1>1, <2>1, <2>8, <2>9, <2>10 DEF OwnerInv, HeldInv, Idle
  <2>13. PhaseInv'
    <3>1. ASSUME NEW k \in toSettle', NEW v \in Turns, NEW j \in Held(v)'
          PROVE  j < k
      BY <1>1, <2>1, <2>10, <2>11 DEF OwnerInv, PhaseInv
    <3> QED
      BY <1>1, <3>1 DEF OwnerInv, PhaseInv
  <2>14. OwnedInv'
    <3>1. ASSUME NEW k \in 1..n, row[k] = "pending"
          PROVE  k \in skipped \/ k \in toSettle' \/ HasOwner(k)'
      <4>1. CASE k = m
        BY <1>1, <2>8, <2>9, <2>10, <4>1 DEF HasOwner
      <4>2. CASE k # m
        <5>1. k \in skipped \/ k \in toSettle \/ HasOwner(k)
          BY <1>1, <3>1 DEF OwnerInv, OwnedInv
        <5>2. turnOf[k] \in Turns
          BY AcceptedInputs DEF LedgerInv
        <5>3. HasOwner(k) => HasOwner(k)'
          BY <1>1, <2>1, <2>10, <5>2 DEF HasOwner
        <5> QED
          BY <2>1, <4>2, <5>1, <5>3
      <4> QED
        BY <4>1, <4>2
    <3> QED
      BY <1>1, <2>1, <3>1 DEF OwnerInv, OwnedInv
  <2> QED
    BY <2>12, <2>13, <2>14 DEF OwnerInv
<1> QED
  BY <1>3, <1>4, <1>5

-----------------------------------------------------------------------------
LEMMA OwnerHolds == Spec => []OwnerInv
<1>1. Init => OwnerInv
  <2> SUFFICES ASSUME Init
               PROVE  OwnerInv
    OBVIOUS
  <2>1. \A t \in Turns : Sorted(mailbox[t]) /\ Held(t) = {}
    BY DEF Init, Sorted, Held
  <2> QED
    BY <2>1 DEF Init, OwnerInv, HeldInv, PhaseInv, OwnedInv, Msgs
<1>2. LedgerInv /\ OwnerInv /\ [Next]_vars => OwnerInv'
  <2> SUFFICES ASSUME LedgerInv, OwnerInv, [Next]_vars
               PROVE  OwnerInv'
    OBVIOUS
  <2>1. GoodStep
    BY EveryStep
  <2>2. CASE UNCHANGED vars
    BY <2>1, <2>2, NoInputMoves DEF vars
  <2>3. CASE UserRequest
    BY <2>1, <2>3, OwnerUserStep, OwnerAppendStep, OwnerDeleteStep DEF UserRequest
  <2>4. CASE AgentEvent
    BY <2>1, <2>4, OwnerEventStep, OwnerFinishStep, OwnerBoundaryStep DEF AgentEvent
  <2>5. CASE LoopStep
    BY <2>1, <2>5, OwnerUserStep, OwnerHandlerStep, OwnerTaskStep, OwnerSettleStep,
       OwnerRestartStep
    DEF LoopStep
  <2>6. CASE \E m \in Msgs : AdapterAnswers(m)
    BY <2>1, <2>6, OwnerHandlerStep, OwnerTaskStep DEF AdapterAnswers
  <2>7. CASE \E t \in Turns : ControlAnswers(t)
    BY <2>1, <2>7, OwnerUserStep
  <2>8. CASE Crash \/ Restart
    BY <2>1, <2>8, OwnerRestartStep
  <2> QED
    BY <2>2, <2>3, <2>4, <2>5, <2>6, <2>7, <2>8 DEF Next
<1> QED
  BY <1>1, <1>2, LedgerConsistent, PTL DEF Spec

(* A mailbox holds undelivered inputs of its own Turn, in the order the    *)
(* user sent them.                                                         *)
THEOREM MailboxHolds == Spec => []MailboxFaithful
<1>1. OwnerInv => MailboxFaithful
  BY DEF OwnerInv, HeldInv, Sorted, Held, MailboxFaithful
<1> QED
  BY <1>1, OwnerHolds, PTL

(* While the API serves, each pending input has one party to deliver it.   *)
THEOREM OwnerIsUnique == Spec => []PendingHasOneOwner
<1>1. LedgerInv /\ OwnerInv => PendingHasOneOwner
  <2> SUFFICES ASSUME LedgerInv, OwnerInv, phase = "up",
                      NEW m \in 1..n, m \notin skipped, row[m] = "pending"
               PROVE  Cardinality(Owners(m)) = 1
    BY DEF PendingHasOneOwner
  <2>1. m \in Msgs /\ turnOf[m] \in Turns
    BY AcceptedInputs DEF LedgerInv
  <2>2. HasOwner(m)
    BY DEF OwnerInv, OwnedInv
  <2>3. Contains(mailbox[turnOf[m]], m) <=> m \in Held(turnOf[m])
    BY DEF Contains, Held
  <2>4. m \in Held(turnOf[m]) => Idle(m)
    BY <2>1 DEF OwnerInv, HeldInv
  <2>5. ~(call[m] \in {"appended", "saved"} /\ job[m] = "scheduled")
    BY <2>1 DEF OwnerInv, OwnedInv
  <2>6. PICK o : Owners(m) = {o}
    <3>1. CASE call[m] \in {"appended", "saved"}
      <4>1. Owners(m) = {"handler"}
        BY <2>3, <2>4, <2>5, <3>1 DEF Owners, Idle
      <4> QED
        BY <4>1
    <3>2. CASE job[m] = "scheduled"
      <4>1. Owners(m) = {"task"}
        BY <2>3, <2>4, <2>5, <3>2 DEF Owners, Idle
      <4> QED
        BY <4>1
    <3>3. CASE m \in Held(turnOf[m])
      <4>1. Owners(m) = {"mailbox"}
        BY <2>3, <2>4, <3>3 DEF Owners, Idle
      <4> QED
        BY <4>1
    <3> QED
      BY <2>2, <3>1, <3>2, <3>3 DEF HasOwner
  <2> QED
    BY <2>6, FS_Singleton
<1> QED
  BY <1>1, OwnerHolds, LedgerConsistent, PTL

=============================================================================
