------------------------ MODULE WorkspaceGateProofs ------------------------
(***************************************************************************)
(* What is proved of the workspace gate for every set of processes and     *)
(* callers, whoever may crash or stall: its type invariant, that no two    *)
(* callers that cannot run together are inside together, that a running    *)
(* process leaves no marker or lock of a turn that is over, that unsaved   *)
(* marks keep others out, and that turns go in the order they were asked   *)
(* for.                                                                    *)
(***************************************************************************)
EXTENDS WorkspaceGate, SequenceTheorems, TLAPS

(***************************************************************************)
(* A queue from which a wait that was given up is taken                    *)
(***************************************************************************)

\* A sequence without the element at k.
LEMMA RemovedAt ==
  ASSUME NEW S, NEW q \in Seq(S), NEW k \in 1..Len(q)
  PROVE  LET s == SubSeq(q, 1, k - 1) \o SubSeq(q, k + 1, Len(q))
         IN  /\ s \in Seq(S)
             /\ Len(s) = Len(q) - 1
             /\ \A i \in 1..(Len(q) - 1) : s[i] = IF i < k THEN q[i] ELSE q[i + 1]
<1> DEFINE u == SubSeq(q, 1, k - 1)
           v == SubSeq(q, k + 1, Len(q))
<1>1. u \in Seq(S) /\ Len(u) = k - 1 /\ \A i \in 1..(k - 1) : u[i] = q[i]
  BY SubSeqProperties
<1>2. v \in Seq(S) /\ Len(v) = Len(q) - k /\ \A i \in 1..(Len(q) - k) : v[i] = q[k + i]
  BY SubSeqProperties
<1> HIDE DEF u, v
<1>3. /\ u \o v \in Seq(S)
      /\ Len(u \o v) = Len(u) + Len(v)
      /\ \A i \in 1..(Len(u) + Len(v)) :
           (u \o v)[i] = IF i <= Len(u) THEN u[i] ELSE v[i - Len(u)]
  BY <1>1, <1>2, ConcatProperties
<1>4. ASSUME NEW i \in 1..(Len(q) - 1)
      PROVE  /\ i < k => (u \o v)[i] = q[i]
             /\ ~(i < k) => (u \o v)[i] = q[i + 1]
  <2> DEFINE j == i - (k - 1)
  <2>1. (i < k => (u \o v)[i] = u[i]) /\ (~(i < k) => (u \o v)[i] = v[j])
    BY <1>1, <1>2, <1>3
  <2>2. ~(i < k) => j \in 1..(Len(q) - k) /\ k + j = i + 1
    OBVIOUS
  <2> HIDE DEF j
  <2>3. i < k => u[i] = q[i]
    BY <1>1
  <2>4. ~(i < k) => v[j] = q[i + 1]
    BY <1>2, <2>2
  <2> QED
    BY <2>1, <2>3, <2>4
<1>5. /\ Len(u \o v) = Len(q) - 1
      /\ \A i \in 1..(Len(q) - 1) :
           (u \o v)[i] = IF i < k THEN q[i] ELSE q[i + 1]
  BY <1>1, <1>2, <1>3, <1>4
<1> QED
  BY <1>3, <1>5, Zenon DEF u, v

(***************************************************************************)
(* The inductive invariant                                                 *)
(***************************************************************************)

HasTurn(c) == pc[c] \in Turn
HasLock(c) == pc[c] \in {"draining", "inside"} /\ mode[c] = "alone"
HasMarker(c) == pc[c] = "inside" /\ mode[c] # "alone"

\* Only a caller going alone waits with the lock.
DrainsAlone == \A c \in Callers : pc[c] = "draining" => mode[c] = "alone"

\* A process grants turns together only to callers that fit.
FitInProcess ==
  \A c, d \in Callers :
    (c # d /\ ProcessOf[c] = ProcessOf[d] /\ HasTurn(c) /\ HasTurn(d)) => Fits(mode[c], mode[d])

\* A turn that never lapsed belongs to a running process and has its file.
FilesInv ==
  \A c \in Callers \ lapsed :
    /\ HasMarker(c) => c \in markers /\ life[ProcessOf[c]] = "live"
    /\ HasLock(c) => lock = ProcessOf[c] /\ life[ProcessOf[c]] = "live"

\* Callers inside in two processes fit, unless a turn lapsed.
FitAcross ==
  \A c, d \in Callers \ lapsed :
    (ProcessOf[c] # ProcessOf[d] /\ pc[c] = "inside" /\ pc[d] = "inside")
      => Fits(mode[c], mode[d])

Inv == TypeOK /\ DrainsAlone /\ FitInProcess /\ FilesInv /\ FitAcross /\ NothingLeftBehind

(***************************************************************************)
(* Queues                                                                  *)
(***************************************************************************)

\* A list is of the queued callers only.
LEMMA ListsStable ==
  ASSUME NEW p, NEW q, NEW at, NEW moved, Lists(p, q, at),
         \A c \in Callers : ProcessOf[c] = p => (at[c] = "queued" <=> moved[c] = "queued")
  PROVE  Lists(p, q, moved)
BY DEF Lists

\* What pump() does: it moves the head of the queue to "polling" and leaves
\* everyone else where he was.
LEMMA PumpEffect ==
  ASSUME NEW p \in Processes, NEW q, NEW at \in [Callers -> Stages],
         NEW md \in [Callers -> GateModes],
         queue \in [Processes -> Seq(Callers)],
         Lists(p, q, at), Pump(p, q, at, md)
  PROVE  /\ pc' \in [Callers -> Stages]
         /\ queue' \in [Processes -> Seq(Callers)]
         /\ Lists(p, queue'[p], pc')
         /\ \A r \in Processes \ {p} : queue'[r] = queue[r]
         /\ \A c \in Callers :
              pc'[c] # at[c] => ProcessOf[c] = p /\ at[c] = "queued" /\ pc'[c] = "polling"
<1> DEFINE R == {c \in CallersOf(p) : at[c] \in Turn}
<1>1. PICK n \in 0..Len(q) :
        /\ RunTogether(n, q, R, md)
        /\ queue' = [queue EXCEPT ![p] = SubSeq(q, n + 1, Len(q))]
        /\ pc' = [c \in Callers |-> IF \E i \in 1..n : q[i] = c THEN "polling" ELSE at[c]]
  BY DEF Pump
<1>2. q \in Seq(Callers) /\ Len(q) \in Nat /\ n \in Nat /\ n <= Len(q)
  BY <1>1 DEF Lists
<1> DEFINE s == SubSeq(q, n + 1, Len(q))
<1>3. /\ s \in Seq(Callers)
      /\ Len(s) = Len(q) - n
      /\ \A i \in 1..Len(s) : s[i] = q[n + i]
  BY <1>2, SubSeqProperties
<1>4. pc' \in [Callers -> Stages]
  BY <1>1 DEF Stages
<1>5. queue' \in [Processes -> Seq(Callers)] /\ queue'[p] = s
      /\ \A r \in Processes \ {p} : queue'[r] = queue[r]
  BY <1>1, <1>3
<1>6. \A c \in Callers : (\E i \in 1..n : q[i] = c) => ProcessOf[c] = p /\ at[c] = "queued"
  BY <1>2 DEF Lists
<1>7. \A c \in Callers :
        pc'[c] # at[c] => ProcessOf[c] = p /\ at[c] = "queued" /\ pc'[c] = "polling"
  BY <1>1, <1>6
<1>8. Lists(p, s, pc')
  <2>1. ASSUME NEW c \in Callers
        PROVE  (\E i \in 1..Len(s) : s[i] = c) <=> (ProcessOf[c] = p /\ pc'[c] = "queued")
    <3>1. CASE \E i \in 1..n : q[i] = c
      <4>1. pc'[c] = "polling"
        BY <1>1, <3>1
      <4>2. ASSUME NEW i \in 1..Len(s), s[i] = c  PROVE  FALSE
        <5>1. PICK j \in 1..n : q[j] = c
          BY <3>1
        <5>2. j \in 1..Len(q) /\ n + i \in 1..Len(q) /\ q[n + i] = q[j]
          BY <1>2, <1>3, <4>2, <5>1
        <5> QED  BY <1>2, <5>2 DEF Lists
      <4> QED  BY <4>1, <4>2
    <3>2. CASE ~ \E i \in 1..n : q[i] = c
      <4>1. pc'[c] = at[c]
        BY <1>1, <3>2
      <4>2. (\E i \in 1..Len(s) : s[i] = c) <=> (\E i \in 1..Len(q) : q[i] = c)
        <5>1. ASSUME NEW i \in 1..Len(s), s[i] = c  PROVE  \E j \in 1..Len(q) : q[j] = c
          BY <1>2, <1>3, <5>1
        <5>2. ASSUME NEW j \in 1..Len(q), q[j] = c  PROVE  \E i \in 1..Len(s) : s[i] = c
          <6>1. j > n
            BY <1>2, <3>2, <5>2
          <6>2. j - n \in 1..Len(s) /\ s[j - n] = q[j]
            BY <1>2, <1>3, <6>1
          <6> QED  BY <5>2, <6>2
        <5> QED  BY <5>1, <5>2
      <4> QED  BY <4>1, <4>2 DEF Lists
    <3> QED  BY <3>1, <3>2
  <2>2. ASSUME NEW i \in 1..Len(s), NEW j \in 1..Len(s), s[i] = s[j]  PROVE  i = j
    <3>1. n + i \in 1..Len(q) /\ n + j \in 1..Len(q) /\ q[n + i] = q[n + j]
      BY <1>2, <1>3, <2>2
    <3> QED  BY <1>2, <3>1 DEF Lists
  <2> QED  BY <1>3, <2>1, <2>2 DEF Lists
<1> HIDE DEF R, s
<1> QED  BY <1>4, <1>5, <1>7, <1>8

\* Those with a turn keep fitting.
LEMMA PumpFits ==
  ASSUME NEW p \in Processes, NEW q, NEW at \in [Callers -> Stages],
         NEW md \in [Callers -> GateModes],
         Lists(p, q, at), Pump(p, q, at, md),
         \A x, y \in Callers : (x # y /\ ProcessOf[x] = p /\ ProcessOf[y] = p
                                  /\ at[x] \in Turn /\ at[y] \in Turn) => Fits(md[x], md[y]),
         NEW c \in Callers, NEW d \in Callers, c # d,
         ProcessOf[c] = p, ProcessOf[d] = p, pc'[c] \in Turn, pc'[d] \in Turn
  PROVE  Fits(md[c], md[d])
<1> DEFINE R == {x \in CallersOf(p) : at[x] \in Turn}
<1>1. PICK n \in 0..Len(q) :
        /\ RunTogether(n, q, R, md)
        /\ pc' = [x \in Callers |-> IF \E i \in 1..n : q[i] = x THEN "polling" ELSE at[x]]
  BY DEF Pump
<1>2. q \in Seq(Callers) /\ Len(q) \in Nat /\ n \in Nat /\ n <= Len(q)
  BY <1>1 DEF Lists
<1>3. \A x \in {c, d} : x \in R \/ \E i \in 1..n : q[i] = x
  BY <1>1 DEF CallersOf
<1>4. \A x, y \in {c, d} : (x \in R /\ \E i \in 1..n : q[i] = y) => Fits(md[y], md[x])
  BY <1>1 DEF RunTogether
<1>5. CASE \E i \in 1..n : q[i] = c
  <2>1. CASE \E i \in 1..n : q[i] = d
    <3>1. PICK i \in 1..n, j \in 1..n : q[i] = c /\ q[j] = d
      BY <1>5, <2>1
    <3>2. CASE i < j
      <4>1. i \in 1..(j - 1)
        BY <3>2, <1>2
      <4> QED  BY <1>1, <3>1, <4>1 DEF RunTogether, Fits
    <3>3. CASE j < i
      <4>1. j \in 1..(i - 1)
        BY <3>3, <1>2
      <4> QED  BY <1>1, <3>1, <4>1 DEF RunTogether, Fits
    <3> QED  BY <1>2, <3>1, <3>2, <3>3
  <2> QED  BY <1>3, <1>4, <1>5, <2>1 DEF Fits
<1>6. CASE c \in R
  <2>1. CASE d \in R
    BY <1>6, <2>1 DEF CallersOf
  <2> QED  BY <1>3, <1>4, <1>6, <2>1 DEF Fits
<1> QED  BY <1>3, <1>5, <1>6

\* The queue a caller joins.
LEMMA JoinedQueue ==
  ASSUME NEW c \in Callers, TypeOK, pc[c] = "idle"
  PROVE  Lists(ProcessOf[c], Append(queue[ProcessOf[c]], c), [pc EXCEPT ![c] = "queued"])
<1> DEFINE p == ProcessOf[c]
           q == queue[p]
           s == Append(q, c)
           at == [pc EXCEPT ![c] = "queued"]
<1>1. p \in Processes /\ Lists(p, q, pc) /\ pc \in [Callers -> Stages]
  BY GateAssumption DEF TypeOK
<1>2. /\ s \in Seq(Callers)
      /\ Len(s) = Len(q) + 1
      /\ \A i \in 1..Len(q) : s[i] = q[i]
      /\ s[Len(q) + 1] = c
  BY <1>1, AppendProperties DEF Lists
<1>3. Len(q) \in Nat
  BY <1>1 DEF Lists
<1>4. \A i \in 1..Len(q) : q[i] # c
  BY <1>1 DEF Lists
<1>5. ASSUME NEW d \in Callers
      PROVE  (\E i \in 1..Len(s) : s[i] = d) <=> (ProcessOf[d] = p /\ at[d] = "queued")
  <2>1. CASE d = c
    BY <1>1, <1>2, <1>3, <2>1
  <2>2. CASE d # c
    <3>1. at[d] = pc[d]
      BY <1>1, <2>2
    <3>2. (\E i \in 1..Len(s) : s[i] = d) <=> (\E i \in 1..Len(q) : q[i] = d)
      BY <1>2, <1>3, <2>2
    <3> QED  BY <1>1, <3>1, <3>2 DEF Lists
  <2> QED  BY <2>1, <2>2
<1>6. ASSUME NEW i \in 1..Len(s), NEW j \in 1..Len(s), s[i] = s[j]  PROVE  i = j
  <2>1. CASE i \in 1..Len(q) /\ j \in 1..Len(q)
    BY <1>1, <1>2, <1>6, <2>1 DEF Lists
  <2>2. CASE i = Len(q) + 1 \/ j = Len(q) + 1
    BY <1>2, <1>3, <1>4, <1>6, <2>2
  <2> QED  BY <1>2, <1>3, <2>1, <2>2
<1> HIDE DEF s, at
<1>7. Lists(p, s, at)
  BY <1>2, <1>5, <1>6 DEF Lists
<1> QED  BY <1>7 DEF s, at

\* The queue without a caller that gave up.
LEMMA LeftQueue ==
  ASSUME NEW c \in Callers, TypeOK, pc[c] = "queued"
  PROVE  Lists(ProcessOf[c], Unqueued(c), [pc EXCEPT ![c] = "idle"])
<1> DEFINE p == ProcessOf[c]
           q == queue[p]
           k == CHOOSE i \in DOMAIN q : q[i] = c
           s == Unqueued(c)
           at == [pc EXCEPT ![c] = "idle"]
<1>1. p \in Processes /\ Lists(p, q, pc) /\ pc \in [Callers -> Stages]
  BY GateAssumption DEF TypeOK
<1>2. q \in Seq(Callers) /\ Len(q) \in Nat /\ DOMAIN q = 1..Len(q)
  BY <1>1 DEF Lists
<1>3. \E i \in DOMAIN q : q[i] = c
  BY <1>1, <1>2 DEF Lists
<1>4. k \in 1..Len(q) /\ q[k] = c
  BY <1>2, <1>3
<1>5. s = SubSeq(q, 1, k - 1) \o SubSeq(q, k + 1, Len(q))
  BY DEF Unqueued
<1> HIDE DEF k, s
<1>8. /\ s \in Seq(Callers)
      /\ Len(s) = Len(q) - 1
      /\ \A i \in 1..(Len(q) - 1) : s[i] = IF i < k THEN q[i] ELSE q[i + 1]
  BY <1>2, <1>4, <1>5, RemovedAt
<1>9. ASSUME NEW d \in Callers
      PROVE  (\E i \in 1..Len(s) : s[i] = d) <=> (ProcessOf[d] = p /\ at[d] = "queued")
  <2>1. CASE d = c
    <3>1. at[d] = "idle"
      BY <1>1, <2>1
    <3>2. ASSUME NEW i \in 1..Len(s), s[i] = c  PROVE  FALSE
      <4>1. CASE i < k
        <5>1. i \in 1..Len(q) /\ q[i] = q[k]
          BY <1>2, <1>4, <1>8, <3>2, <4>1
        <5> QED  BY <1>1, <1>4, <4>1, <5>1 DEF Lists
      <4>2. CASE ~(i < k)
        <5>1. i + 1 \in 1..Len(q) /\ q[i + 1] = q[k]
          BY <1>2, <1>4, <1>8, <3>2, <4>2
        <5>2. i + 1 = k
          BY <1>1, <1>4, <5>1 DEF Lists
        <5> QED  BY <1>4, <4>2, <5>2
      <4> QED  BY <4>1, <4>2
    <3> QED  BY <2>1, <3>1, <3>2
  <2>2. CASE d # c
    <3>1. at[d] = pc[d]
      BY <1>1, <2>2
    <3>2. ASSUME NEW i \in 1..Len(s), s[i] = d  PROVE  \E j \in 1..Len(q) : q[j] = d
      <4>1. i \in 1..Len(q) /\ i + 1 \in 1..Len(q)
        BY <1>2, <1>8
      <4> QED  BY <1>8, <3>2, <4>1
    <3>3. ASSUME NEW j \in 1..Len(q), q[j] = d  PROVE  \E i \in 1..Len(s) : s[i] = d
      <4>1. j # k
        BY <1>4, <2>2, <3>3
      <4>2. CASE j < k
        <5>1. j \in 1..Len(s) /\ s[j] = q[j]
          BY <1>2, <1>4, <1>8, <4>2
        <5> QED  BY <3>3, <5>1
      <4>3. CASE j > k
        <5>1. j - 1 \in 1..Len(s) /\ s[j - 1] = q[j]
          BY <1>2, <1>4, <1>8, <4>3
        <5> QED  BY <3>3, <5>1
      <4> QED  BY <1>4, <4>1, <4>2, <4>3
    <3> QED  BY <1>1, <3>1, <3>2, <3>3 DEF Lists
  <2> QED  BY <2>1, <2>2
<1>10. ASSUME NEW i \in 1..Len(s), NEW j \in 1..Len(s), s[i] = s[j]  PROVE  i = j
  <2>1. ASSUME NEW x \in 1..Len(s)
        PROVE  \E y \in 1..Len(q) : s[x] = q[y] /\ (y = x \/ y = x + 1) /\ (x < k <=> y = x)
    <3>1. x \in 1..(Len(q) - 1) /\ x \in 1..Len(q) /\ x + 1 \in 1..Len(q) /\ x # x + 1
      BY <1>2, <1>8
    <3>2. s[x] = IF x < k THEN q[x] ELSE q[x + 1]
      BY <1>8, <3>1
    <3> QED  BY <3>1, <3>2
  <2>2. PICK x \in 1..Len(q) : s[i] = q[x] /\ (x = i \/ x = i + 1) /\ (i < k <=> x = i)
    BY <2>1
  <2>3. PICK y \in 1..Len(q) : s[j] = q[y] /\ (y = j \/ y = j + 1) /\ (j < k <=> y = j)
    BY <2>1
  <2>4. x = y
    BY <1>1, <1>10, <2>2, <2>3 DEF Lists
  <2>5. i \in Nat /\ j \in Nat /\ k \in Nat
    BY <1>2, <1>4, <1>8
  <2> QED  BY <2>2, <2>3, <2>4, <2>5
<1> HIDE DEF at
<1>11. Lists(p, s, at)
  BY <1>8, <1>9, <1>10 DEF Lists
<1> QED  BY <1>11 DEF s, at

\* Queues and stages after a step of caller c that ends in a pump of its
\* process, with everyone where `at' says before it.
LEMMA PumpedStep ==
  ASSUME NEW c \in Callers, NEW q, NEW at \in [Callers -> Stages],
         NEW md \in [Callers -> GateModes], TypeOK,
         \A d \in Callers \ {c} : at[d] = pc[d],
         Lists(ProcessOf[c], q, at), Pump(ProcessOf[c], q, at, md)
  PROVE  /\ pc' \in [Callers -> Stages]
         /\ queue' \in [Processes -> Seq(Callers)]
         /\ \A r \in Processes : Lists(r, queue'[r], pc')
         /\ \A d \in Callers :
              pc'[d] # at[d] => ProcessOf[d] = ProcessOf[c] /\ at[d] = "queued" /\ pc'[d] = "polling"
<1>1. ProcessOf[c] \in Processes /\ queue \in [Processes -> Seq(Callers)]
  BY GateAssumption DEF TypeOK
<1>2. pc' \in [Callers -> Stages]
  BY <1>1, PumpEffect
<1>3. queue' \in [Processes -> Seq(Callers)]
  BY <1>1, PumpEffect
<1>4. Lists(ProcessOf[c], queue'[ProcessOf[c]], pc')
  BY <1>1, PumpEffect
<1>5. \A r \in Processes \ {ProcessOf[c]} : queue'[r] = queue[r]
  BY <1>1, PumpEffect
<1>6. ASSUME NEW d \in Callers
      PROVE  pc'[d] # at[d] => ProcessOf[d] = ProcessOf[c] /\ at[d] = "queued" /\ pc'[d] = "polling"
  BY <1>1, PumpEffect
<1>7. ASSUME NEW r \in Processes \ {ProcessOf[c]}  PROVE  Lists(r, queue'[r], pc')
  <2>1. queue'[r] = queue[r] /\ Lists(r, queue[r], pc)
    BY <1>5, <1>7 DEF TypeOK
  <2>2. \A d \in Callers : ProcessOf[d] = r => pc'[d] = pc[d]
    BY <1>6, <1>7
  <2> QED  BY <2>1, <2>2, ListsStable
<1> QED  BY <1>2, <1>3, <1>4, <1>6, <1>7

\* Those with a turn keep fitting, when c is the one that moved.
LEMMA PumpedFits ==
  ASSUME NEW c \in Callers, NEW q, NEW at \in [Callers -> Stages],
         NEW md \in [Callers -> GateModes], TypeOK, FitInProcess,
         \A d \in Callers \ {c} : at[d] = pc[d] /\ md[d] = mode[d], at[c] \notin Turn,
         mode' = md,
         Lists(ProcessOf[c], q, at), Pump(ProcessOf[c], q, at, md)
  PROVE  FitInProcess'
<1> DEFINE p == ProcessOf[c]
<1>1. p \in Processes /\ queue \in [Processes -> Seq(Callers)]
  BY GateAssumption DEF TypeOK
<1>2. \A d, e \in Callers : (d # e /\ ProcessOf[d] = p /\ ProcessOf[e] = p
                                /\ at[d] \in Turn /\ at[e] \in Turn) => Fits(md[d], md[e])
  BY DEF FitInProcess, HasTurn
<1>3. ASSUME NEW d \in Callers, NEW e \in Callers, d # e,
             ProcessOf[d] = p, ProcessOf[e] = p, pc'[d] \in Turn, pc'[e] \in Turn
      PROVE  Fits(md[d], md[e])
  BY <1>1, <1>2, <1>3, PumpFits
<1>4. ASSUME NEW d \in Callers, ProcessOf[d] # p  PROVE  pc'[d] = pc[d] /\ md[d] = mode[d]
  <2>1. pc'[d] = at[d]
    BY <1>4, PumpedStep
  <2> QED  BY <1>4, <2>1
<1>5. ASSUME NEW d \in Callers, NEW e \in Callers, d # e, ProcessOf[d] = ProcessOf[e],
             pc'[d] \in Turn, pc'[e] \in Turn
      PROVE  Fits(md[d], md[e])
  <2>1. CASE ProcessOf[d] = p
    BY <1>3, <1>5, <2>1
  <2>2. CASE ProcessOf[d] # p
    BY <1>4, <1>5, <2>2 DEF FitInProcess, HasTurn
  <2> QED  BY <2>1, <2>2
<1> QED  BY <1>5 DEF FitInProcess, HasTurn

\* The turn of c ends: c is idle, nobody gets further than polling.
LEMMA EndTurnEffect ==
  ASSUME NEW c \in Callers, TypeOK, FitInProcess, pc[c] \in Turn, EndTurn(c), mode' = mode
  PROVE  /\ pc' \in [Callers -> Stages]
         /\ queue' \in [Processes -> Seq(Callers)]
         /\ \A r \in Processes : Lists(r, queue'[r], pc')
         /\ pc'[c] = "idle"
         /\ \A d \in Callers \ {c} :
              pc'[d] # pc[d] => pc[d] = "queued" /\ pc'[d] = "polling"
         /\ FitInProcess'
         /\ lapsed' = lapsed \ {c}
<1> DEFINE at == [pc EXCEPT ![c] = "idle"]
           q == queue[ProcessOf[c]]
<1>1. /\ at \in [Callers -> Stages]
      /\ at[c] = "idle"
      /\ \A d \in Callers \ {c} : at[d] = pc[d]
      /\ mode \in [Callers -> GateModes]
      /\ ProcessOf[c] \in Processes
  BY GateAssumption DEF TypeOK, Stages
<1>2. Lists(ProcessOf[c], q, pc)
  BY <1>1 DEF TypeOK
<1>3. Lists(ProcessOf[c], q, at)
  BY <1>1, <1>2 DEF Lists, Turn
<1>4. Pump(ProcessOf[c], q, at, mode) /\ lapsed' = lapsed \ {c}
  BY DEF EndTurn
<1> HIDE DEF at, q
<1>5. FitInProcess'
  BY <1>1, <1>3, <1>4, PumpedFits DEF Turn
<1>6. /\ pc' \in [Callers -> Stages]
      /\ queue' \in [Processes -> Seq(Callers)]
      /\ \A r \in Processes : Lists(r, queue'[r], pc')
      /\ \A d \in Callers :
           pc'[d] # at[d] => at[d] = "queued" /\ pc'[d] = "polling"
  BY <1>1, <1>3, <1>4, PumpedStep
<1>7. pc'[c] = "idle"
  BY <1>1, <1>6
<1> QED
  BY <1>1, <1>4, <1>5, <1>6, <1>7

(***************************************************************************)
(* Files                                                                   *)
(***************************************************************************)

\* Tidying up keeps the files of every turn that never lapsed.
LEMMA TidiedFiles ==
  ASSUME Inv, NEW p \in Processes
  PROVE  /\ MarkersTidied(p) \subseteq markers
         /\ \A d \in Callers \ lapsed : HasMarker(d) => d \in MarkersTidied(p)
         /\ LockTidied(p) \in {lock, NoProcess}
         /\ LockFree(p) =>
              \A d \in Callers \ lapsed : HasLock(d) => ProcessOf[d] = p /\ lock = p /\ LockTidied(p) = p
<1>1. MarkersTidied(p) \subseteq markers
  BY DEF MarkersTidied
<1>2. \A d \in Callers \ lapsed : HasMarker(d) => d \in MarkersTidied(p)
  BY DEF MarkersTidied, Left, Inv, FilesInv
<1>3. LockTidied(p) \in {lock, NoProcess}
  BY DEF LockTidied
<1>4. ASSUME LockFree(p), NEW d \in Callers \ lapsed, HasLock(d)
      PROVE  ProcessOf[d] = p /\ lock = p /\ LockTidied(p) = p
  <2>1. lock = ProcessOf[d] /\ life[ProcessOf[d]] = "live" /\ ProcessOf[d] \in Processes
    BY <1>4, GateAssumption DEF Inv, FilesInv
  <2>2. lock # NoProcess
    BY <2>1, GateAssumption
  <2> QED  BY <1>4, <2>1, <2>2 DEF LockFree, LockTidied, Left
<1> QED  BY <1>1, <1>2, <1>3, <1>4

\* A process with a caller that has the lock has no other turn.
LEMMA LockIsAlone ==
  ASSUME Inv, NEW c \in Callers, NEW d \in Callers, c # d,
         ProcessOf[c] = ProcessOf[d], HasLock(c), HasTurn(d)
  PROVE  FALSE
BY DEF Inv, FitInProcess, HasTurn, HasLock, Turn, Fits

\* A turn that ends, whichever way, keeps the invariant when its files go and
\* those of other running processes stay.
LEMMA TurnOver ==
  ASSUME Inv, NEW c \in Callers, HasTurn(c), EndTurn(c),
         UNCHANGED <<life, mode, pending>>,
         markers' \subseteq markers,
         \A d \in Callers \ lapsed : (d # c /\ HasMarker(d)) => d \in markers',
         pc[c] = "inside" => c \notin markers',
         lock' \in {lock, NoProcess},
         lock' # lock => \/ HasLock(c) /\ lock = ProcessOf[c]
                        \/ \A d \in Callers \ lapsed : ~HasLock(d),
         HasLock(c) => lock' # ProcessOf[c]
  PROVE  Inv'
<1>1. /\ pc' \in [Callers -> Stages]
      /\ queue' \in [Processes -> Seq(Callers)]
      /\ \A r \in Processes : Lists(r, queue'[r], pc')
      /\ pc'[c] = "idle"
      /\ \A d \in Callers \ {c} : pc'[d] # pc[d] => pc[d] = "queued" /\ pc'[d] = "polling"
      /\ FitInProcess'
      /\ lapsed' = lapsed \ {c}
  <2>1. TypeOK /\ FitInProcess /\ pc[c] \in Turn /\ mode' = mode
    BY DEF Inv, HasTurn
  <2> QED  BY <2>1, EndTurnEffect
<1>2. TypeOK'
  BY <1>1 DEF Inv, TypeOK
<1>3. \A d \in Callers : pc'[d] \in {"draining", "inside"} => d # c /\ pc[d] = pc'[d]
  BY <1>1
<1>4. \A d \in Callers \ lapsed' : d # c => d \in Callers \ lapsed
  BY <1>1
<1>5. DrainsAlone'
  BY <1>3 DEF Inv, DrainsAlone
<1>6. FilesInv'
  <2>1. ASSUME NEW d \in Callers \ lapsed', HasMarker(d)'
        PROVE  d \in markers' /\ life'[ProcessOf[d]] = "live"
    <3>1. d # c /\ d \in Callers \ lapsed /\ HasMarker(d)
      BY <1>3, <1>4, <2>1 DEF HasMarker
    <3> QED  BY <3>1 DEF Inv, FilesInv
  <2>2. ASSUME NEW d \in Callers \ lapsed', HasLock(d)'
        PROVE  lock' = ProcessOf[d] /\ life'[ProcessOf[d]] = "live"
    <3>1. d # c /\ d \in Callers \ lapsed /\ HasLock(d)
      BY <1>3, <1>4, <2>2 DEF HasLock
    <3>2. lock = ProcessOf[d] /\ life[ProcessOf[d]] = "live"
      BY <3>1 DEF Inv, FilesInv
    <3>3. CASE lock' # lock
      BY <3>1, <3>2, <3>3, LockIsAlone DEF HasLock, HasTurn, Turn
    <3> QED  BY <3>2, <3>3
  <2> QED  BY <2>1, <2>2 DEF FilesInv, HasMarker, HasLock
<1>7. FitAcross'
  BY <1>3, <1>4 DEF Inv, FitAcross
<1>8. NothingLeftBehind'
  <2>1. ASSUME NEW d \in markers', life'[ProcessOf[d]] # "dead"  PROVE  pc'[d] = "inside"
    <3>1. d \in Callers /\ pc[d] = "inside"
      BY <2>1 DEF Inv, NothingLeftBehind, TypeOK
    <3> QED  BY <1>1, <2>1, <3>1
  <2>2. ASSUME lock' # NoProcess, life'[lock'] # "dead"
        PROVE  \E d \in CallersOf(lock') : mode'[d] = "alone" /\ pc'[d] \in {"draining", "inside"}
    <3>1. PICK d \in CallersOf(lock) : mode[d] = "alone" /\ pc[d] \in {"draining", "inside"}
      BY <2>2 DEF Inv, NothingLeftBehind
    <3>2. d \in Callers /\ ProcessOf[d] = lock /\ lock' = lock
      BY <2>2, <3>1 DEF CallersOf
    <3>3. d # c
      BY <3>1, <3>2 DEF HasLock
    <3>4. pc'[d] = pc[d]
      BY <1>1, <3>1, <3>2, <3>3
    <3> QED  BY <3>1, <3>2, <3>4
  <2> QED  BY <2>1, <2>2 DEF NothingLeftBehind
<1> QED  BY <1>1, <1>2, <1>5, <1>6, <1>7, <1>8 DEF Inv

(***************************************************************************)
(* Steps                                                                   *)
(***************************************************************************)

\* A caller that is not in a turn moves to the queue or out of it.
LEMMA QueueMoveKeeps ==
  ASSUME Inv, NEW c \in Callers, NEW q, NEW at \in [Callers -> Stages],
         NEW md \in [Callers -> GateModes],
         life[ProcessOf[c]] = "live", pc[c] \notin Turn,
         at[c] \in {"idle", "queued"},
         \A d \in Callers \ {c} : at[d] = pc[d] /\ md[d] = mode[d],
         Lists(ProcessOf[c], q, at), Pump(ProcessOf[c], q, at, md),
         mode' = md, UNCHANGED <<life, markers, lock, pending, lapsed>>
  PROVE  Inv'
<1>1. /\ pc' \in [Callers -> Stages]
      /\ queue' \in [Processes -> Seq(Callers)]
      /\ \A r \in Processes : Lists(r, queue'[r], pc')
      /\ \A d \in Callers :
           pc'[d] # at[d] => ProcessOf[d] = ProcessOf[c] /\ at[d] = "queued" /\ pc'[d] = "polling"
  BY PumpedStep DEF Inv
<1>2. FitInProcess'
  BY PumpedFits DEF Inv, Turn
<1>3. TypeOK'
  BY <1>1 DEF Inv, TypeOK
<1>4. \A d \in Callers : pc'[d] \in {"draining", "inside"} => d # c /\ pc[d] = pc'[d] /\ mode'[d] = mode[d]
  BY <1>1
<1>5. \A d \in Callers : pc[d] \in {"draining", "inside"} => d # c /\ pc'[d] = pc[d] /\ mode'[d] = mode[d]
  <2>1. ASSUME NEW d \in Callers, pc[d] \in {"draining", "inside"}
        PROVE  d # c /\ pc'[d] = pc[d] /\ mode'[d] = mode[d]
    <3>1. d # c
      BY <2>1 DEF Turn
    <3> QED  BY <1>1, <2>1, <3>1
  <2> QED  BY <2>1
<1>6. DrainsAlone'
  BY <1>4 DEF Inv, DrainsAlone
<1>7. FilesInv'
  BY <1>4 DEF Inv, FilesInv, HasMarker, HasLock
<1>8. FitAcross'
  BY <1>4 DEF Inv, FitAcross
<1>9. NothingLeftBehind'
  BY <1>5 DEF Inv, NothingLeftBehind, TypeOK, CallersOf
<1> QED  BY <1>2, <1>3, <1>6, <1>7, <1>8, <1>9 DEF Inv

LEMMA EnterKeeps ==
  ASSUME Inv, NEW c \in Callers, NEW m \in ModesOf[c], Enter(c, m)
  PROVE  Inv'
<1> DEFINE p == ProcessOf[c]
           q == Append(queue[p], c)
           at == [pc EXCEPT ![c] = "queued"]
           md == [mode EXCEPT ![c] = m]
<1>1. /\ life[p] = "live" /\ pc[c] = "idle" /\ mode' = md
      /\ Pump(p, q, at, md) /\ UNCHANGED <<life, markers, lock, pending, lapsed>>
  BY DEF Enter
<1>2. Lists(p, q, at)
  BY <1>1, JoinedQueue DEF Inv
<1>3. at \in [Callers -> Stages] /\ at[c] = "queued" /\ md \in [Callers -> GateModes]
      /\ \A d \in Callers \ {c} : at[d] = pc[d] /\ md[d] = mode[d]
  BY GateAssumption DEF Inv, TypeOK, Stages
<1>4. pc[c] \notin Turn
  BY <1>1 DEF Turn
<1> HIDE DEF q, at, md
<1> QED  BY <1>1, <1>2, <1>3, <1>4, QueueMoveKeeps

LEMMA GiveUpQueuedKeeps ==
  ASSUME Inv, NEW c \in Callers, GiveUpQueued(c)
  PROVE  Inv'
<1> DEFINE p == ProcessOf[c]
           q == Unqueued(c)
           at == [pc EXCEPT ![c] = "idle"]
<1>1. /\ life[p] = "live" /\ pc[c] = "queued" /\ mode' = mode
      /\ Pump(p, q, at, mode) /\ UNCHANGED <<life, markers, lock, pending, lapsed>>
  BY DEF GiveUpQueued
<1>2. Lists(p, q, at)
  BY <1>1, LeftQueue DEF Inv
<1>3. at \in [Callers -> Stages] /\ at[c] = "idle" /\ mode \in [Callers -> GateModes]
      /\ \A d \in Callers \ {c} : at[d] = pc[d]
  BY DEF Inv, TypeOK, Stages
<1>4. pc[c] \notin Turn
  BY <1>1 DEF Turn
<1> HIDE DEF q, at
<1> QED  BY <1>1, <1>2, <1>3, <1>4, QueueMoveKeeps

\* A caller with a turn goes further; queues stay.
LEMMA FurtherKeepsType ==
  ASSUME TypeOK, FitInProcess, NEW c \in Callers, NEW to \in Turn, HasTurn(c),
         pc' = [pc EXCEPT ![c] = to], UNCHANGED <<mode, queue>>
  PROVE  /\ pc' \in [Callers -> Stages]
         /\ \A r \in Processes : Lists(r, queue'[r], pc')
         /\ FitInProcess'
         /\ pc'[c] = to
         /\ \A d \in Callers \ {c} : pc'[d] = pc[d]
<1>1. /\ pc' \in [Callers -> Stages]
      /\ pc'[c] = to
      /\ \A d \in Callers \ {c} : pc'[d] = pc[d]
  BY DEF TypeOK, Turn, Stages
<1>2. \A d \in Callers : pc[d] = "queued" <=> pc'[d] = "queued"
  BY <1>1 DEF HasTurn, Turn
<1>3. ASSUME NEW r \in Processes  PROVE  Lists(r, queue'[r], pc')
  BY <1>2, ListsStable DEF TypeOK
<1>4. FitInProcess'
  BY <1>1 DEF FitInProcess, HasTurn
<1> QED  BY <1>1, <1>3, <1>4

\* A poll of a running process only tidies up.
LEMMA TidyingKeeps ==
  ASSUME Inv, NEW p \in Processes, UNCHANGED <<life, mode, pc, queue, pending, lapsed>>,
         markers' = markers \/ markers' = MarkersTidied(p),
         lock' = lock \/ (LockFree(p) /\ lock' = LockTidied(p))
  PROVE  Inv'
<1>1. /\ markers' \subseteq markers
      /\ \A d \in Callers \ lapsed : HasMarker(d) => d \in markers'
      /\ lock' \in {lock, NoProcess}
      /\ \A d \in Callers \ lapsed : HasLock(d) => lock' = lock
  BY TidiedFiles
<1>2. TypeOK'
  BY <1>1 DEF Inv, TypeOK
<1>3. DrainsAlone' /\ FitInProcess' /\ FitAcross'
  BY DEF Inv, DrainsAlone, FitInProcess, FitAcross, HasTurn
<1>4. FilesInv'
  BY <1>1 DEF Inv, FilesInv, HasMarker, HasLock
<1>5. NothingLeftBehind'
  BY <1>1 DEF Inv, NothingLeftBehind
<1> QED  BY <1>2, <1>3, <1>4, <1>5 DEF Inv

LEMMA GroupPollKeeps ==
  ASSUME Inv, NEW c \in Callers, GroupPoll(c)
  PROVE  Inv'
<1> DEFINE p == ProcessOf[c]
<1>1. /\ life[p] = "live" /\ pc[c] = "polling" /\ mode[c] # "alone" /\ LockFree(p)
      /\ lock' = LockTidied(p) /\ UNCHANGED <<life, mode, pending>>
  BY DEF GroupPoll
<1>2. p \in Processes /\ HasTurn(c)
  BY <1>1, GateAssumption DEF HasTurn, Turn
<1>3. /\ MarkersTidied(p) \subseteq markers
      /\ \A d \in Callers \ lapsed : HasMarker(d) => d \in MarkersTidied(p)
      /\ lock' \in {lock, NoProcess}
      /\ \A d \in Callers \ lapsed : HasLock(d) => ProcessOf[d] = p /\ lock = p /\ lock' = p
  BY <1>1, <1>2, TidiedFiles
<1>4. CASE EndTurn(c) /\ UNCHANGED markers
  <2>1. lock' # lock => \A d \in Callers \ lapsed : ~HasLock(d)
    BY <1>3
  <2>2. ~HasLock(c)
    BY <1>1 DEF HasLock
  <2>3. \A d \in Callers \ lapsed : (d # c /\ HasMarker(d)) => d \in markers'
    BY <1>4 DEF Inv, FilesInv
  <2> QED  BY <1>1, <1>2, <1>3, <1>4, <2>1, <2>2, <2>3, TurnOver
<1>5. CASE /\ \A d \in OthersInside(p) : Fits(mode[c], mode[d])
           /\ markers' = MarkersTidied(p) \cup {c}
           /\ pc' = [pc EXCEPT ![c] = "inside"]
           /\ UNCHANGED <<queue, lapsed>>
  <2>1. /\ pc' \in [Callers -> Stages]
        /\ \A r \in Processes : Lists(r, queue'[r], pc')
        /\ FitInProcess'
        /\ pc'[c] = "inside"
        /\ \A d \in Callers \ {c} : pc'[d] = pc[d]
    BY <1>1, <1>2, <1>5, FurtherKeepsType DEF Inv, Turn
  <2>2. TypeOK'
    BY <1>1, <1>3, <1>5, <2>1 DEF Inv, TypeOK
  <2>3. DrainsAlone'
    BY <1>1, <2>1 DEF Inv, DrainsAlone
  <2>4. FilesInv'
    <3>1. ASSUME NEW d \in Callers \ lapsed', HasMarker(d)'
          PROVE  d \in markers' /\ life'[ProcessOf[d]] = "live"
      <4>1. CASE d = c
        BY <1>1, <1>5, <4>1
      <4>2. CASE d # c
        <5>1. HasMarker(d) /\ d \in Callers \ lapsed
          BY <1>1, <1>5, <2>1, <3>1, <4>2 DEF HasMarker
        <5> QED  BY <1>1, <1>3, <1>5, <5>1 DEF Inv, FilesInv
      <4> QED  BY <4>1, <4>2
    <3>2. ASSUME NEW d \in Callers \ lapsed', HasLock(d)'
          PROVE  lock' = ProcessOf[d] /\ life'[ProcessOf[d]] = "live"
      <4>1. d # c /\ HasLock(d) /\ d \in Callers \ lapsed
        BY <1>1, <1>5, <2>1, <3>2 DEF HasLock
      <4> QED  BY <1>1, <1>3, <4>1 DEF Inv, FilesInv
    <3> QED  BY <3>1, <3>2 DEF FilesInv, HasMarker, HasLock
  <2>5. FitAcross'
    <3>1. ASSUME NEW d \in Callers \ lapsed, ProcessOf[d] # p, pc[d] = "inside"
          PROVE  Fits(mode[c], mode[d])
      <4>1. HasMarker(d)
        BY <1>3, <3>1 DEF HasMarker, HasLock
      <4>2. d \in OthersInside(p)
        BY <1>3, <3>1, <4>1 DEF OthersInside
      <4> QED  BY <1>5, <4>2
    <3> QED  BY <1>1, <1>5, <2>1, <3>1 DEF Inv, FitAcross, Fits
  <2>6. NothingLeftBehind'
    <3>1. ASSUME NEW d \in markers', life'[ProcessOf[d]] # "dead"  PROVE  pc'[d] = "inside"
      BY <1>1, <1>3, <1>5, <2>1, <3>1 DEF Inv, NothingLeftBehind, TypeOK
    <3>2. ASSUME lock' # NoProcess, life'[lock'] # "dead"
          PROVE  \E d \in CallersOf(lock') : mode'[d] = "alone" /\ pc'[d] \in {"draining", "inside"}
      <4>1. lock' = lock
        BY <1>3, <3>2
      <4>2. PICK d \in CallersOf(lock) : mode[d] = "alone" /\ pc[d] \in {"draining", "inside"}
        BY <1>1, <3>2, <4>1 DEF Inv, NothingLeftBehind
      <4>3. d \in Callers /\ d # c
        BY <1>1, <4>2 DEF CallersOf
      <4> QED  BY <1>1, <2>1, <4>1, <4>2, <4>3
    <3> QED  BY <3>1, <3>2 DEF NothingLeftBehind
  <2> QED  BY <2>1, <2>2, <2>3, <2>4, <2>5, <2>6 DEF Inv
<1>6. CASE markers' = MarkersTidied(p) /\ UNCHANGED <<pc, queue, lapsed>>
  BY <1>1, <1>2, <1>6, TidyingKeeps
<1>7. CASE UNCHANGED <<pc, queue, markers, lapsed>>
  BY <1>1, <1>2, <1>7, TidyingKeeps
<1> QED  BY <1>4, <1>5, <1>6, <1>7 DEF GroupPoll

LEMMA AlonePollKeeps ==
  ASSUME Inv, NEW c \in Callers, AlonePoll(c)
  PROVE  Inv'
<1> DEFINE p == ProcessOf[c]
<1>1. /\ life[p] = "live" /\ pc[c] = "polling" /\ mode[c] = "alone" /\ LockFree(p)
      /\ UNCHANGED <<life, mode, markers, pending>>
  BY DEF AlonePoll
<1>2. p \in Processes /\ HasTurn(c) /\ p # NoProcess
  BY <1>1, GateAssumption DEF HasTurn, Turn
<1>3. \A d \in Callers \ lapsed : HasLock(d) => ProcessOf[d] = p /\ lock = p /\ LockTidied(p) = p
  BY <1>1, <1>2, TidiedFiles
<1>4. CASE lock' = LockTidied(p) /\ EndTurn(c)
  <2>1. lock' \in {lock, NoProcess} /\ (lock' # lock => \A d \in Callers \ lapsed : ~HasLock(d))
    BY <1>3, <1>4 DEF LockTidied
  <2>2. ~HasLock(c)
    BY <1>1 DEF HasLock
  <2>3. \A d \in Callers \ lapsed : (d # c /\ HasMarker(d)) => d \in markers'
    BY <1>1 DEF Inv, FilesInv
  <2> QED  BY <1>1, <1>2, <1>4, <2>1, <2>2, <2>3, TurnOver
<1>5. CASE lock' = p /\ pc' = [pc EXCEPT ![c] = "draining"] /\ UNCHANGED <<queue, lapsed>>
  <2>1. /\ pc' \in [Callers -> Stages]
        /\ \A r \in Processes : Lists(r, queue'[r], pc')
        /\ FitInProcess'
        /\ pc'[c] = "draining"
        /\ \A d \in Callers \ {c} : pc'[d] = pc[d]
    BY <1>1, <1>2, <1>5, FurtherKeepsType DEF Inv, Turn
  <2>2. TypeOK'
    BY <1>1, <1>2, <1>5, <2>1 DEF Inv, TypeOK
  <2>3. DrainsAlone'
    BY <1>1, <2>1 DEF Inv, DrainsAlone
  <2>4. FilesInv'
    <3>1. ASSUME NEW d \in Callers \ lapsed', HasMarker(d)'
          PROVE  d \in markers' /\ life'[ProcessOf[d]] = "live"
      <4>1. HasMarker(d) /\ d \in Callers \ lapsed
        BY <1>1, <1>5, <2>1, <3>1 DEF HasMarker
      <4> QED  BY <1>1, <4>1 DEF Inv, FilesInv
    <3>2. ASSUME NEW d \in Callers \ lapsed', HasLock(d)'
          PROVE  lock' = ProcessOf[d] /\ life'[ProcessOf[d]] = "live"
      <4>1. CASE d = c
        BY <1>1, <1>5, <4>1
      <4>2. CASE d # c
        <5>1. HasLock(d) /\ d \in Callers \ lapsed
          BY <1>1, <1>5, <2>1, <3>2, <4>2 DEF HasLock
        <5> QED  BY <1>1, <1>3, <1>5, <5>1
      <4> QED  BY <4>1, <4>2
    <3> QED  BY <3>1, <3>2 DEF FilesInv, HasMarker, HasLock
  <2>5. FitAcross'
    BY <1>1, <1>5, <2>1 DEF Inv, FitAcross
  <2>6. NothingLeftBehind'
    <3>1. ASSUME NEW d \in markers', life'[ProcessOf[d]] # "dead"  PROVE  pc'[d] = "inside"
      BY <1>1, <2>1, <3>1 DEF Inv, NothingLeftBehind, TypeOK
    <3>2. c \in CallersOf(lock') /\ mode'[c] = "alone" /\ pc'[c] \in {"draining", "inside"}
      BY <1>1, <1>5, <2>1 DEF CallersOf
    <3> QED  BY <3>1, <3>2 DEF NothingLeftBehind
  <2> QED  BY <2>1, <2>2, <2>3, <2>4, <2>5, <2>6 DEF Inv
<1>6. CASE lock' = LockTidied(p) /\ UNCHANGED <<pc, queue, lapsed>>
  BY <1>1, <1>2, <1>6, TidyingKeeps
<1> QED  BY <1>4, <1>5, <1>6 DEF AlonePoll

LEMMA DrainKeeps ==
  ASSUME Inv, NEW c \in Callers, Drain(c)
  PROVE  Inv'
<1> DEFINE p == ProcessOf[c]
<1>1. /\ life[p] = "live" /\ pc[c] = "draining" /\ mode[c] = "alone" /\ HasLock(c)
      /\ markers' = MarkersTidied(p) /\ UNCHANGED <<life, mode, pending>>
  BY DEF Drain, HasLock, Inv, DrainsAlone
<1>2. p \in Processes /\ HasTurn(c) /\ p # NoProcess
  BY <1>1, GateAssumption DEF HasTurn, Turn
<1>3. /\ MarkersTidied(p) \subseteq markers
      /\ \A d \in Callers \ lapsed : HasMarker(d) => d \in MarkersTidied(p)
  BY <1>2, TidiedFiles
<1>4. CASE lock' = LockDropped(c) /\ EndTurn(c)
  <2>1. /\ lock' \in {lock, NoProcess}
        /\ lock' # lock => lock = p
        /\ lock' # p
    BY <1>1, <1>2, <1>4 DEF LockDropped
  <2> QED  BY <1>1, <1>2, <1>3, <1>4, <2>1, TurnOver
<1>5. CASE OthersInside(p) = {} /\ pc' = [pc EXCEPT ![c] = "inside"] /\ UNCHANGED <<queue, lock, lapsed>>
  <2>1. /\ pc' \in [Callers -> Stages]
        /\ \A r \in Processes : Lists(r, queue'[r], pc')
        /\ FitInProcess'
        /\ pc'[c] = "inside"
        /\ \A d \in Callers \ {c} : pc'[d] = pc[d]
    BY <1>1, <1>2, <1>5, FurtherKeepsType DEF Inv, Turn
  <2>2. TypeOK'
    BY <1>1, <1>3, <1>5, <2>1 DEF Inv, TypeOK
  <2>3. DrainsAlone'
    BY <1>1, <2>1 DEF Inv, DrainsAlone
  <2>4. FilesInv'
    <3>1. ASSUME NEW d \in Callers \ lapsed', HasMarker(d)'
          PROVE  d \in markers' /\ life'[ProcessOf[d]] = "live"
      <4>1. HasMarker(d) /\ d \in Callers \ lapsed
        BY <1>1, <1>5, <2>1, <3>1 DEF HasMarker
      <4> QED  BY <1>1, <1>3, <4>1 DEF Inv, FilesInv
    <3>2. ASSUME NEW d \in Callers \ lapsed', HasLock(d)'
          PROVE  lock' = ProcessOf[d] /\ life'[ProcessOf[d]] = "live"
      <4>1. HasLock(d) /\ d \in Callers \ lapsed
        BY <1>1, <1>5, <2>1, <3>2 DEF HasLock
      <4> QED  BY <1>1, <1>5, <4>1 DEF Inv, FilesInv
    <3> QED  BY <3>1, <3>2 DEF FilesInv, HasMarker, HasLock
  <2>5. FitAcross'
    <3>1. ASSUME NEW d \in Callers \ lapsed, c \notin lapsed, ProcessOf[d] # p, pc[d] = "inside"
          PROVE  FALSE
      <4>1. lock = p
        BY <1>1, <3>1 DEF Inv, FilesInv
      <4>2. ~HasLock(d)
        BY <3>1, <4>1 DEF Inv, FilesInv
      <4>3. d \in OthersInside(p)
        BY <1>3, <3>1, <4>2 DEF OthersInside, HasLock, HasMarker
      <4> QED  BY <1>5, <4>3
    <3> QED  BY <1>1, <1>5, <2>1, <3>1 DEF Inv, FitAcross
  <2>6. NothingLeftBehind'
    <3>1. ASSUME NEW d \in markers', life'[ProcessOf[d]] # "dead"  PROVE  pc'[d] = "inside"
      BY <1>1, <1>3, <2>1, <3>1 DEF Inv, NothingLeftBehind, TypeOK
    <3>2. ASSUME lock' # NoProcess, life'[lock'] # "dead"
          PROVE  \E d \in CallersOf(lock') : mode'[d] = "alone" /\ pc'[d] \in {"draining", "inside"}
      <4>1. PICK d \in CallersOf(lock) : mode[d] = "alone" /\ pc[d] \in {"draining", "inside"}
        BY <1>1, <1>5, <3>2 DEF Inv, NothingLeftBehind
      <4>2. d \in Callers
        BY <4>1 DEF CallersOf
      <4> QED  BY <1>1, <1>5, <2>1, <4>1, <4>2
    <3> QED  BY <3>1, <3>2 DEF NothingLeftBehind
  <2> QED  BY <2>1, <2>2, <2>3, <2>4, <2>5, <2>6 DEF Inv
<1>6. CASE UNCHANGED <<pc, queue, lock, lapsed>>
  BY <1>1, <1>2, <1>6, TidyingKeeps
<1> QED  BY <1>4, <1>5, <1>6 DEF Drain

LEMMA GiveUpKeeps ==
  ASSUME Inv, NEW c \in Callers, GiveUp(c)
  PROVE  Inv'
<1>1. /\ pc[c] \in {"polling", "draining"} /\ lock' = LockGivenUp(c) /\ EndTurn(c)
      /\ UNCHANGED <<life, mode, markers, pending>>
  BY DEF GiveUp
<1>2. HasTurn(c) /\ ProcessOf[c] # NoProcess
  BY <1>1, GateAssumption DEF HasTurn, Turn
<1>3. \A d \in Callers \ lapsed : (d # c /\ HasMarker(d)) => d \in markers'
  BY <1>1 DEF Inv, FilesInv
<1>4. CASE pc[c] = "draining"
  <2>1. HasLock(c) /\ lock' = LockDropped(c)
    BY <1>1, <1>4 DEF HasLock, LockGivenUp, Inv, DrainsAlone
  <2>2. /\ lock' \in {lock, NoProcess}
        /\ lock' # lock => lock = ProcessOf[c]
        /\ lock' # ProcessOf[c]
    BY <1>2, <2>1 DEF LockDropped, HasLock
  <2> QED  BY <1>1, <1>2, <1>3, <1>4, <2>1, <2>2, TurnOver
<1>5. CASE pc[c] = "polling"
  <2>1. lock' = lock /\ ~HasLock(c)
    BY <1>1, <1>5 DEF LockGivenUp, HasLock
  <2> QED  BY <1>1, <1>2, <1>3, <1>5, <2>1, TurnOver
<1> QED  BY <1>1, <1>4, <1>5

LEMMA LeaveKeeps ==
  ASSUME Inv, NEW c \in Callers, Leave(c)
  PROVE  Inv'
<1>1. /\ pc[c] = "inside" /\ markers' = markers \ {c} /\ lock' = LockDropped(c) /\ EndTurn(c)
      /\ UNCHANGED <<life, mode, pending>>
  BY DEF Leave
<1>2. HasTurn(c) /\ ProcessOf[c] # NoProcess
  BY <1>1, GateAssumption DEF HasTurn, Turn
<1>3. \A d \in Callers \ lapsed : (d # c /\ HasMarker(d)) => d \in markers'
  BY <1>1 DEF Inv, FilesInv
<1>4. /\ lock' \in {lock, NoProcess}
      /\ lock' # lock => HasLock(c) /\ lock = ProcessOf[c]
      /\ HasLock(c) => lock' # ProcessOf[c]
  BY <1>1, <1>2 DEF LockDropped, HasLock
<1> QED  BY <1>1, <1>2, <1>3, <1>4, TurnOver

\* What a process does about its pending marker concerns no turn.
LEMMA PendingStepKeeps ==
  ASSUME Inv, pending' \subseteq Processes,
         UNCHANGED <<life, mode, pc, queue, markers, lock, lapsed>>
  PROVE  Inv'
<1>1. TypeOK'
  BY DEF Inv, TypeOK
<1>2. DrainsAlone' /\ FitInProcess' /\ FilesInv' /\ FitAcross' /\ NothingLeftBehind'
  BY DEF Inv, DrainsAlone, FitInProcess, FilesInv, FitAcross, NothingLeftBehind,
         HasTurn, HasMarker, HasLock
<1> QED  BY <1>1, <1>2 DEF Inv

LEMMA CrashKeeps ==
  ASSUME Inv, NEW p \in Processes, Crash(p)
  PROVE  Inv'
<1>1. /\ life' = [life EXCEPT ![p] = "dead"]
      /\ pc' = [c \in Callers |-> IF ProcessOf[c] = p THEN "idle" ELSE pc[c]]
      /\ queue' = [queue EXCEPT ![p] = <<>>]
      /\ lapsed' = lapsed \ CallersOf(p)
      /\ UNCHANGED <<mode, markers, lock, pending>>
  BY DEF Crash
<1>2. /\ \A r \in Processes \ {p} : life'[r] = life[r] /\ queue'[r] = queue[r]
      /\ life'[p] = "dead"
      /\ \A c \in Callers : ProcessOf[c] = p => pc'[c] = "idle"
      /\ \A c \in Callers : ProcessOf[c] # p => pc'[c] = pc[c] /\ (c \in lapsed' <=> c \in lapsed)
  BY <1>1 DEF Inv, TypeOK, CallersOf
<1>3. TypeOK'
  <2>1. ASSUME NEW r \in Processes  PROVE  Lists(r, queue'[r], pc')
    <3>1. CASE r = p
      <4>1. queue'[r] = <<>> /\ queue'[r] \in Seq(Callers) /\ Len(queue'[r]) = 0
        BY <1>1, <3>1 DEF Inv, TypeOK
      <4> QED  BY <1>2, <3>1, <4>1 DEF Lists
    <3>2. CASE r # p
      <4>1. Lists(r, queue'[r], pc)
        BY <1>2, <3>2 DEF Inv, TypeOK
      <4> QED  BY <1>2, <3>2, <4>1, ListsStable
    <3> QED  BY <3>1, <3>2
  <2>2. pc' \in [Callers -> Stages]
    BY <1>1 DEF Inv, TypeOK, Stages
  <2>3. queue' \in [Processes -> Seq(Callers)]
    BY <1>1 DEF Inv, TypeOK
  <2> QED  BY <1>1, <2>1, <2>2, <2>3 DEF Inv, TypeOK
<1>4. \A c \in Callers : pc'[c] # "idle" => ProcessOf[c] # p /\ pc'[c] = pc[c]
  BY <1>2
<1>5. DrainsAlone' /\ FitInProcess'
  BY <1>1, <1>4 DEF Inv, DrainsAlone, FitInProcess, HasTurn, Turn
<1>6. FilesInv'
  BY <1>1, <1>2, <1>4, GateAssumption DEF Inv, FilesInv, HasMarker, HasLock
<1>7. FitAcross'
  BY <1>1, <1>2, <1>4 DEF Inv, FitAcross
<1>8. NothingLeftBehind'
  <2>1. ASSUME NEW d \in markers', life'[ProcessOf[d]] # "dead"  PROVE  pc'[d] = "inside"
    BY <1>1, <1>2, <2>1, GateAssumption DEF Inv, NothingLeftBehind, TypeOK
  <2>2. ASSUME lock' # NoProcess, life'[lock'] # "dead"
        PROVE  \E d \in CallersOf(lock') : mode'[d] = "alone" /\ pc'[d] \in {"draining", "inside"}
    <3>1. lock' = lock /\ lock \in Processes \ {p} /\ life'[lock] = life[lock]
      BY <1>1, <1>2, <2>2 DEF Inv, TypeOK
    <3>2. PICK d \in CallersOf(lock) : mode[d] = "alone" /\ pc[d] \in {"draining", "inside"}
      BY <2>2, <3>1 DEF Inv, NothingLeftBehind
    <3> QED  BY <1>1, <1>2, <3>1, <3>2 DEF CallersOf
  <2> QED  BY <2>1, <2>2 DEF NothingLeftBehind
<1> QED  BY <1>3, <1>5, <1>6, <1>7, <1>8 DEF Inv

LEMMA StallKeeps ==
  ASSUME Inv, NEW p \in Processes, Stall(p)
  PROVE  Inv'
<1>1. /\ life[p] = "live"
      /\ life' = [life EXCEPT ![p] = "stalled"]
      /\ lapsed' = lapsed \cup {c \in CallersOf(p) : pc[c] \in {"draining", "inside"}}
      /\ UNCHANGED <<mode, pc, queue, markers, lock, pending>>
  BY DEF Stall
<1>2. /\ \A r \in Processes \ {p} : life'[r] = life[r]
      /\ life'[p] = "stalled"
  BY <1>1 DEF Inv, TypeOK
<1>3. TypeOK'
  BY <1>1 DEF Inv, TypeOK, CallersOf
<1>4. \A c \in Callers \ lapsed' : c \in Callers \ lapsed
                                  /\ (pc[c] \in {"draining", "inside"} => ProcessOf[c] # p)
  BY <1>1 DEF CallersOf
<1>5. DrainsAlone' /\ FitInProcess'
  BY <1>1 DEF Inv, DrainsAlone, FitInProcess, HasTurn
<1>6. FilesInv'
  BY <1>1, <1>2, <1>4, GateAssumption DEF Inv, FilesInv, HasMarker, HasLock
<1>7. FitAcross'
  BY <1>1, <1>4 DEF Inv, FitAcross
<1>8. \A r \in Processes : life'[r] # "dead" => life[r] # "dead"
  BY <1>1, <1>2
<1>9. NothingLeftBehind'
  BY <1>1, <1>8, GateAssumption DEF Inv, NothingLeftBehind, TypeOK
<1> QED  BY <1>3, <1>5, <1>6, <1>7, <1>9 DEF Inv

LEMMA ResumeKeeps ==
  ASSUME Inv, NEW p \in Processes, Resume(p)
  PROVE  Inv'
<1>1. /\ life[p] = "stalled"
      /\ life' = [life EXCEPT ![p] = "live"]
      /\ UNCHANGED <<mode, pc, queue, markers, lock, pending, lapsed>>
  BY DEF Resume
<1>2. /\ \A r \in Processes \ {p} : life'[r] = life[r]
      /\ life'[p] = "live"
  BY <1>1 DEF Inv, TypeOK
<1>3. TypeOK'
  BY <1>1 DEF Inv, TypeOK
<1>4. DrainsAlone' /\ FitInProcess' /\ FitAcross'
  BY <1>1 DEF Inv, DrainsAlone, FitInProcess, FitAcross, HasTurn
<1>5. FilesInv'
  BY <1>1, <1>2, GateAssumption DEF Inv, FilesInv, HasMarker, HasLock
<1>6. \A r \in Processes : life'[r] # "dead" => life[r] # "dead"
  BY <1>1, <1>2
<1>7. NothingLeftBehind'
  BY <1>1, <1>6, GateAssumption DEF Inv, NothingLeftBehind, TypeOK
<1> QED  BY <1>3, <1>4, <1>5, <1>7 DEF Inv

(***************************************************************************)
(* Theorems                                                                *)
(***************************************************************************)

LEMMA InvInit == Init => Inv
<1> SUFFICES ASSUME Init  PROVE  Inv
  OBVIOUS
<1>1. TypeOK
  BY GateAssumption DEF Init, TypeOK, Lists, Stages, GateModes
<1>2. DrainsAlone /\ FitInProcess /\ FilesInv /\ FitAcross
  BY DEF Init, DrainsAlone, FitInProcess, FilesInv, FitAcross, HasTurn, HasMarker, HasLock, Turn
<1>3. NothingLeftBehind
  BY DEF Init, NothingLeftBehind
<1> QED  BY <1>1, <1>2, <1>3 DEF Inv

LEMMA InvStep == Inv /\ [Next]_vars => Inv'
<1> SUFFICES ASSUME Inv, [Next]_vars  PROVE  Inv'
  OBVIOUS
<1>1. ASSUME NEW c \in Callers, NEW m \in ModesOf[c], Enter(c, m)  PROVE  Inv'
  BY <1>1, EnterKeeps
<1>2. ASSUME NEW c \in Callers, GiveUpQueued(c)  PROVE  Inv'
  BY <1>2, GiveUpQueuedKeeps
<1>3. ASSUME NEW c \in Callers, GroupPoll(c)  PROVE  Inv'
  BY <1>3, GroupPollKeeps
<1>4. ASSUME NEW c \in Callers, AlonePoll(c)  PROVE  Inv'
  BY <1>4, AlonePollKeeps
<1>5. ASSUME NEW c \in Callers, Drain(c)  PROVE  Inv'
  BY <1>5, DrainKeeps
<1>6. ASSUME NEW c \in Callers, GiveUp(c)  PROVE  Inv'
  BY <1>6, GiveUpKeeps
<1>7. ASSUME NEW c \in Callers, HoldPending(c)  PROVE  Inv'
  <2>1. pending' \subseteq Processes
    BY <1>7, GateAssumption DEF HoldPending, Inv, TypeOK
  <2> QED  BY <1>7, <2>1, PendingStepKeeps DEF HoldPending
<1>8. ASSUME NEW c \in Callers, Leave(c)  PROVE  Inv'
  BY <1>8, LeaveKeeps
<1>9. ASSUME NEW p \in Processes, SavePending(p)  PROVE  Inv'
  <2>1. pending' \subseteq Processes
    BY <1>9 DEF SavePending, Inv, TypeOK
  <2> QED  BY <1>9, <2>1, PendingStepKeeps DEF SavePending
<1>10. ASSUME NEW p \in Processes, Crash(p)  PROVE  Inv'
  BY <1>10, CrashKeeps
<1>11. ASSUME NEW p \in Processes, Stall(p)  PROVE  Inv'
  BY <1>11, StallKeeps
<1>12. ASSUME NEW p \in Processes, Resume(p)  PROVE  Inv'
  BY <1>12, ResumeKeeps
<1>13. CASE UNCHANGED vars
  <2>1. pending' \subseteq Processes
    BY <1>13 DEF vars, Inv, TypeOK
  <2> QED  BY <1>13, <2>1, PendingStepKeeps DEF vars
<1> QED  BY <1>1, <1>2, <1>3, <1>4, <1>5, <1>6, <1>7, <1>8, <1>9, <1>10, <1>11, <1>12, <1>13 DEF Next

\* The inductive invariant holds in every reachable state of the gate.
THEOREM Invariant == Spec => []Inv
BY InvInit, InvStep, PTL DEF Spec

\* The type invariant: queues list exactly the waiting callers, each once.
THEOREM TypeCorrect == Spec => []TypeOK
<1>1. Inv => TypeOK
  BY DEF Inv
<1> QED  BY Invariant, <1>1, PTL

\* No two callers that cannot run together are inside together, for any number
\* of processes and callers, crashes, stalls and cancellations
\* (workspace-gate.ts: pump, group, alone, drop).
THEOREM ExclusionHolds == Spec => []Exclusion
<1>1. Inv => Exclusion
  <2> SUFFICES ASSUME Inv, NEW c \in Callers, NEW d \in Callers, c # d,
                      pc[c] = "inside", pc[d] = "inside", ~Fits(mode[c], mode[d])
               PROVE  \/ c \in lapsed /\ ProcessOf[c] # ProcessOf[d]
                      \/ d \in lapsed /\ ProcessOf[c] # ProcessOf[d]
    BY DEF Exclusion
  <2>1. ProcessOf[c] # ProcessOf[d]
    BY DEF Inv, FitInProcess, HasTurn, Turn
  <2>2. c \in lapsed \/ d \in lapsed
    BY <2>1 DEF Inv, FitAcross
  <2> QED  BY <2>1, <2>2
<1> QED  BY Invariant, <1>1, PTL

\* A running process leaves no file of a turn that is over, whichever of its
\* exits the turn took (workspace-gate.ts: enter's catch, alone's catch, drop).
THEOREM NothingIsLeftBehind == Spec => []NothingLeftBehind
<1>1. Inv => NothingLeftBehind
  BY DEF Inv
<1> QED  BY Invariant, <1>1, PTL

\* Nobody goes in while another process holds unsaved marks or ended with them
\* (workspace-gate.ts: othersPending).
THEOREM PendingKeepsOutHolds == Spec => PendingKeepsOut
<1>1. Inv /\ [Next]_vars => [KeepsOut]_vars
  <2> SUFFICES ASSUME Inv, Next, NEW d \in Callers, pc[d] # "inside", pc'[d] = "inside"
               PROVE  pending \subseteq {ProcessOf[d]}
    BY DEF KeepsOut
  <2>1. ASSUME NEW c \in Callers, EndTurn(c), HasTurn(c), mode' = mode  PROVE  FALSE
    <3>1. TypeOK /\ FitInProcess /\ pc[c] \in Turn
      BY <2>1 DEF Inv, HasTurn
    <3>2. pc'[c] = "idle" /\ \A e \in Callers \ {c} : pc'[e] # pc[e] => pc[e] = "queued" /\ pc'[e] = "polling"
      BY <2>1, <3>1, EndTurnEffect
    <3> QED  BY <3>2
  <2>2. ASSUME NEW c \in Callers, NEW m \in ModesOf[c], Enter(c, m)  PROVE  FALSE
    <3> DEFINE at == [pc EXCEPT ![c] = "queued"]
               md == [mode EXCEPT ![c] = m]
               q == Append(queue[ProcessOf[c]], c)
    <3>1. /\ at \in [Callers -> Stages] /\ md \in [Callers -> GateModes]
          /\ at[c] = "queued" /\ \A e \in Callers \ {c} : at[e] = pc[e]
      BY GateAssumption DEF Inv, TypeOK, Stages
    <3>2. Lists(ProcessOf[c], q, at) /\ Pump(ProcessOf[c], q, at, md)
      BY <2>2, JoinedQueue DEF Enter, Inv
    <3> HIDE DEF at, md, q
    <3>3. pc'[d] # at[d] => pc'[d] = "polling"
      BY <3>1, <3>2, PumpedStep DEF Inv
    <3> QED  BY <3>1, <3>3
  <2>3. ASSUME NEW c \in Callers, GiveUpQueued(c)  PROVE  FALSE
    <3> DEFINE at == [pc EXCEPT ![c] = "idle"]
    <3>1. /\ at \in [Callers -> Stages] /\ mode \in [Callers -> GateModes]
          /\ at[c] = "idle" /\ \A e \in Callers \ {c} : at[e] = pc[e]
      BY DEF Inv, TypeOK, Stages
    <3>2. Lists(ProcessOf[c], Unqueued(c), at) /\ Pump(ProcessOf[c], Unqueued(c), at, mode)
      BY <2>3, LeftQueue DEF GiveUpQueued, Inv
    <3> HIDE DEF at
    <3>3. pc'[d] # at[d] => pc'[d] = "polling"
      BY <3>1, <3>2, PumpedStep DEF Inv
    <3> QED  BY <3>1, <3>3
  <2>4. ASSUME NEW c \in Callers, GroupPoll(c)  PROVE  pending \subseteq {ProcessOf[d]}
    <3>1. HasTurn(c) /\ mode' = mode
      BY <2>4 DEF GroupPoll, HasTurn, Turn
    <3>2. pc' = [pc EXCEPT ![c] = "inside"] /\ PendingOfOthers(ProcessOf[c]) = {}
      BY <2>1, <2>4, <3>1 DEF GroupPoll
    <3> QED  BY <3>2 DEF PendingOfOthers, Inv, TypeOK
  <2>5. ASSUME NEW c \in Callers, AlonePoll(c)  PROVE  FALSE
    <3>1. HasTurn(c) /\ mode' = mode
      BY <2>5 DEF AlonePoll, HasTurn, Turn
    <3>2. pc' = [pc EXCEPT ![c] = "draining"]
      BY <2>1, <2>5, <3>1 DEF AlonePoll
    <3> QED  BY <3>2 DEF Inv, TypeOK
  <2>6. ASSUME NEW c \in Callers, Drain(c)  PROVE  pending \subseteq {ProcessOf[d]}
    <3>1. HasTurn(c) /\ mode' = mode
      BY <2>6 DEF Drain, HasTurn, Turn
    <3>2. pc' = [pc EXCEPT ![c] = "inside"] /\ PendingOfOthers(ProcessOf[c]) = {}
      BY <2>1, <2>6, <3>1 DEF Drain
    <3> QED  BY <3>2 DEF PendingOfOthers, Inv, TypeOK
  <2>7. ASSUME NEW c \in Callers, GiveUp(c) \/ Leave(c)  PROVE  FALSE
    <3>1. HasTurn(c) /\ mode' = mode /\ EndTurn(c)
      BY <2>7 DEF GiveUp, Leave, HasTurn, Turn
    <3> QED  BY <2>1, <3>1
  <2>8. ASSUME NEW c \in Callers, HoldPending(c)  PROVE  FALSE
    BY <2>8 DEF HoldPending
  <2>9. ASSUME NEW p \in Processes, SavePending(p) \/ Crash(p) \/ Stall(p) \/ Resume(p)  PROVE  FALSE
    BY <2>9 DEF SavePending, Crash, Stall, Resume
  <2> QED  BY <2>2, <2>3, <2>4, <2>5, <2>6, <2>7, <2>8, <2>9 DEF Next
<1> QED  BY Invariant, <1>1, PTL DEF Spec, PendingKeepsOut

(***************************************************************************)
(* The order of turns                                                      *)
(***************************************************************************)

\* The positions of q before the one where d is found, if it is.
AheadOf(d, q) == {i \in 1..Len(q) : \A j \in 1..i : q[j] # d}

\* Whoever of h is ahead of a caller is ahead of it in q as well, or does not
\* wait any more where `at' says.
KeptInOrder(h, q, at) ==
  \A e \in Callers : \A i \in AheadOf(e, h) :
    (\E j \in AheadOf(e, q) : q[j] = h[i]) \/ at[h[i]] # "queued"

\* A pump leaves nobody waiting ahead of a caller it gives a turn.
LEMMA PumpInOrder ==
  ASSUME NEW p \in Processes, NEW q, NEW at \in [Callers -> Stages], NEW md,
         Lists(p, q, at), Pump(p, q, at, md),
         NEW d \in Callers, at[d] \in {"idle", "queued"}, pc'[d] = "polling",
         NEW i \in AheadOf(d, q)
  PROVE  pc'[q[i]] # "queued"
<1>1. PICK n \in 0..Len(q) :
        pc' = [c \in Callers |-> IF \E j \in 1..n : q[j] = c THEN "polling" ELSE at[c]]
  BY DEF Pump
<1>2. q \in Seq(Callers) /\ Len(q) \in Nat /\ n \in Nat /\ i \in 1..Len(q)
  BY <1>1 DEF Lists, AheadOf
<1>3. PICK k \in 1..n : q[k] = d
  BY <1>1
<1>4. ~(k \in 1..i)
  BY <1>3 DEF AheadOf
<1>5. i \in 1..n /\ q[i] \in Callers
  BY <1>2, <1>3, <1>4
<1> QED  BY <1>1, <1>5

\* A step of c that ends in a pump of its process keeps the order, when the
\* list q that is pumped has everyone in the order of the queue, but for those
\* the step takes out of it.
LEMMA PumpedInOrder ==
  ASSUME NEW c \in Callers, NEW q, NEW at \in [Callers -> Stages],
         NEW md \in [Callers -> GateModes], TypeOK,
         \A e \in Callers \ {c} : at[e] = pc[e],
         at[c] \in {"idle", "queued"},
         Lists(ProcessOf[c], q, at), Pump(ProcessOf[c], q, at, md),
         KeptInOrder(queue[ProcessOf[c]], q, at)
  PROVE  InOrder
<1> DEFINE p == ProcessOf[c]
<1>1. p \in Processes /\ queue \in [Processes -> Seq(Callers)]
  BY GateAssumption DEF TypeOK
<1>3. ASSUME NEW e \in Callers
      PROVE  pc'[e] # at[e] => ProcessOf[e] = p /\ at[e] = "queued" /\ pc'[e] = "polling"
  BY PumpedStep
<1>2. ASSUME NEW d \in Callers, pc[d] \in {"idle", "queued"}, pc'[d] = "polling",
             NEW i \in DOMAIN queue[ProcessOf[d]],
             \A j \in 1..i : queue[ProcessOf[d]][j] # d
      PROVE  pc'[queue[ProcessOf[d]][i]] # "queued"
  <2>1. at[d] \in {"idle", "queued"}
    BY <1>2
  <2>2. ProcessOf[d] = p
    BY <1>2, <1>3, <2>1
  <2> DEFINE h == queue[p]
  <2>3. h \in Seq(Callers) /\ i \in 1..Len(h) /\ h[i] \in Callers
    BY <1>1, <1>2, <2>2
  <2>4. i \in AheadOf(d, h)
    BY <1>2, <2>2, <2>3 DEF AheadOf
  <2>5. CASE \E j \in AheadOf(d, q) : q[j] = h[i]
    <3>1. PICK j \in AheadOf(d, q) : q[j] = h[i]
      BY <2>5
    <3> HIDE DEF p, h
    <3>2. pc'[q[j]] # "queued"
      <4>1. Lists(p, q, at) /\ Pump(p, q, at, md) /\ p \in Processes
        BY <1>1 DEF p
      <4> QED  BY <4>1, <1>2, <2>1, PumpInOrder
    <3> QED  BY <2>2, <3>1, <3>2 DEF h
  <2>6. CASE at[h[i]] # "queued"
    BY <1>3, <2>2, <2>3, <2>6
  <2> HIDE DEF h
  <2>7. (\E j \in AheadOf(d, q) : q[j] = h[i]) \/ at[h[i]] # "queued"
    BY <2>4 DEF h, KeptInOrder
  <2> QED  BY <2>5, <2>6, <2>7
<1> QED  BY <1>2 DEF InOrder

\* A step that only gives turns to waiting callers, but for one caller c, gives
\* none to a caller that did not ask.
LEMMA OthersWaited ==
  ASSUME NEW c \in Callers,
         \A d \in Callers \ {c} : pc'[d] # pc[d] => pc[d] = "queued" /\ pc'[d] = "polling"
  PROVE  AsAskedFor
BY DEF AsAskedFor

\* No step gives a turn to a caller that is neither waiting nor asking in it.
LEMMA TurnsWereAskedFor == Inv /\ Next => AsAskedFor
<1> SUFFICES ASSUME Inv, Next  PROVE  AsAskedFor
  OBVIOUS
<1>1. ASSUME NEW c \in Callers, EndTurn(c), HasTurn(c), mode' = mode  PROVE  AsAskedFor
  <2>1. TypeOK /\ FitInProcess /\ pc[c] \in Turn
    BY <1>1 DEF Inv, HasTurn
  <2>2. \A d \in Callers \ {c} : pc'[d] # pc[d] => pc[d] = "queued" /\ pc'[d] = "polling"
    BY <1>1, <2>1, EndTurnEffect
  <2> QED  BY <2>2, OthersWaited
<1>2. ASSUME NEW c \in Callers, NEW m \in ModesOf[c], Enter(c, m)  PROVE  AsAskedFor
  <2> DEFINE at == [pc EXCEPT ![c] = "queued"]
             md == [mode EXCEPT ![c] = m]
             q == Append(queue[ProcessOf[c]], c)
  <2>1. /\ at \in [Callers -> Stages] /\ md \in [Callers -> GateModes]
        /\ \A d \in Callers \ {c} : at[d] = pc[d]
    BY GateAssumption DEF Inv, TypeOK, Stages
  <2>2. Lists(ProcessOf[c], q, at) /\ Pump(ProcessOf[c], q, at, md)
    BY <1>2, JoinedQueue DEF Enter, Inv
  <2> HIDE DEF at, md, q
  <2>3. ASSUME NEW d \in Callers \ {c}
        PROVE  pc'[d] # pc[d] => pc[d] = "queued" /\ pc'[d] = "polling"
    BY <2>1, <2>2, PumpedStep DEF Inv
  <2> QED  BY <2>3, OthersWaited
<1>3. ASSUME NEW c \in Callers, GiveUpQueued(c)  PROVE  AsAskedFor
  <2> DEFINE at == [pc EXCEPT ![c] = "idle"]
  <2>1. /\ at \in [Callers -> Stages] /\ mode \in [Callers -> GateModes]
        /\ \A d \in Callers \ {c} : at[d] = pc[d]
    BY DEF Inv, TypeOK, Stages
  <2>2. Lists(ProcessOf[c], Unqueued(c), at) /\ Pump(ProcessOf[c], Unqueued(c), at, mode)
    BY <1>3, LeftQueue DEF GiveUpQueued, Inv
  <2> HIDE DEF at
  <2>3. ASSUME NEW d \in Callers \ {c}
        PROVE  pc'[d] # pc[d] => pc[d] = "queued" /\ pc'[d] = "polling"
    BY <2>1, <2>2, PumpedStep DEF Inv
  <2> QED  BY <2>3, OthersWaited
<1>4. ASSUME NEW c \in Callers, GroupPoll(c) \/ AlonePoll(c) \/ Drain(c)  PROVE  AsAskedFor
  <2>1. HasTurn(c) /\ mode' = mode
    BY <1>4 DEF GroupPoll, AlonePoll, Drain, HasTurn, Turn
  <2>2. CASE EndTurn(c)
    BY <1>1, <2>1, <2>2
  <2>3. CASE \/ pc' = [pc EXCEPT ![c] = "inside"]
             \/ pc' = [pc EXCEPT ![c] = "draining"]
             \/ pc' = pc
    BY <2>3 DEF AsAskedFor, Inv, TypeOK
  <2> QED  BY <1>4, <2>2, <2>3 DEF GroupPoll, AlonePoll, Drain
<1>5. ASSUME NEW c \in Callers, GiveUp(c) \/ Leave(c)  PROVE  AsAskedFor
  <2>1. HasTurn(c) /\ EndTurn(c) /\ mode' = mode
    BY <1>5 DEF GiveUp, Leave, HasTurn, Turn
  <2> QED  BY <1>1, <2>1
<1>6. ASSUME NEW c \in Callers, HoldPending(c)  PROVE  AsAskedFor
  BY <1>6 DEF HoldPending, AsAskedFor
<1>7. ASSUME NEW p \in Processes, SavePending(p) \/ Stall(p) \/ Resume(p) \/ Crash(p)
      PROVE  AsAskedFor
  BY <1>7 DEF SavePending, Stall, Resume, Crash, AsAskedFor
<1> QED  BY <1>2, <1>3, <1>4, <1>5, <1>6, <1>7 DEF Next

\* Turns in a process are given in the order they were asked for, and none to a
\* caller that no longer wants one, whoever gives up, is refused or leaves
\* meanwhile (workspace-gate.ts: enter, giveUp, pump).
THEOREM TurnsGoInOrder == Spec => FirstComeFirstServed
<1>1. Inv /\ [Next]_vars => [InOrder]_vars
  <2> SUFFICES ASSUME Inv, Next  PROVE  InOrder
    OBVIOUS
  <2>1. ASSUME NEW c \in Callers, EndTurn(c), HasTurn(c)  PROVE  InOrder
    <3> DEFINE at == [pc EXCEPT ![c] = "idle"]
               q == queue[ProcessOf[c]]
    <3>1. /\ at \in [Callers -> Stages] /\ mode \in [Callers -> GateModes] /\ TypeOK
          /\ at[c] = "idle" /\ \A e \in Callers \ {c} : at[e] = pc[e]
          /\ ProcessOf[c] \in Processes
      BY GateAssumption DEF Inv, TypeOK, Stages
    <3>2. Lists(ProcessOf[c], q, pc)
      BY <3>1 DEF TypeOK
    <3>3. \A e \in Callers : ProcessOf[e] = ProcessOf[c] => (pc[e] = "queued" <=> at[e] = "queued")
      BY <2>1, <3>1 DEF HasTurn, Turn
    <3>4. Lists(ProcessOf[c], q, at)
      BY <3>2, <3>3, ListsStable
    <3>5. Pump(ProcessOf[c], q, at, mode)
      BY <2>1 DEF EndTurn
    <3> HIDE DEF at
    <3>6. KeptInOrder(q, q, at)
      BY DEF KeptInOrder
    <3> QED  BY <3>1, <3>4, <3>5, <3>6, PumpedInOrder
  <2>2. ASSUME NEW c \in Callers, NEW m \in ModesOf[c], Enter(c, m)  PROVE  InOrder
    <3> DEFINE at == [pc EXCEPT ![c] = "queued"]
               md == [mode EXCEPT ![c] = m]
               h == queue[ProcessOf[c]]
               q == Append(h, c)
    <3>1. /\ at \in [Callers -> Stages] /\ md \in [Callers -> GateModes] /\ TypeOK
          /\ at[c] = "queued" /\ \A e \in Callers \ {c} : at[e] = pc[e]
          /\ h \in Seq(Callers)
      BY GateAssumption DEF Inv, TypeOK, Stages
    <3>2. Lists(ProcessOf[c], q, at) /\ Pump(ProcessOf[c], q, at, md)
      BY <2>2, JoinedQueue DEF Enter, Inv
    <3>3. Len(h) \in Nat /\ Len(q) = Len(h) + 1 /\ \A i \in 1..Len(h) : q[i] = h[i]
      BY <3>1, AppendProperties
    <3> HIDE DEF at, md, q, h
    <3>4. ASSUME NEW e \in Callers, NEW i \in AheadOf(e, h)
          PROVE  i \in AheadOf(e, q) /\ q[i] = h[i]
      <4>1. i \in 1..Len(h) /\ \A j \in 1..i : h[j] # e
        BY DEF AheadOf
      <4>2. i \in 1..Len(q) /\ \A j \in 1..i : j \in 1..Len(h)
        BY <3>3, <4>1
      <4> QED  BY <3>3, <4>1, <4>2 DEF AheadOf
    <3>5. KeptInOrder(queue[ProcessOf[c]], q, at)
      BY <3>4 DEF h, KeptInOrder
    <3> QED  BY <3>1, <3>2, <3>5, PumpedInOrder
  <2>3. ASSUME NEW c \in Callers, GiveUpQueued(c)  PROVE  InOrder
    <3> DEFINE at == [pc EXCEPT ![c] = "idle"]
               h == queue[ProcessOf[c]]
               k == CHOOSE i \in DOMAIN h : h[i] = c
               q == Unqueued(c)
    <3>1. /\ at \in [Callers -> Stages] /\ mode \in [Callers -> GateModes] /\ TypeOK
          /\ at[c] = "idle" /\ \A e \in Callers \ {c} : at[e] = pc[e]
          /\ ProcessOf[c] \in Processes
      BY GateAssumption DEF Inv, TypeOK, Stages
    <3>2. Lists(ProcessOf[c], q, at) /\ Pump(ProcessOf[c], q, at, mode)
      BY <2>3, LeftQueue DEF GiveUpQueued, Inv
    <3>3. Lists(ProcessOf[c], h, pc) /\ pc[c] = "queued"
      BY <2>3, <3>1 DEF GiveUpQueued, TypeOK
    <3>4. h \in Seq(Callers) /\ Len(h) \in Nat /\ DOMAIN h = 1..Len(h) /\ \E i \in DOMAIN h : h[i] = c
      BY <3>3 DEF Lists
    <3>5. k \in 1..Len(h) /\ h[k] = c
      BY <3>4
    <3>6. q = SubSeq(h, 1, k - 1) \o SubSeq(h, k + 1, Len(h))
      BY DEF Unqueued
    <3> HIDE DEF at, q, k, h
    <3>7. /\ Len(q) = Len(h) - 1
          /\ \A i \in 1..(Len(h) - 1) : q[i] = IF i < k THEN h[i] ELSE h[i + 1]
      BY <3>4, <3>5, <3>6, RemovedAt
    <3>8. ASSUME NEW e \in Callers, NEW i \in AheadOf(e, h)
          PROVE  (\E j \in AheadOf(e, q) : q[j] = h[i]) \/ at[h[i]] # "queued"
      <4>1. i \in 1..Len(h) /\ \A j \in 1..i : h[j] # e
        BY DEF AheadOf
      <4>2. CASE i < k
        <5>1. i \in 1..Len(q) /\ \A j \in 1..i : j \in 1..(Len(h) - 1) /\ j < k
          BY <3>4, <3>5, <3>7, <4>1, <4>2
        <5>2. \A j \in 1..i : q[j] = h[j]
          BY <3>7, <5>1
        <5>3. i \in AheadOf(e, q) /\ q[i] = h[i]
          BY <4>1, <5>1, <5>2 DEF AheadOf
        <5> QED  BY <5>3
      <4>3. CASE i = k
        BY <3>1, <3>5, <4>3
      <4>4. CASE i > k
        <5> DEFINE j == i - 1
        <5>1. j \in 1..Len(q) /\ j \in 1..(Len(h) - 1) /\ j + 1 = i /\ ~(j < k)
          BY <3>4, <3>5, <3>7, <4>1, <4>4
        <5> HIDE DEF j
        <5>2. q[j] = h[i]
          BY <3>7, <5>1
        <5>3. ASSUME NEW x \in 1..j  PROVE  q[x] # e
          <6>1. x \in 1..(Len(h) - 1) /\ x \in 1..i /\ x + 1 \in 1..i
            BY <3>4, <5>1
          <6> QED  BY <3>7, <4>1, <6>1
        <5> QED  BY <5>1, <5>2, <5>3 DEF AheadOf
      <4>5. i \in Nat /\ k \in Nat
        BY <3>4, <3>5, <4>1
      <4> QED  BY <4>2, <4>3, <4>4, <4>5
    <3>9. KeptInOrder(queue[ProcessOf[c]], q, at)
      BY <3>8 DEF h, KeptInOrder
    <3> QED  BY <3>1, <3>2, <3>9, PumpedInOrder
  <2>4. ASSUME NEW c \in Callers, GroupPoll(c)  PROVE  InOrder
    <3>1. HasTurn(c)
      BY <2>4 DEF GroupPoll, HasTurn, Turn
    <3>2. CASE EndTurn(c)
      BY <2>1, <3>1, <3>2
    <3>3. CASE pc' = [pc EXCEPT ![c] = "inside"] \/ pc' = pc
      BY <3>3 DEF InOrder, Inv, TypeOK
    <3> QED  BY <2>4, <3>2, <3>3 DEF GroupPoll
  <2>5. ASSUME NEW c \in Callers, AlonePoll(c)  PROVE  InOrder
    <3>1. HasTurn(c)
      BY <2>5 DEF AlonePoll, HasTurn, Turn
    <3>2. CASE EndTurn(c)
      BY <2>1, <3>1, <3>2
    <3>3. CASE pc' = [pc EXCEPT ![c] = "draining"] \/ pc' = pc
      BY <3>3 DEF InOrder, Inv, TypeOK
    <3> QED  BY <2>5, <3>2, <3>3 DEF AlonePoll
  <2>6. ASSUME NEW c \in Callers, Drain(c)  PROVE  InOrder
    <3>1. HasTurn(c)
      BY <2>6 DEF Drain, HasTurn, Turn
    <3>2. CASE EndTurn(c)
      BY <2>1, <3>1, <3>2
    <3>3. CASE pc' = [pc EXCEPT ![c] = "inside"] \/ pc' = pc
      BY <3>3 DEF InOrder, Inv, TypeOK
    <3> QED  BY <2>6, <3>2, <3>3 DEF Drain
  <2>7. ASSUME NEW c \in Callers, GiveUp(c) \/ Leave(c)  PROVE  InOrder
    <3>1. HasTurn(c) /\ EndTurn(c)
      BY <2>7 DEF GiveUp, Leave, HasTurn, Turn
    <3> QED  BY <2>1, <3>1
  <2>8. ASSUME NEW c \in Callers, HoldPending(c)  PROVE  InOrder
    BY <2>8 DEF HoldPending, InOrder
  <2>9. ASSUME NEW p \in Processes, SavePending(p) \/ Stall(p) \/ Resume(p)  PROVE  InOrder
    BY <2>9 DEF SavePending, Stall, Resume, InOrder
  <2>10. ASSUME NEW p \in Processes, Crash(p)  PROVE  InOrder
    BY <2>10 DEF Crash, InOrder
  <2> QED  BY <2>2, <2>3, <2>4, <2>5, <2>6, <2>7, <2>8, <2>9, <2>10 DEF Next
<1>2. Inv /\ [Next]_vars => [InOrder /\ AsAskedFor]_vars
  BY <1>1, TurnsWereAskedFor
<1> QED  BY Invariant, <1>2, PTL DEF Spec, FirstComeFirstServed
=============================================================================
