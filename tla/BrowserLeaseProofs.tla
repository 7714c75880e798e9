------------------------- MODULE BrowserLeaseProofs -------------------------
(***************************************************************************)
(* What is proved of the browser lease for any number of workers, requests *)
(* and events and any bounds on the lines: its type invariant, that who is *)
(* in the page holds the browser, that nobody waits for what is free, that *)
(* a person's hold has an end in sight and a handback is not undone, and   *)
(* that a worker's sequence is kept; and that its slot is a first-come     *)
(* first-served queue.                                                     *)
(***************************************************************************)
EXTENDS BrowserLease, SequenceTheorems, FiniteSetTheorems, TLAPS

(***************************************************************************)
(* A queue from which a wait that was given up is taken                    *)
(***************************************************************************)

\* A sequence without the element at k.
LEMMA RemovedAt ==
  ASSUME NEW S, NEW q \in Seq(S), NEW k \in 1..Len(q)
  PROVE  LET s == SubSeq(q, 1, k - 1) \o SubSeq(q, k + 1, Len(q))
         IN  /\ s \in Seq(S)
             /\ Len(s) = Len(q) - 1
             /\ \A i \in 1..(Len(q) - 1) : s[i] = IF i < k THEN q[i] ELSE q[i + 1]
<1> DEFINE u == SubSeq(q, 1, k - 1)
           v == SubSeq(q, k + 1, Len(q))
<1>1. u \in Seq(S) /\ Len(u) = k - 1 /\ \A i \in 1..(k - 1) : u[i] = q[i]
  BY SubSeqProperties
<1>2. v \in Seq(S) /\ Len(v) = Len(q) - k /\ \A i \in 1..(Len(q) - k) : v[i] = q[k + i]
  BY SubSeqProperties
<1> HIDE DEF u, v
<1>3. /\ u \o v \in Seq(S)
      /\ Len(u \o v) = Len(u) + Len(v)
      /\ \A i \in 1..(Len(u) + Len(v)) :
           (u \o v)[i] = IF i <= Len(u) THEN u[i] ELSE v[i - Len(u)]
  BY <1>1, <1>2, ConcatProperties
<1>4. ASSUME NEW i \in 1..(Len(q) - 1)
      PROVE  /\ i < k => (u \o v)[i] = q[i]
             /\ ~(i < k) => (u \o v)[i] = q[i + 1]
  <2> DEFINE j == i - (k - 1)
  <2>1. (i < k => (u \o v)[i] = u[i]) /\ (~(i < k) => (u \o v)[i] = v[j])
    BY <1>1, <1>2, <1>3
  <2>2. ~(i < k) => j \in 1..(Len(q) - k) /\ k + j = i + 1
    OBVIOUS
  <2> HIDE DEF j
  <2>3. i < k => u[i] = q[i]
    BY <1>1
  <2>4. ~(i < k) => v[j] = q[i + 1]
    BY <1>2, <2>2
  <2> QED
    BY <2>1, <2>3, <2>4
<1>5. /\ Len(u \o v) = Len(q) - 1
      /\ \A i \in 1..(Len(q) - 1) :
           (u \o v)[i] = IF i < k THEN q[i] ELSE q[i + 1]
  BY <1>1, <1>2, <1>3, <1>4
<1> QED
  BY <1>3, <1>5, Zenon DEF u, v

(***************************************************************************)
(* The inductive invariant                                                 *)
(***************************************************************************)

\* Only the person's hold has a timer, and can lapse.
TimerIsThePersons == actor # Human => timer = "off" /\ lapsing = Nobody

\* A worker gives its browser back early only in a run that was stopped.
LeavesWhenStopped == \A w \in At("leaving") : Stopped

Inv == /\ TypeOK
       /\ OneUser
       /\ NobodyWaitsInVain
       /\ HoldHasDeadline
       /\ HandBackNotUndone
       /\ TimerIsThePersons
       /\ LeavesWhenStopped

\* The operations at a stage when everyone is where `at' says.
Where(at, stage) == {o \in Ops : at[o] = stage}

(***************************************************************************)
(* Lines                                                                   *)
(***************************************************************************)

LEMMA ListsNobody ==
  ASSUME NEW S
  PROVE  Lists(<<>>, S) <=> S = {}
<1>1. Len(<<>>) = 0 /\ <<>> \in Seq(S)
  OBVIOUS
<1> QED
  BY <1>1 DEF Lists

LEMMA ListsAppend ==
  ASSUME NEW S, NEW q, NEW x, x \notin S, Lists(q, S)
  PROVE  Lists(Append(q, x), S \cup {x})
<1> DEFINE r == Append(q, x)
<1>1. q \in Seq(S) /\ q \in Seq(S \cup {x})
  BY DEF Lists
<1>2. /\ r \in Seq(S \cup {x})
      /\ Len(r) = Len(q) + 1
      /\ Len(q) \in Nat
      /\ \A i \in 1..Len(q) : r[i] = q[i] /\ q[i] \in S
      /\ r[Len(r)] = x
  BY <1>1
<1>3. ASSUME NEW o \in S \cup {x}
      PROVE  \E i \in 1..Len(r) : r[i] = o
  <2>1. CASE o = x
    BY <1>2, <2>1
  <2>2. CASE o \in S
    <3>1. PICK i \in 1..Len(q) : q[i] = o
      BY <2>2 DEF Lists
    <3> QED
      BY <1>2, <3>1
  <2> QED
    BY <2>1, <2>2
<1>4. ASSUME NEW i \in 1..Len(r), NEW j \in 1..Len(r), r[i] = r[j]
      PROVE  i = j
  <2>1. CASE i \in 1..Len(q) /\ j \in 1..Len(q)
    BY <1>2, <1>4, <2>1 DEF Lists
  <2>2. CASE i = Len(r) \/ j = Len(r)
    BY <1>2, <1>4, <2>2
  <2> QED
    BY <1>2, <2>1, <2>2
<1> QED
  BY <1>2, <1>3, <1>4 DEF Lists

LEMMA ListsTail ==
  ASSUME NEW S, NEW q, q # <<>>, Lists(q, S)
  PROVE  Head(q) \in S /\ Lists(Tail(q), S \ {Head(q)})
<1> DEFINE r == Tail(q)
           x == Head(q)
           T == S \ {x}
<1>1. /\ q \in Seq(S)
      /\ Len(q) \in Nat \ {0}
      /\ x = q[1]
      /\ x \in S
      /\ r \in Seq(S)
      /\ Len(r) = Len(q) - 1
      /\ \A i \in 1..Len(r) : r[i] = q[i + 1]
  BY DEF Lists
<1>2. \A i, j \in 1..Len(q) : q[i] = q[j] => i = j
  BY DEF Lists
<1>3. \A i \in 1..Len(r) : r[i] \in T
  <2> SUFFICES ASSUME NEW i \in 1..Len(r)
               PROVE  r[i] \in T
    OBVIOUS
  <2>1. i + 1 \in 1..Len(q) /\ 1 \in 1..Len(q) /\ i + 1 # 1
    BY <1>1
  <2> QED
    BY <1>1, <1>2, <2>1
<1>4. r \in Seq(T)
  <2> HIDE DEF r, T
  <2> QED
    BY <1>1, <1>3
<1>5. ASSUME NEW o \in T
      PROVE  \E i \in 1..Len(r) : r[i] = o
  <2>1. PICK j \in 1..Len(q) : q[j] = o
    BY DEF Lists
  <2>2. j # 1
    BY <1>1, <2>1
  <2>3. j - 1 \in 1..Len(r) /\ r[j - 1] = o
    BY <1>1, <2>1, <2>2
  <2> QED
    BY <2>3
<1>6. ASSUME NEW i \in 1..Len(r), NEW j \in 1..Len(r), r[i] = r[j]
      PROVE  i = j
  <2>1. i + 1 \in 1..Len(q) /\ j + 1 \in 1..Len(q) /\ q[i + 1] = q[j + 1]
    BY <1>1, <1>6
  <2> QED
    BY <1>2, <2>1
<1> QED
  BY <1>1, <1>4, <1>5, <1>6 DEF Lists

\* An operation that waited too long is no longer in line.
LEMMA ListsWithout ==
  ASSUME NEW S, NEW o \in S, Lists(line, S)
  PROVE  Lists(LineWithout(o), S \ {o})
<1> DEFINE q == line
           k == CHOOSE i \in DOMAIN q : q[i] = o
           s == LineWithout(o)
<1>1. q \in Seq(S) /\ Len(q) \in Nat /\ DOMAIN q = 1..Len(q)
  BY DEF Lists
<1>2. k \in 1..Len(q) /\ q[k] = o
  <2>1. \E i \in DOMAIN q : q[i] = o
    BY <1>1 DEF Lists
  <2> QED
    BY <1>1, <2>1
<1>3. s = SubSeq(q, 1, k - 1) \o SubSeq(q, k + 1, Len(q))
  BY DEF LineWithout
<1>4. \A i, j \in 1..Len(q) : q[i] = q[j] => i = j
  BY DEF Lists
<1> HIDE DEF k, s
<1>5. /\ s \in Seq(S)
      /\ Len(s) = Len(q) - 1
      /\ \A i \in 1..(Len(q) - 1) : s[i] = IF i < k THEN q[i] ELSE q[i + 1]
  BY <1>1, <1>2, <1>3, RemovedAt
<1>6. \A i \in 1..Len(s) : \E j \in 1..Len(q) :
         s[i] = q[j] /\ (i < k <=> j = i) /\ (i >= k <=> j = i + 1)
  <2> SUFFICES ASSUME NEW i \in 1..Len(s)
               PROVE  \E j \in 1..Len(q) :
                        s[i] = q[j] /\ (i < k <=> j = i) /\ (i >= k <=> j = i + 1)
    OBVIOUS
  <2>1. i \in 1..(Len(q) - 1) /\ i \in 1..Len(q) /\ i + 1 \in 1..Len(q) /\ i # i + 1
    BY <1>1, <1>5
  <2>2. (i < k <=> ~(i >= k)) /\ s[i] = IF i < k THEN q[i] ELSE q[i + 1]
    BY <1>2, <1>5, <2>1
  <2> QED
    BY <2>1, <2>2
<1>7. \A i \in 1..Len(s) : s[i] \in S \ {o}
  <2> SUFFICES ASSUME NEW i \in 1..Len(s)
               PROVE  s[i] \in S /\ s[i] # o
    OBVIOUS
  <2>1. PICK j \in 1..Len(q) :
          s[i] = q[j] /\ (i < k <=> j = i) /\ (i >= k <=> j = i + 1)
    BY <1>6
  <2>2. j # k
    BY <1>2, <2>1, <1>1
  <2> QED
    BY <1>1, <1>2, <1>4, <2>1, <2>2
<1>8. s \in Seq(S \ {o})
  BY <1>5, <1>7
<1>9. ASSUME NEW p \in S \ {o}
      PROVE  \E i \in 1..Len(s) : s[i] = p
  <2>1. PICK j \in 1..Len(q) : q[j] = p
    BY DEF Lists
  <2>2. j # k
    BY <1>2, <2>1
  <2>3. CASE j < k
    <3>1. j \in 1..Len(s) /\ s[j] = q[j]
      BY <1>1, <1>2, <1>5, <2>3
    <3> QED
      BY <2>1, <3>1
  <2>4. CASE j > k
    <3>1. j - 1 \in 1..Len(s) /\ s[j - 1] = q[j]
      BY <1>1, <1>2, <1>5, <2>4
    <3> QED
      BY <2>1, <3>1
  <2> QED
    BY <1>2, <2>2, <2>3, <2>4
<1>10. ASSUME NEW i \in 1..Len(s), NEW j \in 1..Len(s), s[i] = s[j]
       PROVE  i = j
  <2>1. PICK x \in 1..Len(q) :
          s[i] = q[x] /\ (i < k <=> x = i) /\ (i >= k <=> x = i + 1)
    BY <1>6
  <2>2. PICK y \in 1..Len(q) :
          s[j] = q[y] /\ (j < k <=> y = j) /\ (j >= k <=> y = j + 1)
    BY <1>6
  <2>3. x = y
    BY <1>4, <1>10, <2>1, <2>2
  <2> QED
    BY <1>1, <1>2, <1>5, <2>1, <2>2, <2>3
<1>11. Lists(s, S \ {o})
  BY <1>8, <1>9, <1>10 DEF Lists
<1> QED
  BY <1>11 DEF s

(***************************************************************************)
(* The stages                                                              *)
(***************************************************************************)

\* Where everyone may be: only workers wait for the lease, leave or end.
Placed(at) ==
  /\ at \in [Ops -> Stages]
  /\ \A o \in Ops \ Workers : at[o] \in {"idle", "inLine", "hasSlot", "inside"}

\* The slot and its line are as `at' says, and nobody waits for a free slot.
SlotOf(at, s, l) ==
  /\ s \in Ops \cup {Nobody}
  /\ Lists(l, Where(at, "inLine"))
  /\ \A o \in Ops : at[o] \in {"hasSlot", "inside"} <=> s = o
  /\ l # <<>> => s # Nobody

\* The parts of the invariant, with the stages as a parameter.
LEMMA InvParts ==
  Inv <=>
    /\ Placed(pc)
    /\ SlotOf(pc, slot, line)
    /\ Lists(waiting, Where(pc, "queued"))
    /\ waiting # <<>> => actor \in Workers
    /\ actor \in Workers \cup {Human, Nobody}
    /\ timer \in {"off", "idle", "retry"}
    /\ wanted \in BOOLEAN
    /\ {grace, lapsing} \subseteq Ops \cup {Nobody}
    /\ revoked \in BOOLEAN
    /\ cancelled \in BOOLEAN
    /\ OneUser
    /\ HoldHasDeadline
    /\ HandBackNotUndone
    /\ TimerIsThePersons
    /\ LeavesWhenStopped
BY DEF Inv, TypeOK, NobodyWaitsInVain, Placed, SlotOf, Where, At

\* The same after a step.
LEMMA InvPartsNext ==
  Inv' <=>
    /\ Placed(pc')
    /\ SlotOf(pc', slot', line')
    /\ Lists(waiting', Where(pc', "queued"))
    /\ waiting' # <<>> => actor' \in Workers
    /\ actor' \in Workers \cup {Human, Nobody}
    /\ timer' \in {"off", "idle", "retry"}
    /\ wanted' \in BOOLEAN
    /\ {grace', lapsing'} \subseteq Ops \cup {Nobody}
    /\ revoked' \in BOOLEAN
    /\ cancelled' \in BOOLEAN
    /\ OneUser'
    /\ HoldHasDeadline'
    /\ HandBackNotUndone'
    /\ TimerIsThePersons'
    /\ LeavesWhenStopped'
BY DEF Inv, TypeOK, NobodyWaitsInVain, Placed, SlotOf, Where, At

LEMMA OpsFacts ==
  /\ Workers \subseteq Ops
  /\ Takeovers \subseteq Ops /\ Takeovers \cap (Workers \cup Inputs) = {}
  /\ Inputs \subseteq Ops /\ Inputs \cap Workers = {}
  /\ Captures \subseteq Ops /\ Captures \cap (Workers \cup Inputs) = {}
  /\ Teardowns \subseteq Ops /\ Teardowns \cap (Workers \cup Inputs) = {}
  /\ Nobody \notin Ops /\ Human \notin Ops /\ Human # Nobody
BY LeaseAssumption DEF Ops, Disjoint

(***************************************************************************)
(* Releasing the lease                                                     *)
(***************************************************************************)

\* release(): the lease goes to the head of the line, or to nobody.
LEMMA ReleaseEffect ==
  ASSUME NEW at, NEW q, Placed(at), revoked \in BOOLEAN,
         Lists(q, Where(at, "queued")), Release(at, q)
  PROVE  /\ Placed(pc')
         /\ Lists(waiting', Where(pc', "queued"))
         /\ actor' \in Workers \cup {Nobody}
         /\ waiting' # <<>> => actor' \in Workers
         /\ \A o \in Ops : pc'[o] # at[o] =>
              at[o] = "queued" /\ pc'[o] \in {"granted", "idle"}
<1>1. /\ at \in [Ops -> Stages]
      /\ \A o \in Ops : at[o] = "queued" => o \in Workers
  BY DEF Placed
<1>2. \A o \in Ops : pc'[o] = IF o = NextHolder(q) THEN "granted"
                              ELSE IF revoked /\ at[o] = "queued" THEN "idle"
                              ELSE at[o]
  BY DEF Release
<1>3. pc' = [o \in Ops |-> pc'[o]]
  BY DEF Release
<1>4. CASE q = <<>>
  <2>1. NextHolder(q) = Nobody /\ waiting' = <<>> /\ actor' = Nobody
    BY <1>4 DEF Release, NextHolder
  <2>2. Where(at, "queued") = {}
    BY <1>4, ListsNobody
  <2>3. \A o \in Ops : pc'[o] = at[o]
    BY <1>2, <2>1, <2>2, OpsFacts DEF Where
  <2>4. pc' = at
    BY <1>1, <1>3, <2>3
  <2> QED
    BY <1>4, <2>1, <2>4, OpsFacts
<1>5. CASE q # <<>> /\ revoked
  <2>1. NextHolder(q) = Nobody /\ waiting' = <<>> /\ actor' = Nobody
    BY <1>5 DEF Release, NextHolder
  <2>2. \A o \in Ops : pc'[o] = IF at[o] = "queued" THEN "idle" ELSE at[o]
    BY <1>2, <1>5, <2>1, OpsFacts
  <2>3. Where(pc', "queued") = {}
    BY <2>2 DEF Where
  <2>4. Placed(pc')
    BY <1>1, <1>3, <2>2 DEF Placed, Stages
  <2> QED
    BY <2>1, <2>2, <2>3, <2>4, ListsNobody
<1>6. CASE q # <<>> /\ ~revoked
  <2> DEFINE w == Head(q)
  <2>1. NextHolder(q) = w /\ waiting' = Tail(q) /\ actor' = w
    BY <1>6 DEF Release, NextHolder
  <2>2. w \in Where(at, "queued") /\ Lists(Tail(q), Where(at, "queued") \ {w})
    BY <1>6, ListsTail
  <2> HIDE DEF w
  <2>3. w \in Workers /\ at[w] = "queued"
    BY <1>1, <2>2 DEF Where
  <2>4. \A o \in Ops : pc'[o] = IF o = w THEN "granted" ELSE at[o]
    BY <1>2, <1>6, <2>1
  <2>5. Where(pc', "queued") = Where(at, "queued") \ {w}
    BY <2>4 DEF Where
  <2>6. Placed(pc')
    BY <1>1, <1>3, <2>3, <2>4 DEF Placed, Stages
  <2> QED
    BY <2>1, <2>2, <2>3, <2>4, <2>5, <2>6
<1> QED
  BY <1>4, <1>5, <1>6

\* A step that releases the lease keeps the invariant, if whoever stays in
\* the page does not need it.
LEMMA ReleaseKeeps ==
  ASSUME NEW at, NEW q, Placed(at), revoked \in BOOLEAN,
         Lists(q, Where(at, "queued")), Release(at, q),
         SlotOf(at, slot', line'),
         revoked' \in BOOLEAN, cancelled' \in BOOLEAN,
         \A o \in Ops : at[o] = "leaving" => revoked' \/ cancelled',
         revoked' \/ \A o \in Ops : at[o] = "inside" => o \notin Workers \cup Inputs
  PROVE  Inv'
<1>1. /\ Placed(pc')
      /\ Lists(waiting', Where(pc', "queued"))
      /\ actor' \in Workers \cup {Nobody}
      /\ waiting' # <<>> => actor' \in Workers
      /\ \A o \in Ops : pc'[o] # at[o] =>
           at[o] = "queued" /\ pc'[o] \in {"granted", "idle"}
  BY ReleaseEffect
<1>2. timer' = "off" /\ wanted' = FALSE /\ grace' = Nobody /\ lapsing' = Nobody
  BY DEF Release
<1>3. \A o \in Ops : \A s \in {"inLine", "hasSlot", "inside", "leaving"} :
        pc'[o] = s <=> at[o] = s
  BY <1>1
<1>4. SlotOf(pc', slot', line')
  <2>1. Where(pc', "inLine") = Where(at, "inLine")
    BY <1>3 DEF Where
  <2> QED
    BY <1>3, <2>1 DEF SlotOf
<1>5. actor' # Human
  BY <1>1, OpsFacts
<1>6. OneUser'
  BY <1>3 DEF OneUser, At
<1>7. HoldHasDeadline' /\ HandBackNotUndone' /\ TimerIsThePersons'
  BY <1>2, <1>5 DEF HoldHasDeadline, HandBackNotUndone, TimerIsThePersons
<1>8. LeavesWhenStopped'
  BY <1>3 DEF LeavesWhenStopped, At, Stopped
<1> QED
  BY <1>1, <1>2, <1>4, <1>6, <1>7, <1>8, InvPartsNext

(***************************************************************************)
(* The slot                                                                *)
(***************************************************************************)

\* The slot goes to the head of the line.
LEMMA HandOnEffect ==
  ASSUME NEW at, Placed(at), HandOn(at), Lists(line, Where(at, "inLine")),
         \A o \in Ops : at[o] \notin {"hasSlot", "inside"}
  PROVE  /\ Placed(Handed(at))
         /\ SlotOf(Handed(at), slot', line')
         /\ Where(Handed(at), "queued") = Where(at, "queued")
         /\ \A o \in Ops : Handed(at)[o] # "inside"
         /\ \A o \in Ops : Handed(at)[o] = "leaving" <=> at[o] = "leaving"
<1> DEFINE h == Handed(at)
<1>1. /\ at \in [Ops -> Stages]
      /\ h = [o \in Ops |-> h[o]]
      /\ \A o \in Ops : h[o] = IF o = NextInSlot THEN "hasSlot" ELSE at[o]
      /\ slot' = NextInSlot
      /\ line' = IF slot' = Nobody THEN line ELSE Tail(line)
  BY DEF Handed, HandOn, Placed
<1> HIDE DEF h
<1>2. CASE line = <<>>
  <2>1. slot' = Nobody /\ line' = <<>>
    BY <1>1, <1>2 DEF NextInSlot
  <2>2. h = at
    BY <1>1, <2>1, OpsFacts
  <2>3. Where(h, "inLine") = {}
    BY <1>2, <2>2, ListsNobody
  <2>4. Lists(line', Where(h, "inLine"))
    BY <2>1, <2>3, ListsNobody
  <2>5. SlotOf(h, slot', line')
    BY <2>1, <2>2, <2>4, OpsFacts DEF SlotOf
  <2> QED
    BY <2>2, <2>5 DEF h
<1>3. CASE line # <<>>
  <2> DEFINE n == Head(line)
  <2>1. /\ n \in Where(at, "inLine")
        /\ Lists(Tail(line), Where(at, "inLine") \ {n})
    BY <1>3, ListsTail
  <2>2. NextInSlot = n
    BY <1>3 DEF NextInSlot
  <2> HIDE DEF n
  <2>3. n \in Ops /\ at[n] = "inLine" /\ n # Nobody
    BY <2>1, OpsFacts DEF Where
  <2>4. slot' = n /\ line' = Tail(line)
    BY <1>1, <2>2, <2>3
  <2>5. \A o \in Ops : h[o] = IF o = n THEN "hasSlot" ELSE at[o]
    BY <1>1, <2>2
  <2>6. Where(h, "inLine") = Where(at, "inLine") \ {n}
    BY <2>5 DEF Where
  <2>7. SlotOf(h, slot', line')
    BY <2>1, <2>3, <2>4, <2>5, <2>6 DEF SlotOf
  <2>8. Placed(h)
    <3>1. h \in [Ops -> Stages]
      BY <1>1, <2>5 DEF Stages
    <3> QED
      BY <2>3, <2>5, <3>1 DEF Placed
  <2>9. Where(h, "queued") = Where(at, "queued")
    BY <2>3, <2>5 DEF Where
  <2> QED
    BY <2>3, <2>5, <2>7, <2>8, <2>9 DEF h
<1> QED
  BY <1>2, <1>3

\* The end of an operation's turn in the slot keeps the invariant.
LEMMA EndActionKeeps ==
  ASSUME Inv, NEW o \in Ops, pc[o] \in {"hasSlot", "inside"},
         NEW at, NEW holder, NEW q, NEW tm,
         Placed(at), at[o] = "idle" \/ (at[o] = "leaving" /\ Stopped),
         \A x \in Ops \ {o} : at[x] = pc[x] \/ (pc[x] = "queued" /\ at[x] = "idle"),
         Lists(q, Where(at, "queued")), q # <<>> => holder \in Workers,
         holder = actor \/ holder = Human,
         tm \in {"off", "idle", "retry"}, tm # "off" => holder = Human,
         wanted => holder = Human /\ tm = "retry",
         holder = Human => tm # "off" \/ lapsing = o,
         EndAction(o, at, holder, q, tm), UNCHANGED <<revoked, cancelled>>
  PROVE  Inv'
<1> USE InvParts
<1>1. slot = o /\ \A x \in Ops : pc[x] \in {"hasSlot", "inside"} => x = o
  BY DEF SlotOf
<1>2. \A x \in Ops : at[x] \notin {"hasSlot", "inside"}
  BY <1>1
<1>3. Where(at, "inLine") = Where(pc, "inLine")
  BY DEF Where
<1>4. HandOn(at)
  BY DEF EndAction
<1> DEFINE h == Handed(at)
<1>5. /\ Placed(h)
      /\ SlotOf(h, slot', line')
      /\ Where(h, "queued") = Where(at, "queued")
      /\ \A x \in Ops : h[x] # "inside"
      /\ \A x \in Ops : h[x] = "leaving" <=> at[x] = "leaving"
  BY <1>2, <1>3, <1>4, HandOnEffect DEF SlotOf
<1>6. \A x \in Ops : h[x] = "leaving" => Stopped
  BY <1>5 DEF LeavesWhenStopped, At
<1>7. CASE LapseDue(o, holder) /\ Release(h, q)
  <2> HIDE DEF h
  <2> QED
    BY <1>5, <1>6, <1>7, ReleaseKeeps DEF Stopped
<1>8. CASE /\ ~LapseDue(o, holder)
           /\ actor' = holder
           /\ waiting' = q
           /\ timer' = tm
           /\ grace' = IF grace = o THEN Nobody ELSE grace
           /\ lapsing' = IF lapsing = o THEN Nobody ELSE lapsing
           /\ pc' = h
           /\ UNCHANGED wanted
  <2> HIDE DEF h
  <2>1. Placed(pc') /\ SlotOf(pc', slot', line') /\ Lists(waiting', Where(pc', "queued"))
    BY <1>5, <1>8
  <2>2. OneUser'
    BY <1>5, <1>8 DEF OneUser, At
  <2>3. HoldHasDeadline'
    BY <1>8 DEF LapseDue, HoldHasDeadline
  <2>4. HandBackNotUndone' /\ TimerIsThePersons'
    BY <1>8 DEF HandBackNotUndone, TimerIsThePersons
  <2>5. LeavesWhenStopped'
    BY <1>6, <1>8 DEF LeavesWhenStopped, At, Stopped
  <2>6. actor' \in Workers \cup {Human, Nobody} /\ (waiting' # <<>> => actor' \in Workers)
    BY <1>8
  <2>7. {grace', lapsing'} \subseteq Ops \cup {Nobody} /\ timer' \in {"off", "idle", "retry"}
    BY <1>8
  <2> QED
    BY <1>8, <2>1, <2>2, <2>3, <2>4, <2>5, <2>6, <2>7, InvPartsNext
<1> QED
  BY <1>7, <1>8 DEF EndAction, h

\* The end of a turn that leaves the lease alone.
LEMMA EndSlotKeeps ==
  ASSUME Inv, NEW o \in Ops, pc[o] \in {"hasSlot", "inside"},
         NEW stage, stage = "idle" \/ (stage = "leaving" /\ Stopped /\ o \in Workers),
         NEW tm, tm \in {Touched, timer},
         EndSlot(o, stage, tm), UNCHANGED <<revoked, cancelled>>
  PROVE  Inv'
<1> USE InvParts
<1> DEFINE at == [pc EXCEPT ![o] = stage]
<1>1. pc \in [Ops -> Stages] /\ stage \in Stages
  BY DEF Placed, Stages
<1>2. /\ at \in [Ops -> Stages]
      /\ at[o] = stage
      /\ \A x \in Ops \ {o} : at[x] = pc[x]
  BY <1>1
<1>3. Where(at, "queued") = Where(pc, "queued")
  BY <1>2 DEF Where
<1>4. Placed(at)
  BY <1>2 DEF Placed
<1>5. slot = o
  BY DEF SlotOf
<1>6. /\ tm \in {"off", "idle", "retry"}
      /\ tm # "off" => actor = Human
      /\ wanted => actor = Human /\ tm = "retry"
      /\ actor = Human => tm # "off" \/ lapsing = o
  BY <1>5 DEF Touched, HoldHasDeadline, HandBackNotUndone, TimerIsThePersons
<1>7. EndAction(o, at, actor, waiting, tm)
  BY DEF EndSlot
<1> HIDE DEF at
<1> QED
  BY <1>2, <1>3, <1>4, <1>6, <1>7, EndActionKeeps

\* A turn in the slot starts, at once or in line.
LEMMA AskForSlotKeeps ==
  ASSUME Inv, NEW o \in Ops, pc[o] \in {"idle", "granted"}, AskForSlot(o),
         actor' = actor, waiting' = waiting, wanted' = wanted, timer' = timer,
         UNCHANGED <<grace, lapsing, revoked, cancelled>>
  PROVE  Inv'
<1> USE InvParts
<1>1. pc \in [Ops -> Stages] /\ slot # o /\ o \notin Where(pc, "inLine")
  BY DEF Placed, SlotOf, Where
<1>2. \E s \in {"hasSlot", "inLine"} :
        /\ pc' = [pc EXCEPT ![o] = s]
        /\ s = "hasSlot" => slot = Nobody /\ line = <<>> /\ slot' = o /\ line' = line
        /\ s = "inLine" => slot # Nobody /\ slot' = slot /\ line' = Append(line, o)
  BY DEF AskForSlot, SlotOf
<1>3. PICK s \in {"hasSlot", "inLine"} :
        /\ pc' = [pc EXCEPT ![o] = s]
        /\ s = "hasSlot" => slot = Nobody /\ line = <<>> /\ slot' = o /\ line' = line
        /\ s = "inLine" => slot # Nobody /\ slot' = slot /\ line' = Append(line, o)
  BY <1>2
<1>4. /\ pc' \in [Ops -> Stages]
      /\ pc'[o] = s
      /\ \A x \in Ops \ {o} : pc'[x] = pc[x]
  BY <1>1, <1>3 DEF Stages
<1>5. Placed(pc') /\ Where(pc', "queued") = Where(pc, "queued")
  BY <1>4 DEF Placed, Where
<1>6. SlotOf(pc', slot', line')
  <2>1. CASE s = "hasSlot"
    <3>1. Where(pc', "inLine") = Where(pc, "inLine")
      BY <1>1, <1>4, <2>1 DEF Where
    <3> QED
      BY <1>3, <1>4, <2>1, <3>1, OpsFacts DEF SlotOf
  <2>2. CASE s = "inLine"
    <3>1. Where(pc', "inLine") = Where(pc, "inLine") \cup {o}
      BY <1>4, <2>2 DEF Where
    <3>2. Lists(Append(line, o), Where(pc, "inLine") \cup {o})
      BY <1>1, ListsAppend DEF SlotOf
    <3> QED
      BY <1>1, <1>3, <1>4, <2>2, <3>1, <3>2 DEF SlotOf
  <2> QED
    BY <2>1, <2>2
<1>7. OneUser'
  BY <1>4 DEF OneUser, At
<1>8. HoldHasDeadline'
  BY <1>3, OpsFacts DEF HoldHasDeadline
<1>9. HandBackNotUndone' /\ TimerIsThePersons'
  BY DEF HandBackNotUndone, TimerIsThePersons
<1>10. LeavesWhenStopped'
  BY <1>4 DEF LeavesWhenStopped, At, Stopped
<1> QED
  BY <1>5, <1>6, <1>7, <1>8, <1>9, <1>10, InvPartsNext

\* An operation that waited too long for the slot leaves the line.
LEMMA LeaveLineKeeps ==
  ASSUME Inv, NEW o \in Ops, pc[o] = "inLine", line' = LineWithout(o),
         pc' = [pc EXCEPT ![o] = "idle"],
         actor' = actor, waiting' = waiting, wanted' = wanted, timer' = timer,
         UNCHANGED <<slot, grace, lapsing, revoked, cancelled>>
  PROVE  Inv'
<1> USE InvParts
<1>1. /\ pc' \in [Ops -> Stages]
      /\ pc'[o] = "idle"
      /\ \A x \in Ops \ {o} : pc'[x] = pc[x]
  BY DEF Placed, Stages
<1>2. Placed(pc') /\ Where(pc', "queued") = Where(pc, "queued")
  BY <1>1 DEF Placed, Where
<1>3. slot # Nobody
  <2>1. o \in Where(pc, "inLine")
    BY DEF Where
  <2>2. line # <<>>
    BY <2>1, ListsNobody DEF SlotOf
  <2> QED
    BY <2>2 DEF SlotOf
<1>4. SlotOf(pc', slot', line')
  <2>1. Where(pc', "inLine") = Where(pc, "inLine") \ {o} /\ o \in Where(pc, "inLine")
    BY <1>1 DEF Where
  <2>2. Lists(line', Where(pc, "inLine") \ {o})
    BY <2>1, ListsWithout DEF SlotOf
  <2> QED
    BY <1>1, <1>3, <2>1, <2>2 DEF SlotOf
<1>5. OneUser'
  BY <1>1 DEF OneUser, At
<1>6. HoldHasDeadline' /\ HandBackNotUndone' /\ TimerIsThePersons'
  BY DEF HoldHasDeadline, HandBackNotUndone, TimerIsThePersons
<1>7. LeavesWhenStopped'
  BY <1>1 DEF LeavesWhenStopped, At, Stopped
<1> QED
  BY <1>2, <1>4, <1>5, <1>6, <1>7, InvPartsNext

\* With the slot, an operation that may goes into the page.
LEMMA GoesInKeeps ==
  ASSUME Inv, NEW o \in Ops, pc[o] = "hasSlot", pc' = [pc EXCEPT ![o] = "inside"],
         o \in Workers => actor = o, o \in Inputs => actor = Human,
         UNCHANGED <<hold, slot, line, revoked, cancelled>>
  PROVE  Inv'
<1> USE InvParts
<1>1. /\ pc' \in [Ops -> Stages]
      /\ pc'[o] = "inside"
      /\ \A x \in Ops \ {o} : pc'[x] = pc[x]
  BY DEF Placed, Stages
<1>2. /\ Placed(pc')
      /\ Where(pc', "queued") = Where(pc, "queued")
      /\ Where(pc', "inLine") = Where(pc, "inLine")
  BY <1>1 DEF Placed, Where
<1>3. SlotOf(pc', slot', line')
  BY <1>1, <1>2 DEF SlotOf
<1>4. OneUser'
  BY <1>1 DEF OneUser, At, hold
<1>5. HoldHasDeadline' /\ HandBackNotUndone' /\ TimerIsThePersons'
  BY DEF HoldHasDeadline, HandBackNotUndone, TimerIsThePersons, hold
<1>6. LeavesWhenStopped'
  BY <1>1 DEF LeavesWhenStopped, At, Stopped
<1> QED
  BY <1>2, <1>3, <1>4, <1>5, <1>6, InvPartsNext DEF hold

\* releaseIfHeldBy() by a worker that is nowhere near the page.
LEMMA ReleaseIfHeldByKeeps ==
  ASSUME Inv, NEW w \in Workers, pc[w] \in {"idle", "granted", "leaving"},
         NEW stage \in {"idle", "ended"},
         ReleaseIfHeldBy(w, [pc EXCEPT ![w] = stage]),
         UNCHANGED <<slot, line, revoked, cancelled>>
  PROVE  Inv'
<1> USE InvParts
<1> DEFINE at == [pc EXCEPT ![w] = stage]
<1>1. /\ at \in [Ops -> Stages]
      /\ at[w] = stage
      /\ \A x \in Ops \ {w} : at[x] = pc[x]
      /\ w \in Ops
  BY OpsFacts DEF Placed, Stages
<1>2. ReleaseIfHeldBy(w, at)
  OBVIOUS
<1> HIDE DEF at
<1>3. /\ Placed(at)
      /\ Where(at, "queued") = Where(pc, "queued")
      /\ Where(at, "inLine") = Where(pc, "inLine")
  BY <1>1 DEF Placed, Where
<1>4. SlotOf(at, slot', line')
  BY <1>1, <1>3 DEF SlotOf
<1>5. \A x \in Ops : at[x] = "leaving" => Stopped
  BY <1>1 DEF LeavesWhenStopped, At
<1>6. CASE GivesUp(w) /\ Release(at, waiting)
  <2>1. \A x \in Ops : at[x] # "inside"
    BY <1>4, <1>6, OpsFacts DEF GivesUp, SlotOf
  <2> QED
    BY <1>3, <1>4, <1>5, <1>6, <2>1, ReleaseKeeps DEF Stopped
<1>7. CASE pc' = at /\ UNCHANGED hold
  <2>1. OneUser'
    BY <1>1, <1>7 DEF OneUser, At, hold
  <2>2. HoldHasDeadline' /\ HandBackNotUndone' /\ TimerIsThePersons'
    BY <1>7 DEF HoldHasDeadline, HandBackNotUndone, TimerIsThePersons, hold
  <2>3. LeavesWhenStopped'
    BY <1>5, <1>7 DEF LeavesWhenStopped, At, Stopped
  <2> QED
    BY <1>3, <1>4, <1>7, <2>1, <2>2, <2>3, InvPartsNext DEF hold
<1> QED
  BY <1>2, <1>6, <1>7 DEF ReleaseIfHeldBy

(***************************************************************************)
(* The worker's steps                                                      *)
(***************************************************************************)

LEMMA AskKeeps == ASSUME Inv, NEW w \in Workers, Ask(w) PROVE Inv'
<1> USE InvParts
<1>1. w \in Ops /\ w # Human /\ w # Nobody /\ pc[w] = "idle"
  BY OpsFacts DEF Ask
<1>2. \E s \in {"granted", "queued"} :
        /\ pc' = [pc EXCEPT ![w] = s]
        /\ s = "granted" => actor \in {Nobody, w} /\ actor' = w /\ waiting' = waiting
        /\ s = "queued" => /\ actor \notin {Nobody, w, Human}
                           /\ actor' = actor
                           /\ waiting' = Append(waiting, w)
  BY DEF Ask
<1>3. PICK s \in {"granted", "queued"} :
        /\ pc' = [pc EXCEPT ![w] = s]
        /\ s = "granted" => actor \in {Nobody, w} /\ actor' = w /\ waiting' = waiting
        /\ s = "queued" => /\ actor \notin {Nobody, w, Human}
                           /\ actor' = actor
                           /\ waiting' = Append(waiting, w)
  BY <1>2
<1>4. /\ pc' \in [Ops -> Stages]
      /\ pc'[w] = s
      /\ \A x \in Ops \ {w} : pc'[x] = pc[x]
  BY <1>1, <1>3 DEF Placed, Stages
<1>5. UNCHANGED <<slot, line, timer, wanted, grace, lapsing, revoked, cancelled>>
  BY DEF Ask
<1>6. Placed(pc') /\ Where(pc', "inLine") = Where(pc, "inLine")
  BY <1>1, <1>4 DEF Placed, Where
<1>7. SlotOf(pc', slot', line')
  BY <1>1, <1>4, <1>5, <1>6 DEF SlotOf
<1>8. Lists(waiting', Where(pc', "queued"))
  <2>1. CASE s = "granted"
    <3>1. Where(pc', "queued") = Where(pc, "queued")
      BY <1>1, <1>4, <2>1 DEF Where
    <3> QED
      BY <1>3, <2>1, <3>1
  <2>2. CASE s = "queued"
    <3>1. /\ Where(pc', "queued") = Where(pc, "queued") \cup {w}
          /\ w \notin Where(pc, "queued")
      BY <1>1, <1>4, <2>2 DEF Where
    <3>2. Lists(Append(waiting, w), Where(pc, "queued") \cup {w})
      BY <3>1, ListsAppend
    <3> QED
      BY <1>3, <2>2, <3>1, <3>2
  <2> QED
    BY <2>1, <2>2
<1>9. actor' \in Workers /\ actor # Human /\ actor' # Human
  BY <1>1, <1>3, OpsFacts
<1>10. timer = "off" /\ ~wanted
  BY <1>9 DEF TimerIsThePersons, HandBackNotUndone
<1>11. OneUser'
  <2> SUFFICES ASSUME NEW x \in Ops, pc'[x] = "inside", ~revoked'
               PROVE  (x \in Workers => actor' = x) /\ (x \in Inputs => actor' = Human)
    BY DEF OneUser, At
  <2>1. pc[x] = "inside" /\ x # w
    BY <1>3, <1>4
  <2>2. (x \in Workers => actor = x) /\ (x \in Inputs => actor = Human)
    BY <1>5, <2>1 DEF OneUser, At
  <2> QED
    BY <1>1, <1>3, <1>9, <2>1, <2>2, OpsFacts
<1>12. HoldHasDeadline' /\ HandBackNotUndone' /\ TimerIsThePersons'
  BY <1>5, <1>9, <1>10 DEF HoldHasDeadline, HandBackNotUndone, TimerIsThePersons
<1>13. LeavesWhenStopped'
  BY <1>3, <1>4, <1>5 DEF LeavesWhenStopped, At, Stopped
<1> QED
  BY <1>5, <1>6, <1>7, <1>8, <1>9, <1>11, <1>12, <1>13, InvPartsNext

LEMMA GrantedKeeps == ASSUME Inv, NEW w \in Workers, Granted(w) PROVE Inv'
<1>1. CASE /\ ReleaseIfHeldBy(w, [pc EXCEPT ![w] = "idle"])
           /\ UNCHANGED <<slot, line>>
  BY <1>1, ReleaseIfHeldByKeeps DEF Granted
<1>2. CASE AskForSlot(w) /\ UNCHANGED hold
  BY <1>2, AskForSlotKeeps, OpsFacts DEF Granted, hold
<1> QED
  BY <1>1, <1>2 DEF Granted

\* A worker in line for the slot that gives up keeps the lease: whoever has
\* the slot is still in it.
LEMMA GiveUpSlotKeepsHold ==
  ASSUME Inv, NEW w \in Workers, GiveUpSlot(w)
  PROVE  pc' = [pc EXCEPT ![w] = "idle"] /\ UNCHANGED hold
<1>1. w \in Where(pc, "inLine")
  BY OpsFacts DEF GiveUpSlot, Where
<1>2. line # <<>>
  BY <1>1, InvParts, ListsNobody DEF SlotOf
<1>3. ~GivesUp(w)
  BY <1>2, InvParts DEF SlotOf, GivesUp
<1> QED
  BY <1>3 DEF GiveUpSlot, ReleaseIfHeldBy

LEMMA GiveUpSlotKeeps == ASSUME Inv, NEW w \in Workers, GiveUpSlot(w) PROVE Inv'
BY GiveUpSlotKeepsHold, LeaveLineKeeps, OpsFacts DEF GiveUpSlot, hold

LEMMA GoInKeeps == ASSUME Inv, NEW w \in Workers, GoIn(w) PROVE Inv'
<1>1. w \in Ops /\ w \notin Inputs
  BY OpsFacts
<1>2. CASE /\ StillHolds(w)
           /\ pc' = [pc EXCEPT ![w] = "inside"]
           /\ UNCHANGED <<hold, slot, line>>
  BY <1>1, <1>2, GoesInKeeps DEF GoIn, StillHolds
<1>3. CASE EndSlot(w, "idle", timer)
  BY <1>1, <1>3, EndSlotKeeps DEF GoIn
<1> QED
  BY <1>2, <1>3 DEF GoIn

LEMMA FinishKeeps == ASSUME Inv, NEW w \in Workers, Finish(w) PROVE Inv'
<1>1. w \in Ops /\ pc[w] = "inside"
  BY OpsFacts DEF Finish
<1>2. CASE EndSlot(w, "idle", timer)
  BY <1>1, <1>2, EndSlotKeeps DEF Finish
<1>3. CASE /\ line = <<>>
           /\ Release([pc EXCEPT ![w] = "idle"], waiting)
           /\ slot' = Nobody
           /\ UNCHANGED line
  <2> USE InvParts
  <2> DEFINE at == [pc EXCEPT ![w] = "idle"]
  <2>1. /\ at \in [Ops -> Stages]
        /\ at[w] = "idle"
        /\ \A x \in Ops \ {w} : at[x] = pc[x]
    BY <1>1 DEF Placed, Stages
  <2>2. Release(at, waiting)
    BY <1>3
  <2> HIDE DEF at
  <2>3. /\ Placed(at)
        /\ Where(at, "queued") = Where(pc, "queued")
        /\ Where(at, "inLine") = Where(pc, "inLine")
    BY <1>1, <2>1 DEF Placed, Where
  <2>4. \A x \in Ops : at[x] \notin {"hasSlot", "inside"}
    BY <1>1, <2>1 DEF SlotOf
  <2>5. SlotOf(at, slot', line')
    BY <1>3, <2>3, <2>4, OpsFacts DEF SlotOf
  <2>6. \A x \in Ops : at[x] = "leaving" => Stopped
    BY <1>1, <2>1 DEF LeavesWhenStopped, At
  <2> QED
    BY <2>2, <2>3, <2>4, <2>5, <2>6, ReleaseKeeps DEF Finish, Stopped
<1> QED
  BY <1>2, <1>3 DEF Finish

LEMMA LetSlotGoKeeps == ASSUME Inv, NEW w \in Workers, LetSlotGo(w) PROVE Inv'
BY EndSlotKeeps, OpsFacts DEF LetSlotGo

LEMMA LeavingKeeps ==
  ASSUME Inv, NEW w \in Workers, FinishLeaving(w) \/ End(w)
  PROVE  Inv'
BY ReleaseIfHeldByKeeps DEF FinishLeaving, End

(***************************************************************************)
(* The steps of the person and the viewer                                  *)
(***************************************************************************)

LEMMA AskTakeOverKeeps ==
  ASSUME Inv, NEW t \in Takeovers, AskTakeOver(t)
  PROVE  Inv'
<1> USE InvParts
<1>1. CASE actor = Human /\ timer' = Touched /\ UNCHANGED <<pc, slot, line>>
  <2>1. UNCHANGED <<actor, waiting, wanted, grace, lapsing, revoked, cancelled>>
    BY DEF AskTakeOver
  <2>2. OneUser' /\ LeavesWhenStopped'
    BY <1>1, <2>1 DEF OneUser, LeavesWhenStopped, At, Stopped
  <2>3. timer' \in {"off", "idle", "retry"} /\ (timer' = "off" => timer = "off")
    BY <1>1 DEF Touched
  <2>4. wanted => timer' = timer
    BY <1>1 DEF Touched
  <2>5. HoldHasDeadline' /\ HandBackNotUndone' /\ TimerIsThePersons'
    BY <1>1, <2>1, <2>3, <2>4 DEF HoldHasDeadline, HandBackNotUndone, TimerIsThePersons
  <2> QED
    BY <1>1, <2>1, <2>2, <2>3, <2>5, InvPartsNext
<1>2. CASE AskForSlot(t) /\ UNCHANGED timer
  BY <1>2, AskForSlotKeeps, OpsFacts DEF AskTakeOver
<1> QED
  BY <1>1, <1>2 DEF AskTakeOver

LEMMA GiveUpTakeOverKeeps ==
  ASSUME Inv, NEW t \in Takeovers, GiveUpTakeOver(t)
  PROVE  Inv'
BY LeaveLineKeeps, OpsFacts DEF GiveUpTakeOver, hold

\* Those in line for the lease are refused.
LEMMA NobodyQueuedEffect ==
  ASSUME Placed(pc)
  PROVE  /\ Placed(NobodyQueued)
         /\ Lists(<<>>, Where(NobodyQueued, "queued"))
         /\ Where(NobodyQueued, "inLine") = Where(pc, "inLine")
         /\ \A x \in Ops : NobodyQueued[x] = IF pc[x] = "queued" THEN "idle" ELSE pc[x]
<1>1. /\ NobodyQueued \in [Ops -> Stages]
      /\ \A x \in Ops : NobodyQueued[x] = IF pc[x] = "queued" THEN "idle" ELSE pc[x]
  BY DEF NobodyQueued, Placed, Stages
<1>2. Where(NobodyQueued, "queued") = {}
  BY <1>1 DEF Where
<1> QED
  BY <1>1, <1>2, ListsNobody DEF Placed, Where

LEMMA TakeOverKeeps ==
  ASSUME Inv, NEW t \in Takeovers, TakeOver(t)
  PROVE  Inv'
<1> USE InvParts
<1>1. t \in Ops /\ t \notin Workers /\ pc[t] = "hasSlot"
  BY OpsFacts DEF TakeOver
<1>2. CASE EndSlot(t, "idle", timer)
  BY <1>1, <1>2, EndSlotKeeps DEF TakeOver
<1>3. CASE EndAction(t, [NobodyQueued EXCEPT ![t] = "idle"], Human, <<>>, DeadlineSet)
  <2> DEFINE at == [NobodyQueued EXCEPT ![t] = "idle"]
  <2>1. /\ at \in [Ops -> Stages]
        /\ at[t] = "idle"
        /\ \A x \in Ops \ {t} : at[x] = IF pc[x] = "queued" THEN "idle" ELSE pc[x]
    BY <1>1, NobodyQueuedEffect DEF Placed, Stages
  <2>2. EndAction(t, at, Human, <<>>, DeadlineSet)
    BY <1>3
  <2> HIDE DEF at
  <2>3. Placed(at) /\ Where(at, "queued") = {}
    BY <2>1 DEF Placed, Where
  <2>4. Lists(<<>>, Where(at, "queued"))
    BY <2>3, ListsNobody
  <2>5. /\ DeadlineSet \in {"idle", "retry"}
        /\ wanted => DeadlineSet = "retry"
    BY DEF DeadlineSet, HandBackNotUndone
  <2> QED
    BY <1>1, <2>1, <2>2, <2>3, <2>4, <2>5, EndActionKeeps DEF TakeOver
<1> QED
  BY <1>2, <1>3 DEF TakeOver

LEMMA AskEventKeeps ==
  ASSUME Inv, NEW o \in Inputs \cup Captures, AskEvent(o)
  PROVE  Inv'
BY AskForSlotKeeps, OpsFacts DEF AskEvent, hold

LEMMA LandKeeps ==
  ASSUME Inv, NEW o \in Inputs \cup Captures, Land(o)
  PROVE  Inv'
<1>1. o \in Ops /\ o \notin Workers
  BY OpsFacts
<1>2. CASE EndSlot(o, "idle", timer)
  BY <1>1, <1>2, EndSlotKeeps DEF Land
<1>3. CASE /\ o \in Inputs => actor = Human
           /\ pc' = [pc EXCEPT ![o] = "inside"]
           /\ UNCHANGED <<hold, slot, line>>
  BY <1>1, <1>3, GoesInKeeps DEF Land
<1> QED
  BY <1>2, <1>3 DEF Land

LEMMA LandedKeeps ==
  ASSUME Inv, NEW o \in Inputs \cup Captures, Landed(o)
  PROVE  Inv'
<1>1. PICK tm \in {Touched, timer} : EndSlot(o, "idle", tm)
  BY DEF Landed
<1> QED
  BY <1>1, EndSlotKeeps, OpsFacts DEF Landed

LEMMA TeardownKeeps ==
  ASSUME Inv, NEW o \in Teardowns, AskTeardown(o) \/ StartDetach(o) \/ Detached(o)
  PROVE  Inv'
<1>1. o \in Ops /\ o \notin Workers \cup Inputs
  BY OpsFacts
<1>2. CASE AskTeardown(o)
  BY <1>1, <1>2, AskForSlotKeeps DEF AskTeardown, hold
<1>3. CASE StartDetach(o)
  BY <1>1, <1>3, GoesInKeeps DEF StartDetach
<1>4. CASE Detached(o)
  BY <1>1, <1>4, EndSlotKeeps DEF Detached
<1> QED
  BY <1>2, <1>3, <1>4

\* The lease is released with everyone where he is.
LEMMA ReleaseHereKeeps ==
  ASSUME Inv, Release(pc, waiting), slot \notin Workers \cup Inputs,
         UNCHANGED <<slot, line, revoked, cancelled>>
  PROVE  Inv'
<1> USE InvParts
<1>1. \A o \in Ops : pc[o] = "inside" => o \notin Workers \cup Inputs
  BY DEF SlotOf
<1>2. \A o \in Ops : pc[o] = "leaving" => Stopped
  BY DEF LeavesWhenStopped, At
<1> QED
  BY <1>1, <1>2, ReleaseKeeps DEF Stopped

LEMMA HandBackKeeps == ASSUME Inv, HandBack PROVE Inv'
<1> USE InvParts
<1>1. CASE slot = Nobody /\ Release(pc, waiting)
  BY <1>1, ReleaseHereKeeps, OpsFacts DEF HandBack
<1>2. CASE /\ wanted' = TRUE
           /\ timer' = "retry"
           /\ UNCHANGED <<actor, waiting, grace, lapsing, pc>>
  <2>1. UNCHANGED <<slot, line, revoked, cancelled>> /\ actor = Human
    BY DEF HandBack
  <2>2. OneUser' /\ LeavesWhenStopped'
    BY <1>2, <2>1 DEF OneUser, LeavesWhenStopped, At, Stopped
  <2>3. HoldHasDeadline' /\ HandBackNotUndone' /\ TimerIsThePersons'
    BY <1>2, <2>1 DEF HoldHasDeadline, HandBackNotUndone, TimerIsThePersons
  <2> QED
    BY <1>2, <2>1, <2>2, <2>3, InvPartsNext
<1> QED
  BY <1>1, <1>2 DEF HandBack

LEMMA LapseKeeps == ASSUME Inv, Lapse PROVE Inv'
<1> USE InvParts
<1>1. UNCHANGED <<slot, line, revoked, cancelled>> /\ timer = "idle" /\ actor = Human
  BY DEF Lapse, TimerIsThePersons
<1>2. CASE ~ShowsActivity /\ Release(pc, waiting)
  BY <1>1, <1>2, ReleaseHereKeeps, OpsFacts DEF ShowsActivity
<1>3. CASE /\ ShowsActivity
           /\ UNCHANGED <<actor, waiting, wanted, pc>>
           /\ \/ /\ grace' = slot
                 /\ UNCHANGED <<timer, lapsing>>
              \/ /\ lapsing' = slot
                 /\ timer' = "off"
                 /\ UNCHANGED grace
  <2>1. slot # Nobody /\ slot \in Ops
    BY <1>3 DEF ShowsActivity, SlotOf
  <2>2. OneUser' /\ LeavesWhenStopped'
    BY <1>1, <1>3 DEF OneUser, LeavesWhenStopped, At, Stopped
  <2>3. ~wanted
    BY <1>1 DEF HandBackNotUndone
  <2>4. HoldHasDeadline' /\ HandBackNotUndone' /\ TimerIsThePersons'
    BY <1>1, <1>3, <2>1, <2>3 DEF HoldHasDeadline, HandBackNotUndone, TimerIsThePersons
  <2>5. timer' \in {"off", "idle", "retry"} /\ {grace', lapsing'} \subseteq Ops \cup {Nobody}
    BY <1>1, <1>3, <2>1
  <2> QED
    BY <1>1, <1>3, <2>2, <2>4, <2>5, InvPartsNext
<1> QED
  BY <1>2, <1>3 DEF Lapse

(***************************************************************************)
(* The end of the run                                                      *)
(***************************************************************************)

LEMMA StopRunKeeps == ASSUME Inv, StopRun PROVE Inv'
<1> USE InvParts
<1>1. revoked' = TRUE /\ UNCHANGED <<slot, line, cancelled>>
  BY DEF StopRun
<1>2. SlotOf(NobodyQueued, slot', line')
  BY <1>1, NobodyQueuedEffect DEF SlotOf
<1>3. CASE actor # Nobody
  <2>1. Release(NobodyQueued, <<>>)
    BY <1>3 DEF StopRun
  <2> QED
    BY <1>1, <1>2, <2>1, NobodyQueuedEffect, ReleaseKeeps
<1>4. CASE actor = Nobody
  <2>1. /\ waiting' = <<>>
        /\ pc' = NobodyQueued
        /\ UNCHANGED <<actor, timer, wanted, grace, lapsing>>
    BY <1>4 DEF StopRun
  <2>2. Placed(pc') /\ SlotOf(pc', slot', line') /\ Lists(waiting', Where(pc', "queued"))
    BY <1>2, <2>1, NobodyQueuedEffect
  <2>3. OneUser' /\ LeavesWhenStopped'
    BY <1>1 DEF OneUser, LeavesWhenStopped, Stopped
  <2>4. HoldHasDeadline' /\ HandBackNotUndone' /\ TimerIsThePersons'
    BY <1>1, <2>1 DEF HoldHasDeadline, HandBackNotUndone, TimerIsThePersons
  <2> QED
    BY <1>1, <2>1, <2>2, <2>3, <2>4, InvPartsNext
<1> QED
  BY <1>3, <1>4

LEMMA CancelRunKeeps == ASSUME Inv, CancelRun PROVE Inv'
<1> USE InvParts
<1>1. /\ cancelled' = TRUE
      /\ waiting' = <<>>
      /\ pc' = NobodyQueued
      /\ UNCHANGED <<actor, slot, line, timer, wanted, grace, lapsing, revoked>>
  BY DEF CancelRun
<1>2. /\ Placed(pc')
      /\ Lists(waiting', Where(pc', "queued"))
      /\ \A x \in Ops : pc'[x] = IF pc[x] = "queued" THEN "idle" ELSE pc[x]
  BY <1>1, NobodyQueuedEffect
<1>3. SlotOf(pc', slot', line')
  BY <1>1, NobodyQueuedEffect DEF SlotOf
<1>4. OneUser' /\ LeavesWhenStopped'
  BY <1>1, <1>2 DEF OneUser, LeavesWhenStopped, At, Stopped
<1>5. HoldHasDeadline' /\ HandBackNotUndone' /\ TimerIsThePersons'
  BY <1>1 DEF HoldHasDeadline, HandBackNotUndone, TimerIsThePersons
<1> QED
  BY <1>1, <1>2, <1>3, <1>4, <1>5, InvPartsNext

(***************************************************************************)
(* The theorems                                                            *)
(***************************************************************************)

LEMMA InvInit == Init => Inv
<1> SUFFICES ASSUME Init PROVE Inv
  OBVIOUS
<1>1. pc = [o \in Ops |-> "idle"]
  BY DEF Init
<1>2. Placed(pc) /\ Where(pc, "queued") = {} /\ Where(pc, "inLine") = {}
  BY <1>1 DEF Placed, Where, Stages
<1>3. SlotOf(pc, slot, line) /\ Lists(waiting, Where(pc, "queued"))
  BY <1>1, <1>2, ListsNobody, OpsFacts DEF Init, SlotOf
<1>4. OneUser /\ LeavesWhenStopped
  BY <1>1 DEF OneUser, LeavesWhenStopped, At
<1>5. HoldHasDeadline /\ HandBackNotUndone /\ TimerIsThePersons
  BY OpsFacts DEF Init, HoldHasDeadline, HandBackNotUndone, TimerIsThePersons
<1> QED
  BY <1>2, <1>3, <1>4, <1>5, InvParts DEF Init

LEMMA InvStep == Inv /\ [Next]_vars => Inv'
<1> SUFFICES ASSUME Inv, [Next]_vars PROVE Inv'
  OBVIOUS
<1>1. ASSUME NEW w \in Workers,
             \/ Ask(w) \/ Granted(w) \/ GiveUpSlot(w) \/ GoIn(w) \/ Finish(w)
             \/ LetSlotGo(w) \/ FinishLeaving(w) \/ End(w)
      PROVE  Inv'
  BY <1>1, AskKeeps, GrantedKeeps, GiveUpSlotKeeps, GoInKeeps, FinishKeeps,
     LetSlotGoKeeps, LeavingKeeps
<1>2. ASSUME NEW t \in Takeovers, AskTakeOver(t) \/ GiveUpTakeOver(t) \/ TakeOver(t)
      PROVE  Inv'
  BY <1>2, AskTakeOverKeeps, GiveUpTakeOverKeeps, TakeOverKeeps
<1>3. ASSUME NEW o \in Inputs \cup Captures, AskEvent(o) \/ Land(o) \/ Landed(o)
      PROVE  Inv'
  BY <1>3, AskEventKeeps, LandKeeps, LandedKeeps
<1>4. ASSUME NEW o \in Teardowns, AskTeardown(o) \/ StartDetach(o) \/ Detached(o)
      PROVE  Inv'
  BY <1>4, TeardownKeeps
<1>5. CASE HandBack \/ RetryFires \/ Lapse
  BY <1>5, HandBackKeeps, LapseKeeps DEF RetryFires
<1>6. CASE StopRun \/ CancelRun
  BY <1>6, StopRunKeeps, CancelRunKeeps
<1>7. CASE UNCHANGED vars
  <2>1. OneUser' /\ LeavesWhenStopped'
    BY <1>7, InvParts DEF vars, OneUser, LeavesWhenStopped, At, Stopped
  <2>2. HoldHasDeadline' /\ HandBackNotUndone' /\ TimerIsThePersons'
    BY <1>7, InvParts DEF vars, HoldHasDeadline, HandBackNotUndone, TimerIsThePersons
  <2> QED
    BY <1>7, <2>1, <2>2, InvParts, InvPartsNext DEF vars
<1> QED
  BY <1>1, <1>2, <1>3, <1>4, <1>5, <1>6, <1>7 DEF Next

\* The inductive invariant holds of every behaviour.
THEOREM Invariant == Spec => []Inv
BY InvInit, InvStep, PTL DEF Spec

\* The types: each line lists exactly those who wait in it (lease.ts:530-598,
\* 160-216), so a wait that timed out or was refused leaves no entry behind.
THEOREM TypeCorrect == Spec => []TypeOK
<1>1. Inv => TypeOK
  BY DEF Inv
<1> QED
  BY <1>1, Invariant, PTL

\* Whoever is in the page holds the browser (controller.ts:2443).
THEOREM OneUserHolds == Spec => []OneUser
<1>1. Inv => OneUser
  BY DEF Inv
<1> QED
  BY <1>1, Invariant, PTL

\* Nobody waits for what nobody has (lease.ts:346-365, 586-598).
THEOREM NobodyWaits == Spec => []NobodyWaitsInVain
<1>1. Inv => NobodyWaitsInVain
  BY DEF Inv
<1> QED
  BY <1>1, Invariant, PTL

\* A person's hold has an end in sight (lease.ts:318-344).
THEOREM DeadlineHolds == Spec => []HoldHasDeadline
<1>1. Inv => HoldHasDeadline
  BY DEF Inv
<1> QED
  BY <1>1, Invariant, PTL

\* A handback asked for is not undone (lease.ts:283-300).
THEOREM HandBackHolds == Spec => []HandBackNotUndone
<1>1. Inv => HandBackNotUndone
  BY DEF Inv
<1> QED
  BY <1>1, Invariant, PTL

\* An operation that ends its turn in the slot leaves a worker's lease alone.
LEMMA EndSlotKeepsActor ==
  ASSUME NEW o, NEW stage, NEW tm, actor # Human, EndSlot(o, stage, tm)
  PROVE  actor' = actor
BY DEF EndSlot, EndAction, LapseDue

\* Only a worker's own end releases its lease in a run that goes on.
LEMMA KeepsSequenceStep == Inv /\ [Next]_vars => [KeepsSequence]_vars
<1> SUFFICES ASSUME Inv, Next,
                    NEW w \in Workers, actor = w, actor' # w,
                    actor' # Human, ~revoked', ~cancelled'
             PROVE  pc'[w] = "ended"
  BY DEF KeepsSequence
<1> USE InvParts
<1>1. w \in Ops /\ actor # Human /\ actor # Nobody /\ timer = "off" /\ lapsing = Nobody
  BY OpsFacts DEF TimerIsThePersons
<1>2. ASSUME NEW v \in Workers, Ask(v)  PROVE FALSE
  BY <1>1, <1>2 DEF Ask
<1>3. ASSUME NEW v \in Workers, Granted(v)  PROVE FALSE
  BY <1>1, <1>3 DEF Granted, Stopped, hold
<1>4. ASSUME NEW v \in Workers, GiveUpSlot(v)  PROVE FALSE
  BY <1>1, <1>4, GiveUpSlotKeepsHold DEF hold
<1>5. ASSUME NEW v \in Workers, GoIn(v) \/ Finish(v) \/ LetSlotGo(v)  PROVE FALSE
  BY <1>1, <1>5, EndSlotKeepsActor DEF GoIn, Finish, LetSlotGo, Stopped, hold
<1>6. ASSUME NEW v \in Workers, FinishLeaving(v)  PROVE FALSE
  <2>1. ~Stopped
    BY <1>6 DEF FinishLeaving, Stopped
  <2>2. v \in Ops /\ pc[v] = "leaving"
    BY <1>6, OpsFacts DEF FinishLeaving
  <2> QED
    BY <2>1, <2>2 DEF LeavesWhenStopped, At
<1>7. ASSUME NEW v \in Workers, End(v)  PROVE pc'[w] = "ended"
  <2> DEFINE at == [pc EXCEPT ![v] = "ended"]
  <2>1. GivesUp(v) /\ Release(at, waiting) /\ v = w
    BY <1>1, <1>7 DEF End, ReleaseIfHeldBy, GivesUp, hold
  <2>2. /\ at \in [Ops -> Stages]
        /\ at[w] = "ended"
        /\ \A x \in Ops \ {w} : at[x] = pc[x]
    BY <1>1, <2>1 DEF Placed, Stages
  <2>3. pc[w] = "idle"
    BY <1>7, <2>1 DEF End
  <2> HIDE DEF at
  <2>4. Placed(at) /\ Where(at, "queued") = Where(pc, "queued")
    BY <2>2, <2>3 DEF Placed, Where
  <2>5. pc'[w] = at[w]
    BY <1>1, <2>1, <2>2, <2>4, ReleaseEffect
  <2> QED
    BY <2>2, <2>5
<1>8. ASSUME NEW t \in Takeovers, AskTakeOver(t) \/ GiveUpTakeOver(t) \/ TakeOver(t)
      PROVE  FALSE
  <2>1. CASE TakeOver(t)
    <3>1. CASE EndSlot(t, "idle", timer)
      BY <1>1, <3>1, EndSlotKeepsActor
    <3>2. CASE EndAction(t, [NobodyQueued EXCEPT ![t] = "idle"], Human, <<>>, DeadlineSet)
      <4>1. ~LapseDue(t, Human)
        BY <1>1, OpsFacts DEF LapseDue
      <4> QED
        BY <3>2, <4>1 DEF EndAction
    <3> QED
      BY <2>1, <3>1, <3>2 DEF TakeOver
  <2> QED
    BY <1>1, <1>8, <2>1 DEF AskTakeOver, GiveUpTakeOver, hold
<1>9. ASSUME NEW o \in Inputs \cup Captures, AskEvent(o) \/ Land(o) \/ Landed(o)
      PROVE  FALSE
  BY <1>1, <1>9, EndSlotKeepsActor DEF AskEvent, Land, Landed, hold
<1>10. ASSUME NEW o \in Teardowns, AskTeardown(o) \/ StartDetach(o) \/ Detached(o)
       PROVE  FALSE
  BY <1>1, <1>10, EndSlotKeepsActor DEF AskTeardown, StartDetach, Detached, hold
<1>11. CASE HandBack \/ RetryFires \/ Lapse
  BY <1>1, <1>11 DEF HandBack, RetryFires, Lapse
<1>12. CASE StopRun \/ CancelRun
  BY <1>12 DEF StopRun, CancelRun
<1> QED
  BY <1>2, <1>3, <1>4, <1>5, <1>6, <1>7, <1>8, <1>9, <1>10, <1>11, <1>12 DEF Next

\* A worker keeps the browser from one of its actions to the next
\* (lease.ts:160-216, 233-265).
THEOREM SequenceIsKept == Spec => SequenceKept
<1>1. Inv /\ [Next]_vars => [KeepsSequence]_vars
  BY KeepsSequenceStep
<1> QED
  BY <1>1, Invariant, PTL DEF Spec, SequenceKept

(***************************************************************************)
(* The slot as a first-come first-served queue                             *)
(***************************************************************************)

\* The queue is left alone, or does one of the things it promises.
Promised == Queue!Next \/ UNCHANGED Queue!vars

LEMMA SlotLeftAlone == UNCHANGED <<slot, line>> => Promised
BY DEF Promised, Queue!vars

\* One slot is taken or free.
LEMMA SlotsTaken ==
  /\ Cardinality({Nobody} \ {Nobody}) = 0
  /\ \A o \in Ops : {o} \ {Nobody} = {o} /\ Cardinality({o} \ {Nobody}) = 1
<1>1. {Nobody} \ {Nobody} = {} /\ \A o \in Ops : {o} \ {Nobody} = {o}
  BY OpsFacts
<1> QED
  BY <1>1, FS_EmptySet, FS_Singleton

\* Whoever asks takes the free slot, or joins the line behind all in it.
LEMMA AskPromised ==
  ASSUME Inv, NEW o \in Ops, pc[o] \in {"idle", "granted"}, AskForSlot(o)
  PROVE  Promised
<1> USE InvParts
<1>1. slot # o /\ slot \in Ops \cup {Nobody} /\ o # Nobody
  BY OpsFacts DEF SlotOf
<1>2. CASE slot = Nobody /\ line = <<>>
  <2>1. /\ {slot} \ {Nobody} = {}
        /\ {slot'} \ {Nobody} = {o}
        /\ line' = line
        /\ Cardinality({slot} \ {Nobody}) < 1
    BY <1>1, <1>2, SlotsTaken DEF AskForSlot
  <2>2. Queue!Take(o)
    BY <1>2, <2>1 DEF Queue!Take, Queue!Cardinality, Cardinality
  <2> QED
    BY <2>2 DEF Promised, Queue!Next
<1>3. CASE ~(slot = Nobody /\ line = <<>>)
  <2>1. slot' = slot /\ line' = Append(line, o)
    BY <1>3 DEF AskForSlot
  <2>2. slot \in Ops /\ Cardinality({slot} \ {Nobody}) = 1
    BY <1>1, <1>3, SlotsTaken DEF SlotOf
  <2>3. \A i \in DOMAIN line : line[i] # o
    <3>1. line \in Seq(Where(pc, "inLine")) /\ o \notin Where(pc, "inLine")
      BY DEF SlotOf, Lists, Where
    <3> QED
      BY <3>1
  <2>4. Queue!Join(o)
    BY <1>1, <2>1, <2>2, <2>3 DEF Queue!Join, Queue!Cardinality, Cardinality
  <2> QED
    BY <2>4 DEF Promised, Queue!Next
<1> QED
  BY <1>2, <1>3

\* Whoever gives up leaves the line.
LEMMA GiveUpPromised ==
  ASSUME Inv, NEW o \in Ops, pc[o] = "inLine", line' = LineWithout(o), slot' = slot
  PROVE  Promised
<1> DEFINE k == CHOOSE i \in DOMAIN line : line[i] = o
<1>1. Lists(line, Where(pc, "inLine")) /\ o \in Where(pc, "inLine")
  BY InvParts DEF SlotOf, Where
<1>2. \E i \in DOMAIN line : line[i] = o
  BY <1>1 DEF Lists
<1>3. k \in DOMAIN line
  BY <1>2
<1>4. line' = SubSeq(line, 1, k - 1) \o SubSeq(line, k + 1, Len(line))
  BY DEF LineWithout
<1> HIDE DEF k
<1>5. Queue!Leave(k)
  BY <1>4 DEF Queue!Leave
<1> QED
  BY <1>3, <1>5 DEF Promised, Queue!Next

\* The slot is given back, to the one that has waited longest.
LEMMA GiveBackPromised ==
  ASSUME Inv, NEW o \in Ops, pc[o] \in {"hasSlot", "inside"},
         slot' = NextInSlot, line' = IF slot' = Nobody THEN line ELSE Tail(line)
  PROVE  Promised
<1> USE InvParts
<1>1. slot = o /\ o # Nobody
  BY OpsFacts DEF SlotOf
<1>2. CASE line = <<>>
  <2>1. slot' = Nobody /\ line' = line
    BY <1>2 DEF NextInSlot
  <2>2. Queue!GiveBack(o)
    BY <1>1, <1>2, <2>1 DEF Queue!GiveBack
  <2> QED
    BY <2>2 DEF Promised, Queue!Next
<1>3. CASE line # <<>>
  <2>1. Head(line) \in Ops
    BY <1>3, ListsTail DEF SlotOf, Where
  <2>2. slot' = Head(line) /\ slot' # Nobody /\ line' = Tail(line)
    BY <1>3, <2>1, OpsFacts DEF NextInSlot
  <2>3. Queue!HandOver(o)
    BY <1>1, <1>3, <2>2 DEF Queue!HandOver
  <2> QED
    BY <2>3 DEF Promised, Queue!Next
<1> QED
  BY <1>2, <1>3

LEMMA EndActionPromised ==
  ASSUME Inv, NEW o \in Ops, pc[o] \in {"hasSlot", "inside"},
         NEW at, NEW holder, NEW q, NEW tm, EndAction(o, at, holder, q, tm)
  PROVE  Promised
BY GiveBackPromised DEF EndAction, HandOn

LEMMA EndSlotPromised ==
  ASSUME Inv, NEW o \in Ops, pc[o] \in {"hasSlot", "inside"},
         NEW stage, NEW tm, EndSlot(o, stage, tm)
  PROVE  Promised
BY EndActionPromised DEF EndSlot

\* Every step of the browser is one of the queue, or leaves it alone.
LEMMA StepPromised == Inv /\ [Next]_vars => Promised
<1> SUFFICES ASSUME Inv, [Next]_vars PROVE Promised
  OBVIOUS
<1>1. ASSUME NEW w \in Workers, Ask(w) \/ FinishLeaving(w) \/ End(w)
      PROVE  Promised
  BY <1>1, SlotLeftAlone DEF Ask, FinishLeaving, End
<1>2. ASSUME NEW w \in Workers, Granted(w)
      PROVE  Promised
  BY <1>2, AskPromised, SlotLeftAlone, OpsFacts DEF Granted
<1>3. ASSUME NEW w \in Workers, GiveUpSlot(w)
      PROVE  Promised
  BY <1>3, GiveUpPromised, OpsFacts DEF GiveUpSlot
<1>4. ASSUME NEW w \in Workers, GoIn(w)
      PROVE  Promised
  BY <1>4, EndSlotPromised, SlotLeftAlone, OpsFacts DEF GoIn
<1>5. ASSUME NEW w \in Workers, Finish(w)
      PROVE  Promised
  <2>1. CASE line = <<>> /\ slot' = Nobody /\ UNCHANGED line
    BY <1>5, <2>1, GiveBackPromised, OpsFacts DEF Finish, NextInSlot
  <2>2. CASE EndSlot(w, "idle", timer)
    BY <1>5, <2>2, EndSlotPromised, OpsFacts DEF Finish
  <2> QED
    BY <1>5, <2>1, <2>2 DEF Finish
<1>6. ASSUME NEW w \in Workers, LetSlotGo(w)
      PROVE  Promised
  BY <1>6, EndSlotPromised, OpsFacts DEF LetSlotGo
<1>7. ASSUME NEW t \in Takeovers, AskTakeOver(t) \/ GiveUpTakeOver(t) \/ TakeOver(t)
      PROVE  Promised
  <2>1. CASE AskTakeOver(t)
    BY <2>1, AskPromised, SlotLeftAlone, OpsFacts DEF AskTakeOver
  <2>2. CASE GiveUpTakeOver(t)
    BY <2>2, GiveUpPromised, OpsFacts DEF GiveUpTakeOver
  <2>3. CASE TakeOver(t)
    BY <2>3, EndActionPromised, EndSlotPromised, OpsFacts DEF TakeOver
  <2> QED
    BY <1>7, <2>1, <2>2, <2>3
<1>8. ASSUME NEW o \in Inputs \cup Captures, AskEvent(o) \/ Land(o) \/ Landed(o)
      PROVE  Promised
  <2>1. CASE AskEvent(o)
    BY <2>1, AskPromised, OpsFacts DEF AskEvent
  <2>2. CASE Land(o)
    BY <2>2, EndSlotPromised, SlotLeftAlone, OpsFacts DEF Land
  <2>3. CASE Landed(o)
    BY <2>3, EndSlotPromised, OpsFacts DEF Landed
  <2> QED
    BY <1>8, <2>1, <2>2, <2>3
<1>9. ASSUME NEW o \in Teardowns, AskTeardown(o) \/ StartDetach(o) \/ Detached(o)
      PROVE  Promised
  BY <1>9, AskPromised, EndSlotPromised, SlotLeftAlone, OpsFacts
     DEF AskTeardown, StartDetach, Detached
<1>10. CASE HandBack \/ RetryFires \/ Lapse \/ StopRun \/ CancelRun
  BY <1>10, SlotLeftAlone DEF HandBack, RetryFires, Lapse, StopRun, CancelRun
<1>11. CASE UNCHANGED vars
  BY <1>11, SlotLeftAlone DEF vars
<1> QED
  BY <1>1, <1>2, <1>3, <1>4, <1>5, <1>6, <1>7, <1>8, <1>9, <1>10, <1>11 DEF Next

\* The slot of a page is a first-come first-served queue with one slot
\* (lease.ts:530-598; controller.ts: its callers).
THEOREM LeaseImplementsSlotQueue == Spec => ImplementsSlotQueue
<1>1. Init => Queue!Init
  BY DEF Init, Queue!Init
<1>2. Inv /\ [Next]_vars => [Queue!Next]_(Queue!vars)
  BY StepPromised DEF Promised
<1> QED
  BY <1>1, <1>2, Invariant, PTL DEF Spec, ImplementsSlotQueue, Queue!Spec
=============================================================================
