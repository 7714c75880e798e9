-------------------------- MODULE SchedulerProofs --------------------------
(***************************************************************************)
(* What is proved of the scheduler for every finite set of nodes and every *)
(* set of graphs that can be scheduled: that it keeps dependency order,    *)
(* blocks exactly what lies downstream of a failure, names true causes,    *)
(* never meets a graph without a ready node, and implements PlanExecution. *)
(***************************************************************************)
EXTENDS Scheduler, SequenceTheorems, FiniteSetTheorems, TLAPS

(***************************************************************************)
(* Upstream is the least closed set above a node's dependencies            *)
(***************************************************************************)

\* Dependencies lie upstream, and a closed set that holds a node's
\* dependencies holds everything upstream of the node.
LEMMA UpstreamLeast ==
  ASSUME NEW N, NEW g \in [N -> SUBSET N], NEW n \in N
  PROVE  /\ Upstream(g, n) \subseteq N
         /\ g[n] \subseteq Upstream(g, n)
         /\ \A C \in SUBSET N :
              g[n] \subseteq C /\ IsClosed(g, C) => Upstream(g, n) \subseteq C
<1>1. DOMAIN g = N /\ g[n] \subseteq N
  OBVIOUS
<1> QED
  BY <1>1 DEF Upstream

\* What is upstream of something upstream is upstream.
LEMMA UpstreamTransitive ==
  ASSUME NEW N, NEW g \in [N -> SUBSET N], NEW n \in N,
         NEW m \in Upstream(g, n)
  PROVE  /\ g[m] \subseteq Upstream(g, n)
         /\ Upstream(g, m) \subseteq Upstream(g, n)
<1>1. Upstream(g, n) \in SUBSET N /\ m \in N
  BY UpstreamLeast
<1>2. IsClosed(g, Upstream(g, n))
  <2> SUFFICES ASSUME NEW k \in Upstream(g, n), NEW d \in g[k]
               PROVE  d \in Upstream(g, n)
    BY DEF IsClosed
  <2>1. k \in N /\ d \in N
    BY <1>1
  <2>2. ASSUME NEW C \in SUBSET N, g[n] \subseteq C, IsClosed(g, C)
        PROVE  d \in C
    <3>1. k \in C
      BY <2>2, UpstreamLeast
    <3> QED
      BY <3>1, <2>2 DEF IsClosed
  <2>3. DOMAIN g = N
    OBVIOUS
  <2> QED
    BY <2>1, <2>2, <2>3 DEF Upstream
<1>3. g[m] \subseteq Upstream(g, n)
  BY <1>2 DEF IsClosed
<1> QED
  BY <1>1, <1>2, <1>3, UpstreamLeast

(***************************************************************************)
(* The inductive invariant                                                 *)
(***************************************************************************)

InWave == pc \in {"wave", "walk", "rejected"}

\* The graph is one that can be scheduled.
GraphInv == deps \in [Node -> SUBSET Node] /\ Schedulable(deps)

\* A node is settled because it ran or because it is blocked, never both.
SettledInv ==
  /\ settled = {n \in Node : outcome[n] # "none"} \cup Blocked
  /\ \A n \in Blocked : outcome[n] = "none" /\ policy = "block"
  /\ pc = "returned" => settled = Node

\* An in-degree counts the dependencies that have not released the node.
CountInv == \A n \in Node : inDegree[n] = Cardinality(deps[n] \ Released)

\* What has run, runs or is about to run had all its dependencies released.
OrderInv ==
  /\ \A n \in running \cup toRun : n \in wave /\ n \notin settled
  /\ \A n \in Node : n \in running \cup toRun \/ outcome[n] # "none"
                       => deps[n] \subseteq Released
  /\ running \cap toRun = {}
  /\ thrown \cap (running \cup toRun \cup settled) = {}
  /\ thrown # {} => pc = "rejected"
  /\ pc \notin {"wave", "rejected"} => running = {} /\ toRun = {}

\* What no node below may wait for: failures that block, and blocked nodes.
Dead == Blocked \cup {d \in Failed : policy = "block"}

\* Everything that depends on a dead node is blocked, except below the
\* failures of the wave that is still going on.
ClosureInv ==
  \A d \in Dead : \A n \in Dependents(d) :
    n \in Blocked \/ (InWave /\ d \in FailedThisWave)

Queued(n, r) == [node |-> n, root |-> r] \in Range(queue)

Covered(n) == \/ n \in settled
              \/ rootsFor[n] # {}
              \/ \E r \in Node : Queued(n, r)

\* The walk: what is below a failure of the wave or below a node already
\* reached has been reached or is queued; only true causes are recorded.
WalkInv ==
  /\ pc = "walk" => policy = "block"
  /\ pc = "walk" =>
       \A r \in FailedThisWave : \A n \in Dependents(r) :
         n \in settled \/ r \in rootsFor[n] \/ Queued(n, r)
  /\ \A n \in Node : rootsFor[n] # {} =>
       n \notin settled /\ \A m \in Dependents(n) : Covered(m)
  /\ \A n \in Node : rootsFor[n] \subseteq FailedThisWave \cap Upstream(deps, n)
  /\ \A v \in Range(queue) :
       v.root \in FailedThisWave \cap Upstream(deps, v.node)
  /\ pc # "walk" => queue = << >> /\ rootsFor = NoRoots

\* Causes are failures upstream; those of the wave just over are complete.
CauseInv ==
  \A n \in Blocked :
    /\ blocked[n] \subseteq Failed \cap Upstream(deps, n)
    /\ InWave => blocked[n] \cap wave = {}
    /\ pc = "select" /\ blocked[n] \cap FailedThisWave # {} =>
         deps[n] \cap FailedThisWave \subseteq blocked[n]

Inv == /\ TypeOK /\ GraphInv /\ SettledInv /\ CountInv /\ OrderInv
       /\ ClosureInv /\ WalkInv /\ CauseInv /\ NeverReportsCycle

(***************************************************************************)
(* Enumerations of visits                                                  *)
(***************************************************************************)

VisitRecord == [node : Node, root : Node]

LEMMA VisitRecordsFinite == IsFiniteSet(VisitRecord)
<1> DEFINE f == [p \in Node \X Node |-> [node |-> p[1], root |-> p[2]]]
<1>1. IsFiniteSet(Node \X Node)
  BY NodeAssumption, FS_Product
<1>2. f \in Surjection(Node \X Node, VisitRecord)
  <2>1. f \in [Node \X Node -> VisitRecord]
    BY DEF VisitRecord
  <2>2. \A v \in VisitRecord : \E p \in Node \X Node : f[p] = v
    <3> TAKE v \in VisitRecord
    <3>1. <<v.node, v.root>> \in Node \X Node
      BY DEF VisitRecord
    <3>2. f[<<v.node, v.root>>] = v
      BY <3>1 DEF VisitRecord
    <3> QED
      BY <3>1, <3>2
  <2> QED
    BY <2>1, <2>2 DEF Surjection
<1> QED
  BY <1>1, <1>2, FS_Surjection

\* An enumeration of a set of visits is a sequence of them that misses none.
LEMMA EnumerationIsOnto ==
  ASSUME NEW S \in SUBSET VisitRecord, NEW s \in Enumerations(S)
  PROVE  s \in Seq(VisitRecord) /\ Range(s) = S
<1>1. Cardinality(S) \in Nat
  BY VisitRecordsFinite, FS_Subset, FS_CardinalityType
<1>2. s \in [1..Cardinality(S) -> S]
  BY DEF Enumerations
<1>3. s \in [1..Cardinality(S) -> VisitRecord]
  BY <1>2
<1>4. s \in Seq(VisitRecord)
  BY <1>1, <1>3, SeqDef
<1>5. \A x \in S : \E i \in DOMAIN s : s[i] = x
  BY DEF Enumerations
<1> QED
  BY <1>2, <1>4, <1>5 DEF Range

LEMMA EmptyRange == Range(<< >>) = {}
BY DEF Range

\* Taking the head of a queue loses nothing else.
LEMMA TailRange ==
  ASSUME NEW S, NEW q \in Seq(S), q # << >>
  PROVE  /\ Tail(q) \in Seq(S) /\ Head(q) \in S
         /\ Range(q) = {Head(q)} \cup Range(Tail(q))
<1>1. Len(q) \in Nat /\ Len(q) > 0 /\ DOMAIN q = 1..Len(q) /\ Head(q) = q[1]
  BY LenProperties, EmptySeq, HeadTailProperties
<1>2. /\ Tail(q) \in Seq(S) /\ Len(Tail(q)) = Len(q) - 1
      /\ \A j \in 1..Len(Tail(q)) : Tail(q)[j] = q[j + 1]
  BY HeadTailProperties
<1>3. DOMAIN Tail(q) = 1..(Len(q) - 1)
  BY <1>2, LenProperties
<1>4. ASSUME NEW i \in DOMAIN q, i # 1
      PROVE  i - 1 \in DOMAIN Tail(q) /\ Tail(q)[i - 1] = q[i]
  BY <1>1, <1>2, <1>3, <1>4
<1>5. \A j \in DOMAIN Tail(q) : j + 1 \in DOMAIN q /\ Tail(q)[j] = q[j + 1]
  BY <1>1, <1>2, <1>3
<1>6. 1 \in DOMAIN q /\ q[1] \in S
  BY <1>1
<1> QED
  BY <1>1, <1>2, <1>4, <1>5, <1>6 DEF Range

LEMMA ConcatRange ==
  ASSUME NEW S, NEW p \in Seq(S), NEW q \in Seq(S)
  PROVE  p \o q \in Seq(S) /\ Range(p \o q) = Range(p) \cup Range(q)
<1>1. PICK c : c = p \o q
  OBVIOUS
<1>2. /\ c \in Seq(S) /\ Len(c) = Len(p) + Len(q)
      /\ \A i \in 1..(Len(p) + Len(q)) :
           c[i] = IF i <= Len(p) THEN p[i] ELSE q[i - Len(p)]
  BY <1>1, ConcatProperties
<1>3. /\ Len(p) \in Nat /\ DOMAIN p = 1..Len(p)
      /\ Len(q) \in Nat /\ DOMAIN q = 1..Len(q)
      /\ DOMAIN c = 1..(Len(p) + Len(q))
  BY <1>2, LenProperties
<1>4. \A i \in DOMAIN p : i \in DOMAIN c /\ c[i] = p[i]
  BY <1>2, <1>3
<1>5. \A i \in DOMAIN q : Len(p) + i \in DOMAIN c /\ c[Len(p) + i] = q[i]
  BY <1>2, <1>3
<1>6. ASSUME NEW j \in DOMAIN c
      PROVE  \/ j \in DOMAIN p /\ c[j] = p[j]
             \/ j - Len(p) \in DOMAIN q /\ c[j] = q[j - Len(p)]
  BY <1>2, <1>3
<1>7. Range(c) = Range(p) \cup Range(q)
  BY <1>4, <1>5, <1>6 DEF Range
<1> QED
  BY <1>1, <1>2, <1>7, Zenon

(***************************************************************************)
(* The invariant holds initially                                           *)
(***************************************************************************)

LEMMA InitInv == Init => Inv
<1> SUFFICES ASSUME Init
             PROVE  Inv
  OBVIOUS
<1>3. deps \in [Node -> SUBSET Node] /\ Schedulable(deps)
  BY GraphsAssumption DEF Init
<1>4. \A n \in Node : Cardinality(deps[n]) \in Nat
  BY <1>3, NodeAssumption, FS_Subset, FS_CardinalityType
<1>5. TypeOK
  BY <1>3, <1>4 DEF Init, TypeOK, NoRoots, VisitRecord, Outcomes, DependencyCount
<1>6. Blocked = {} /\ Failed = {} /\ Released = {} /\ settled = {}
  BY DEF Init, Blocked, Failed, Released, NoRoots
<1>7. CountInv
  BY <1>6 DEF Init, CountInv, DependencyCount
<1>8. GraphInv /\ SettledInv /\ OrderInv /\ ClosureInv
  BY <1>3, <1>6 DEF Init, GraphInv, SettledInv, OrderInv, ClosureInv, Dead
<1>9. WalkInv /\ CauseInv /\ NeverReportsCycle
  BY <1>6, EmptyRange DEF Init, WalkInv, CauseInv, NeverReportsCycle, NoRoots
<1> QED
  BY <1>5, <1>7, <1>8, <1>9 DEF Inv

(***************************************************************************)
(* Selecting a wave                                                        *)
(***************************************************************************)

\* The heart of the matter: when a wave is selected and something is not
\* settled, something is ready.  Of the unsettled nodes one waits for none of
\* the others; all it depends on ran or is blocked, and neither a blocked nor
\* a blocking failure can be among it, for then it would be blocked itself.
LEMMA SomethingIsReady ==
  ASSUME Inv, pc = "select", settled # Node
  PROVE  Ready # {}
<1> USE DEF Inv
<1>1. PICK n \in Node \ settled : deps[n] \cap (Node \ settled) = {}
  <2>1. Node \ settled \in SUBSET DOMAIN deps /\ Node \ settled # {}
    BY DEF GraphInv, TypeOK
  <2> QED
    BY <2>1 DEF GraphInv, Schedulable
<1>2. ASSUME NEW d \in deps[n]
      PROVE  d \in Released
  <2>1. d \in Node /\ d \in settled
    BY <1>1 DEF GraphInv
  <2>2. n \in Dependents(d) /\ n \notin Blocked
    BY <1>1 DEF Dependents, SettledInv
  <2>3. d \notin Dead
    BY <2>2 DEF ClosureInv, InWave
  <2> QED
    BY <2>1, <2>3 DEF Dead, SettledInv, Released, Unlocks, Failed
<1>3. deps[n] \ Released = {}
  BY <1>2
<1>4. inDegree[n] = 0
  BY <1>3, FS_EmptySet DEF CountInv
<1> QED
  BY <1>1, <1>4 DEF Ready

\* A node that is ready has had every dependency released.
LEMMA ReadyIsReleased ==
  ASSUME Inv, NEW n \in Ready
  PROVE  n \in Node /\ n \notin settled /\ deps[n] \subseteq Released
<1> USE DEF Inv
<1>1. n \in Node \ settled /\ inDegree[n] = 0
  BY DEF Ready
<1>2. IsFiniteSet(deps[n] \ Released)
  BY <1>1, NodeAssumption, FS_Subset DEF GraphInv
<1>3. deps[n] \ Released = {}
  BY <1>1, <1>2, FS_EmptySet DEF CountInv
<1> QED
  BY <1>1, <1>3

LEMMA SelectWaveInv == Inv /\ SelectWave => Inv'
<1> SUFFICES ASSUME Inv, SelectWave
             PROVE  Inv'
  OBVIOUS
<1> USE DEF Inv
<1>1. Ready # {}
  BY SomethingIsReady DEF SelectWave
<1>2. \A n \in Ready : n \in Node /\ n \notin settled /\ deps[n] \subseteq Released
  BY ReadyIsReleased
<1>3. /\ pc = "select" /\ pc' = "wave" /\ wave' = Ready
      /\ running' \cup toRun' = Ready /\ running' \cap toRun' = {}
      /\ UNCHANGED <<deps, policy, mode, inDegree, settled, outcome, thrown,
                    queue, rootsFor, blocked>>
  BY <1>1 DEF SelectWave, fixed, walk
<1>4. Blocked' = Blocked /\ Failed' = Failed /\ Released' = Released
  BY <1>3 DEF Blocked, Failed, Released, Unlocks
<1>5. TypeOK'
  BY <1>2, <1>3 DEF TypeOK
<1>6. GraphInv' /\ SettledInv' /\ CountInv'
  BY <1>3, <1>4 DEF GraphInv, SettledInv, CountInv
<1>7. OrderInv'
  BY <1>2, <1>3, <1>4 DEF OrderInv
<1>8. ClosureInv'
  BY <1>3, <1>4 DEF ClosureInv, Dead, Dependents, InWave
<1>9. WalkInv'
  BY <1>3, EmptyRange DEF WalkInv, NoRoots
<1>10. CauseInv'
  <2>1. Failed \subseteq settled
    BY DEF Failed, SettledInv
  <2>2. \A n \in Blocked : blocked[n] \cap Ready = {}
    BY <1>2, <2>1 DEF CauseInv
  <2> QED
    BY <1>3, <1>4, <2>2 DEF CauseInv, InWave
<1> QED
  BY <1>3, <1>5, <1>6, <1>7, <1>8, <1>9, <1>10 DEF NeverReportsCycle

(***************************************************************************)
(* The workers                                                             *)
(***************************************************************************)

LEMMA StartNextInv == Inv /\ StartNext => Inv'
<1> SUFFICES ASSUME Inv, StartNext
             PROVE  Inv'
  OBVIOUS
<1> USE DEF Inv
<1>1. PICK n \in toRun : running' = {n} /\ toRun' = toRun \ {n}
  BY DEF StartNext
<1>2. /\ pc = "wave" /\ pc' = pc
      /\ UNCHANGED <<deps, policy, mode, inDegree, settled, outcome, wave,
                    thrown, queue, rootsFor, blocked>>
  BY DEF StartNext, fixed, walk
<1>3. Blocked' = Blocked /\ Failed' = Failed /\ Released' = Released
      /\ FailedThisWave' = FailedThisWave
  BY <1>2 DEF Blocked, Failed, Released, Unlocks, FailedThisWave
<1>4. TypeOK'
  BY <1>1, <1>2 DEF TypeOK
<1>5. GraphInv' /\ SettledInv' /\ CountInv'
  BY <1>2, <1>3 DEF GraphInv, SettledInv, CountInv
<1>6. OrderInv'
  BY <1>1, <1>2, <1>3 DEF OrderInv
<1>7. ClosureInv' /\ CauseInv'
  BY <1>2, <1>3 DEF ClosureInv, Dead, Dependents, InWave, CauseInv
<1>8. WalkInv'
  BY <1>2, <1>3 DEF WalkInv, NoRoots
<1> QED
  BY <1>2, <1>4, <1>5, <1>6, <1>7, <1>8 DEF NeverReportsCycle

LEMMA ThrowInv == \A n \in Node : Inv /\ Throw(n) => Inv'
<1> SUFFICES ASSUME NEW n \in Node, Inv, Throw(n)
             PROVE  Inv'
  OBVIOUS
<1> USE DEF Inv
<1>1. /\ n \in running /\ running' = running \ {n}
      /\ thrown' = thrown \cup {n} /\ pc' = "rejected" /\ toRun' = {}
      /\ UNCHANGED <<deps, policy, mode, inDegree, settled, outcome, wave,
                    queue, rootsFor, blocked>>
  BY DEF Throw, fixed, walk
<1>2. pc \in {"wave", "rejected"}
  BY <1>1 DEF OrderInv
<1>3. Blocked' = Blocked /\ Failed' = Failed /\ Released' = Released
      /\ FailedThisWave' = FailedThisWave
  BY <1>1 DEF Blocked, Failed, Released, Unlocks, FailedThisWave
<1>4. TypeOK'
  BY <1>1 DEF TypeOK
<1>5. GraphInv' /\ SettledInv' /\ CountInv'
  BY <1>1, <1>3 DEF GraphInv, SettledInv, CountInv
<1>6. OrderInv'
  BY <1>1, <1>3 DEF OrderInv
<1>7. ClosureInv' /\ CauseInv'
  BY <1>1, <1>2, <1>3 DEF ClosureInv, Dead, Dependents, InWave, CauseInv
<1>8. WalkInv'
  BY <1>1, <1>2, <1>3 DEF WalkInv, NoRoots
<1> QED
  BY <1>1, <1>4, <1>5, <1>6, <1>7, <1>8 DEF NeverReportsCycle

\* A node that finishes releases its dependents or dies, and each counter
\* falls by one exactly where a dependency was released.
LEMMA FinishInv ==
  \A n \in Node, result \in Outcomes : Inv /\ Finish(n, result) => Inv'
<1> SUFFICES ASSUME NEW n \in Node, NEW result \in Outcomes,
                    Inv, Finish(n, result)
             PROVE  Inv'
  OBVIOUS
<1> USE DEF Inv
<1>1. /\ n \in running /\ running' = running \ {n}
      /\ outcome' = [outcome EXCEPT ![n] = result]
      /\ settled' = settled \cup {n}
      /\ inDegree' =
           [m \in Node |->
              IF n \in deps[m] /\ Unlocks(result) /\ inDegree[m] > 0
              THEN inDegree[m] - 1 ELSE inDegree[m]]
      /\ UNCHANGED <<deps, policy, mode, pc, toRun, wave, thrown, queue,
                    rootsFor, blocked>>
  BY DEF Finish, fixed, walk
<1>2. outcome \in [Node -> Outcomes \cup {"none"}] /\ inDegree \in [Node -> Nat]
  BY DEF TypeOK
<1>3. /\ pc \in {"wave", "rejected"} /\ n \in wave /\ n \notin settled
      /\ outcome[n] = "none" /\ result # "none" /\ deps[n] \subseteq Released
  BY <1>1 DEF OrderInv, SettledInv, Outcomes
<1>4. /\ Blocked' = Blocked
      /\ n \notin Released
      /\ Released' = Released \cup (IF Unlocks(result) THEN {n} ELSE {})
      /\ Failed' = Failed \cup (IF result = "failed" THEN {n} ELSE {})
  BY <1>1, <1>2, <1>3 DEF Blocked, Released, Failed, Unlocks
<1>5. TypeOK'
  <2>1. inDegree' \in [Node -> Nat]
    BY <1>1, <1>2
  <2>2. outcome' \in [Node -> Outcomes \cup {"none"}]
    BY <1>1, <1>2
  <2> QED
    BY <1>1, <2>1, <2>2 DEF TypeOK
<1>6. GraphInv' /\ SettledInv'
  BY <1>1, <1>2, <1>3, <1>4 DEF GraphInv, SettledInv
<1>7. CountInv'
  <2> SUFFICES ASSUME NEW m \in Node
               PROVE  inDegree'[m] = Cardinality(deps[m] \ Released')
    BY <1>1 DEF CountInv
  <2> DEFINE W == deps[m] \ Released
  <2>1. inDegree[m] = Cardinality(W)
    BY DEF CountInv
  <2>2. IsFiniteSet(W) /\ Cardinality(W) \in Nat
    BY NodeAssumption, FS_Subset, FS_CardinalityType DEF GraphInv
  <2>3. CASE n \in deps[m] /\ Unlocks(result)
    <3>1. deps[m] \ Released' = W \ {n} /\ n \in W
      BY <1>4, <2>3
    <3>2. Cardinality(W \ {n}) = Cardinality(W) - 1
      BY <2>2, <3>1, FS_RemoveElement
    <3>3. Cardinality(W) # 0
      BY <2>2, <3>1, FS_EmptySet
    <3>4. inDegree[m] > 0
      BY <2>1, <2>2, <3>3
    <3> QED
      BY <1>1, <2>1, <2>3, <3>1, <3>2, <3>4
  <2>4. CASE ~(n \in deps[m] /\ Unlocks(result))
    <3>1. deps[m] \ Released' = W
      BY <1>4, <2>4
    <3> QED
      BY <1>1, <2>1, <2>4, <3>1
  <2> QED
    BY <2>3, <2>4
<1>8. OrderInv'
  <2>1. \A m \in running' \cup toRun' : m \in wave' /\ m \notin settled'
    <3>1. n \notin toRun
      BY <1>1 DEF OrderInv
    <3> QED
      BY <1>1, <3>1 DEF OrderInv
  <2>2. \A m \in Node : m \in running' \cup toRun' \/ outcome'[m] # "none"
                         => deps'[m] \subseteq Released'
    BY <1>1, <1>2, <1>3, <1>4 DEF OrderInv
  <2> QED
    BY <1>1, <1>3, <2>1, <2>2 DEF OrderInv
<1>9. ClosureInv'
  <2>1. Dead' \subseteq Dead \cup (IF result = "failed" THEN {n} ELSE {})
    BY <1>1, <1>4 DEF Dead
  <2>2. FailedThisWave \subseteq FailedThisWave'
    BY <1>1, <1>2, <1>3 DEF FailedThisWave
  <2>3. result = "failed" => n \in FailedThisWave'
    BY <1>1, <1>2, <1>3 DEF FailedThisWave
  <2> QED
    BY <1>1, <1>3, <1>4, <2>1, <2>2, <2>3 DEF ClosureInv, InWave, Dependents
<1>10. WalkInv'
  BY <1>1, <1>3, EmptyRange DEF WalkInv, NoRoots
<1>11. CauseInv'
  BY <1>1, <1>3, <1>4 DEF CauseInv, InWave
<1> QED
  BY <1>1, <1>5, <1>6, <1>7, <1>8, <1>9, <1>10, <1>11 DEF NeverReportsCycle

(***************************************************************************)
(* Blocking                                                                *)
(***************************************************************************)

LEMMA VisitsType ==
  ASSUME NEW n \in Node, NEW r \in Node
  PROVE  Visits(n, r) \in SUBSET VisitRecord
BY DEF Visits, Dependents, VisitRecord

LEMMA EndWaveInv == Inv /\ EndWave => Inv'
<1> SUFFICES ASSUME Inv, EndWave
             PROVE  Inv'
  OBVIOUS
<1> USE DEF Inv
<1> DEFINE First == UNION {Visits(r, r) : r \in FailedThisWave}
           Walks == policy = "block" /\ FailedThisWave # {}
<1>1. /\ pc = "wave" /\ running = {} /\ toRun = {}
      /\ Walks => pc' = "walk" /\ queue' \in Enumerations(First)
      /\ ~Walks => pc' = "select" /\ queue' = queue
      /\ UNCHANGED <<deps, policy, mode, inDegree, settled, outcome, running,
                    toRun, wave, thrown, rootsFor, blocked>>
  BY DEF EndWave, fixed
<1>2. Blocked' = Blocked /\ Failed' = Failed /\ Released' = Released
      /\ FailedThisWave' = FailedThisWave
  BY <1>1 DEF Blocked, Failed, Released, Unlocks, FailedThisWave
<1>3. FailedThisWave \subseteq Node
  BY DEF FailedThisWave, TypeOK
<1>4. First \in SUBSET VisitRecord
  BY <1>3, VisitsType
<1>5. ASSUME Walks
      PROVE  queue' \in Seq(VisitRecord) /\ Range(queue') = First
  <2> HIDE DEF First
  <2> QED
    BY <1>1, <1>4, <1>5, EnumerationIsOnto
<1>6. TypeOK'
  BY <1>1, <1>5 DEF TypeOK, VisitRecord
<1>7. GraphInv' /\ SettledInv' /\ CountInv'
  BY <1>1, <1>2 DEF GraphInv, SettledInv, CountInv
<1>8. OrderInv'
  BY <1>1, <1>2 DEF OrderInv
<1>9. ClosureInv'
  <2>1. ~Walks => \A d \in Dead : d \notin FailedThisWave
    BY DEF Dead, FailedThisWave, SettledInv
  <2> QED
    BY <1>1, <1>2, <2>1 DEF ClosureInv, Dead, Dependents, InWave
<1>10. WalkInv'
  <2>1. CASE Walks
    <3>1. \A r \in FailedThisWave : \A n \in Dependents(r) :
            [node |-> n, root |-> r] \in First
      BY DEF Visits
    <3>2. \A r \in FailedThisWave : \A n \in Dependents(r) : Queued(n, r)'
      BY <1>5, <2>1, <3>1 DEF Queued
    <3>3. \A v \in First :
            v.root \in FailedThisWave \cap Upstream(deps, v.node)
      <4> SUFFICES ASSUME NEW r \in FailedThisWave, NEW n \in Dependents(r)
                   PROVE  r \in Upstream(deps, n)
        BY DEF Visits
      <4> QED
        BY UpstreamLeast DEF Dependents, GraphInv
    <3>4. \A v \in Range(queue') :
            v.root \in FailedThisWave \cap Upstream(deps, v.node)
      BY <1>5, <2>1, <3>3
    <3>5. rootsFor' = NoRoots
      BY <1>1 DEF WalkInv
    <3> QED
      BY <1>1, <1>2, <2>1, <3>2, <3>4, <3>5 DEF WalkInv, NoRoots, Dependents
  <2>2. CASE ~Walks
    BY <1>1, <1>2, <2>2 DEF WalkInv, NoRoots
  <2> QED
    BY <2>1, <2>2
<1>11. CauseInv'
  <2>1. \A n \in Blocked : blocked[n] \cap FailedThisWave = {}
    BY <1>1 DEF CauseInv, InWave, FailedThisWave
  <2> QED
    BY <1>1, <1>2, <2>1 DEF CauseInv, InWave
<1> QED
  BY <1>1, <1>6, <1>7, <1>8, <1>9, <1>10, <1>11 DEF NeverReportsCycle

LEMMA VisitInv == Inv /\ Visit => Inv'
<1> SUFFICES ASSUME Inv, Visit
             PROVE  Inv'
  OBVIOUS
<1> USE DEF Inv
<1>1. /\ pc = "walk" /\ pc' = pc /\ queue # << >>
      /\ queue \in Seq(VisitRecord)
      /\ UNCHANGED <<deps, policy, mode, inDegree, settled, outcome, running,
                    toRun, wave, thrown, blocked>>
  BY DEF Visit, fixed, TypeOK, VisitRecord
<1>2. PICK node \in Node, root \in Node :
        /\ Head(queue) = [node |-> node, root |-> root]
        /\ root \in FailedThisWave \cap Upstream(deps, node)
  <2>1. Head(queue) \in VisitRecord /\ Head(queue) \in Range(queue)
    BY <1>1, TailRange
  <2>2. /\ Head(queue).node \in Node /\ Head(queue).root \in Node
        /\ Head(queue) = [node |-> Head(queue).node, root |-> Head(queue).root]
    BY <2>1 DEF VisitRecord
  <2>3. Head(queue).root \in FailedThisWave \cap Upstream(deps, Head(queue).node)
    BY <2>1 DEF WalkInv
  <2> QED
    BY <2>2, <2>3
<1> DEFINE head == [node |-> node, root |-> root]
           first == node \notin settled /\ rootsFor[node] = {}
<1>3. /\ node \in settled => rootsFor' = rootsFor
      /\ node \notin settled =>
           rootsFor' = [rootsFor EXCEPT ![node] = @ \cup {root}]
      /\ ~first => queue' = Tail(queue)
      /\ first => \E more \in Enumerations(Visits(node, root)) :
                    queue' = Tail(queue) \o more
  BY <1>2 DEF Visit
<1>4. rootsFor \in [Node -> SUBSET Node] /\ rootsFor' \in [Node -> SUBSET Node]
  <2>1. rootsFor \in [Node -> SUBSET Node]
    BY DEF TypeOK
  <2> QED
    BY <1>2, <1>3, <2>1
<1>5. \A n \in Node :
        rootsFor'[n] = IF n = node /\ node \notin settled
                       THEN rootsFor[n] \cup {root} ELSE rootsFor[n]
  BY <1>2, <1>3, <1>4
<1>6. /\ Blocked' = Blocked /\ Failed' = Failed /\ Released' = Released
      /\ FailedThisWave' = FailedThisWave
      /\ \A n \in Node : Dependents(n)' = Dependents(n)
  BY <1>1 DEF Blocked, Failed, Released, Unlocks, FailedThisWave, Dependents
\* What the queue holds afterwards.
<1>7. /\ queue' \in Seq(VisitRecord)
      /\ Range(queue) \subseteq Range(queue') \cup {head}
      /\ Range(queue') \subseteq
           Range(queue) \cup (IF first THEN Visits(node, root) ELSE {})
      /\ first => Visits(node, root) \subseteq Range(queue')
  <2> HIDE DEF first, head
  <2>1. /\ Tail(queue) \in Seq(VisitRecord)
        /\ Range(queue) = {head} \cup Range(Tail(queue))
    BY <1>1, <1>2, TailRange DEF head
  <2>2. CASE ~first
    BY <1>3, <2>1, <2>2
  <2>3. CASE first
    <3>1. PICK more \in Enumerations(Visits(node, root)) :
            queue' = Tail(queue) \o more
      BY <1>3, <2>3
    <3>2. more \in Seq(VisitRecord) /\ Range(more) = Visits(node, root)
      BY <1>2, VisitsType, EnumerationIsOnto
    <3>3. /\ queue' \in Seq(VisitRecord)
          /\ Range(queue') = Range(Tail(queue)) \cup Range(more)
      <4> DEFINE rest == Tail(queue)
      <4>1. rest \in Seq(VisitRecord) /\ more \in Seq(VisitRecord)
        BY <2>1, <3>2
      <4> HIDE DEF rest
      <4>2. /\ rest \o more \in Seq(VisitRecord)
            /\ Range(rest \o more) = Range(rest) \cup Range(more)
        BY <4>1, ConcatRange, Zenon
      <4> QED
        BY <3>1, <4>2, Zenon DEF rest
    <3> QED
      BY <2>1, <2>3, <3>2, <3>3
  <2> QED
    BY <2>2, <2>3
<1>8. TypeOK'
  BY <1>1, <1>4, <1>7 DEF TypeOK, VisitRecord
<1>9. GraphInv' /\ SettledInv' /\ CountInv' /\ OrderInv'
  BY <1>1, <1>6 DEF GraphInv, SettledInv, CountInv, OrderInv
<1>10. ClosureInv' /\ CauseInv'
  BY <1>1, <1>6 DEF ClosureInv, Dead, Dependents, InWave, CauseInv
<1>11. \A n, r \in Node : Queued(n, r) =>
         Queued(n, r)' \/ (n = node /\ r = root)
  BY <1>7 DEF Queued
<1>12. \A n \in Node : Covered(n) => Covered(n)'
  <2> SUFFICES ASSUME NEW n \in Node, Covered(n)
               PROVE  Covered(n)'
    OBVIOUS
  <2>1. CASE n \in settled
    BY <1>1, <2>1 DEF Covered
  <2>2. CASE rootsFor[n] # {}
    BY <1>5, <2>2 DEF Covered
  <2>3. CASE n \notin settled /\ \E r \in Node : Queued(n, r)
    BY <1>2, <1>5, <1>11, <2>3 DEF Covered
  <2> QED
    BY <2>1, <2>2, <2>3 DEF Covered
<1>13. WalkInv'
  <2>1. \A r \in FailedThisWave : \A n \in Dependents(r) :
          n \in settled \/ r \in rootsFor'[n] \/ Queued(n, r)'
    <3> SUFFICES ASSUME NEW r \in FailedThisWave, NEW n \in Dependents(r),
                        n \notin settled
                 PROVE  r \in rootsFor'[n] \/ Queued(n, r)'
      OBVIOUS
    <3>1. n \in Node /\ r \in Node
      BY DEF Dependents, FailedThisWave, TypeOK
    <3>2. r \in rootsFor[n] \/ Queued(n, r)
      BY <1>1 DEF WalkInv
    <3> QED
      BY <1>5, <1>11, <3>1, <3>2
  <2>2. \A n \in Node : rootsFor'[n] # {} =>
          n \notin settled /\ \A m \in Dependents(n) : Covered(m)'
    <3> SUFFICES ASSUME NEW n \in Node, rootsFor'[n] # {}
                 PROVE  n \notin settled /\ \A m \in Dependents(n) : Covered(m)'
      OBVIOUS
    <3>1. CASE rootsFor[n] # {}
      BY <1>12, <3>1 DEF WalkInv, Dependents
    <3>2. CASE rootsFor[n] = {}
      <4>1. n = node /\ first
        BY <1>5, <3>2
      <4>2. \A m \in Dependents(node) : [node |-> m, root |-> root] \in Visits(node, root)
        BY DEF Visits
      <4>3. \A m \in Dependents(node) : Queued(m, root)'
        BY <1>7, <4>1, <4>2 DEF Queued
      <4> QED
        BY <1>2, <4>1, <4>3 DEF Covered
    <3> QED
      BY <3>1, <3>2
  <2>3. \A n \in Node : rootsFor'[n] \subseteq FailedThisWave \cap Upstream(deps, n)
    BY <1>2, <1>5 DEF WalkInv
  <2>4. \A v \in Range(queue') :
          v.root \in FailedThisWave \cap Upstream(deps, v.node)
    <3> SUFFICES ASSUME NEW v \in Range(queue')
                 PROVE  v.root \in FailedThisWave \cap Upstream(deps, v.node)
      OBVIOUS
    <3>1. CASE v \in Range(queue)
      BY <3>1 DEF WalkInv
    <3>2. CASE v \in Visits(node, root)
      <4>1. PICK m \in Dependents(node) : v = [node |-> m, root |-> root]
        BY <3>2 DEF Visits
      <4>2. m \in Node /\ node \in deps[m]
        BY DEF Dependents
      <4>3. Upstream(deps, node) \subseteq Upstream(deps, m)
        BY <4>2, UpstreamLeast, UpstreamTransitive DEF GraphInv
      <4> QED
        BY <1>2, <4>1, <4>3
    <3> QED
      BY <1>7, <3>1, <3>2
  <2> QED
    BY <1>1, <1>6, <2>1, <2>2, <2>3, <2>4 DEF WalkInv, Dependents
<1> QED
  BY <1>1, <1>8, <1>9, <1>10, <1>13 DEF NeverReportsCycle

\* The walk has covered everything below the wave's failures, so settling
\* what it reached closes the blocked nodes again.
LEMMA EmitBlockedInv == Inv /\ EmitBlocked => Inv'
<1> SUFFICES ASSUME Inv, EmitBlocked
             PROVE  Inv'
  OBVIOUS
<1> USE DEF Inv
<1> DEFINE Reached == {n \in Node : rootsFor[n] # {}}
<1>1. /\ pc = "walk" /\ pc' = "select" /\ queue = << >> /\ queue' = queue
      /\ blocked' = [n \in Node |-> IF n \in settled THEN blocked[n] ELSE rootsFor[n]]
      /\ settled' = settled \cup Reached /\ rootsFor' = NoRoots
      /\ UNCHANGED <<deps, policy, mode, inDegree, outcome, running, toRun,
                    wave, thrown>>
  BY DEF EmitBlocked, fixed
<1>2. \A n \in Reached : n \notin settled /\ n \notin Blocked /\ outcome[n] = "none"
  BY DEF WalkInv, SettledInv
<1>3. \A n \in Node : blocked'[n] = IF n \in Reached THEN rootsFor[n] ELSE blocked[n]
  BY <1>1, <1>2 DEF SettledInv, Blocked
<1>4. Failed' = Failed /\ Released' = Released /\ FailedThisWave' = FailedThisWave
  BY <1>1 DEF Failed, Released, Unlocks, FailedThisWave
<1>5. Blocked' = Blocked \cup Reached
  BY <1>1, <1>2, <1>3 DEF Blocked
<1>6. policy = "block"
  BY <1>1 DEF WalkInv
<1>7. TypeOK'
  BY <1>1 DEF TypeOK, NoRoots
<1>8. GraphInv' /\ SettledInv' /\ CountInv'
  BY <1>1, <1>2, <1>4, <1>5, <1>6 DEF GraphInv, SettledInv, CountInv
<1>9. OrderInv'
  BY <1>1, <1>4 DEF OrderInv
<1>10. ClosureInv'
  <2>1. \A n \in Node : Covered(n) => n \in settled \/ n \in Reached
    BY <1>1, EmptyRange DEF Covered, Queued
  \* What ran had its dependencies released, so it is below nothing dead.
  <2>2. \A d \in Dead \cup Reached : \A n \in Dependents(d) :
          n \in settled => n \in Blocked
    <3> SUFFICES ASSUME NEW d \in Dead \cup Reached, NEW n \in Dependents(d),
                        n \in settled, n \notin Blocked
                 PROVE  FALSE
      OBVIOUS
    <3>1. n \in Node /\ d \in deps[n] /\ outcome[n] # "none"
      BY DEF Dependents, SettledInv
    <3>2. d \in Released
      BY <3>1 DEF OrderInv
    <3> QED
      BY <1>2, <3>2 DEF Released, Unlocks, Dead, Failed, SettledInv
  <2>3. \A d \in Dead' : \A n \in Dependents(d) : n \in Blocked'
    <3> SUFFICES ASSUME NEW d \in Dead', NEW n \in Dependents(d)
                 PROVE  n \in Blocked'
      OBVIOUS
    <3>1. d \in Dead \cup Reached /\ n \in Node
      BY <1>1, <1>4, <1>5 DEF Dead, Dependents
    <3>2. CASE d \in Reached
      BY <1>5, <2>1, <2>2, <3>1, <3>2 DEF WalkInv
    <3>3. CASE d \in Dead /\ d \in FailedThisWave
      <4>1. n \in settled \/ d \in rootsFor[n] \/ Queued(n, d)
        BY <1>1, <3>3 DEF WalkInv
      <4>2. ~Queued(n, d)
        BY <1>1, EmptyRange DEF Queued
      <4> QED
        BY <1>5, <2>2, <3>1, <4>1, <4>2
    <3>4. CASE d \in Dead /\ d \notin FailedThisWave
      BY <1>5, <3>4 DEF ClosureInv
    <3> QED
      BY <3>1, <3>2, <3>3, <3>4
  <2> QED
    BY <1>1, <2>3 DEF ClosureInv, Dependents
<1>11. WalkInv'
  BY <1>1, EmptyRange DEF WalkInv, NoRoots
<1>12. CauseInv'
  <2> SUFFICES ASSUME NEW n \in Blocked'
               PROVE  /\ blocked'[n] \subseteq Failed \cap Upstream(deps, n)
                      /\ blocked'[n] \cap FailedThisWave # {} =>
                           deps[n] \cap FailedThisWave \subseteq blocked'[n]
    BY <1>1, <1>4 DEF CauseInv, InWave
  <2>1. CASE n \in Reached
    <3>1. blocked'[n] = rootsFor[n]
      BY <1>3, <2>1
    <3>2. rootsFor[n] \subseteq FailedThisWave \cap Upstream(deps, n)
      BY <2>1 DEF WalkInv
    <3>3. FailedThisWave \subseteq Failed
      BY DEF FailedThisWave, Failed, TypeOK
    <3>4. ASSUME NEW r \in deps[n] \cap FailedThisWave
          PROVE  r \in rootsFor[n]
      <4>1. n \in Dependents(r)
        BY <2>1 DEF Dependents
      <4>2. ~Queued(n, r)
        BY <1>1, EmptyRange DEF Queued
      <4> QED
        BY <1>1, <1>2, <2>1, <4>1, <4>2 DEF WalkInv
    <3> QED
      BY <3>1, <3>2, <3>3, <3>4
  <2>2. CASE n \in Blocked
    <3>1. n \in Node /\ blocked'[n] = blocked[n]
      BY <1>2, <1>3, <2>2 DEF Blocked
    <3>2. blocked[n] \cap FailedThisWave = {}
      BY <1>1, <2>2 DEF CauseInv, InWave, FailedThisWave
    <3> QED
      BY <2>2, <3>1, <3>2 DEF CauseInv
  <2> QED
    BY <1>5, <2>1, <2>2
<1> QED
  BY <1>1, <1>7, <1>8, <1>9, <1>10, <1>11, <1>12 DEF NeverReportsCycle

LEMMA ReturnInv == Inv /\ Return => Inv'
<1> SUFFICES ASSUME Inv, Return
             PROVE  Inv'
  OBVIOUS
<1> USE DEF Inv
<1>1. /\ pc = "select" /\ settled = Node /\ pc' = "returned"
      /\ UNCHANGED <<deps, policy, mode, inDegree, settled, outcome, running,
                    toRun, wave, thrown, queue, rootsFor, blocked>>
  BY DEF Return, fixed, walk
<1>2. Blocked' = Blocked /\ Failed' = Failed /\ Released' = Released
      /\ FailedThisWave' = FailedThisWave
  BY <1>1 DEF Blocked, Failed, Released, Unlocks, FailedThisWave
<1>3. TypeOK'
  BY <1>1 DEF TypeOK
<1>4. GraphInv' /\ SettledInv' /\ CountInv' /\ OrderInv'
  BY <1>1, <1>2 DEF GraphInv, SettledInv, CountInv, OrderInv
<1>5. ClosureInv' /\ CauseInv'
  BY <1>1, <1>2 DEF ClosureInv, Dead, Dependents, InWave, CauseInv
<1>6. WalkInv'
  BY <1>1, EmptyRange DEF WalkInv, NoRoots
<1> QED
  BY <1>1, <1>3, <1>4, <1>5, <1>6 DEF NeverReportsCycle

LEMMA StutterInv == Inv /\ UNCHANGED vars => Inv'
<1> SUFFICES ASSUME Inv, UNCHANGED vars
             PROVE  Inv'
  OBVIOUS
<1>1. UNCHANGED <<deps, policy, mode, pc, inDegree, settled, outcome, running,
                  toRun, wave, thrown, queue, rootsFor, blocked>>
  BY DEF vars, fixed, walk
<1>2. /\ Blocked' = Blocked /\ Failed' = Failed /\ Released' = Released
      /\ FailedThisWave' = FailedThisWave
      /\ TypeOK' = TypeOK
  BY <1>1 DEF Blocked, Failed, Released, Unlocks, FailedThisWave, TypeOK
<1> USE DEF Inv
<1>3. GraphInv' /\ SettledInv' /\ CountInv' /\ OrderInv'
  BY <1>1, <1>2 DEF GraphInv, SettledInv, CountInv, OrderInv
<1>4. ClosureInv' /\ CauseInv'
  BY <1>1, <1>2 DEF ClosureInv, Dead, Dependents, InWave, CauseInv
<1>5. WalkInv'
  BY <1>1, <1>2 DEF WalkInv, NoRoots, Dependents, Covered, Queued
<1> QED
  BY <1>1, <1>2, <1>3, <1>4, <1>5 DEF NeverReportsCycle

LEMMA NextInv == Inv /\ [Next]_vars => Inv'
BY SelectWaveInv, StartNextInv, EndWaveInv, VisitInv, EmitBlockedInv,
   ReturnInv, ThrowInv, FinishInv, StutterInv DEF Next

\* Inv is an invariant of the scheduler.
THEOREM Invariant == Spec => []Inv
<1>1. Init => Inv
  BY InitInv
<1>2. Inv /\ [Next]_vars => Inv'
  BY NextInv
<1> QED
  BY <1>1, <1>2, PTL DEF Spec

(***************************************************************************)
(* What follows from the invariant                                         *)
(***************************************************************************)

\* The state always has the shape run() gives it, waves and queue included.
THEOREM TypeCorrect == Spec => []TypeOK
<1>1. Inv => TypeOK
  BY DEF Inv
<1> QED
  BY <1>1, Invariant, PTL

\* What ran, or runs, had everything upstream of it released.
LEMMA ReleasedUpstream ==
  ASSUME Inv, NEW n \in Node, n \in running \/ outcome[n] # "none"
  PROVE  Upstream(deps, n) \subseteq Released
<1> USE DEF Inv
<1>1. deps[n] \subseteq Released
  BY DEF OrderInv
<1>2. Released \in SUBSET Node /\ IsClosed(deps, Released)
  BY DEF IsClosed, OrderInv, Released
<1> QED
  BY <1>1, <1>2, UpstreamLeast DEF GraphInv

\* A node never starts before everything upstream of it has released it
\* (scheduler.ts 166 and 180-196).
THEOREM DependencyOrderHolds == Spec => []DependencyOrder
<1>1. Inv => DependencyOrder
  BY ReleasedUpstream DEF DependencyOrder
<1> QED
  BY <1>1, Invariant, PTL

\* When run() returns, exactly the nodes below a failure are blocked
\* (blockDescendants, scheduler.ts 117-163).
THEOREM BlockingIsExact == Spec => []BlockedIffFailedUpstream
<1>1. Inv => BlockedIffFailedUpstream
  <2> SUFFICES ASSUME Inv, pc = "returned", NEW n \in Node
               PROVE  n \in Blocked <=>
                        policy = "block" /\ Upstream(deps, n) \cap Failed # {}
    BY DEF BlockedIffFailedUpstream, Blocked
  <2> USE DEF Inv
  <2>1. CASE n \in Blocked
    <3>1. blocked[n] # {} /\ blocked[n] \subseteq Failed \cap Upstream(deps, n)
      BY <2>1 DEF Blocked, CauseInv
    <3> QED
      BY <2>1, <3>1 DEF SettledInv
  <2>2. CASE n \notin Blocked
    <3>1. outcome[n] # "none"
      BY <2>2 DEF SettledInv
    <3>2. Upstream(deps, n) \subseteq Released
      BY <3>1, ReleasedUpstream
    <3> QED
      BY <2>2, <3>2 DEF Released, Unlocks, Failed
  <2> QED
    BY <2>1, <2>2
<1> QED
  BY <1>1, Invariant, PTL

\* Every cause a blocked node is reported with is true, and the direct ones
\* of the wave that blocked it are all there (scheduler.ts 141-161).
THEOREM CausesAreTrue == Spec => []BlockedByNamesCauses
<1>1. Inv => BlockedByNamesCauses
  BY DEF Inv, BlockedByNamesCauses, CauseInv
<1> QED
  BY <1>1, Invariant, PTL

\* The error for a cyclic graph (scheduler.ts 167-169) is never raised.
THEOREM CycleNeverReported == Spec => []NeverReportsCycle
<1>1. Inv => NeverReportsCycle
  BY DEF Inv
<1> QED
  BY <1>1, Invariant, PTL

\* A step never unsettles a node, runs it again or changes how it was settled.
THEOREM SettledStaysSettled == Spec => SettledForGood
<1>1. Inv /\ [Next]_vars => [KeepsSettled]_vars
  <2> SUFFICES ASSUME Inv, Next
               PROVE  KeepsSettled
    OBVIOUS
  <2> USE DEF Inv, KeepsSettled
  <2>1. settled \subseteq Node /\ settled \cap (running \cup toRun) = {}
    BY DEF TypeOK, OrderInv
  <2>2. CASE SelectWave
    BY <2>1, <2>2 DEF SelectWave, Ready, walk
  <2>3. CASE StartNext
    BY <2>1, <2>3 DEF StartNext, walk
  <2>4. CASE EndWave \/ Visit \/ Return
    BY <2>1, <2>4 DEF EndWave, Visit, Return, walk
  <2>5. CASE EmitBlocked
    BY <2>1, <2>5 DEF EmitBlocked
  <2>6. ASSUME NEW n \in Node, Throw(n)
        PROVE  KeepsSettled
    BY <2>1, <2>6 DEF Throw, walk
  <2>7. ASSUME NEW n \in Node, NEW result \in Outcomes, Finish(n, result)
        PROVE  KeepsSettled
    BY <2>1, <2>7 DEF Finish, walk, TypeOK
  <2>8. CASE UNCHANGED vars
    BY <2>1, <2>8 DEF vars
  <2> QED
    BY <2>2, <2>3, <2>4, <2>5, <2>6, <2>7, <2>8 DEF Next
<1> QED
  BY <1>1, Invariant, PTL DEF Spec, SettledForGood

(***************************************************************************)
(* The scheduler implements PlanExecution                                  *)
(***************************************************************************)

\* The status each node has in the plan's execution.
StatusClear ==
  \A n \in Node :
    /\ n \in thrown => PlanStatus[n] = "lost"
    /\ n \in running => PlanStatus[n] = "working"
    /\ n \in Failed => PlanStatus[n] = "failed"
    /\ outcome[n] \in {"succeeded", "partial"} => PlanStatus[n] = "usable"
    /\ n \in Blocked => PlanStatus[n] = "skipped"
    /\ n \notin thrown \cup running \cup settled => PlanStatus[n] = "pending"

LEMMA StatusIsClear == Inv => StatusClear
<1> SUFFICES ASSUME Inv, NEW n \in Node
             PROVE  StatusClear!(n)
  BY DEF StatusClear
<1> USE DEF Inv
<1>1. /\ n \in thrown => n \notin running /\ n \notin settled
      /\ n \in running => n \notin settled
      /\ n \in settled <=> outcome[n] # "none" \/ n \in Blocked
      /\ n \in Blocked => outcome[n] = "none"
  BY DEF OrderInv, SettledInv
<1>2. outcome[n] \in {"succeeded", "partial", "failed", "none"}
  BY DEF TypeOK, Outcomes
<1> QED
  BY <1>1, <1>2 DEF PlanStatus, Failed

LEMMA StatusIsClearNext == Inv' => StatusClear'
BY StatusIsClear, PTL

\* The graph operators of the two specifications are the same.
LEMMA SameGraphOperators ==
  /\ \A g : Plan!Schedulable(g) <=> Schedulable(g)
  /\ \A g, n : Plan!Upstream(g, n) = Upstream(g, n)
BY DEF Plan!Schedulable, Schedulable, Plan!Upstream, Upstream,
       Plan!IsClosed, IsClosed

LEMMA InitImplementsPlan == Init => Plan!Init
<1> SUFFICES ASSUME Init
             PROVE  Plan!Init
  OBVIOUS
<1>1. Inv
  BY InitInv
<1>2. Schedulable(deps) /\ deps \in [Node -> SUBSET Node]
  BY <1>1 DEF Inv, GraphInv
<1>3. PlanStatus = [n \in Node |-> "pending"]
  <2>1. \A n \in Node : PlanStatus[n] = "pending"
    BY <1>1, StatusIsClear DEF StatusClear, Init
  <2> QED
    BY <2>1 DEF PlanStatus
<1>4. thrown = {}
  BY DEF Init
<1> QED
  BY <1>2, <1>3, <1>4, SameGraphOperators DEF Plan!Init

\* A step changes the statuses of the plan as Set(S, new) says when each node
\* of S has the new status afterwards and every other one keeps its own.
LEMMA StatusStep ==
  ASSUME NEW S \in SUBSET Node, NEW new,
         \A n \in S : PlanStatus'[n] = new,
         \A n \in Node \ S : PlanStatus'[n] = PlanStatus[n]
  PROVE  Plan!Set(S, new)
<1>1. PlanStatus' = [n \in Node |-> PlanStatus'[n]]
  BY DEF PlanStatus
<1>2. \A n \in Node : PlanStatus'[n] = IF n \in S THEN new ELSE PlanStatus[n]
  OBVIOUS
<1> QED
  BY <1>1, <1>2, Zenon DEF Plan!Set

\* A node that is neither started, finished nor blocked keeps its status.
LEMMA StatusKept ==
  ASSUME NEW n \in Node, outcome'[n] = outcome[n],
         n \in thrown' <=> n \in thrown, n \in running' <=> n \in running,
         n \in Blocked' <=> n \in Blocked
  PROVE  PlanStatus'[n] = PlanStatus[n]
BY DEF PlanStatus

\* The steps that work on the wave or on the queue do not show in the plan.
LEMMA HiddenStep ==
  ASSUME UNCHANGED <<deps, policy, outcome, running, thrown, blocked>>
  PROVE  UNCHANGED Plan!vars
<1>1. Blocked' = Blocked
  BY DEF Blocked
<1>2. \A n \in Node : PlanStatus'[n] = PlanStatus[n]
  BY <1>1, StatusKept
<1>3. PlanStatus' = PlanStatus
  BY <1>2, Zenon DEF PlanStatus
<1> QED
  BY <1>3 DEF Plan!vars

\* Starting nodes whose dependencies have all been released.
LEMMA StartsInPlan ==
  ASSUME Inv, Inv', NEW S \in SUBSET Node, S # {}, thrown = {},
         \A n \in S : n \notin running \cup settled /\ deps[n] \subseteq Released,
         running' = running \cup S,
         UNCHANGED <<deps, policy, outcome, thrown, blocked>>
  PROVE  Plan!Next
<1>1. Blocked' = Blocked
  BY DEF Blocked
<1>2. \A n \in S : PlanStatus[n] = "pending" /\ PlanStatus'[n] = "working"
  BY StatusIsClear, StatusIsClearNext DEF StatusClear
<1>3. \A n \in Node \ S : PlanStatus'[n] = PlanStatus[n]
  BY <1>1, StatusKept
<1>4. Plan!Set(S, "working")
  BY <1>2, <1>3, StatusStep
<1>5. \A d \in Released : Plan!Releases(d)
  BY StatusIsClear DEF StatusClear, Released, Unlocks, Failed, Plan!Releases,
     Inv, TypeOK, Outcomes
<1>6. Plan!Start(S)
  BY <1>2, <1>4, <1>5 DEF Plan!Start
<1> QED
  BY <1>6 DEF Plan!Next

\* Every step of the scheduler is a step of the plan's execution, or shows
\* nothing there.
LEMMA NextImplementsPlan == Inv /\ Inv' /\ [Next]_vars => [Plan!Next]_(Plan!vars)
<1> SUFFICES ASSUME Inv, Inv', [Next]_vars
             PROVE  Plan!Next \/ UNCHANGED Plan!vars
  OBVIOUS
<1>1. CASE SelectWave
  <2>1. /\ pc = "select" /\ running' = IF mode = "parallel" THEN Ready ELSE {}
        /\ UNCHANGED <<deps, policy, outcome, thrown, blocked>>
    BY <1>1 DEF SelectWave, fixed
  <2>2. running = {} /\ thrown = {}
    BY <2>1 DEF Inv, OrderInv
  <2>3. CASE running' = {}
    BY <2>1, <2>2, <2>3, HiddenStep
  <2>4. CASE running' # {}
    <3>1. \A n \in Ready : n \in Node /\ n \notin settled /\ deps[n] \subseteq Released
      BY ReadyIsReleased
    <3>2. running' = Ready
      BY <2>1, <2>4
    <3> QED
      BY <2>1, <2>2, <2>4, <3>1, <3>2, StartsInPlan
  <2> QED
    BY <2>3, <2>4
<1>2. CASE StartNext
  <2>1. PICK n \in toRun : running' = {n}
    BY <1>2 DEF StartNext
  <2>2. /\ running = {} /\ pc = "wave"
        /\ UNCHANGED <<deps, policy, outcome, thrown, blocked>>
    BY <1>2 DEF StartNext, fixed
  <2>3. n \in Node /\ n \notin settled /\ deps[n] \subseteq Released /\ thrown = {}
    BY <2>2 DEF Inv, TypeOK, OrderInv
  <2> QED
    BY <2>1, <2>2, <2>3, StartsInPlan
<1>3. CASE EndWave \/ Visit \/ Return
  BY <1>3, HiddenStep DEF EndWave, Visit, Return, fixed, walk
<1>4. CASE EmitBlocked
  <2> DEFINE Reached == {n \in Node : rootsFor[n] # {}}
  <2>1. /\ pc = "walk"
        /\ blocked' = [n \in Node |-> IF n \in settled THEN blocked[n] ELSE rootsFor[n]]
        /\ UNCHANGED <<deps, policy, outcome, running, thrown>>
    BY <1>4 DEF EmitBlocked, fixed
  <2>2. thrown = {} /\ running = {} /\ policy = "block"
    BY <2>1 DEF Inv, OrderInv, WalkInv
  <2>3. \A n \in Reached : n \notin settled
    BY DEF Inv, WalkInv
  <2>4. Blocked' = Blocked \cup Reached /\ Blocked \subseteq settled
    BY <2>1, <2>3 DEF Blocked, Inv, SettledInv
  <2>5. \A n \in Reached : PlanStatus[n] = "pending" /\ PlanStatus'[n] = "skipped"
    BY <2>2, <2>3, <2>4, StatusIsClear, StatusIsClearNext DEF StatusClear
  <2>6. \A n \in Node \ Reached : PlanStatus'[n] = PlanStatus[n]
    BY <2>1, <2>4, StatusKept
  <2>7. Plan!Set(Reached, "skipped")
    BY <2>5, <2>6, StatusStep
  <2>8. \A n \in Reached : \E d \in Plan!Upstream(deps, n) : PlanStatus[d] = "failed"
    <3> SUFFICES ASSUME NEW n \in Reached
                 PROVE  \E d \in Upstream(deps, n) : PlanStatus[d] = "failed"
      BY SameGraphOperators
    <3>1. PICK d \in rootsFor[n] : d \in FailedThisWave \cap Upstream(deps, n)
      BY DEF Inv, WalkInv
    <3>2. d \in Node /\ d \in Failed
      BY <3>1 DEF FailedThisWave, Failed, Inv, TypeOK
    <3> QED
      BY <3>1, <3>2, StatusIsClear DEF StatusClear
  <2>9. CASE Reached = {}
    <3>1. \A n \in Node \ settled : blocked[n] = {} /\ rootsFor[n] = {}
      BY <2>4, <2>9 DEF Blocked
    <3>2. blocked \in [Node -> SUBSET Node]
      BY DEF Inv, TypeOK
    <3>3. blocked' = blocked
      BY <2>1, <3>1, <3>2
    <3> QED
      BY <2>1, <3>3, HiddenStep
  <2>10. CASE Reached # {}
    <3>1. Plan!Skip(Reached)
      BY <2>1, <2>2, <2>5, <2>7, <2>8 DEF Plan!Skip
    <3> QED
      BY <2>10, <3>1 DEF Plan!Next
  <2> QED
    BY <2>9, <2>10
<1>5. ASSUME NEW n \in Node, Throw(n)
      PROVE  Plan!Next
  <2>1. /\ n \in running /\ running' = running \ {n} /\ thrown' = thrown \cup {n}
        /\ UNCHANGED <<deps, policy, outcome, blocked>>
    BY <1>5 DEF Throw, fixed
  <2>2. Blocked' = Blocked
    BY <2>1 DEF Blocked
  <2>3. PlanStatus[n] = "working" /\ PlanStatus'[n] = "lost"
    BY <2>1, StatusIsClear, StatusIsClearNext DEF StatusClear
  <2>4. \A m \in Node \ {n} : PlanStatus'[m] = PlanStatus[m]
    BY <2>1, <2>2, StatusKept
  <2>5. Plan!Set({n}, "lost")
    BY <2>3, <2>4, StatusStep
  <2>6. Plan!Abandon(n)
    BY <2>1, <2>3, <2>5 DEF Plan!Abandon
  <2> QED
    BY <2>6 DEF Plan!Next
<1>6. ASSUME NEW n \in Node, NEW result \in Outcomes, Finish(n, result)
      PROVE  Plan!Next
  <2> DEFINE new == IF result = "failed" THEN "failed" ELSE "usable"
  <2>1. /\ n \in running /\ running' = running \ {n}
        /\ outcome' = [outcome EXCEPT ![n] = result]
        /\ UNCHANGED <<deps, policy, thrown, blocked>>
    BY <1>6 DEF Finish, fixed, walk
  <2>2. /\ Blocked' = Blocked /\ outcome'[n] = result
        /\ \A m \in Node \ {n} : outcome'[m] = outcome[m]
    BY <2>1 DEF Blocked, Inv, TypeOK
  <2>3. PlanStatus[n] = "working" /\ PlanStatus'[n] = new
    <3>1. result = "failed" => n \in Failed'
      BY <2>2 DEF Failed
    <3> QED
      BY <2>1, <2>2, <3>1, StatusIsClear, StatusIsClearNext DEF StatusClear, Outcomes
  <2>4. \A m \in Node \ {n} : PlanStatus'[m] = PlanStatus[m]
    BY <2>1, <2>2, StatusKept
  <2>5. Plan!Set({n}, new)
    BY <2>3, <2>4, StatusStep
  <2>6. Plan!Finish(n, new)
    BY <2>1, <2>3, <2>5 DEF Plan!Finish
  <2> QED
    BY <2>6 DEF Plan!Next
<1>7. CASE UNCHANGED vars
  BY <1>7, HiddenStep DEF vars, fixed
<1> QED
  BY <1>1, <1>2, <1>3, <1>4, <1>5, <1>6, <1>7 DEF Next

\* Every execution of the scheduler is an execution of its plan.
THEOREM SchedulerImplementsPlan == Spec => ImplementsPlan
<1>1. Init => Plan!Init
  BY InitImplementsPlan
<1>2. Inv /\ Inv' /\ [Next]_vars => [Plan!Next]_(Plan!vars)
  BY NextImplementsPlan
<1> QED
  BY <1>1, <1>2, Invariant, PTL DEF Spec, ImplementsPlan, Plan!Spec
=============================================================================
