------------------------ MODULE GraphCompilerProofs ------------------------
(***************************************************************************)
(* What is proved of the task graph compiler for every plan: the iterative *)
(* search finds exactly the nodes that lie upstream of themselves, repair  *)
(* leaves a graph that can be scheduled, and the edges of innocent nodes   *)
(* are kept.  The first part is about graphs; the second is the argument   *)
(* for the search, which is Tarjan's.                                      *)
(***************************************************************************)
EXTENDS GraphCompiler, FiniteSetTheorems, SequenceTheorems, TLAPS

(***************************************************************************)
(* Upstream is the least closed set above a node's dependencies            *)
(***************************************************************************)

\* Dependencies lie upstream, and a closed set that holds a node's
\* dependencies holds everything upstream of the node.
LEMMA UpstreamLeast ==
  ASSUME NEW N, NEW g \in [N -> SUBSET N], NEW n \in N
  PROVE  /\ Upstream(g, n) \subseteq N
         /\ g[n] \subseteq Upstream(g, n)
         /\ \A C \in SUBSET N :
              g[n] \subseteq C /\ IsClosed(g, C) => Upstream(g, n) \subseteq C
<1>1. DOMAIN g = N /\ g[n] \subseteq N
  OBVIOUS
<1> QED
  BY <1>1 DEF Upstream

\* What is upstream of something upstream is upstream.
LEMMA UpstreamTransitive ==
  ASSUME NEW N, NEW g \in [N -> SUBSET N], NEW n \in N,
         NEW m \in Upstream(g, n)
  PROVE  /\ g[m] \subseteq Upstream(g, n)
         /\ Upstream(g, m) \subseteq Upstream(g, n)
<1>1. Upstream(g, n) \in SUBSET N /\ m \in N
  BY UpstreamLeast
<1>2. IsClosed(g, Upstream(g, n))
  <2> SUFFICES ASSUME NEW k \in Upstream(g, n), NEW d \in g[k]
               PROVE  d \in Upstream(g, n)
    BY DEF IsClosed
  <2>1. k \in N /\ d \in N
    BY <1>1
  <2>2. ASSUME NEW C \in SUBSET N, g[n] \subseteq C, IsClosed(g, C)
        PROVE  d \in C
    <3>1. k \in C
      BY <2>2, UpstreamLeast
    <3> QED
      BY <3>1, <2>2 DEF IsClosed
  <2>3. DOMAIN g = N
    OBVIOUS
  <2> QED
    BY <2>1, <2>2, <2>3 DEF Upstream
<1>3. g[m] \subseteq Upstream(g, n)
  BY <1>2 DEF IsClosed
<1> QED
  BY <1>1, <1>2, <1>3, UpstreamLeast

\* Removing edges puts nothing new upstream.
LEMMA UpstreamMonotone ==
  ASSUME NEW N, NEW g \in [N -> SUBSET N], NEW h \in [N -> SUBSET N],
         \A m \in N : h[m] \subseteq g[m], NEW n \in N
  PROVE  Upstream(h, n) \subseteq Upstream(g, n)
<1> DEFINE C == Upstream(g, n)
<1>1. C \in SUBSET N /\ g[n] \subseteq C
  BY UpstreamLeast
<1>2. IsClosed(h, C)
  BY <1>1, UpstreamTransitive DEF IsClosed
<1> QED
  BY <1>1, <1>2, UpstreamLeast

(***************************************************************************)
(* Acyclic graphs can be scheduled                                         *)
(***************************************************************************)

\* If no node lies upstream of itself, every group of nodes has one that
\* waits for none of the others: one with the fewest nodes upstream.
LEMMA AcyclicIsSchedulable ==
  ASSUME NEW N, IsFiniteSet(N), NEW g \in [N -> SUBSET N],
         CycleNodes(g) = {}
  PROVE  Schedulable(g)
<1> SUFFICES ASSUME NEW S \in SUBSET N, S # {}
             PROVE  \E n \in S : g[n] \cap S = {}
  BY DEF Schedulable
<1> DEFINE T == {Upstream(g, n) : n \in S}
<1>1. T \subseteq SUBSET N /\ T # {}
  BY UpstreamLeast
<1>2. IsWellFoundedOn(StrictSubsetOrdering(N), SUBSET N)
  BY FS_StrictSubsetOrderingWellFounded, FS_FiniteSubsetsOfFinite
<1>3. \E u \in T : \A v \in T : <<v, u>> \notin StrictSubsetOrdering(N)
  <2> HIDE DEF T
  <2> QED
    BY <1>1, <1>2, WFMin
<1>4. PICK n \in S : \A v \in T : <<v, Upstream(g, n)>> \notin StrictSubsetOrdering(N)
  BY <1>3
<1>5. ASSUME NEW d \in g[n] \cap S
      PROVE  FALSE
  <2>1. d \in Upstream(g, n)
    BY UpstreamLeast
  <2>2. Upstream(g, d) \subseteq Upstream(g, n)
    BY <2>1, UpstreamTransitive
  <2>3. Upstream(g, d) = Upstream(g, n)
    <3>1. <<Upstream(g, d), Upstream(g, n)>> \notin StrictSubsetOrdering(N)
      BY <1>4
    <3>2. Upstream(g, d) \in SUBSET N /\ Upstream(g, n) \in SUBSET N
      BY UpstreamLeast
    <3> QED
      BY <2>2, <3>1, <3>2 DEF StrictSubsetOrdering
  <2>4. d \in CycleNodes(g)
    BY <2>1, <2>3 DEF CycleNodes
  <2> QED
    BY <2>4
<1> QED
  BY <1>5

(***************************************************************************)
(* Repair                                                                  *)
(***************************************************************************)

LEMMA RepairedType ==
  ASSUME NEW N, NEW g \in [N -> SUBSET N]
  PROVE  /\ Repaired(g) \in [N -> SUBSET N]
         /\ \A n \in N : Repaired(g)[n] =
              IF n \in CycleNodes(g) THEN g[n] \ CycleNodes(g) ELSE g[n]
BY DEF Repaired, WithoutEdgesInside

\* Removing the dependencies of cyclic nodes on cyclic nodes breaks every
\* cycle (task-graph.ts 239-259).
LEMMA RepairedAcyclic ==
  ASSUME NEW N, NEW g \in [N -> SUBSET N]
  PROVE  CycleNodes(Repaired(g)) = {}
<1> DEFINE h == Repaired(g)
           Cyc == CycleNodes(g)
<1>1. /\ h \in [N -> SUBSET N]
      /\ \A n \in N : h[n] = IF n \in Cyc THEN g[n] \ Cyc ELSE g[n]
  BY RepairedType
<1> HIDE DEF h
<1>2. \A n \in N : Upstream(h, n) \subseteq Upstream(g, n)
  BY <1>1, UpstreamMonotone
<1>3. ASSUME NEW d \in N, d \in Upstream(h, d)
      PROVE  FALSE
  \* What is upstream of d in the repaired graph never leads back to d.
  <2> DEFINE C == {m \in Upstream(h, d) : m # d /\ d \notin Upstream(h, m)}
  <2>1. d \in Cyc
    BY <1>2, <1>3 DEF CycleNodes
  <2>2. C \in SUBSET N
    BY <1>1, UpstreamLeast
  <2>3. h[d] \subseteq C
    <3> SUFFICES ASSUME NEW e \in h[d]
                 PROVE  e \in C
      OBVIOUS
    <3>1. e \in N /\ e \notin Cyc /\ e \in Upstream(h, d)
      BY <1>1, <2>1, UpstreamLeast
    <3>2. ASSUME d \in Upstream(h, e)
          PROVE  FALSE
      <4>1. Upstream(h, d) \subseteq Upstream(h, e)
        BY <1>1, <3>1, <3>2, UpstreamTransitive
      <4>2. e \in Upstream(g, e)
        BY <1>2, <3>1, <4>1
      <4> QED
        BY <3>1, <4>2 DEF CycleNodes
    <3> QED
      BY <2>1, <3>1, <3>2
  <2>4. IsClosed(h, C)
    <3> SUFFICES ASSUME NEW m \in C, NEW e \in h[m]
                 PROVE  e \in C
      BY DEF IsClosed
    <3>1. m \in N /\ e \in Upstream(h, m)
      BY <1>1, <2>2, UpstreamLeast
    <3>2. e \in Upstream(h, d)
      BY <1>1, <3>1, UpstreamTransitive
    <3>3. Upstream(h, e) \subseteq Upstream(h, m)
      BY <1>1, <3>1, UpstreamTransitive
    <3> QED
      BY <3>1, <3>2, <3>3
  <2>5. Upstream(h, d) \subseteq C
    BY <1>1, <2>2, <2>3, <2>4, UpstreamLeast
  <2> QED
    BY <1>3, <2>5
<1>4. CycleNodes(h) = {}
  BY <1>1, <1>3 DEF CycleNodes
<1> QED
  BY <1>4 DEF h

\* What a repaired graph leaves to run can always be ordered, so the
\* "defensive invariant" at line 261 holds for every graph.
THEOREM RepairedSchedulable ==
  ASSUME NEW N, IsFiniteSet(N), NEW g \in [N -> SUBSET N]
  PROVE  Schedulable(Repaired(g))
BY RepairedType, RepairedAcyclic, AcyclicIsSchedulable

(***************************************************************************)
(* The inductive invariant                                                 *)
(***************************************************************************)

Reaches(m, n) == n = m \/ n \in Upstream(graph, m)

\* The nodes whose frames are open, and the edges a frame has left.
Gray == {frames[i].id : i \in DOMAIN frames}
Pending(n) == UNION {frames[i].left : i \in {i \in DOMAIN frames : frames[i].id = n}}

\* The nodes whose component has left the stack.
Finished == {n \in Node : index[n] # -1} \ OnStack

Frame == [id : Node, left : SUBSET Node]

SearchTypes ==
  /\ graph \in [Node -> SUBSET Node] /\ IsFiniteSet(Node)
  /\ index \in [Node -> Nat \cup {-1}] /\ lowlink \in [Node -> Nat \cup {-1}]
  /\ counter \in Nat /\ \A n \in Node : index[n] < counter
  /\ stack \in Seq(Node) /\ frames \in Seq(Frame)

\* Nodes lie on the stack, and frames on top of each other, in the order in
\* which they were numbered.
OrderInv ==
  /\ \A i, j \in 1..Len(stack) : i < j => index[stack[i]] < index[stack[j]]
  /\ \A i, j \in 1..Len(frames) : i < j => index[frames[i].id] < index[frames[j].id]
  /\ \A n \in OnStack : index[n] # -1
  /\ Gray \subseteq OnStack
  /\ \A i \in 1..Len(frames) : frames[i].left \subseteq graph[frames[i].id]

\* An open node reaches all that was put on the stack after it, and whatever
\* is on the stack reaches an open node that was numbered no later.  A
\* lowlink is the number of something on the stack that is reached.
ReachInv ==
  /\ \A f \in Gray : \A n \in OnStack : index[f] <= index[n] => Reaches(f, n)
  /\ \A n \in OnStack : \E f \in Gray : index[f] <= index[n] /\ Reaches(n, f)
  /\ \A n \in OnStack :
       /\ lowlink[n] <= index[n]
       /\ \E m \in OnStack : lowlink[n] = index[m] /\ Reaches(n, m)

\* The last open node numbered no later than `n`.
IsAbove(f, n) ==
  /\ f \in Gray /\ index[f] <= index[n]
  /\ \A h \in Gray : index[h] <= index[n] => index[h] <= index[f]

\* The edges that have been followed lead to numbered nodes; from a node on
\* the stack, to none on the stack below the lowlink of the open node above.
EdgeInv ==
  /\ \A n \in Node : \A d \in graph[n] \ Pending(n) :
       index[n] # -1 => index[d] # -1
  /\ \A n \in OnStack : \A f \in Gray : IsAbove(f, n) =>
       \A d \in graph[n] \ Pending(n) : d \in OnStack => lowlink[f] <= index[d]

\* What has left the stack leads only to what has, and is judged rightly.
VerdictInv ==
  /\ IsClosed(graph, Finished)
  /\ inCycle = Finished \cap CycleNodes(graph)

SearchInv == SearchTypes /\ OrderInv /\ ReachInv /\ EdgeInv /\ VerdictInv

\* The graph in each phase.
PhaseInv ==
  /\ plan \in Plans /\ mode \in {"strict", "repair"}
  /\ phase \in {"clean", "search", "recheck"} \cup Ended
  /\ phase = "search" => graph = Clean0
  /\ phase \in {"recheck", "compiled", "thrown cyclic"} => graph = Repaired(Clean0)
  /\ phase = "thrown" => mode = "strict"
  /\ phase # "thrown cyclic"

IInv == PhaseInv /\ (phase \in {"search", "recheck"} => SearchInv)

(***************************************************************************)
(* What is reached                                                         *)
(***************************************************************************)

LEMMA ReachEdge ==
  ASSUME graph \in [Node -> SUBSET Node], NEW m \in Node, NEW n \in Node,
         Reaches(m, n), NEW d \in graph[n]
  PROVE  d \in Upstream(graph, m) /\ Reaches(m, d)
<1>1. CASE n = m
  BY <1>1, UpstreamLeast DEF Reaches
<1>2. CASE n \in Upstream(graph, m)
  BY <1>2, UpstreamTransitive DEF Reaches
<1> QED
  BY <1>1, <1>2 DEF Reaches

LEMMA ReachTrans ==
  ASSUME graph \in [Node -> SUBSET Node], NEW m \in Node, NEW n \in Node,
         Reaches(m, n), NEW k \in Node, Reaches(n, k)
  PROVE  Reaches(m, k)
<1>1. CASE n = m \/ k = n
  BY <1>1 DEF Reaches
<1>2. CASE n \in Upstream(graph, m) /\ k \in Upstream(graph, n)
  BY <1>2, UpstreamTransitive DEF Reaches
<1> QED
  BY <1>1, <1>2 DEF Reaches

\* Two nodes that reach each other are on a cycle.
LEMMA ReachBack ==
  ASSUME graph \in [Node -> SUBSET Node], NEW m \in Node, NEW n \in Node,
         m # n, Reaches(m, n), Reaches(n, m)
  PROVE  m \in CycleNodes(graph)
<1>1. n \in Upstream(graph, m) /\ m \in Upstream(graph, n)
  BY DEF Reaches
<1>2. m \in Upstream(graph, m)
  BY <1>1, UpstreamTransitive
<1> QED
  BY <1>2 DEF CycleNodes, Node

(***************************************************************************)
(* The stack and the frames as sets                                        *)
(***************************************************************************)

LEMMA StackFacts ==
  ASSUME SearchTypes, OrderInv
  PROVE  /\ OnStack \subseteq Node /\ Gray \subseteq Node
         /\ \A m, n \in OnStack : index[m] = index[n] => m = n
         /\ \A i \in 1..Len(frames) : Pending(frames[i].id) = frames[i].left
         /\ \A n \in Node \ Gray : Pending(n) = {}
<1>1. /\ Len(stack) \in Nat /\ DOMAIN stack = 1..Len(stack)
      /\ Len(frames) \in Nat /\ DOMAIN frames = 1..Len(frames)
      /\ \A i \in 1..Len(stack) : stack[i] \in Node
      /\ \A i \in 1..Len(frames) : frames[i] \in Frame
  BY DEF SearchTypes
<1>2. OnStack \subseteq Node /\ Gray \subseteq Node
  BY <1>1 DEF OnStack, Gray, Frame
<1>3. ASSUME NEW m \in OnStack, NEW n \in OnStack, index[m] = index[n]
      PROVE  m = n
  <2>1. PICK i \in 1..Len(stack), j \in 1..Len(stack) : m = stack[i] /\ n = stack[j]
    BY <1>1 DEF OnStack
  <2>2. index[m] \in Int
    BY <1>2 DEF SearchTypes
  <2>3. i = j
    BY <1>1, <1>3, <2>1, <2>2 DEF OrderInv
  <2> QED
    BY <2>1, <2>3
<1>4. ASSUME NEW i \in 1..Len(frames)
      PROVE  Pending(frames[i].id) = frames[i].left
  <2>1. \A j \in 1..Len(frames) : frames[j].id = frames[i].id => j = i
    <3> SUFFICES ASSUME NEW j \in 1..Len(frames), frames[j].id = frames[i].id
                 PROVE  j = i
      OBVIOUS
    <3>1. index[frames[i].id] \in Int
      BY <1>1 DEF SearchTypes, Frame
    <3> QED
      BY <1>1, <3>1 DEF OrderInv
  <2>2. {j \in DOMAIN frames : frames[j].id = frames[i].id} = {i}
    BY <1>1, <2>1
  <2> QED
    BY <2>2 DEF Pending
<1>5. \A n \in Node \ Gray : Pending(n) = {}
  BY DEF Pending, Gray
<1> QED
  BY <1>2, <1>3, <1>4, <1>5

\* The top frame is the last one.
LEMMA TopFacts ==
  ASSUME SearchTypes, OrderInv, frames # << >>
  PROVE  /\ Top.id \in Gray /\ Top.id \in Node /\ Top.id \in OnStack
         /\ Pending(Top.id) = Top.left /\ Top.left \subseteq graph[Top.id]
         /\ Top = frames[Len(frames)] /\ Len(frames) \in Nat \ {0}
         /\ \A f \in Gray \ {Top.id} : index[f] < index[Top.id]
<1>1. Len(frames) \in Nat \ {0} /\ DOMAIN frames = 1..Len(frames)
  BY DEF SearchTypes
<1>2. Len(frames) \in 1..Len(frames)
  BY <1>1
<1>3. Top.id \in Gray /\ Pending(Top.id) = Top.left /\ Top.left \subseteq graph[Top.id]
  BY <1>1, <1>2, StackFacts DEF Top, Gray, OrderInv
<1>4. ASSUME NEW f \in Gray \ {Top.id}
      PROVE  index[f] < index[Top.id]
  <2>1. PICK i \in 1..Len(frames) : f = frames[i].id
    BY <1>1 DEF Gray
  <2>2. i < Len(frames)
    BY <1>1, <2>1 DEF Top
  <2> QED
    BY <1>2, <2>1, <2>2 DEF Top, OrderInv
<1> QED
  BY <1>1, <1>3, <1>4, StackFacts DEF OrderInv, Top

(***************************************************************************)
(* A node is numbered and pushed                                           *)
(***************************************************************************)

\* `T` is the node the edge to `next` leaves, the last open one, or nothing
\* when `next` is where a search starts.
LEMMA PushKeeps ==
  ASSUME SearchInv, NEW next \in Node, index[next] = -1,
         NEW T \in SUBSET Gray, Gray # {} => T # {},
         \A t \in T : next \in graph[t] /\ \A f \in Gray : index[f] <= index[t],
         UNCHANGED <<graph, inCycle>>,
         index' = [index EXCEPT ![next] = counter],
         lowlink' = [lowlink EXCEPT ![next] = counter],
         OnStack' = OnStack \cup {next}, Gray' = Gray \cup {next},
         Pending(next)' = graph[next],
         \A m \in Node \ {next} : Pending(m) \ {next} \subseteq Pending(m)'
  PROVE  ReachInv' /\ EdgeInv' /\ VerdictInv'
<1>1. /\ graph \in [Node -> SUBSET Node] /\ Node' = Node
      /\ OnStack \subseteq Node /\ Gray \subseteq OnStack
      /\ index \in [Node -> Nat \cup {-1}] /\ lowlink \in [Node -> Nat \cup {-1}]
      /\ counter \in Nat /\ \A n \in Node : index[n] < counter
      /\ \A n \in OnStack : index[n] # -1
  BY StackFacts DEF SearchInv, SearchTypes, OrderInv, Node
<1>2. /\ next \notin OnStack /\ next \notin Gray
      /\ index'[next] = counter /\ lowlink'[next] = counter
      /\ \A n \in Node \ {next} : index'[n] = index[n] /\ lowlink'[n] = lowlink[n]
  BY <1>1
<1>3. \A m, n : Reaches(m, n)' <=> Reaches(m, n)
  BY DEF Reaches
<1>4. ASSUME NEW f \in Gray', NEW n \in OnStack', index'[f] <= index'[n]
      PROVE  Reaches(f, n)
  <2>1. CASE n = next /\ f # next
    <3>1. PICK t \in T : next \in graph[t] /\ index[f] <= index[t]
      BY <2>1
    <3>2. Reaches(f, t)
      BY <1>1, <2>1, <3>1 DEF SearchInv, ReachInv
    <3> QED
      BY <1>1, <2>1, <3>1, <3>2, ReachEdge
  <2>2. CASE n = next /\ f = next
    BY <2>2 DEF Reaches
  <2>3. CASE n # next
    <3>1. n \in OnStack /\ index'[n] = index[n] /\ index[n] < counter
      BY <1>1, <1>2, <2>3
    <3>2. f # next
      BY <1>1, <1>2, <1>4, <3>1
    <3> QED
      BY <1>1, <1>2, <1>4, <3>1, <3>2 DEF SearchInv, ReachInv
  <2> QED
    BY <2>1, <2>2, <2>3
<1>5. ASSUME NEW n \in OnStack'
      PROVE  \E f \in Gray' : index'[f] <= index'[n] /\ Reaches(n, f)
  <2>1. CASE n = next
    BY <1>1, <1>2, <2>1 DEF Reaches
  <2>2. CASE n # next
    <3>1. PICK f \in Gray : index[f] <= index[n] /\ Reaches(n, f)
      BY <2>2 DEF SearchInv, ReachInv
    <3> QED
      BY <1>1, <1>2, <2>2, <3>1
  <2> QED
    BY <2>1, <2>2
<1>6. ASSUME NEW n \in OnStack'
      PROVE  /\ lowlink'[n] <= index'[n]
             /\ \E m \in OnStack' : lowlink'[n] = index'[m] /\ Reaches(n, m)
  <2>1. CASE n = next
    BY <1>1, <1>2, <2>1 DEF Reaches
  <2>2. CASE n # next
    <3>1. PICK m \in OnStack : lowlink[n] = index[m] /\ Reaches(n, m)
      BY <2>2 DEF SearchInv, ReachInv
    <3>2. lowlink[n] <= index[n]
      BY <2>2 DEF SearchInv, ReachInv
    <3> QED
      BY <1>1, <1>2, <2>2, <3>1, <3>2
  <2> QED
    BY <2>1, <2>2
<1>7. ReachInv'
  BY <1>3, <1>4, <1>5, <1>6 DEF ReachInv
<1>8. ASSUME NEW n \in Node, NEW d \in graph[n] \ Pending(n)', index'[n] # -1
      PROVE  index'[d] # -1
  <2>1. CASE d = next
    BY <1>1, <1>2, <2>1
  <2>2. CASE d # next
    <3>1. n # next /\ d \notin Pending(n) /\ d \in Node
      BY <1>1, <2>2
    <3> QED
      BY <1>2, <1>8, <2>2, <3>1 DEF SearchInv, EdgeInv
  <2> QED
    BY <2>1, <2>2
<1>9. ASSUME NEW n \in OnStack', NEW f \in Gray', IsAbove(f, n)',
             NEW d \in graph[n] \ Pending(n)', d \in OnStack'
      PROVE  lowlink'[f] <= index'[d]
  <2>1. n # next /\ n \in OnStack
    BY <1>9
  <2>2. f # next /\ f \in Gray
    BY <1>1, <1>2, <1>9, <2>1 DEF IsAbove
  <2>3. lowlink[f] <= index[f] /\ index[f] < counter /\ lowlink'[f] = lowlink[f]
    BY <1>1, <1>2, <2>2 DEF SearchInv, ReachInv
  <2>4. CASE d = next
    BY <1>1, <1>2, <2>2, <2>3, <2>4
  <2>5. CASE d # next
    <3>1. d \in OnStack /\ d \notin Pending(n) /\ index'[d] = index[d]
      BY <1>1, <1>2, <1>9, <2>1, <2>5
    <3>2. IsAbove(f, n)
      BY <1>1, <1>2, <1>9, <2>1, <2>2 DEF IsAbove
    <3> QED
      BY <2>1, <2>2, <2>3, <3>1, <3>2 DEF SearchInv, EdgeInv
  <2> QED
    BY <2>4, <2>5
<1>10. EdgeInv'
  BY <1>1, <1>8, <1>9 DEF EdgeInv
<1>11. Finished' = Finished
  BY <1>1, <1>2 DEF Finished
<1>12. VerdictInv'
  BY <1>11 DEF SearchInv, VerdictInv
<1> QED
  BY <1>7, <1>10, <1>12

(***************************************************************************)
(* An edge to a numbered node is followed                                  *)
(***************************************************************************)

LEMMA FollowKeeps ==
  ASSUME SearchInv, NEW t \in Gray, \A f \in Gray \ {t} : index[f] < index[t],
         NEW next \in graph[t], index[next] # -1,
         UNCHANGED <<graph, index, inCycle>>, OnStack' = OnStack, Gray' = Gray,
         lowlink' = IF next \in OnStack
                    THEN [lowlink EXCEPT ![t] = Smaller(@, index[next])]
                    ELSE lowlink,
         \A m \in Node : Pending(m) \ {next} \subseteq Pending(m)',
         \A m \in Node \ {t} : Pending(m) \subseteq Pending(m)'
  PROVE  ReachInv' /\ EdgeInv' /\ VerdictInv'
<1>1. /\ graph \in [Node -> SUBSET Node] /\ Node' = Node
      /\ OnStack \subseteq Node /\ Gray \subseteq OnStack
      /\ index \in [Node -> Nat \cup {-1}] /\ lowlink \in [Node -> Nat \cup {-1}]
      /\ next \in Node
  BY StackFacts DEF SearchInv, SearchTypes, OrderInv, Node
<1>2. \A m, n : Reaches(m, n)' <=> Reaches(m, n)
  BY DEF Reaches
<1>3. /\ \A n \in Node : lowlink'[n] <= lowlink[n]
      /\ \A n \in Node \ {t} : lowlink'[n] = lowlink[n]
      /\ \/ lowlink'[t] = lowlink[t]
         \/ next \in OnStack /\ lowlink'[t] = index[next]
      /\ next \in OnStack => lowlink'[t] <= index[next]
  BY <1>1 DEF Smaller
<1>4. ASSUME NEW n \in OnStack
      PROVE  /\ lowlink'[n] <= index[n]
             /\ \E m \in OnStack : lowlink'[n] = index[m] /\ Reaches(n, m)
  <2>1. lowlink[n] <= index[n] /\ lowlink'[n] <= lowlink[n]
    BY <1>1, <1>3 DEF SearchInv, ReachInv
  <2>2. lowlink'[n] <= index[n]
    <3>1. lowlink'[n] \in Int /\ lowlink[n] \in Int /\ index[n] \in Int
      BY <1>1 DEF Smaller
    <3> QED
      BY <2>1, <3>1
  <2>3. CASE lowlink'[n] = lowlink[n]
    BY <2>2, <2>3 DEF SearchInv, ReachInv
  <2>4. CASE n = t /\ next \in OnStack /\ lowlink'[t] = index[next]
    <3>1. Reaches(t, next)
      BY <1>1, ReachEdge DEF Reaches
    <3> QED
      BY <2>2, <2>4, <3>1
  <2> QED
    BY <1>1, <1>3, <2>3, <2>4
<1>5. ReachInv'
  BY <1>2, <1>4 DEF SearchInv, ReachInv
<1>6. ASSUME NEW n \in Node, NEW d \in graph[n] \ Pending(n)', index[n] # -1
      PROVE  index[d] # -1
  BY <1>6 DEF SearchInv, EdgeInv
<1>7. ASSUME NEW n \in OnStack, NEW f \in Gray, IsAbove(f, n),
             NEW d \in graph[n] \ Pending(n)', d \in OnStack
      PROVE  lowlink'[f] <= index[d]
  <2>1. lowlink'[f] <= lowlink[f] /\ lowlink[f] \in Int /\ index[d] \in Int
        /\ lowlink'[f] \in Int
    BY <1>1, <1>3, <1>7 DEF Smaller
  <2>2. CASE d \notin Pending(n)
    <3>1. lowlink[f] <= index[d]
      BY <1>7, <2>2 DEF SearchInv, EdgeInv
    <3> QED
      BY <2>1, <3>1
  <2>3. CASE d \in Pending(n)
    <3>1. d = next /\ n = t
      BY <1>1, <1>7, <2>3
    <3>2. f = t
      BY <1>1, <1>7, <3>1 DEF IsAbove
    <3> QED
      BY <1>3, <1>7, <3>1, <3>2
  <2> QED
    BY <2>2, <2>3
<1>8. EdgeInv'
  BY <1>1, <1>6, <1>7 DEF EdgeInv, IsAbove
<1>9. VerdictInv'
  BY DEF SearchInv, VerdictInv, Finished, Node
<1> QED
  BY <1>5, <1>8, <1>9

(***************************************************************************)
(* The last frame is closed                                                *)
(***************************************************************************)

\* The frame of `n`, the last, is popped: `P` is the frame below, if any.
Closes(n, P) ==
  /\ n \in Gray /\ \A f \in Gray \ {n} : index[f] < index[n]
  /\ Pending(n) = {}
  /\ P \subseteq Gray \ {n} /\ (Gray # {n} => P # {})
  /\ \A p \in P : \A f \in Gray \ {n} : index[f] <= index[p]
  /\ UNCHANGED <<graph, index>>
  /\ Gray' = Gray \ {n}
  /\ \A m \in Node : Pending(m) \subseteq Pending(m)'
  /\ \A m \in Node : /\ lowlink'[m] \in {lowlink[m], lowlink[n]}
                     /\ m \notin P => lowlink'[m] = lowlink[m]
                     /\ lowlink'[m] <= lowlink[m]
                     /\ m \in P => lowlink'[m] <= lowlink[n]

LEMMA CloseTypes ==
  ASSUME SearchInv, NEW n, NEW P, Closes(n, P)
  PROVE  /\ graph \in [Node -> SUBSET Node] /\ Node' = Node
         /\ OnStack \subseteq Node /\ Gray \subseteq OnStack /\ n \in Node /\ P \subseteq Node
         /\ index \in [Node -> Nat \cup {-1}] /\ lowlink \in [Node -> Nat \cup {-1}]
         /\ \A k \in Node : lowlink'[k] \in Int
         /\ \A k, m \in OnStack : index[k] = index[m] => k = m
         /\ \A k, m : Reaches(k, m)' <=> Reaches(k, m)
<1>1. /\ graph \in [Node -> SUBSET Node] /\ Node' = Node
      /\ OnStack \subseteq Node /\ Gray \subseteq OnStack /\ n \in Node
      /\ index \in [Node -> Nat \cup {-1}] /\ lowlink \in [Node -> Nat \cup {-1}]
      /\ \A k, m \in OnStack : index[k] = index[m] => k = m
  BY StackFacts DEF SearchInv, SearchTypes, OrderInv, Node, Closes
<1>2. \A k \in Node : lowlink'[k] \in Int
  BY <1>1 DEF Closes
<1>3. \A k, m : Reaches(k, m)' <=> Reaches(k, m)
  BY DEF Reaches, Closes
<1> QED
  BY <1>1, <1>2, <1>3 DEF Closes

\* It is not the root of a component: the stack stays, and what it reached
\* passes to the frame below.
LEMMA CloseInsideKeeps ==
  ASSUME SearchInv, NEW n, NEW P, Closes(n, P), lowlink[n] # index[n],
         OnStack' = OnStack, inCycle' = inCycle
  PROVE  ReachInv' /\ EdgeInv' /\ VerdictInv'
<1>1. /\ graph \in [Node -> SUBSET Node] /\ Node' = Node
      /\ OnStack \subseteq Node /\ Gray \subseteq OnStack /\ n \in Node /\ P \subseteq Node
      /\ index \in [Node -> Nat \cup {-1}] /\ lowlink \in [Node -> Nat \cup {-1}]
      /\ \A k \in Node : lowlink'[k] \in Int
      /\ \A k, m \in OnStack : index[k] = index[m] => k = m
      /\ \A k, m : Reaches(k, m)' <=> Reaches(k, m)
  BY CloseTypes
<1>2. PICK y \in OnStack : lowlink[n] = index[y] /\ Reaches(n, y) /\ index[y] < index[n]
  <2>1. n \in OnStack
    BY <1>1 DEF Closes
  <2>2. PICK y \in OnStack : lowlink[n] = index[y] /\ Reaches(n, y)
    BY <2>1 DEF SearchInv, ReachInv
  <2>3. lowlink[n] <= index[n]
    BY <2>1 DEF SearchInv, ReachInv
  <2>4. lowlink[n] \in Int /\ index[n] \in Int
    BY <1>1
  <2> QED
    BY <2>2, <2>3, <2>4
<1>3. PICK h \in Gray \ {n} : index[h] <= index[y] /\ Reaches(n, h)
  <2>1. PICK h \in Gray : index[h] <= index[y] /\ Reaches(y, h)
    BY DEF SearchInv, ReachInv
  <2>2. h # n
    BY <1>1, <1>2, <2>1
  <2> QED
    BY <1>1, <1>2, <2>1, <2>2, ReachTrans
<1>4. ASSUME NEW w \in OnStack
      PROVE  \E f \in Gray \ {n} : index[f] <= index[w] /\ Reaches(w, f)
  <2>1. PICK f \in Gray : index[f] <= index[w] /\ Reaches(w, f)
    BY DEF SearchInv, ReachInv
  <2>2. CASE f = n
    <3>1. index[h] <= index[w]
      BY <1>1, <1>2, <1>3, <2>1, <2>2
    <3>2. Reaches(w, h)
      BY <1>1, <1>3, <2>1, <2>2, ReachTrans
    <3> QED
      BY <3>1, <3>2
  <2> QED
    BY <2>1, <2>2
<1>5. ASSUME NEW w \in OnStack
      PROVE  /\ lowlink'[w] <= index[w]
             /\ \E m \in OnStack : lowlink'[w] = index[m] /\ Reaches(w, m)
  <2>1. lowlink[w] <= index[w] /\ lowlink'[w] <= lowlink[w]
    BY <1>1 DEF SearchInv, ReachInv, Closes
  <2>2. lowlink'[w] <= index[w]
    BY <1>1, <2>1
  <2>3. CASE lowlink'[w] = lowlink[w]
    BY <2>2, <2>3 DEF SearchInv, ReachInv
  <2>4. CASE w \in P /\ lowlink'[w] = lowlink[n]
    <3>1. w \in Gray /\ index[w] <= index[n]
      BY <1>1, <2>4 DEF Closes
    <3>2. Reaches(w, n)
      BY <1>1, <3>1 DEF SearchInv, ReachInv, Closes
    <3>3. Reaches(w, y)
      BY <1>1, <1>2, <3>2, ReachTrans
    <3> QED
      BY <1>2, <2>2, <2>4, <3>3
  <2> QED
    BY <1>1, <2>3, <2>4 DEF Closes
<1>6. ReachInv'
  BY <1>1, <1>4, <1>5 DEF SearchInv, ReachInv, Closes
<1>7. ASSUME NEW w \in OnStack, NEW f \in Gray \ {n}, IsAbove(f, w)',
             NEW d \in graph[w] \ Pending(w)', d \in OnStack
      PROVE  lowlink'[f] <= index[d]
  <2>1. /\ d \notin Pending(w) /\ f \in Gray /\ index[f] <= index[w]
        /\ \A k \in Gray \ {n} : index[k] <= index[w] => index[k] <= index[f]
        /\ lowlink'[f] <= lowlink[f]
        /\ {index[f], index[w], index[n], index[d], lowlink[f], lowlink'[f], lowlink[n]} \subseteq Int
    BY <1>1, <1>7 DEF IsAbove, Closes
  <2>2. CASE index[n] <= index[w]
    <3>1. IsAbove(n, w)
      BY <1>1, <2>2 DEF IsAbove, Closes
    <3>2. lowlink[n] <= index[d]
      BY <1>7, <2>1, <3>1 DEF SearchInv, EdgeInv, IsAbove
    <3>3. PICK p \in P : index[f] <= index[p]
      BY <2>1 DEF Closes
    <3>4. p \in Gray \ {n} /\ index[p] < index[n] /\ index[p] \in Int
      BY <1>1, <3>3 DEF Closes
    <3>5. index[p] <= index[f]
      BY <2>1, <2>2, <3>4
    <3>6. p = f
      BY <1>1, <2>1, <3>3, <3>4, <3>5
    <3> QED
      BY <1>1, <2>1, <3>2, <3>3, <3>6 DEF Closes
  <2>3. CASE ~(index[n] <= index[w])
    <3>1. IsAbove(f, w)
      BY <2>1, <2>3 DEF IsAbove
    <3>2. lowlink[f] <= index[d]
      BY <1>7, <2>1, <3>1 DEF SearchInv, EdgeInv
    <3> QED
      BY <2>1, <3>2
  <2> QED
    BY <2>2, <2>3
<1>8. EdgeInv'
  <2>1. \A w \in Node : \A d \in graph[w] \ Pending(w)' : index[w] # -1 => index[d] # -1
    BY DEF SearchInv, EdgeInv, Closes
  <2> QED
    BY <1>1, <1>7, <2>1 DEF EdgeInv, Closes
<1>9. VerdictInv'
  BY DEF SearchInv, VerdictInv, Finished, Node, Closes
<1> QED
  BY <1>6, <1>8, <1>9

\* It is the root of a component, which is what lies on the stack from it on:
\* they reach each other and lead to nothing else that has not been judged.
LEMMA CloseRootKeeps ==
  ASSUME SearchInv, NEW n, NEW P, Closes(n, P), lowlink[n] = index[n],
         OnStack' = {m \in OnStack : index[m] < index[n]},
         NEW C, C = {m \in OnStack : index[n] <= index[m]},
         inCycle' = IF Cardinality(C) > 1 \/ n \in graph[n] THEN inCycle \cup C ELSE inCycle
  PROVE  ReachInv' /\ EdgeInv' /\ VerdictInv'
<1>1. /\ graph \in [Node -> SUBSET Node] /\ Node' = Node
      /\ OnStack \subseteq Node /\ Gray \subseteq OnStack /\ n \in Node /\ P \subseteq Node
      /\ index \in [Node -> Nat \cup {-1}] /\ lowlink \in [Node -> Nat \cup {-1}]
      /\ \A k \in Node : lowlink'[k] \in Int
      /\ \A k, m \in OnStack : index[k] = index[m] => k = m
      /\ \A k, m : Reaches(k, m)' <=> Reaches(k, m)
  BY CloseTypes
<1>2. /\ n \in C /\ C \subseteq OnStack /\ OnStack' = OnStack \ C
      /\ \A w \in C : IsAbove(n, w)
  BY <1>1 DEF Closes, IsAbove
<1>3. \A w \in OnStack' : lowlink'[w] = lowlink[w]
  <2> SUFFICES ASSUME NEW w \in OnStack'
               PROVE  lowlink'[w] = lowlink[w]
    OBVIOUS
  <2>1. lowlink[w] <= index[w] /\ index[w] < index[n] /\ w \in Node
    BY <1>1 DEF SearchInv, ReachInv
  <2>2. lowlink'[w] <= lowlink[w] /\ lowlink'[w] \in {lowlink[w], lowlink[n]}
    BY <2>1 DEF Closes
  <2> QED
    BY <1>1, <2>1, <2>2
<1>4. ReachInv'
  <2>1. ASSUME NEW w \in OnStack'
        PROVE  \E f \in Gray' : index[f] <= index[w] /\ Reaches(w, f)
    <3>1. PICK f \in Gray : index[f] <= index[w] /\ Reaches(w, f)
      BY <2>1 DEF SearchInv, ReachInv
    <3>2. f # n
      BY <1>1, <2>1, <3>1
    <3> QED
      BY <3>1, <3>2 DEF Closes
  <2>2. ASSUME NEW w \in OnStack'
        PROVE  /\ lowlink[w] <= index[w]
               /\ \E m \in OnStack' : lowlink[w] = index[m] /\ Reaches(w, m)
    <3>1. PICK m \in OnStack : lowlink[w] = index[m] /\ Reaches(w, m) /\ lowlink[w] <= index[w]
      BY <2>2 DEF SearchInv, ReachInv
    <3>2. index[m] < index[n]
      BY <1>1, <2>2, <3>1
    <3> QED
      BY <3>1, <3>2
  <2>3. \A f \in Gray' : \A w \in OnStack' : index[f] <= index[w] => Reaches(f, w)
    BY DEF SearchInv, ReachInv, Closes
  <2>4. index' = index
    BY DEF Closes
  <2>5. \A w \in OnStack' : lowlink'[w] <= index'[w]
    BY <1>3, <2>2, <2>4
  <2>6. \A w \in OnStack' : \E m \in OnStack' : lowlink'[w] = index'[m] /\ Reaches(w, m)
    BY <1>3, <2>2, <2>4
  <2> QED
    BY <1>1, <2>1, <2>3, <2>4, <2>5, <2>6 DEF ReachInv
<1>5. EdgeInv'
  <2>1. \A w \in Node : \A d \in graph[w] \ Pending(w)' : index[w] # -1 => index[d] # -1
    BY DEF SearchInv, EdgeInv, Closes
  <2>2. ASSUME NEW w \in OnStack', NEW f \in Gray', IsAbove(f, w)',
               NEW d \in graph[w] \ Pending(w)', d \in OnStack'
        PROVE  lowlink'[f] <= index[d]
    <3>1. /\ d \notin Pending(w) /\ f \in Gray /\ index[f] <= index[w] /\ w \in OnStack
          /\ d \in OnStack
          /\ \A k \in Gray \ {n} : index[k] <= index[w] => index[k] <= index[f]
      BY <1>1, <2>2 DEF IsAbove, Closes
    <3>2. IsAbove(f, w)
      BY <1>1, <2>2, <3>1 DEF IsAbove
    <3>3. lowlink[f] <= index[d]
      BY <3>1, <3>2 DEF SearchInv, EdgeInv
    <3>4. f \in OnStack'
      BY <1>1, <2>2, <3>1
    <3> QED
      BY <1>3, <3>3, <3>4
  <2> QED
    BY <1>1, <2>1, <2>2 DEF EdgeInv, Closes
<1>6. \A w \in C : graph[w] \subseteq C \cup Finished
  <2> SUFFICES ASSUME NEW w \in C, NEW d \in graph[w]
               PROVE  d \in C \cup Finished
    OBVIOUS
  <2>1. w = n \/ w \notin Gray
    BY <1>1, <1>2 DEF Closes
  <2>2. Pending(w) = {}
    BY <1>1, <1>2, <2>1, StackFacts DEF SearchInv, Closes
  <2>3. index[w] # -1 /\ d \in Node
    BY <1>1, <1>2 DEF SearchInv, OrderInv
  <2>4. index[d] # -1
    BY <1>1, <1>2, <2>2, <2>3 DEF SearchInv, EdgeInv
  <2>5. d \in OnStack => index[n] <= index[d]
    BY <1>2, <2>2 DEF SearchInv, EdgeInv, IsAbove
  <2> QED
    BY <2>3, <2>4, <2>5 DEF Finished
<1>7. Finished' = Finished \cup C /\ C \cap Finished = {}
  BY <1>1, <1>2 DEF Finished, SearchInv, OrderInv, Closes
<1>8. IsClosed(graph, Finished)'
  BY <1>6, <1>7 DEF SearchInv, VerdictInv, IsClosed, Closes
<1>9. ASSUME NEW w \in C
      PROVE  Reaches(n, w) /\ Reaches(w, n)
  <2>1. Reaches(n, w)
    BY <1>2 DEF SearchInv, ReachInv, IsAbove
  <2>2. PICK f \in Gray : Reaches(w, f)
    BY <1>2 DEF SearchInv, ReachInv
  <2>3. Reaches(f, n)
    <3>1. f = n \/ index[f] <= index[n]
      BY <1>1 DEF Closes
    <3> QED
      BY <1>1, <1>2, <3>1 DEF SearchInv, ReachInv, Reaches
  <2> QED
    BY <1>1, <1>2, <2>1, <2>2, <2>3, ReachTrans
<1>10. IsFiniteSet(C)
  BY <1>1, <1>2, FS_Subset DEF SearchInv, SearchTypes
<1>11. CASE C # {n}
  <2>1. PICK w \in C : w # n
    BY <1>2, <1>11
  <2>2. C \subseteq CycleNodes(graph)
    BY <1>1, <1>2, <1>9, <2>1, ReachBack
  <2>3. Cardinality(C) > 1
    <3>1. IsFiniteSet(C \ {n}) /\ Cardinality(C \ {n}) = Cardinality(C) - 1
      BY <1>2, <1>10, FS_RemoveElement
    <3>2. Cardinality(C \ {n}) \in Nat /\ Cardinality(C \ {n}) # 0
      BY <2>1, <3>1, FS_CardinalityType, FS_EmptySet
    <3>3. Cardinality(C) \in Nat
      BY <1>10, FS_CardinalityType
    <3> QED
      BY <3>1, <3>2, <3>3
  <2> QED
    BY <1>4, <1>5, <1>7, <1>8, <2>2, <2>3 DEF SearchInv, VerdictInv, Closes
<1>12. CASE C = {n}
  <2>1. Cardinality(C) = 1
    BY <1>12, FS_Singleton
  <2>2. n \in graph[n] => n \in CycleNodes(graph)
    BY <1>1, UpstreamLeast DEF CycleNodes
  <2>3. n \notin graph[n] => n \notin CycleNodes(graph)
    <3> SUFFICES ASSUME n \notin graph[n], n \in Upstream(graph, n)
                 PROVE  FALSE
      BY DEF CycleNodes
    <3>1. graph[n] \subseteq Finished /\ n \notin Finished
      BY <1>6, <1>7, <1>12
    <3>2. Finished \in SUBSET Node /\ IsClosed(graph, Finished)
      BY DEF Finished, SearchInv, VerdictInv
    <3> QED
      BY <1>1, <3>1, <3>2, UpstreamLeast
  <2> QED
    BY <1>4, <1>5, <1>7, <1>8, <1>12, <2>1, <2>2, <2>3 DEF SearchInv, VerdictInv, Closes
<1> QED
  BY <1>11, <1>12

(***************************************************************************)
(* The turns of the search                                                 *)
(***************************************************************************)

\* The frames once an edge to `next` has been taken from the last one.
Rest(next) == [frames EXCEPT ![Len(frames)].left = @ \ {next}]

LEMMA RestFacts ==
  ASSUME SearchTypes, frames # << >>, NEW next
  PROVE  /\ Rest(next) \in Seq(Frame) /\ Len(Rest(next)) = Len(frames)
         /\ \A i \in 1..Len(frames) :
              /\ Rest(next)[i].id = frames[i].id
              /\ Rest(next)[i].left = IF i = Len(frames) THEN frames[i].left \ {next}
                                                         ELSE frames[i].left
<1>1. /\ frames \in Seq(Frame) /\ Len(frames) \in 1..Len(frames) /\ Len(frames) \in Nat
      /\ DOMAIN frames = 1..Len(frames)
      /\ \A i \in 1..Len(frames) : frames[i] \in Frame
  BY DEF SearchTypes
<1> DEFINE last == [frames[Len(frames)] EXCEPT !.left = @ \ {next}]
<1>2. /\ last \in Frame /\ last.id = frames[Len(frames)].id
      /\ last.left = frames[Len(frames)].left \ {next}
  BY <1>1 DEF Frame
<1>3. Rest(next) = [frames EXCEPT ![Len(frames)] = last]
  BY DEF Rest
<1> HIDE DEF last
<1>4. Rest(next) \in Seq(Frame) /\ Len(Rest(next)) = Len(frames)
  BY <1>1, <1>2, <1>3, ExceptSeq
<1>5. \A i \in 1..Len(frames) : Rest(next)[i] = IF i = Len(frames) THEN last ELSE frames[i]
  BY <1>1, <1>3
<1> QED
  BY <1>2, <1>4, <1>5

\* A push keeps the types and the orders.
LEMMA PushOrder ==
  ASSUME SearchTypes, OrderInv, NEW next \in Node, index[next] = -1,
         NEW rest \in Seq(Frame), Len(rest) = Len(frames),
         \A i \in 1..Len(frames) : /\ rest[i].id = frames[i].id
                                   /\ rest[i].left \subseteq frames[i].left
                                   /\ frames[i].left \ {next} \subseteq rest[i].left,
         UNCHANGED graph, Open(next), lowlink' = [lowlink EXCEPT ![next] = counter],
         frames' = Append(rest, [id |-> next, left |-> graph[next]])
  PROVE  /\ SearchTypes' /\ OrderInv'
         /\ OnStack' = OnStack \cup {next} /\ Gray' = Gray \cup {next}
         /\ Pending(next)' = graph[next]
         /\ \A m \in Node \ {next} : Pending(m) \ {next} \subseteq Pending(m)'
<1> DEFINE new == [id |-> next, left |-> graph[next]]
<1>1. /\ graph \in [Node -> SUBSET Node] /\ Node' = Node
      /\ index \in [Node -> Nat \cup {-1}] /\ lowlink \in [Node -> Nat \cup {-1}]
      /\ counter \in Nat /\ \A n \in Node : index[n] < counter
      /\ stack \in Seq(Node) /\ frames \in Seq(Frame) /\ graph' = graph
      /\ new \in Frame /\ new.id = next /\ new.left = graph[next]
  BY DEF SearchTypes, Node, Frame
<1>2. /\ index' = [index EXCEPT ![next] = counter] /\ counter' = counter + 1
      /\ stack' = Append(stack, next)
  BY DEF Open
<1> HIDE DEF new
<1>3. /\ Len(stack) \in Nat /\ Len(stack') = Len(stack) + 1
      /\ stack' \in Seq(Node) /\ stack'[Len(stack) + 1] = next
      /\ \A i \in 1..Len(stack) : stack'[i] = stack[i] /\ stack[i] \in Node
      /\ DOMAIN stack = 1..Len(stack) /\ DOMAIN stack' = 1..(Len(stack) + 1)
  BY <1>1, <1>2
<1>4. /\ Len(frames) \in Nat /\ Len(frames') = Len(frames) + 1
      /\ frames' \in Seq(Frame) /\ frames'[Len(frames) + 1] = new
      /\ \A i \in 1..Len(frames) : frames'[i] = rest[i] /\ frames[i] \in Frame
      /\ DOMAIN frames = 1..Len(frames) /\ DOMAIN frames' = 1..(Len(frames) + 1)
  BY <1>1 DEF new
<1>5. \A i \in 1..Len(frames) : frames'[i].id = frames[i].id /\ frames[i].id \in Node
  BY <1>4 DEF Frame
<1>6. OnStack' = OnStack \cup {next}
  <2>1. OnStack' = {stack'[i] : i \in 1..(Len(stack) + 1)}
    BY <1>3 DEF OnStack
  <2>2. OnStack = {stack[i] : i \in 1..Len(stack)}
    BY <1>3 DEF OnStack
  <2>3. OnStack' \subseteq OnStack \cup {next}
    <3> SUFFICES ASSUME NEW i \in 1..(Len(stack) + 1)
                 PROVE  stack'[i] \in OnStack \cup {next}
      BY <2>1
    <3>1. i \in 1..Len(stack) \/ i = Len(stack) + 1
      BY <1>3
    <3> QED
      BY <1>3, <2>2, <3>1
  <2>4. OnStack \cup {next} \subseteq OnStack'
    <3>1. 1..Len(stack) \subseteq 1..(Len(stack) + 1) /\ Len(stack) + 1 \in 1..(Len(stack) + 1)
      BY <1>3
    <3> QED
      BY <1>3, <2>1, <2>2, <3>1
  <2> QED
    BY <2>3, <2>4
<1>7. Gray' = Gray \cup {next}
  <2>1. Gray' = {frames'[i].id : i \in 1..(Len(frames) + 1)}
    BY <1>4 DEF Gray
  <2>2. Gray = {frames[i].id : i \in 1..Len(frames)}
    BY <1>4 DEF Gray
  <2>3. Gray' \subseteq Gray \cup {next}
    <3> SUFFICES ASSUME NEW i \in 1..(Len(frames) + 1)
                 PROVE  frames'[i].id \in Gray \cup {next}
      BY <2>1
    <3>1. i \in 1..Len(frames) \/ i = Len(frames) + 1
      BY <1>4
    <3> QED
      BY <1>1, <1>4, <1>5, <2>2, <3>1
  <2>4. Gray \cup {next} \subseteq Gray'
    <3>1. 1..Len(frames) \subseteq 1..(Len(frames) + 1) /\ Len(frames) + 1 \in 1..(Len(frames) + 1)
      BY <1>4
    <3> QED
      BY <1>1, <1>4, <1>5, <2>1, <2>2, <3>1
  <2> QED
    BY <2>3, <2>4
<1>8. SearchTypes'
  <2>1. index' \in [Node -> Nat \cup {-1}] /\ lowlink' \in [Node -> Nat \cup {-1}]
    BY <1>1, <1>2
  <2>2. counter' \in Nat /\ \A n \in Node : index'[n] < counter'
    BY <1>1, <1>2
  <2>3. (Frame = [id : Node, left : SUBSET Node])'
    BY DEF Frame
  <2>4. Frame' = Frame
    BY <1>1, <2>3 DEF Frame
  <2> QED
    BY <1>1, <1>3, <1>4, <2>1, <2>2, <2>4 DEF SearchTypes
<1>9. next \notin OnStack /\ \A i \in 1..Len(stack) : stack[i] # next
  BY <1>3 DEF OrderInv, OnStack
<1>10. \A i \in 1..Len(frames) : frames[i].id # next
  BY <1>4, <1>9 DEF OrderInv, Gray
<1>11. index'[next] = counter /\ \A n \in Node \ {next} : index'[n] = index[n]
  BY <1>1, <1>2
<1>12. OrderInv'
  <2>1. ASSUME NEW i \in 1..Len(stack'), NEW j \in 1..Len(stack'), i < j
        PROVE  index'[stack'[i]] < index'[stack'[j]]
    <3>1. i \in 1..Len(stack) /\ index'[stack'[i]] = index[stack[i]]
      BY <1>3, <1>9, <1>11, <2>1
    <3>2. CASE j \in 1..Len(stack)
      BY <1>3, <1>9, <1>11, <2>1, <3>1, <3>2 DEF OrderInv
    <3>3. CASE j = Len(stack) + 1
      <4>1. stack[i] \in Node /\ index'[stack'[j]] = counter
        BY <1>3, <1>11, <3>1, <3>3
      <4> QED
        BY <1>1, <3>1, <4>1
    <3> QED
      BY <1>3, <3>2, <3>3
  <2>2. ASSUME NEW i \in 1..Len(frames'), NEW j \in 1..Len(frames'), i < j
        PROVE  index'[frames'[i].id] < index'[frames'[j].id]
    <3>1. i \in 1..Len(frames) /\ index'[frames'[i].id] = index[frames[i].id]
      BY <1>4, <1>5, <1>10, <1>11, <2>2
    <3>2. CASE j \in 1..Len(frames)
      BY <1>4, <1>5, <1>10, <1>11, <2>2, <3>1, <3>2 DEF OrderInv
    <3>3. CASE j = Len(frames) + 1
      <4>1. frames[i].id \in Node /\ index'[frames'[j].id] = counter
        BY <1>1, <1>4, <1>5, <1>11, <3>1, <3>3
      <4> QED
        BY <1>1, <3>1, <4>1
    <3> QED
      BY <1>4, <3>2, <3>3
  <2>3. \A n \in OnStack' : index'[n] # -1
    <3>1. \A n \in OnStack : n \in Node /\ n # next /\ index[n] # -1
      BY <1>3, <1>9 DEF OnStack, OrderInv
    <3>2. counter # -1
      BY <1>1
    <3> QED
      BY <1>6, <1>11, <3>1, <3>2
  <2>4. Gray' \subseteq OnStack'
    BY <1>6, <1>7 DEF OrderInv
  <2>5. ASSUME NEW i \in 1..Len(frames')
        PROVE  frames'[i].left \subseteq graph'[frames'[i].id]
    <3>1. CASE i \in 1..Len(frames)
      BY <1>1, <1>4, <1>5, <3>1 DEF OrderInv
    <3>2. CASE i = Len(frames) + 1
      BY <1>1, <1>4, <3>2
    <3> QED
      BY <1>4, <3>1, <3>2
  <2> QED
    BY <2>1, <2>2, <2>3, <2>4, <2>5 DEF OrderInv
<1>13. Pending(next)' = graph[next]
  <2>1. {i \in DOMAIN frames' : frames'[i].id = next} = {Len(frames) + 1}
    BY <1>1, <1>4, <1>5, <1>10
  <2> QED
    BY <1>1, <1>4, <2>1 DEF Pending
<1>14. ASSUME NEW m \in Node \ {next}, NEW x \in Pending(m) \ {next}
       PROVE  x \in Pending(m)'
  <2>1. PICK i \in DOMAIN frames : frames[i].id = m /\ x \in frames[i].left
    BY <1>14 DEF Pending
  <2>2. i \in DOMAIN frames' /\ frames'[i].id = m /\ x \in frames'[i].left
    BY <1>4, <1>5, <2>1
  <2> QED
    BY <2>2 DEF Pending
<1> QED
  BY <1>6, <1>7, <1>8, <1>12, <1>13, <1>14

\* A search starts at the first node not yet seen.
LEMMA RootIsUnvisited ==
  ASSUME plan \in Plans, Node = NodeIds(plan), Unvisited # {}
  PROVE  (CHOOSE n \in Unvisited :
            \A m \in Unvisited : OrdinalOf(n) <= OrdinalOf(m)) \in Unvisited
<1>1. \A n \in Unvisited : OrdinalOf(n) \in Nat
  <2> SUFFICES ASSUME NEW n \in Unvisited
               PROVE  OrdinalOf(n) \in Nat
    OBVIOUS
  <2>1. \E i \in Kept(plan) : plan[i].id = n
    BY DEF Unvisited, NodeIds
  <2>2. OrdinalOf(n) \in Kept(plan)
    BY <2>1 DEF OrdinalOf
  <2>3. Kept(plan) \subseteq 1..Len(plan) /\ Len(plan) \in Nat
    BY PlansAssumption DEF Kept
  <2> QED
    BY <2>2, <2>3
<1> DEFINE R == OpToRel(<, Nat)
           O == {OrdinalOf(m) : m \in Unvisited}
<1>2. O \subseteq Nat /\ O # {} /\ IsWellFoundedOn(R, Nat)
  BY <1>1, NatLessThanWellFounded
<1>3. \A a, b \in Nat : a < b => <<a, b>> \in R
  BY Zenon DEF OpToRel
<1>4. PICK o \in O : \A p \in O : <<p, o>> \notin R
  <2> HIDE DEF R, O
  <2> QED
    BY <1>2, WFMin, Zenon
<1>5. PICK n \in Unvisited : o = OrdinalOf(n)
  BY <1>4
<1>6. ASSUME NEW m \in Unvisited
      PROVE  OrdinalOf(n) <= OrdinalOf(m)
  <2>1. <<OrdinalOf(m), OrdinalOf(n)>> \notin R
    BY <1>4, <1>5
  <2> HIDE DEF R
  <2>2. ~(OrdinalOf(m) < OrdinalOf(n))
    BY <1>1, <1>3, <2>1
  <2> QED
    BY <1>1, <2>2
<1> QED
  BY <1>6

LEMMA OpenRootKeeps ==
  ASSUME SearchInv, plan \in Plans, Node = NodeIds(plan), OpenRoot
  PROVE  SearchInv'
<1>1. PICK root \in Node :
        /\ index[root] = -1
        /\ Open(root) /\ lowlink' = [lowlink EXCEPT ![root] = counter]
        /\ frames' = <<[id |-> root, left |-> graph[root]]>>
  BY RootIsUnvisited DEF OpenRoot, Unvisited
<1>2. UNCHANGED graph /\ UNCHANGED <<graph, inCycle>>
  BY DEF OpenRoot
<1>3. frames = << >> /\ Gray = {}
  BY DEF OpenRoot, Gray
<1>4. /\ SearchTypes' /\ OrderInv'
      /\ OnStack' = OnStack \cup {root} /\ Gray' = Gray \cup {root}
      /\ Pending(root)' = graph[root]
      /\ \A m \in Node \ {root} : Pending(m) \ {root} \subseteq Pending(m)'
  <2> DEFINE none == << >>
  <2>1. /\ none \in Seq(Frame) /\ Len(none) = Len(frames)
        /\ frames' = Append(none, [id |-> root, left |-> graph[root]])
    BY <1>1, <1>3
  <2>2. \A i \in 1..Len(frames) : /\ none[i].id = frames[i].id
                                  /\ none[i].left \subseteq frames[i].left
                                  /\ frames[i].left \ {root} \subseteq none[i].left
    BY <1>3
  <2> HIDE DEF none
  <2> QED
    BY <1>1, <1>2, <2>1, <2>2, PushOrder DEF SearchInv
<1>5. ReachInv' /\ EdgeInv' /\ VerdictInv'
  <2>1. index' = [index EXCEPT ![root] = counter]
    BY <1>1 DEF Open
  <2> DEFINE T == {}
  <2>2. /\ T \in SUBSET Gray /\ (Gray # {} => T # {})
        /\ \A t \in T : root \in graph[t] /\ \A f \in Gray : index[f] <= index[t]
    BY <1>3
  <2> HIDE DEF T
  <2> QED
    BY <1>1, <1>2, <1>4, <2>1, <2>2, PushKeeps
<1> QED
  BY <1>4, <1>5 DEF SearchInv

\* The edge leads to a node not seen before.
LEMMA FollowNewKeeps ==
  ASSUME SearchInv, frames # << >>, NEW next \in Top.left, index[next] = -1,
         UNCHANGED <<graph, inCycle>>, Open(next),
         lowlink' = [lowlink EXCEPT ![next] = counter],
         frames' = Append(Rest(next), [id |-> next, left |-> graph[next]])
  PROVE  SearchInv'
<1>1. /\ Top.id \in Gray /\ Top.id \in Node /\ next \in graph[Top.id] /\ next \in Node
      /\ Gray \subseteq Node
      /\ \A f \in Gray : f = Top.id \/ index[f] < index[Top.id]
  BY TopFacts, StackFacts DEF SearchInv, SearchTypes
<1>2. /\ Rest(next) \in Seq(Frame) /\ Len(Rest(next)) = Len(frames)
      /\ \A i \in 1..Len(frames) :
           /\ Rest(next)[i].id = frames[i].id
           /\ Rest(next)[i].left \subseteq frames[i].left
           /\ frames[i].left \ {next} \subseteq Rest(next)[i].left
  BY RestFacts DEF SearchInv
<1>3. /\ SearchTypes' /\ OrderInv'
      /\ OnStack' = OnStack \cup {next} /\ Gray' = Gray \cup {next}
      /\ Pending(next)' = graph[next]
      /\ \A m \in Node \ {next} : Pending(m) \ {next} \subseteq Pending(m)'
  BY <1>1, <1>2, PushOrder DEF SearchInv
<1>4. ReachInv' /\ EdgeInv' /\ VerdictInv'
  <2>1. index' = [index EXCEPT ![next] = counter]
    BY DEF Open
  <2> DEFINE T == {Top.id}
  <2>2. /\ T \in SUBSET Gray /\ T # {}
        /\ \A t \in T : next \in graph[t] /\ \A f \in Gray : index[f] <= index[t]
    <3>1. \A f \in Gray : index[f] \in Int
      BY <1>1 DEF SearchInv, SearchTypes
    <3> QED
      BY <1>1, <3>1
  <2> HIDE DEF T
  <2> QED
    BY <1>1, <1>3, <2>1, <2>2, PushKeeps
<1> QED
  BY <1>3, <1>4 DEF SearchInv

\* The edge leads to a node seen before.
LEMMA FollowOldKeeps ==
  ASSUME SearchInv, frames # << >>, NEW next \in Top.left, index[next] # -1,
         UNCHANGED <<graph, inCycle, index, counter, stack>>,
         lowlink' = IF next \in OnStack
                    THEN [lowlink EXCEPT ![Top.id] = Smaller(@, index[next])]
                    ELSE lowlink,
         frames' = Rest(next)
  PROVE  SearchInv'
<1>1. /\ Top.id \in Gray /\ Top.id \in Node /\ next \in graph[Top.id] /\ next \in Node
      /\ Top = frames[Len(frames)] /\ Len(frames) \in Nat \ {0}
      /\ \A f \in Gray \ {Top.id} : index[f] < index[Top.id]
  BY TopFacts, StackFacts DEF SearchInv, SearchTypes
<1>2. /\ frames' \in Seq(Frame) /\ Len(frames') = Len(frames)
      /\ DOMAIN frames = 1..Len(frames) /\ DOMAIN frames' = 1..Len(frames)
      /\ \A i \in 1..Len(frames) :
           /\ frames'[i].id = frames[i].id
           /\ frames'[i].left = IF i = Len(frames) THEN frames[i].left \ {next}
                                                   ELSE frames[i].left
  <2>1. DOMAIN frames = 1..Len(frames)
    BY DEF SearchInv, SearchTypes
  <2>2. frames' \in Seq(Frame) /\ Len(frames') = Len(frames)
    BY RestFacts DEF SearchInv
  <2>3. DOMAIN frames' = 1..Len(frames)
    BY <2>2
  <2> QED
    BY <2>1, <2>2, <2>3, RestFacts DEF SearchInv
<1>3. OnStack' = OnStack /\ Gray' = Gray /\ Node' = Node
  BY <1>2 DEF OnStack, Gray, Node
<1>4. SearchTypes'
  <2>1. lowlink' \in [Node -> Nat \cup {-1}]
    BY <1>1 DEF SearchInv, SearchTypes, Smaller
  <2>2. Frame' = Frame
    BY <1>3 DEF Frame
  <2> QED
    BY <1>2, <1>3, <2>1, <2>2 DEF SearchInv, SearchTypes
<1>5. OrderInv'
  <2>1. \A i \in 1..Len(frames) : frames'[i].left \subseteq graph[frames'[i].id]
    BY <1>2 DEF SearchInv, OrderInv
  <2>2. \A i, j \in 1..Len(frames) : i < j => index[frames'[i].id] < index[frames'[j].id]
    BY <1>2 DEF SearchInv, OrderInv
  <2> QED
    BY <1>2, <1>3, <2>1, <2>2 DEF SearchInv, OrderInv
<1>6. ASSUME NEW m \in Node, NEW x \in Pending(m), x # next \/ m # Top.id
      PROVE  x \in Pending(m)'
  <2>1. PICK i \in 1..Len(frames) : frames[i].id = m /\ x \in frames[i].left
    BY <1>2 DEF Pending
  <2>2. frames'[i].id = m /\ x \in frames'[i].left
    BY <1>1, <1>2, <1>6, <2>1
  <2> QED
    BY <1>2, <2>1, <2>2 DEF Pending
<1>7. ReachInv' /\ EdgeInv' /\ VerdictInv'
  <2>1. /\ \A m \in Node : Pending(m) \ {next} \subseteq Pending(m)'
        /\ \A m \in Node \ {Top.id} : Pending(m) \subseteq Pending(m)'
    BY <1>6
  <2> QED
    BY <1>1, <1>3, <2>1, FollowKeeps
<1> QED
  BY <1>4, <1>5, <1>7 DEF SearchInv

LEMMA FollowEdgeKeeps ==
  ASSUME SearchInv, FollowEdge
  PROVE  SearchInv'
<1>1. PICK next \in Top.left :
        \/ /\ index[next] = -1 /\ Open(next)
           /\ lowlink' = [lowlink EXCEPT ![next] = counter]
           /\ frames' = Append(Rest(next), [id |-> next, left |-> graph[next]])
        \/ /\ index[next] # -1
           /\ lowlink' = IF next \in OnStack
                         THEN [lowlink EXCEPT ![Top.id] = Smaller(@, index[next])]
                         ELSE lowlink
           /\ frames' = Rest(next)
           /\ UNCHANGED <<index, counter, stack>>
  BY DEF FollowEdge, Rest
<1>2. frames # << >> /\ UNCHANGED <<graph, inCycle>>
  BY DEF FollowEdge
<1> QED
  BY <1>1, <1>2, FollowNewKeeps, FollowOldKeeps

\* Dropping the last frame, and the stack from some place on that no other
\* frame lies in, keeps the types and the orders.
LEMMA CloseOrder ==
  ASSUME SearchTypes, OrderInv, frames # << >>, NEW n, n = Top.id, Top.left = {},
         NEW k \in 0..Len(stack), \A f \in Gray \ {n} : \E i \in 1..k : stack[i] = f,
         UNCHANGED <<graph, index, counter>>, lowlink' \in [Node -> Nat \cup {-1}],
         frames' = SubSeq(frames, 1, Len(frames) - 1), stack' = SubSeq(stack, 1, k)
  PROVE  /\ SearchTypes' /\ OrderInv'
         /\ OnStack' = {stack[i] : i \in 1..k} /\ Gray' = Gray \ {n}
         /\ \A m \in Node : Pending(m) \subseteq Pending(m)'
<1>1. /\ Len(frames) \in Nat \ {0} /\ DOMAIN frames = 1..Len(frames)
      /\ stack \in Seq(Node) /\ frames \in Seq(Frame) /\ Len(stack) \in Nat
      /\ DOMAIN stack = 1..Len(stack) /\ n = frames[Len(frames)].id
      /\ graph' = graph /\ index' = index /\ Node' = Node /\ Frame' = Frame
  BY TopFacts DEF SearchTypes, Node, Frame
<1>2. /\ stack' \in Seq(Node) /\ Len(stack') = k /\ DOMAIN stack' = 1..k
      /\ \A i \in 1..k : stack'[i] = stack[i] /\ i \in 1..Len(stack)
  BY <1>1, SubSeqProperties
<1>3. /\ frames' \in Seq(Frame) /\ Len(frames') = Len(frames) - 1
      /\ DOMAIN frames' = 1..(Len(frames) - 1)
      /\ \A i \in 1..(Len(frames) - 1) : frames'[i] = frames[i] /\ i \in 1..Len(frames)
  BY <1>1, SubSeqProperties
<1>4. OnStack' = {stack[i] : i \in 1..k}
  <2>1. OnStack' = {stack'[i] : i \in 1..k}
    BY <1>2 DEF OnStack
  <2> QED
    BY <1>2, <2>1
<1>5. \A i \in 1..(Len(frames) - 1) : frames[i].id # n
  <2> SUFFICES ASSUME NEW i \in 1..(Len(frames) - 1)
               PROVE  frames[i].id # n
    OBVIOUS
  <2>1. index[frames[i].id] < index[n]
    BY <1>1 DEF OrderInv
  <2>2. index[n] \in Int
    BY TopFacts DEF SearchTypes
  <2> QED
    BY <2>1, <2>2
<1>6. \A i \in 1..Len(frames) : i = Len(frames) \/ i \in 1..(Len(frames) - 1)
  <2>1. Len(frames) \in Nat
    BY <1>1
  <2> QED
    BY <2>1
<1>7. Gray' = Gray \ {n}
  <2>1. Gray' = {frames'[i].id : i \in 1..(Len(frames) - 1)}
    BY <1>3 DEF Gray
  <2>2. Gray = {frames[i].id : i \in 1..Len(frames)}
    BY <1>1 DEF Gray
  <2>3. ASSUME NEW f \in Gray, f # n
        PROVE  f \in Gray'
    <3>1. PICK i \in 1..Len(frames) : f = frames[i].id
      BY <2>2
    <3>2. i \in 1..(Len(frames) - 1)
      BY <1>1, <1>6, <2>3, <3>1
    <3> QED
      BY <1>3, <2>1, <3>1, <3>2
  <2>4. ASSUME NEW i \in 1..(Len(frames) - 1)
        PROVE  frames'[i].id \in Gray \ {n}
    BY <1>3, <1>5, <2>2
  <2> QED
    BY <2>1, <2>3, <2>4
<1>8. SearchTypes'
  BY <1>1, <1>2, <1>3 DEF SearchTypes
<1>9. OrderInv'
  <2>1. \A i, j \in 1..Len(stack') : i < j => index'[stack'[i]] < index'[stack'[j]]
    BY <1>1, <1>2 DEF OrderInv
  <2>2. \A i, j \in 1..Len(frames') : i < j => index'[frames'[i].id] < index'[frames'[j].id]
    BY <1>1, <1>3 DEF OrderInv
  <2>3. \A m \in OnStack' : index'[m] # -1
    BY <1>1, <1>2, <1>4 DEF OrderInv, OnStack
  <2>4. Gray' \subseteq OnStack'
    BY <1>4, <1>7
  <2>5. \A i \in 1..Len(frames') : frames'[i].left \subseteq graph'[frames'[i].id]
    BY <1>1, <1>3 DEF OrderInv
  <2> QED
    BY <2>1, <2>2, <2>3, <2>4, <2>5 DEF OrderInv
<1>10. ASSUME NEW m \in Node, NEW x \in Pending(m)
       PROVE  x \in Pending(m)'
  <2>1. PICK i \in 1..Len(frames) : frames[i].id = m /\ x \in frames[i].left
    BY <1>1 DEF Pending
  <2>2. i # Len(frames)
    BY <2>1 DEF Top
  <2>3. i \in DOMAIN frames' /\ frames'[i].id = m /\ x \in frames'[i].left
    BY <1>3, <1>6, <2>1, <2>2
  <2> QED
    BY <2>3 DEF Pending
<1> QED
  BY <1>4, <1>7, <1>8, <1>9, <1>10

\* The frame below the last, if any, is the only one whose lowlink changes.
Below == IF Len(frames) = 1 THEN {} ELSE {frames[Len(frames) - 1].id}

LEMMA BelowFacts ==
  ASSUME SearchTypes, OrderInv, frames # << >>
  PROVE  /\ Below \subseteq Gray \ {Top.id} /\ (Gray # {Top.id} => Below # {})
         /\ \A p \in Below : \A f \in Gray \ {Top.id} : index[f] <= index[p]
<1>1. /\ Len(frames) \in Nat \ {0} /\ DOMAIN frames = 1..Len(frames)
      /\ Top = frames[Len(frames)]
  BY TopFacts DEF SearchTypes
<1>2. \A i \in 1..Len(frames) : frames[i].id \in Node /\ index[frames[i].id] \in Int
  <2>1. \A i \in 1..Len(frames) : frames[i] \in Frame
    BY DEF SearchTypes
  <2> QED
    BY <2>1 DEF SearchTypes, Frame
<1>3. CASE Len(frames) = 1
  BY <1>1, <1>3 DEF Below, Gray
<1>4. CASE Len(frames) # 1
  <2> DEFINE q == Len(frames) - 1
  <2>1. q \in 1..Len(frames) /\ q < Len(frames) /\ Below = {frames[q].id}
    BY <1>1, <1>4 DEF Below
  <2>2. index[frames[q].id] < index[Top.id]
    BY <1>1, <2>1 DEF OrderInv
  <2>3. frames[q].id \in Gray \ {Top.id}
    BY <1>1, <1>2, <2>1, <2>2 DEF Gray
  <2>4. ASSUME NEW f \in Gray \ {Top.id}
        PROVE  index[f] <= index[frames[q].id]
    <3>1. PICK i \in 1..Len(frames) : f = frames[i].id
      BY <1>1 DEF Gray
    <3>2. i = q \/ i < q
      <4>1. i # Len(frames) /\ Len(frames) \in Nat
        BY <1>1, <2>4, <3>1
      <4> QED
        BY <4>1
    <3>3. CASE i = q
      BY <1>2, <3>1, <3>3
    <3>4. CASE i < q
      BY <1>1, <1>2, <2>1, <3>1, <3>4 DEF OrderInv
    <3> QED
      BY <3>2, <3>3, <3>4
  <2> QED
    BY <2>1, <2>3, <2>4
<1> QED
  BY <1>3, <1>4

LEMMA CloseFrameKeeps ==
  ASSUME SearchInv, CloseFrame
  PROVE  SearchInv'
<1> DEFINE at(n) == CHOOSE i \in DOMAIN stack : stack[i] = n
           component(n) == {stack[i] : i \in at(n)..Len(stack)}
<1>1. PICK n, P : n = Top.id /\ P = Below
  OBVIOUS
<1>2. /\ frames # << >> /\ Top.left = {}
      /\ UNCHANGED <<graph, index, counter>> /\ UNCHANGED <<graph, index>>
      /\ frames' = SubSeq(frames, 1, Len(frames) - 1)
  BY DEF CloseFrame
<1>3. lowlink' = IF Len(frames) = 1 THEN lowlink
                 ELSE LET parent == frames[Len(frames) - 1].id
                      IN  [lowlink EXCEPT ![parent] = Smaller(@, lowlink[n])]
  BY <1>1 DEF CloseFrame
<1>4. /\ n \in Gray /\ n \in Node /\ n \in OnStack /\ Pending(n) = {}
      /\ \A f \in Gray \ {n} : index[f] < index[n]
      /\ OnStack \subseteq Node /\ Gray \subseteq OnStack
      /\ P \subseteq Gray \ {n} /\ (Gray # {n} => P # {})
      /\ \A p \in P : \A f \in Gray \ {n} : index[f] <= index[p]
  BY <1>1, <1>2, TopFacts, BelowFacts, StackFacts DEF SearchInv, OrderInv
<1>5. /\ index \in [Node -> Nat \cup {-1}] /\ lowlink \in [Node -> Nat \cup {-1}]
      /\ stack \in Seq(Node) /\ Len(stack) \in Nat /\ DOMAIN stack = 1..Len(stack)
  BY DEF SearchInv, SearchTypes
<1>6. /\ lowlink' \in [Node -> Nat \cup {-1}]
      /\ \A m \in Node : /\ lowlink'[m] \in {lowlink[m], lowlink[n]}
                         /\ m \notin P => lowlink'[m] = lowlink[m]
                         /\ lowlink'[m] <= lowlink[m]
                         /\ m \in P => lowlink'[m] <= lowlink[n]
  <2>1. CASE Len(frames) = 1
    BY <1>1, <1>3, <1>5, <2>1 DEF Below
  <2>2. CASE Len(frames) # 1
    <3>1. PICK p : P = {p} /\ lowlink' = [lowlink EXCEPT ![p] = Smaller(@, lowlink[n])]
      BY <1>1, <1>3, <2>2 DEF Below
    <3>2. p \in Node
      BY <1>4, <3>1
    <3> QED
      BY <1>4, <1>5, <3>1, <3>2 DEF Smaller
  <2> QED
    BY <2>1, <2>2
<1>7. /\ at(n) \in 1..Len(stack) /\ stack[at(n)] = n
      /\ \A i \in 1..Len(stack) : IF i < at(n) THEN index[stack[i]] < index[n]
                                               ELSE index[n] <= index[stack[i]]
  <2>1. \E i \in DOMAIN stack : stack[i] = n
    BY <1>4 DEF OnStack
  <2>2. at(n) \in 1..Len(stack) /\ stack[at(n)] = n
    BY <1>5, <2>1
  <2> HIDE DEF at
  <2>3. ASSUME NEW i \in 1..Len(stack)
        PROVE  IF i < at(n) THEN index[stack[i]] < index[n] ELSE index[n] <= index[stack[i]]
    <3>1. CASE i < at(n)
      BY <2>2, <3>1 DEF SearchInv, OrderInv
    <3>2. CASE i = at(n)
      BY <1>4, <1>5, <2>2, <3>2
    <3>3. CASE at(n) < i
      <4>1. index[n] < index[stack[i]]
        BY <2>2, <3>3 DEF SearchInv, OrderInv
      <4>2. index[n] \in Int /\ index[stack[i]] \in Int /\ ~(i < at(n))
        BY <1>4, <1>5, <2>2, <3>3
      <4> QED
        BY <4>1, <4>2
    <3> QED
      BY <2>2, <3>1, <3>2, <3>3
  <2> QED
    BY <2>2, <2>3
<1> HIDE DEF at
<1>8. CASE lowlink[n] # index[n]
  <2>1. UNCHANGED <<stack, inCycle>>
    BY <1>1, <1>8 DEF CloseFrame
  <2>2. stack' = SubSeq(stack, 1, Len(stack)) /\ Len(stack) \in 0..Len(stack)
    BY <1>5, <2>1
  <2>3. \A f \in Gray \ {n} : \E i \in 1..Len(stack) : stack[i] = f
    BY <1>4, <1>5 DEF OnStack
  <2>4. /\ SearchTypes' /\ OrderInv' /\ Gray' = Gray \ {n}
        /\ \A m \in Node : Pending(m) \subseteq Pending(m)'
    BY <1>1, <1>2, <1>6, <2>2, <2>3, CloseOrder DEF SearchInv
  <2>5. OnStack' = OnStack
    BY <2>1 DEF OnStack
  <2>6. Closes(n, P)
    BY <1>2, <1>4, <1>6, <2>4 DEF Closes
  <2>7. ReachInv' /\ EdgeInv' /\ VerdictInv'
    BY <1>8, <2>1, <2>5, <2>6, CloseInsideKeeps
  <2> QED
    BY <2>4, <2>7 DEF SearchInv
<1>9. CASE lowlink[n] = index[n]
  <2>1. PICK k, C : k = at(n) - 1 /\ C = component(n)
    OBVIOUS
  <2>2. /\ k \in 0..Len(stack) /\ stack' = SubSeq(stack, 1, k)
        /\ inCycle' = IF Cardinality(C) > 1 \/ n \in graph[n] THEN inCycle \cup C ELSE inCycle
    <3>1. stack' = SubSeq(stack, 1, k)
      BY <1>1, <1>9, <2>1 DEF CloseFrame, at
    <3>2. k \in 0..Len(stack)
      BY <1>5, <1>7, <2>1
    <3>3. inCycle' = IF Cardinality(C) > 1 \/ n \in graph[n] THEN inCycle \cup C ELSE inCycle
      BY <1>1, <1>9, <2>1 DEF CloseFrame, at
    <3> QED
      BY <3>1, <3>2, <3>3
  <2>3. \A i \in 1..Len(stack) : i \in 1..k <=> index[stack[i]] < index[n]
    <3> SUFFICES ASSUME NEW i \in 1..Len(stack)
                 PROVE  i \in 1..k <=> index[stack[i]] < index[n]
      OBVIOUS
    <3>1. index[n] \in Int /\ index[stack[i]] \in Int
      BY <1>4, <1>5
    <3>2. i \in 1..k <=> i < at(n)
      BY <1>7, <2>1
    <3> QED
      BY <1>7, <3>1, <3>2
  <2>4. \A f \in Gray \ {n} : \E i \in 1..k : stack[i] = f
    <3> SUFFICES ASSUME NEW f \in Gray \ {n}
                 PROVE  \E i \in 1..k : stack[i] = f
      OBVIOUS
    <3>1. PICK i \in 1..Len(stack) : stack[i] = f
      BY <1>4, <1>5 DEF OnStack
    <3> QED
      BY <1>4, <2>3, <3>1
  <2>5. /\ SearchTypes' /\ OrderInv' /\ Gray' = Gray \ {n}
        /\ OnStack' = {stack[i] : i \in 1..k}
        /\ \A m \in Node : Pending(m) \subseteq Pending(m)'
    BY <1>1, <1>2, <1>6, <2>2, <2>4, CloseOrder DEF SearchInv
  <2>6. OnStack' = {m \in OnStack : index[m] < index[n]}
    <3>1. 1..k \subseteq 1..Len(stack)
      BY <1>5, <2>2
    <3> QED
      BY <1>5, <2>3, <2>5, <3>1 DEF OnStack
  <2>7. C = {m \in OnStack : index[n] <= index[m]}
    <3>1. \A i \in 1..Len(stack) : i \in at(n)..Len(stack) <=> index[n] <= index[stack[i]]
      <4> SUFFICES ASSUME NEW i \in 1..Len(stack)
                   PROVE  i \in at(n)..Len(stack) <=> index[n] <= index[stack[i]]
        OBVIOUS
      <4>1. index[n] \in Int /\ index[stack[i]] \in Int
        BY <1>4, <1>5
      <4>2. i \in at(n)..Len(stack) <=> ~(i < at(n))
        BY <1>5, <1>7
      <4> QED
        BY <1>7, <4>1, <4>2
    <3>2. at(n)..Len(stack) \subseteq 1..Len(stack)
      BY <1>5, <1>7
    <3> QED
      BY <1>5, <2>1, <3>1, <3>2 DEF OnStack
  <2>8. Closes(n, P)
    BY <1>2, <1>4, <1>6, <2>5 DEF Closes
  <2>9. ReachInv' /\ EdgeInv' /\ VerdictInv'
    BY <1>9, <2>2, <2>6, <2>7, <2>8, CloseRootKeeps
  <2> QED
    BY <2>5, <2>9 DEF SearchInv
<1> QED
  BY <1>8, <1>9

(***************************************************************************)
(* The phases                                                              *)
(***************************************************************************)

\* What the cleaning passes leave is a graph of finitely many nodes.
LEMMA CleanGraph ==
  ASSUME plan \in Plans
  PROVE  /\ DOMAIN Clean0 = NodeIds(plan) /\ IsFiniteSet(NodeIds(plan))
         /\ Clean0 \in [NodeIds(plan) -> SUBSET NodeIds(plan)]
<1>1. IsFiniteSet(Kept(plan))
  <2>1. Kept(plan) \subseteq 1..Len(plan) /\ Len(plan) \in Nat
    BY PlansAssumption DEF Kept
  <2>2. IsFiniteSet(1..Len(plan))
    BY <2>1, FS_Interval
  <2> QED
    BY <2>1, <2>2, FS_Subset
<1>2. IsFiniteSet(NodeIds(plan))
  <2> DEFINE f == [i \in Kept(plan) |-> plan[i].id]
  <2>1. f \in Surjection(Kept(plan), NodeIds(plan))
    BY DEF NodeIds, Surjection
  <2> QED
    BY <1>1, <2>1, FS_Surjection
<1>3. DOMAIN Written(plan) = NodeIds(plan)
  BY DEF Written
<1> QED
  BY <1>2, <1>3 DEF Clean0, Sanitized

\* A search that has not begun.
LEMMA SearchBegins ==
  ASSUME NEW N, IsFiniteSet(N), graph' \in [N -> SUBSET N], NoSearch(N)
  PROVE  SearchInv'
<1>1. /\ index' = [n \in N |-> -1] /\ lowlink' = [n \in N |-> -1] /\ counter' = 0
      /\ stack' = << >> /\ frames' = << >> /\ inCycle' = {} /\ Node' = N
  BY DEF NoSearch, Node
<1>2. OnStack' = {} /\ Gray' = {} /\ Finished' = {}
  BY <1>1 DEF OnStack, Gray, Finished
<1>3. SearchTypes'
  BY <1>1 DEF SearchTypes
<1>4. OrderInv'
  BY <1>1, <1>2 DEF OrderInv
<1>5. ReachInv'
  BY <1>2 DEF ReachInv
<1>6. EdgeInv'
  BY <1>1, <1>2 DEF EdgeInv
<1>7. VerdictInv'
  BY <1>1, <1>2 DEF VerdictInv, IsClosed
<1> QED
  BY <1>3, <1>4, <1>5, <1>6, <1>7 DEF SearchInv

\* A search that has ended has judged every node.
LEMMA SearchJudges ==
  ASSUME SearchInv, SearchEnded
  PROVE  inCycle = CycleNodes(graph)
<1>1. Gray = {}
  BY DEF SearchEnded, Gray
<1>2. OnStack = {}
  BY <1>1 DEF SearchInv, ReachInv
<1>3. Finished = Node
  BY <1>2 DEF Finished, SearchEnded, Unvisited
<1> QED
  BY <1>3 DEF SearchInv, VerdictInv, CycleNodes, Node

\* The graph of a phase that has one.
LEMMA GraphFacts ==
  ASSUME PhaseInv, phase \in {"search", "recheck", "compiled"}
  PROVE  /\ Node = NodeIds(plan) /\ IsFiniteSet(Node) /\ graph \in [Node -> SUBSET Node]
         /\ phase # "search" => CycleNodes(graph) = {} /\ Schedulable(graph)
<1> DEFINE N == NodeIds(plan)
<1>1. DOMAIN Clean0 = N /\ IsFiniteSet(N) /\ Clean0 \in [N -> SUBSET N]
  BY CleanGraph DEF PhaseInv
<1>2. /\ Repaired(Clean0) \in [N -> SUBSET N] /\ CycleNodes(Repaired(Clean0)) = {}
      /\ Schedulable(Repaired(Clean0))
  <2> HIDE DEF N
  <2> QED
    BY <1>1, RepairedType, RepairedAcyclic, RepairedSchedulable
<1>3. graph = Clean0 \/ graph = Repaired(Clean0)
  BY DEF PhaseInv
<1>4. phase # "search" => graph = Repaired(Clean0)
  BY DEF PhaseInv
<1> QED
  BY <1>1, <1>2, <1>3, <1>4 DEF Node

(***************************************************************************)
(* The invariant is inductive                                              *)
(***************************************************************************)

LEMMA InitInv == Init => IInv
BY DEF Init, IInv, PhaseInv, Ended

LEMMA CleanKeeps ==
  ASSUME IInv, Clean
  PROVE  IInv'
<1>1. phase = "clean" /\ UNCHANGED <<plan, mode>> /\ PhaseInv
  BY DEF Clean, IInv
<1>2. CASE phase' = "thrown"
  <2>1. mode = "strict"
    BY <1>2 DEF Clean, Rejects
  <2> QED
    BY <1>1, <1>2, <2>1 DEF IInv, PhaseInv, Ended
<1>3. CASE phase' # "thrown"
  <2>1. phase' = "search" /\ graph' = Clean0 /\ NoSearch(NodeIds(plan))
    BY <1>3 DEF Clean, Clean0, Written
  <2>2. Clean0' = Clean0
    BY <1>1 DEF Clean0
  <2>3. PhaseInv'
    BY <1>1, <2>1, <2>2 DEF PhaseInv, Ended
  <2>4. SearchInv'
    <3> DEFINE N == NodeIds(plan)
    <3>1. IsFiniteSet(N) /\ graph' \in [N -> SUBSET N]
      BY <1>1, <2>1, CleanGraph DEF PhaseInv
    <3>2. NoSearch(N)
      BY <2>1
    <3>3. PICK M : M = N
      OBVIOUS
    <3> HIDE DEF N
    <3> QED
      BY <3>1, <3>2, <3>3, SearchBegins
  <2> QED
    BY <2>1, <2>3, <2>4 DEF IInv
<1> QED
  BY <1>2, <1>3

LEMMA SearchKeeps ==
  ASSUME IInv, OpenRoot \/ FollowEdge \/ CloseFrame
  PROVE  IInv'
<1>1. /\ phase \in {"search", "recheck"} /\ UNCHANGED <<plan, mode, phase, graph>>
      /\ PhaseInv /\ SearchInv
  BY DEF OpenRoot, FollowEdge, CloseFrame, IInv
<1>2. PhaseInv'
  BY <1>1 DEF PhaseInv, Clean0
<1>3. Node = NodeIds(plan) /\ plan \in Plans
  BY <1>1, GraphFacts DEF PhaseInv
<1>4. SearchInv'
  BY <1>1, <1>3, OpenRootKeeps, FollowEdgeKeeps, CloseFrameKeeps
<1> QED
  BY <1>2, <1>4 DEF IInv

LEMMA RepairKeeps ==
  ASSUME IInv, Repair
  PROVE  IInv'
<1>1. /\ phase = "search" /\ SearchEnded /\ UNCHANGED <<plan, mode>>
      /\ PhaseInv /\ SearchInv
  BY DEF Repair, IInv
<1>2. inCycle = CycleNodes(graph) /\ graph = Clean0 /\ Clean0' = Clean0
  BY <1>1, SearchJudges DEF PhaseInv, Clean0
<1>3. CASE phase' = "thrown"
  <2>1. mode = "strict"
    BY <1>3 DEF Repair, Rejects
  <2> QED
    BY <1>1, <1>3, <2>1 DEF IInv, PhaseInv, Ended
<1>4. CASE phase' # "thrown"
  <2>1. /\ phase' = "recheck" /\ NoSearch(Node)
        /\ graph' = WithoutEdgesInside(graph, inCycle)
    BY <1>4 DEF Repair
  <2>2. graph' = Repaired(Clean0)
    BY <1>2, <2>1 DEF Repaired
  <2>3. PhaseInv'
    BY <1>1, <1>2, <2>1, <2>2 DEF PhaseInv, Ended
  <2>4. SearchInv'
    <3>1. PICK M : M = Node
      OBVIOUS
    <3>2. graph \in [M -> SUBSET M] /\ IsFiniteSet(M)
      BY <1>1, <3>1 DEF SearchInv, SearchTypes
    <3>3. graph' \in [M -> SUBSET M]
      BY <1>2, <2>2, <3>2, RepairedType
    <3> QED
      BY <2>1, <3>1, <3>2, <3>3, SearchBegins
  <2> QED
    BY <2>1, <2>3, <2>4 DEF IInv
<1> QED
  BY <1>3, <1>4

LEMMA ReturnKeeps ==
  ASSUME IInv, Return
  PROVE  IInv'
<1>1. /\ phase = "recheck" /\ SearchEnded /\ UNCHANGED <<plan, mode, graph>>
      /\ PhaseInv /\ SearchInv
  BY DEF Return, IInv
<1>2. inCycle = {}
  BY <1>1, SearchJudges, GraphFacts
<1>3. phase' = "compiled"
  BY <1>2 DEF Return
<1> QED
  BY <1>1, <1>3 DEF IInv, PhaseInv, Ended, Clean0

LEMMA StutterKeeps ==
  ASSUME IInv, UNCHANGED vars
  PROVE  IInv'
<1>1. UNCHANGED <<plan, mode, phase, graph, index, lowlink, counter, stack, frames, inCycle>>
  BY DEF vars, search
<1>2. /\ OnStack' = OnStack /\ Gray' = Gray /\ Node' = Node /\ Frame' = Frame
      /\ \A n : Pending(n)' = Pending(n)
      /\ \A m, n : Reaches(m, n)' <=> Reaches(m, n)
  BY <1>1 DEF OnStack, Gray, Node, Frame, Pending, Reaches
<1>3. PhaseInv' <=> PhaseInv
  BY <1>1 DEF PhaseInv, Clean0
<1>4. SearchTypes' /\ OrderInv' <=> SearchTypes /\ OrderInv
  BY <1>1, <1>2 DEF SearchTypes, OrderInv
<1>5. ReachInv' <=> ReachInv
  BY <1>1, <1>2 DEF ReachInv
<1>6. EdgeInv' <=> EdgeInv
  BY <1>1, <1>2 DEF EdgeInv, IsAbove
<1>7. VerdictInv' <=> VerdictInv
  BY <1>1, <1>2 DEF VerdictInv, Finished
<1> QED
  BY <1>1, <1>3, <1>4, <1>5, <1>6, <1>7 DEF IInv, SearchInv

LEMMA NextInv == IInv /\ [Next]_vars => IInv'
<1> SUFFICES ASSUME IInv, [Next]_vars
             PROVE  IInv'
  OBVIOUS
<1>1. CASE Clean
  BY <1>1, CleanKeeps
<1>2. CASE OpenRoot \/ FollowEdge \/ CloseFrame
  BY <1>2, SearchKeeps
<1>3. CASE Repair
  BY <1>3, RepairKeeps
<1>4. CASE Return
  BY <1>4, ReturnKeeps
<1>5. CASE Done \/ UNCHANGED vars
  BY <1>5, StutterKeeps DEF Done
<1> QED
  BY <1>1, <1>2, <1>3, <1>4, <1>5 DEF Next

(***************************************************************************)
(* The theorems                                                            *)
(***************************************************************************)

THEOREM CompilerInv == Spec => []IInv
<1>1. Init => IInv
  BY InitInv
<1>2. IInv /\ [Next]_vars => IInv'
  BY NextInv
<1> QED
  BY <1>1, <1>2, PTL DEF Spec

\* When the iterative search of `cycleNodes` ends, for any plan and whatever
\* order its edges are written and followed in, it has found exactly the
\* nodes that lie upstream of themselves.
THEOREM SearchIsExact == Spec => []CycleSearchExact
<1>1. IInv => CycleSearchExact
  BY SearchJudges DEF IInv, CycleSearchExact
<1> QED
  BY <1>1, CompilerInv, PTL

\* Every plan is compiled in "repair" mode to a graph that can be scheduled,
\* and the error for a graph still cyclic after repair is never thrown.
THEOREM RepairIsEnough == Spec => []RepairAlwaysSchedulable
<1>1. IInv => RepairAlwaysSchedulable
  BY GraphFacts DEF IInv, PhaseInv, RepairAlwaysSchedulable
<1> QED
  BY <1>1, CompilerInv, PTL

\* Repair takes from a node that is on no cycle nothing, and from a cyclic
\* one only its dependencies on cyclic ones.
THEOREM InnocentEdgesStay == Spec => []InnocentEdgesKept
<1>1. IInv => InnocentEdgesKept
  <2> SUFFICES ASSUME IInv, phase = "compiled", NEW n \in Node, NEW d \in Clean0[n],
                      n \notin CycleNodes(Clean0) \/ d \notin CycleNodes(Clean0)
               PROVE  d \in graph[n]
    BY DEF InnocentEdgesKept
  <2>1. /\ Clean0 \in [NodeIds(plan) -> SUBSET NodeIds(plan)]
        /\ graph = Repaired(Clean0) /\ Node = NodeIds(plan)
    BY CleanGraph, GraphFacts DEF IInv, PhaseInv
  <2>2. Repaired(Clean0)[n] = IF n \in CycleNodes(Clean0)
                              THEN Clean0[n] \ CycleNodes(Clean0) ELSE Clean0[n]
    <3>1. PICK N, g : N = NodeIds(plan) /\ g = Clean0
      OBVIOUS
    <3>2. g \in [N -> SUBSET N] /\ n \in N
      BY <2>1, <3>1
    <3>3. Repaired(g)[n] = IF n \in CycleNodes(g) THEN g[n] \ CycleNodes(g) ELSE g[n]
      BY <3>2, RepairedType
    <3> QED
      BY <3>1, <3>3
  <2> QED
    BY <2>1, <2>2
<1> QED
  BY <1>1, CompilerInv, PTL
=============================================================================
