--------------------------- MODULE GraphCompiler ---------------------------
(***************************************************************************)
(* compileTaskGraph (src/core/orchestration/task-graph.ts): the boundary   *)
(* between what a planner model wrote and what the scheduler executes.     *)
(*                                                                         *)
(* The nodes are cleaned, the cyclic ones are found by an iterative form   *)
(* of Tarjan's search (`cycleNodes`), the edges between them are removed   *)
(* and the result is searched again.  One step of this machine is one turn *)
(* of the search's loop or one phase of the compilation.  The order in     *)
(* which a node's dependencies are followed is the order the planner wrote *)
(* them in, which can be any: the step that follows an edge takes any edge *)
(* the frame has left.                                                     *)
(***************************************************************************)
EXTENDS TaskGraph, Integers

CONSTANT Plans   \* the plans a planner may hand over

\* A plan is a sequence; nothing is assumed of its nodes' ids and edges.
ASSUME PlansAssumption ==
  \A p \in Plans :
    /\ Len(p) \in Nat /\ DOMAIN p = 1..Len(p)
    /\ \A i \in DOMAIN p : p[i].titled \in BOOLEAN /\ NoId \notin p[i].dependsOn

VARIABLES
  plan,     \* the input nodes
  mode,     \* "strict" or "repair"
  phase,    \* which part of compileTaskGraph runs
  graph,    \* the graph built so far
  issues,   \* the issue records raised so far
  index, lowlink, counter, stack, frames, inCycle   \* locals of cycleNodes

search == <<index, lowlink, counter, stack, frames, inCycle>>
vars == <<plan, mode, phase, graph, issues, search>>

Node == DOMAIN graph

\* Compilation ends with a graph, or throws a validation error: a strict
\* one, or the defensive one for a graph still cyclic after repair.
Ended == {"compiled", "thrown", "thrown cyclic"}

Issue(code, n, d) == [code |-> code, node |-> n, dependency |-> d]

NodeIssues(p) ==
  {Issue("INVALID_NODE", i, NoId) : i \in {i \in DOMAIN p : ~Valid(p[i])}}
    \cup {Issue("DUPLICATE_NODE_ID", i, NoId) :
            i \in {i \in DOMAIN p : Valid(p[i]) /\ i \notin Kept(p)}}
    \cup {Issue("INVALID_NODE", 0, NoId) : x \in {x \in {0} : p = << >>}}

EdgeIssues(g) ==
  {Issue("SELF_DEPENDENCY", n, n) : n \in {n \in DOMAIN g : n \in g[n]}}
    \cup UNION {{Issue("UNKNOWN_DEPENDENCY", n, d) : d \in g[n] \ DOMAIN g} :
                  n \in DOMAIN g}

CycleIssues(g, cyclic) ==
  UNION {{Issue("CYCLE_EDGE_REMOVED", n, d) : d \in g[n] \cap cyclic} :
           n \in cyclic}

\* throwIfStrict: whether the issues raised end a strict compilation.
Rejects(raised) == mode = "strict" /\ raised # {}

\* Mutated form of OnStack: nodes whose component has left the stack count.
Visited == {n \in Node : index[n] # -1}

OnStack == {stack[i] : i \in DOMAIN stack}
Unvisited == {n \in Node : index[n] = -1}
Top == frames[Len(frames)]
Smaller(a, b) == IF a < b THEN a ELSE b

NoSearch(nodes) ==
  /\ index' = [n \in nodes |-> -1]
  /\ lowlink' = [n \in nodes |-> -1]
  /\ counter' = 0
  /\ stack' = << >>
  /\ frames' = << >>
  /\ inCycle' = {}

Init ==
  /\ plan \in Plans
  /\ mode \in {"strict", "repair"}
  /\ phase = "clean"
  /\ graph = << >>
  /\ issues = {}
  /\ index = << >> /\ lowlink = << >> /\ counter = 0
  /\ stack = << >> /\ frames = << >> /\ inCycle = {}

\* The first two passes: invalid and duplicate nodes, then self and unknown
\* dependencies.  In strict mode the first pass that raises an issue throws.
Clean ==
  /\ phase = "clean"
  /\ LET written == Written(plan)
         dropped == NodeIssues(plan)
         cut     == dropped \cup EdgeIssues(written)
     IN  IF Rejects(dropped) \/ Rejects(cut)
         THEN /\ issues' = IF Rejects(dropped) THEN dropped ELSE cut
              /\ phase' = "thrown"
              /\ UNCHANGED <<graph, search>>
         ELSE /\ issues' = cut
              /\ graph' = Sanitized(written)
              /\ phase' = "search"
              /\ NoSearch(DOMAIN written)
  /\ UNCHANGED <<plan, mode>>

\* open(id): number the node and push it.
Open(n) ==
  /\ index' = [index EXCEPT ![n] = counter]
  /\ counter' = counter + 1
  /\ stack' = Append(stack, n)

\* The outer loop: a search from the next node in plan order not yet seen.
OrdinalOf(n) == CHOOSE i \in Kept(plan) : plan[i].id = n
OpenRoot ==
  /\ phase \in {"search", "recheck"}
  /\ frames = << >> /\ Unvisited # {}
  /\ LET root == CHOOSE n \in Unvisited :
                   \A m \in Unvisited : OrdinalOf(n) <= OrdinalOf(m)
     IN  /\ Open(root)
         /\ lowlink' = [lowlink EXCEPT ![root] = counter]
         /\ frames' = <<[id |-> root, left |-> graph[root]]>>
  /\ UNCHANGED <<plan, mode, phase, graph, issues, inCycle>>

\* Follow one edge of the top frame: a new node opens a frame of its own, one
\* still on the stack lowers the frame's lowlink.
FollowEdge ==
  /\ phase \in {"search", "recheck"}
  /\ frames # << >> /\ Top.left # {}
  /\ \E next \in Top.left :
       LET rest == [frames EXCEPT ![Len(frames)].left = @ \ {next}]
       IN \/ /\ index[next] = -1
             /\ Open(next)
             /\ lowlink' = [lowlink EXCEPT ![next] = counter]
             /\ frames' = Append(rest, [id |-> next, left |-> graph[next]])
          \/ /\ index[next] # -1
             /\ lowlink' = IF next \in OnStack
                           THEN [lowlink EXCEPT ![Top.id] =
                                   Smaller(@, index[next])]
                           ELSE lowlink
             /\ frames' = rest
             /\ UNCHANGED <<index, counter, stack>>
  /\ UNCHANGED <<plan, mode, phase, graph, issues, inCycle>>

\* Pop an exhausted frame: its lowlink passes to its parent, and when it is
\* the root of a component the component leaves the stack.
CloseFrame ==
  /\ phase \in {"search", "recheck"}
  /\ frames # << >> /\ Top.left = {}
  /\ LET n    == Top.id
         at   == CHOOSE i \in DOMAIN stack : stack[i] = n
         component == {stack[i] : i \in at..Len(stack)}
         parent == frames[Len(frames) - 1].id
     IN  /\ lowlink' = IF Len(frames) = 1 THEN lowlink
                       ELSE [lowlink EXCEPT ![parent] = Smaller(@, lowlink[n])]
         /\ IF lowlink[n] = index[n]
            THEN /\ stack' = SubSeq(stack, 1, at - 1)
                 /\ inCycle' = IF Cardinality(component) > 1 \/ n \in graph[n]
                               THEN inCycle \cup component ELSE inCycle
            ELSE UNCHANGED <<stack, inCycle>>
  /\ frames' = SubSeq(frames, 1, Len(frames) - 1)
  /\ UNCHANGED <<plan, mode, phase, graph, issues, index, counter>>

\* Mutated form of SearchEnded: an empty graph's search never ends.
SearchOfSomethingEnded == frames = << >> /\ Unvisited = {} /\ counter > 0

SearchEnded == frames = << >> /\ Unvisited = {}

\* The edges inside the cyclic set are removed, or strict mode throws; the
\* repaired graph is searched again.
Repair ==
  /\ phase = "search" /\ SearchEnded
  /\ LET raised == CycleIssues(graph, inCycle)
     IN  /\ issues' = issues \cup raised
         /\ IF Rejects(raised)
            THEN phase' = "thrown" /\ UNCHANGED <<graph, search>>
            ELSE /\ graph' = WithoutEdgesInside(graph, inCycle)
                 /\ phase' = "recheck"
                 /\ NoSearch(Node)
  /\ UNCHANGED <<plan, mode>>

\* The defensive check on the repaired graph.
Return ==
  /\ phase = "recheck" /\ SearchEnded
  /\ phase' = IF inCycle = {} THEN "compiled" ELSE "thrown cyclic"
  /\ UNCHANGED <<plan, mode, graph, issues, search>>

Done == phase \in Ended /\ UNCHANGED vars

Next == Clean \/ OpenRoot \/ FollowEdge \/ CloseFrame \/ Repair \/ Return \/ Done

Spec == Init /\ [][Next]_vars /\ WF_vars(Next)

-----------------------------------------------------------------------------
(* Properties                                                              *)

\* The iterative search finds exactly the nodes that lie upstream of
\* themselves, whatever order the edges are written in: never a node that is
\* merely downstream of a cycle, and never one member too few (cycleNodes).
CycleSearchExact ==
  phase \in {"search", "recheck"} /\ SearchEnded => inCycle = CycleNodes(graph)

\* A plan is compiled whenever the mode is "repair", and what comes back can
\* be scheduled: repair always leaves a graph without a cycle, so the error
\* for a graph "still cyclic after repair" is never thrown.
RepairAlwaysSchedulable ==
  /\ phase # "thrown cyclic"
  /\ phase = "thrown" => mode = "strict"
  /\ phase = "compiled" => Schedulable(graph)

\* The graph the two cleaning passes leave, as the reference definitions see it.
Clean0 == Sanitized(Written(plan))

\* Nodes that are on no cycle keep every dependency they had, and a cyclic
\* node keeps the ones that lead out of the cyclic nodes: an innocent node
\* downstream of a cycle still waits for the work it consumes.
InnocentEdgesKept ==
  phase = "compiled" =>
    \A n \in Node : \A d \in Clean0[n] :
      n \notin CycleNodes(Clean0) \/ d \notin CycleNodes(Clean0)
        => d \in graph[n]

\* Every compilation ends.
CompilationEnds == <>(phase \in Ended)
=============================================================================
