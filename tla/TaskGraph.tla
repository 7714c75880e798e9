----------------------------- MODULE TaskGraph -----------------------------
(***************************************************************************)
(* The dependency graph of a plan, as src/core/orchestration/task-graph.ts *)
(* compiles it.  A plan is what the planner model wrote: a sequence of     *)
(* nodes, each with an id, a title that may be missing and a set of        *)
(* dependency ids.  Ids are taken as trimmed, and `dependsOn` as a set     *)
(* (the code trims and de-duplicates both); a node's ordinal is its        *)
(* position in the plan.                                                   *)
(*                                                                         *)
(* A graph is a function from node ids to the ids they depend on.  No      *)
(* operator here is RECURSIVE, so that the module can be proved about:     *)
(* what lies upstream of a node is the least set closed under `dependsOn`. *)
(***************************************************************************)
EXTENDS Naturals, Sequences, FiniteSets

NoId == "no id"

(***************************************************************************)
(* Cleaning the plan                                                       *)
(***************************************************************************)

Valid(node) == node.id # NoId /\ node.titled

\* The positions whose node is kept: it is valid and the first of its id.
Kept(plan) ==
  {i \in DOMAIN plan :
     /\ Valid(plan[i])
     /\ \A j \in 1..(i - 1) : Valid(plan[j]) => plan[j].id # plan[i].id}

NodeIds(plan) == {plan[i].id : i \in Kept(plan)}

\* The graph the kept nodes wrote, before any edge is dropped.
Written(plan) ==
  [n \in NodeIds(plan) |->
     plan[CHOOSE i \in Kept(plan) : plan[i].id = n].dependsOn]

\* Self-dependencies and dependencies on unknown nodes are dropped.
Sanitized(graph) ==
  [n \in DOMAIN graph |-> (graph[n] \cap DOMAIN graph) \ {n}]

(***************************************************************************)
(* Cycles                                                                  *)
(***************************************************************************)

IsClosed(graph, C) == \A m \in C : graph[m] \subseteq C

\* Every node that `n` depends on, directly or through others.
Upstream(graph, n) ==
  {m \in DOMAIN graph :
     \A C \in SUBSET DOMAIN graph :
       graph[n] \subseteq C /\ IsClosed(graph, C) => m \in C}

\* The members of a strongly connected component of two or more nodes, and
\* the nodes with an edge to themselves: those that lie upstream of
\* themselves.  GraphCompiler checks that the search in the code finds them.
CycleNodes(graph) == {n \in DOMAIN graph : n \in Upstream(graph, n)}

\* Mutated forms of WithoutEdgesInside: every edge into a cyclic node is
\* removed, its innocent dependents included; only one cyclic node is freed.
WithoutEdgesInto(graph, cyclic) == [n \in DOMAIN graph |-> graph[n] \ cyclic]
WithoutEdgesOfOne(graph, cyclic) ==
  [n \in DOMAIN graph |->
     IF n \in cyclic /\ n = CHOOSE m \in cyclic : TRUE
     THEN graph[n] \ cyclic ELSE graph[n]]

\* Every dependency of one node of `cyclic` on another is removed.
WithoutEdgesInside(graph, cyclic) ==
  [n \in DOMAIN graph |->
     IF n \in cyclic THEN graph[n] \ cyclic ELSE graph[n]]

Repaired(graph) == WithoutEdgesInside(graph, CycleNodes(graph))

\* A graph whose nodes can all be run in some order: in every group of
\* nodes there is one that waits for none of the others.
Schedulable(graph) ==
  \A S \in SUBSET DOMAIN graph :
    S # {} => \E n \in S : graph[n] \cap S = {}
=============================================================================
