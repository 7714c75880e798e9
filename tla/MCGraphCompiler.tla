-------------------------- MODULE MCGraphCompiler --------------------------
(***************************************************************************)
(* Bounded plans for GraphCompiler.                                        *)
(*                                                                         *)
(* CyclePlans: four well-formed nodes with every set of dependencies on    *)
(* each other (4096 graphs, so two disjoint cycles joined by an edge       *)
(* occur).  MessyPlans: up to three nodes of two ids, with missing ids and *)
(* titles, duplicates, self-dependencies and dependencies on unknown ids.  *)
(***************************************************************************)
EXTENDS GraphCompiler

Entry(n, title, deps) == [id |-> n, titled |-> title, dependsOn |-> deps]

Names == <<"a", "b", "c", "d">>

CyclePlans ==
  {[i \in 1..4 |-> Entry(Names[i], TRUE, g[i])] :
     g \in [1..4 -> SUBSET {"a", "b", "c", "d"}]}

WellFormedCyclePlans ==
  {p \in CyclePlans : \A i \in 1..4 : p[i].id \notin p[i].dependsOn}

Messy == {Entry(n, t, d) : n \in {"a", "b", NoId}, t \in BOOLEAN,
                           d \in SUBSET {"a", "b", "ghost"}}

SmallMessy == {m \in Messy : m.dependsOn \subseteq {"a"} /\ m.id # "b"}

MessyPlans ==
  {<< >>} \cup [1..1 -> Messy] \cup [1..2 -> Messy]
          \cup {<<p, q, r>> : p, q, r \in SmallMessy}

MCPlans == WellFormedCyclePlans \cup MessyPlans
=============================================================================
