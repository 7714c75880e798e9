---------------------------- MODULE MCScheduler ----------------------------
(***************************************************************************)
(* Bounded plans for Scheduler: four nodes.                                *)
(*                                                                         *)
(* Forward: a node depends on nodes written before it, in every way (64    *)
(* graphs: chains, diamonds, joins of two roots).  Backward: three nodes   *)
(* that depend on later ones, so that a wave is not in plan order.         *)
(* Looped: cycles as repair opens them, next to and below innocent nodes.  *)
(***************************************************************************)
EXTENDS Scheduler

MCNode == 1..4

Forward == {g \in [MCNode -> SUBSET MCNode] : \A n \in MCNode : g[n] \subseteq 1..(n - 1)}

Backward == {[n \in MCNode |-> {5 - d : d \in g[5 - n]}] :
               g \in {g \in Forward : g[4] \subseteq {3} /\ g[3] # {}}}

Looped == {<<{2}, {1}, {1}, {3}>>, <<{3}, {1}, {2}, {3}>>, <<{2}, {1}, {1, 4}, {3}>>,
           <<{2, 3}, {1}, {}, {3}>>}

MCGraphs == {Repaired(g) : g \in Forward \cup Backward \cup Looped}
=============================================================================
