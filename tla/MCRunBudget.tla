---------------------------- MODULE MCRunBudget ----------------------------
(***************************************************************************)
(* An instance of RunBudget: two workers, one that calls a local model and *)
(* one that also calls a cloud model with a large input, and a tier that   *)
(* writes the answer, on a local or a cloud model.  One local slot, so two *)
(* callers can wait for it.                                                *)
(***************************************************************************)
EXTENDS RunBudget, TLC

CONSTANTS a, b, f

Work(l, i, o) == [class |-> "work", local |-> l, in |-> i, out |-> o]
Answer(l, i, o) == [class |-> "final", local |-> l, in |-> i, out |-> o]

AllCallers == {a, b, f}
AllShapes == (a :> {Work(TRUE, 1, 1)})
             @@ (b :> {Work(TRUE, 1, 1), Work(FALSE, 3, 0)})
             @@ (f :> {Answer(TRUE, 1, 2), Answer(FALSE, 1, 2)})
=============================================================================
