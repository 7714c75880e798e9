-------------------------- MODULE MCWorkspaceGate --------------------------
(***************************************************************************)
(* Bounded instance of WorkspaceGate.                                      *)
(*   All: three processes.  p1 is out of the others' sight and may stall   *)
(*   or end; p2 has a caller going alone and two whose turns can overlap   *)
(*   or queue behind each other; p3 is the third that an unguarded removal *)
(*   of the lock would let in.  `git' is refused exactly where `commands'  *)
(*   is, so one caller asks for it and another for `commands'.             *)
(***************************************************************************)
EXTENDS WorkspaceGate, TLC

CONSTANTS p1, p2, p3, a, b, c, d, e

AllProcesses == {p1, p2, p3}
AllCallers == {a, b, c, d, e}
AllProcessOf == (a :> p1) @@ (b :> p2) @@ (c :> p2) @@ (e :> p2) @@ (d :> p3)
AllModesOf == (a :> {"alone", "commands"}) @@ (b :> {"alone"})
              @@ (c :> {"tools"}) @@ (e :> {"tools", "git"})
              @@ (d :> {"tools"})
=============================================================================
