----------------------------- MODULE MCSection -----------------------------
(***************************************************************************)
(* Bounded sections for Section: three planned subtasks and a              *)
(* reinforcement, two files.                                               *)
(***************************************************************************)
EXTENDS Section

MCSubtask == 1..4
MCPlanned == 1..3

\* Two roots and a join.
MCGraphs == {<<{}, {}, {1, 2}>>}

MCFilesOf == <<<<"f", "g">>, <<"f">>, <<"g">>, << >>>>

\* section_lock_leak: the roots write files of their own, the join both.
MCOwnFilesOf == <<<<"f">>, <<"g">>, <<"f", "g">>, << >>>>
=============================================================================
