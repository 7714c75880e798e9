--------------------------- MODULE MCDurableResume ---------------------------
(***************************************************************************)
(* Two processes and three runs.  Four times are given out, so two         *)
(* checkpoints can be saved and two claimed; one is kept, so the second    *)
(* save prunes the first.  One part shows how parts are merged: each is    *)
(* merged by itself.                                                       *)
(***************************************************************************)
EXTENDS DurableResume
=============================================================================
