----------------------- MODULE MCPermissionEscalator -----------------------
(***************************************************************************)
(* Bounded instance of PermissionEscalator: two requests about a tool      *)
(* that is dangerous, one that is read-only and one that is neither, from  *)
(* two sections.                                                           *)
(***************************************************************************)
EXTENDS PermissionEscalator

About(tool, section, localOnly, forceReprompt) ==
  [tool |-> tool, section |-> section, localOnly |-> localOnly,
   forceReprompt |-> forceReprompt]

\* T2 of the first section may decide about a note; the second is where that
\* does not count.  Every way a request can differ is in one of these, with
\* one it can meet.
MCCalls ==
  {About("note", "s1", l, FALSE) : l \in BOOLEAN}
  \cup {About("note", "s2", FALSE, FALSE), About("note", "s1", FALSE, TRUE)}
  \cup {About("shell", "s1", FALSE, f) : f \in BOOLEAN}
  \cup {About("shell", "s2", TRUE, FALSE), About("read", "s1", TRUE, FALSE)}
=============================================================================
