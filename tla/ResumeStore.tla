----------------------------- MODULE ResumeStore -----------------------------
(***************************************************************************)
(* The checkpoints of interrupted runs, on disk (ResumeStore,              *)
(* src/core/orchestration/resume-store.ts).  The processes of a workspace  *)
(* share the directory and nothing else; a file is written, renamed or     *)
(* removed in one step.                                                    *)
(*                                                                         *)
(* A checkpoint has the name of the run that wrote it and a time: when it  *)
(* was saved, or when it was claimed.  A run saves at most once, so it has *)
(* one file at most, which is listed (`.json`) or claimed (`.claimed`).    *)
(* Times come from one clock and are all different: the code's are in      *)
(* milliseconds.  `horizon` is the time a claim's timeout ago.             *)
(*                                                                         *)
(* A checkpoint holds how far each part of the result is, a section or the *)
(* draft of the answer (which is there or not), and the prompt, as the     *)
(* number of the run it was first given to.  Left out: checkpoints that    *)
(* are never read for their age (7 days) or for being unreadable.          *)
(***************************************************************************)
EXTENDS Naturals, FiniteSets

CONSTANTS
  MaxRuns,          \* a bound on the runs of all processes together
  MaxClock,         \* a bound on the times that are given out
  Part,             \* the sections of plans, and the draft
  MaxCheckpoints    \* how many listed checkpoints are kept

ASSUME StoreAssumption ==
  MaxRuns \in Nat /\ MaxClock \in Nat /\ MaxCheckpoints \in Nat \ {0}

VARIABLES
  file,      \* the file of each run
  saved,     \* what each run saved, also when the file is gone
  clock,     \* the next time
  horizon    \* claims before it have timed out

store == <<file, saved, clock, horizon>>

Run == 1..MaxRuns
Time == 0..MaxClock
Status == 0..2    \* not finished, PARTIAL, COMPLETED

NoFile == [kind |-> "none", stamp |-> 0]
File == [kind : {"none", "listed", "claimed"}, stamp : Time]

Content == [parts : [Part -> Status], root : 0..MaxRuns]
Nothing == [parts |-> [s \in Part |-> 0], root |-> 0]

\* What claim() returns: the checkpoint's run and the time in the claim's id.
NoClaim == [run |-> 0, stamp |-> 0]
Claim == [run : Run, stamp : Time]

StoreTypeOK ==
  /\ file \in [Run -> File]
  /\ saved \in [Run -> Content]
  /\ clock \in Time /\ horizon \in Time /\ horizon <= clock
  /\ \A r \in Run :
       IF file[r].kind = "none" THEN file[r] = NoFile ELSE file[r].stamp < clock

StoreInit ==
  /\ file = [r \in Run |-> NoFile]
  /\ saved = [r \in Run |-> Nothing]
  /\ clock = 0 /\ horizon = 0

Named(kind) == [kind |-> kind, stamp |-> clock]

\* The file of claim `c`, while it has the name that the claim gave it.
HasName(c) == c \in Claim /\ file[c.run] = [kind |-> "claimed", stamp |-> c.stamp]

Listed == {r \in Run : file[r].kind = "listed"}

\* list() gives the newest first.
IsNewest(r) == r \in Listed /\ \A u \in Listed : file[u].stamp <= file[r].stamp

\* save(): written beside and renamed; then prune() removes all but the newest
\* MaxCheckpoints that are listed.  (A crash between the two leaves one more
\* for the next save to remove.)
NewerThan(r) == {u \in Listed : file[u].stamp > file[r].stamp}
Crowded(r) == r \in Listed /\ Cardinality(NewerThan(r)) + 1 >= MaxCheckpoints
Put(r, content) ==
  /\ clock < MaxClock
  /\ file' = [u \in Run |-> IF u = r THEN Named("listed")
                            ELSE IF Crowded(u) THEN NoFile ELSE file[u]]
  /\ saved' = [saved EXCEPT ![r] = content]
  /\ clock' = clock + 1
  /\ UNCHANGED horizon

\* claim(): the rename, of a file that is still listed.
TakeFile(r) ==
  /\ clock < MaxClock /\ r \in Listed
  /\ file' = [file EXCEPT ![r] = Named("claimed")]
  /\ clock' = clock + 1
  /\ UNCHANGED <<saved, horizon>>

\* release() of a claim, and reclaimStale() of one: back under the time of
\* the claim, if it is still there.
Relisted(c) ==
  file' = IF HasName(c)
          THEN [file EXCEPT ![c.run] = [kind |-> "listed", stamp |-> c.stamp]] ELSE file

\* Mutated form of Discarded: by the run, as delete() goes by.
DiscardedByRun(c) ==
  file' = IF c \in Claim THEN [file EXCEPT ![c.run] = NoFile] ELSE file

\* settle() of a claim, if it is still there.
Discarded(c) == file' = IF HasName(c) THEN [file EXCEPT ![c.run] = NoFile] ELSE file

\* Mutated form of StaleClaims: only what is listed is looked at.
StaleListed ==
  {c \in Claim : file[c.run] = [kind |-> "listed", stamp |-> c.stamp] /\ c.stamp < horizon}

\* What reclaimStale() finds to give back.
StaleClaims == {c \in Claim : HasName(c) /\ c.stamp < horizon}

\* Time passes; claims that are old enough time out.
TimePasses ==
  /\ \E t \in (horizon + 1)..clock : horizon' = t
  /\ UNCHANGED <<file, saved, clock>>
=============================================================================
