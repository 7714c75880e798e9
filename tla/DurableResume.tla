---------------------------- MODULE DurableResume ----------------------------
(***************************************************************************)
(* Runs that are interrupted and resumed, in several processes that may    *)
(* crash (Cascade: prepareDurableResume, resumeRun, run, checkpointRun and *)
(* settleClaimedResume in src/core/cascade.ts).                            *)
(*                                                                         *)
(* To resume, a process gives back the claims that have timed out, lists   *)
(* the checkpoints and claims the newest.  The run it then begins starts   *)
(* from what the checkpoint holds.  A run that is interrupted saves what   *)
(* it has together with what it started from, and the claim is settled     *)
(* when the run has finished or has left a checkpoint, and given back      *)
(* otherwise.                                                              *)
(*                                                                         *)
(* How far a run has come matters when it stops and not before: it         *)
(* is chosen then.  Which process starts a run, resumes or crashes when is *)
(* free, and so is how long anything takes.  An interrupted run is also    *)
(* kept in memory (lastInterruptedRun); resumed from there it starts from  *)
(* nothing, like any new run.                                              *)
(***************************************************************************)
EXTENDS ResumeStore

CONSTANT Process

VARIABLES
  lastRun,    \* the runs begun so far
  pc,         \* where a process is
  stale,      \* the claims reclaimStale() still has to rename
  target,     \* the checkpoint found by list()
  claim,      \* claimedResumeId
  from,       \* resumedFrom
  run         \* the run it is in

process == <<pc, stale, target, claim, from, run>>
vars == <<store, lastRun, process>>

Init ==
  /\ StoreInit
  /\ lastRun = 0
  /\ pc = [p \in Process |-> "idle"]
  /\ stale = [p \in Process |-> {}]
  /\ target = [p \in Process |-> 0]
  /\ claim = [p \in Process |-> NoClaim]
  /\ from = [p \in Process |-> Nothing]
  /\ run = [p \in Process |-> 0]

(***************************************************************************)
(* prepareDurableResume()                                                  *)
(***************************************************************************)

\* reclaimStale() reads the directory.
Ask(p) ==
  /\ pc[p] = "idle"
  /\ pc' = [pc EXCEPT ![p] = "reclaim"]
  /\ stale' = [stale EXCEPT ![p] = StaleClaims]
  /\ UNCHANGED <<store, lastRun, target, claim, from, run>>

\* It renames the claims one by one.  One that is no longer there ends the
\* loop: the rename throws.
Reclaim(p) ==
  /\ pc[p] = "reclaim"
  /\ \E c \in stale[p] :
       /\ Relisted(c)
       /\ stale' = [stale EXCEPT ![p] = IF HasName(c) THEN @ \ {c} ELSE {}]
  /\ UNCHANGED <<saved, clock, horizon, lastRun, pc, target, claim, from, run>>

\* claim() lists the checkpoints.
Look(p) ==
  /\ pc[p] = "reclaim" /\ stale[p] = {}
  /\ \/ /\ Listed = {}
        /\ pc' = [pc EXCEPT ![p] = "idle"]
        /\ UNCHANGED target
     \/ /\ pc' = [pc EXCEPT ![p] = "claim"]
        /\ \E r \in Run : IsNewest(r) /\ target' = [target EXCEPT ![p] = r]
  /\ UNCHANGED <<store, lastRun, stale, claim, from, run>>

\* It renames what it found, and the run to come starts from it.
TakeClaim(p) ==
  /\ pc[p] = "claim" /\ TakeFile(target[p])
  /\ claim' = [claim EXCEPT ![p] = [run |-> target[p], stamp |-> clock]]
  /\ from' = [from EXCEPT ![p] = saved[target[p]]]
  /\ target' = [target EXCEPT ![p] = 0]
  /\ pc' = [pc EXCEPT ![p] = "prepared"]
  /\ UNCHANGED <<lastRun, stale, run>>

\* Another process was faster.
LoseClaim(p) ==
  /\ pc[p] = "claim" /\ target[p] \notin Listed
  /\ target' = [target EXCEPT ![p] = 0]
  /\ pc' = [pc EXCEPT ![p] = "idle"]
  /\ UNCHANGED <<store, lastRun, stale, claim, from, run>>

\* Nothing is left of a run.  (run() resets its fields, resumedFrom included,
\* as the next one begins without a claim; nothing reads them in between.)
Forget(p) ==
  /\ pc' = [pc EXCEPT ![p] = "idle"]
  /\ claim' = [claim EXCEPT ![p] = NoClaim]
  /\ from' = [from EXCEPT ![p] = Nothing]
  /\ run' = [run EXCEPT ![p] = 0]

\* The run does not begin: run() awaits init() first, which throws.
\* resumeRun() gives the claim back; the REPL, where handleSubmit() reports
\* a run's error itself, keeps it, and so its next run starts from it.  (So
\* does a run that is answered fast: it neither saves nor settles.)
StartFails(p) ==
  /\ pc[p] = "prepared"
  /\ \/ Relisted(claim[p]) /\ Forget(p)
     \/ /\ pc' = [pc EXCEPT ![p] = "idle"]
        /\ UNCHANGED <<file, claim, from, run>>
  /\ UNCHANGED <<saved, clock, horizon, lastRun, stale, target>>

(***************************************************************************)
(* run()                                                                   *)
(***************************************************************************)

\* A run begins, from the claim that the process holds or from nothing.
Begin(p) ==
  /\ pc[p] \in {"idle", "prepared"} /\ lastRun < MaxRuns
  /\ lastRun' = lastRun + 1
  /\ run' = [run EXCEPT ![p] = lastRun + 1]
  /\ pc' = [pc EXCEPT ![p] = "run"]
  /\ UNCHANGED <<store, stale, target, claim, from>>

Further(a, b) == IF a >= b THEN a ELSE b

\* Mutated form of Merged: what this attempt finished comes last and wins.
LastWins(new, old) ==
  [parts |-> [s \in Part |-> IF new.parts[s] # 0 THEN new.parts[s] ELSE old.parts[s]],
   root |-> IF old.root # 0 THEN old.root ELSE new.root]

\* What checkpointRun() saves: what the run finished on top of what it
\* started from, never less of a part, with the first prompt.
Merged(new, old) ==
  [parts |-> [s \in Part |-> Further(new.parts[s], old.parts[s])],
   root |-> IF old.root # 0 THEN old.root ELSE new.root]

WorthSaving(c) == \E s \in Part : c.parts[s] # 0

\* What the run itself has come to is anything.
Attempts(p) ==
  [parts : [Part -> Status], root : {run[p]}]

\* The run is interrupted (cancelled, out of budget, in error, stopped by the
\* breaker) and its checkpoint gets to disk.
Save(p) ==
  /\ pc[p] = "run"
  /\ \E attempt \in Attempts(p) :
       /\ WorthSaving(Merged(attempt, from[p]))
       /\ Put(run[p], Merged(attempt, from[p]))
  /\ pc' = [pc EXCEPT ![p] = "saved"]
  /\ UNCHANGED <<lastRun, stale, target, claim, from, run>>

\* The run is interrupted with nothing to save, or the write fails: the claim
\* is given back.
EndEmpty(p) ==
  /\ pc[p] = "run"
  /\ Relisted(claim[p]) /\ Forget(p)
  /\ UNCHANGED <<saved, clock, horizon, lastRun, stale, target>>

\* The run produces its result, and the breaker did not trip.
EndNormally(p) ==
  /\ pc[p] = "run"
  /\ pc' = [pc EXCEPT ![p] = "finished"]
  /\ UNCHANGED <<store, lastRun, stale, target, claim, from, run>>

\* settleClaimedResume(), in the finally of run(): the claim is discarded
\* when a checkpoint was written or the run finished.
Settle(p) ==
  /\ pc[p] \in {"saved", "finished"}
  /\ Discarded(claim[p]) /\ Forget(p)
  /\ UNCHANGED <<saved, clock, horizon, lastRun, stale, target>>

\* The process dies and is started again: its memory is gone.
Crash(p) ==
  /\ pc[p] # "idle" \/ claim[p] # NoClaim
  /\ stale' = [stale EXCEPT ![p] = {}]
  /\ target' = [target EXCEPT ![p] = 0]
  /\ Forget(p)
  /\ UNCHANGED <<store, lastRun>>

\* What a process does once it has been asked to.
Step(p) ==
  \/ Reclaim(p) \/ Look(p) \/ TakeClaim(p) \/ LoseClaim(p)
  \/ EndNormally(p) \/ EndEmpty(p) \/ Save(p) \/ Settle(p)

Next ==
  \/ \E p \in Process : Step(p) \/ Ask(p) \/ StartFails(p) \/ Begin(p) \/ Crash(p)
  \/ TimePasses /\ UNCHANGED <<lastRun, process>>

Spec == Init /\ [][Next]_vars /\ \A p \in Process : WF_vars(Step(p))

(***************************************************************************)
(* Properties                                                              *)
(***************************************************************************)

ProcessTypeOK ==
  /\ lastRun \in 0..MaxRuns
  /\ pc \in [Process -> {"idle", "reclaim", "claim", "prepared", "run", "saved",
                         "finished"}]
  /\ stale \in [Process -> SUBSET Claim]
  /\ target \in [Process -> 0..MaxRuns]
  /\ claim \in [Process -> Claim \cup {NoClaim}]
  /\ from \in [Process -> Content]
  /\ run \in [Process -> 0..lastRun]
  /\ \A p \in Process : pc[p] = "claim" => target[p] # 0
  /\ \A p \in Process : run[p] # 0 <=> pc[p] \in {"run", "saved", "finished"}

\* No two processes are in one run.
RunsApart == \A p, q \in Process : run[p] = run[q] /\ run[p] # 0 => p = q

\* A run that has not been saved has no file.
NotSaved(r) == saved[r] = Nothing /\ file[r] = NoFile
UnsavedBlank ==
  /\ \A r \in Run : r > lastRun => NotSaved(r)
  /\ \A p \in Process : pc[p] = "run" => NotSaved(run[p])

\* The type invariant, with what belongs together: a run belongs to one
\* process, and has no file until that process has saved it.
TypeOK == StoreTypeOK /\ ProcessTypeOK /\ RunsApart /\ UnsavedBlank

\* A claim protects what it was taken for: as long as the process that took
\* it is alive and the timeout has not passed, no other process lists,
\* claims, gives back, prunes or discards the checkpoint (claim, release,
\* settle, reclaimStale and prune of ResumeStore, which go by names).
LiveClaimStands ==
  \A p \in Process :
    claim[p] # NoClaim /\ claim[p].stamp >= horizon => HasName(claim[p])

Covers(new, old) ==
  /\ \A s \in Part : new.parts[s] >= old.parts[s]
  /\ new.root = old.root

\* Nothing recoverable is lost: a checkpoint leaves the disk only because
\* there are too many newer ones, because a run that started from it finished,
\* or because the run that started from it left one that holds every section
\* as far as it was, the draft and the first prompt ("A resumed run's checkpoint must
\* be CUMULATIVE", "Progress only goes forward here", checkpointRun; "Only
\* discard the claim when the work it protects is genuinely safe",
\* settleClaimedResume).
ProgressKept ==
  [][\A r \in Run : file[r] # NoFile /\ file'[r] = NoFile =>
       \/ Crowded(r) /\ saved' # saved
       \/ \E p \in Process :
            /\ claim[p].run = r
            /\ \/ pc[p] = "finished"
               \/ pc[p] = "saved" /\ Covers(saved[run[p]], saved[r])]_vars

\* A claim whose process died does not hide the checkpoint for good: if
\* resuming is asked for again and again, a claim that has timed out comes
\* back ("Return claims abandoned by a process that died mid-resume",
\* reclaimStale).
StrandedComesBack ==
  (\E p \in Process : []<><<Look(p)>>_vars) =>
    \A r \in Run :
      (file[r].kind = "claimed" /\ file[r].stamp < horizon)
        ~> ~(file[r].kind = "claimed" /\ file[r].stamp < horizon)

\* Violated.  "Consumes the checkpoint, so the same finished work is never
\* restored into two runs" (prepareDurableResume).
NeverRestoredTwice ==
  \A p, q \in Process :
    pc[p] = "run" /\ pc[q] = "run" /\ claim[p].run # 0 /\ claim[p].run = claim[q].run
      => p = q
=============================================================================
