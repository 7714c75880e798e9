------------------------------- MODULE PeerBus -------------------------------
(***************************************************************************)
(* The bus between the T3 workers of one section (PeerBus,                 *)
(* src/core/peer/bus.ts), as the workers and their T2 manager use it: the  *)
(* outputs of subtasks, and the locks on the files they plan to write.     *)
(*                                                                         *)
(* A worker is a subtask and the number of the instance T2 made for it: a  *)
(* wave that is run again and a retry make new ones, with an id of their   *)
(* own, so a lock of an earlier instance is not one of the later.          *)
(*                                                                         *)
(* `lockFile` leaves a closure in the list of the lock it found, and its   *)
(* timeout does not take it out; the closure that a release calls gives    *)
(* the lock to its worker, whether that still waits or not, with an empty  *)
(* list.  A worker with locks wraps the bus's `publish` in one that gives  *)
(* them back (coordinateFileIntents): `wrapped` is the workers whose       *)
(* wrapper is on.  Each wrapper puts back what it found and calls it, so   *)
(* one publication, whoever makes it, takes all of them off.               *)
(***************************************************************************)
EXTENDS Naturals, Sequences

CONSTANTS
  Subtask,    \* the ids of subtasks, in the order of the plan
  File        \* the files that workers plan to write

ASSUME SubtaskAssumption == Subtask \subseteq Nat \ {0}

VARIABLES
  outputs,    \* what has been published of each subtask
  locks,      \* fileLocks: the holder and the closures of those who wait
  wrapped     \* the workers whose wrapper of publish() is on

bus == <<outputs, locks, wrapped>>

MaxInstance == 3    \* the first, one after a respawn, one for the retry
Worker == Subtask \X (1..MaxInstance)
Nobody == <<0, 0>>
Published == {"none", "done", "failed"}

NoLock == [holder |-> Nobody, waiters |-> << >>]

BusTypeOK ==
  /\ outputs \in [Subtask -> Published]
  /\ locks \in [File -> [holder : Worker \cup {Nobody}, waiters : Seq(Worker)]]
  /\ wrapped \subseteq Worker

BusInit ==
  /\ outputs = [s \in Subtask |-> "none"]
  /\ locks = [f \in File |-> NoLock]
  /\ wrapped = {}

IsFileLocked(f) == locks[f].holder # Nobody

\* lockFile() of a file that is free, and of one that is locked.
Take(f, w) == locks' = [locks EXCEPT ![f] = [holder |-> w, waiters |-> << >>]]
JoinQueue(f, w) == locks' = [locks EXCEPT ![f].waiters = Append(@, w)]

\* releaseFile(): the closure at the head of the list, if there is one, locks
\* the file for its worker.  Those behind it are not taken along.
HandOver(lock) ==
  IF lock.waiters = << >> THEN NoLock
  ELSE [holder |-> Head(lock.waiters), waiters |-> << >>]

\* The files a publication of `w` gives back.
Freed(w) == IF w \in wrapped THEN {f \in File : locks[f].holder = w} ELSE {}

\* publish() by a worker.
Publish(w, s, status) ==
  /\ outputs' = [outputs EXCEPT ![s] = status]
  /\ locks' = [f \in File |-> IF f \in Freed(w) THEN HandOver(locks[f]) ELSE locks[f]]
  /\ wrapped' = {}

\* publish() by T2, of the subtasks in `S`, all as failed: it holds no lock.
PublishFailed(S) ==
  /\ outputs' = [s \in Subtask |-> IF s \in S THEN "failed" ELSE outputs[s]]
  /\ wrapped' = {}
  /\ UNCHANGED locks

\* Mutated form of ClearOutputs: reset() instead of clearOutput() of each.
ResetOutputs(S) == outputs' = [s \in Subtask |-> "none"] /\ UNCHANGED <<locks, wrapped>>

\* clearOutput() of the subtasks in `S`.
ClearOutputs(S) ==
  /\ outputs' = [s \in Subtask |-> IF s \in S THEN "none" ELSE outputs[s]]
  /\ UNCHANGED <<locks, wrapped>>
=============================================================================
