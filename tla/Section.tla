------------------------------- MODULE Section -------------------------------
(***************************************************************************)
(* A section: a T2 manager runs its subtasks in waves of T3 workers that   *)
(* share a bus (T2Manager.runWithDependencies in                           *)
(* src/core/tiers/t2-manager.ts, T3Worker.execute and                      *)
(* coordinateFileIntents in src/core/tiers/t3-worker.ts).                  *)
(*                                                                         *)
(* T2 takes every subtask whose in-degree is zero into a wave, waits until *)
(* all its workers have settled, and then either runs the whole wave again *)
(* (once, when a worker stalled for want of a tool) or goes through them   *)
(* in order: a worker that threw is retried once, unless the run's breaker *)
(* is open, and each subtask releases its dependents however it ended.     *)
(* A worker takes the outputs of its dependencies from the bus, locks the  *)
(* files it plans to write, one after another and each for a bounded time, *)
(* works, and publishes.                                                   *)
(*                                                                         *)
(* Outside the section, and so free: how long anything takes, how a        *)
(* worker's work ends, when the budget is wrapped up, when the run is      *)
(* cancelled and when another section opens the shared breaker.            *)
(***************************************************************************)
EXTENDS PeerBus, TaskGraph

CONSTANTS
  Planned,    \* the subtasks of the plan; the others are reinforcements
  Graphs,     \* the graphs a plan may have, cycles included
  FilesOf     \* the files a subtask plans to write, sorted

ASSUME PlannedAssumption ==
  /\ IsFiniteSet(Subtask) /\ Planned \subseteq Subtask
  /\ Graphs \subseteq [Planned -> SUBSET Planned]
ASSUME FilesAssumption ==
  FilesOf \in [Subtask -> Seq(File)]

VARIABLES
  dependsOn,   \* after repair
  mode,        \* t3Execution: "parallel" or "sequential"
  pc,          \* where T2 is
  remaining, inDegree, wave, respawnBudget,
  todo,        \* subtasks of the wave whose result has not been gone through
  spawned,     \* reinforcements added
  breakerOpen,
  results,     \* resultMap
  instance,    \* which of its workers a subtask is at
  phase,       \* how far that worker is
  at,          \* the file it is at, by position
  granted      \* the files whose lock it got in time

plan == <<dependsOn, mode>>
manager == <<pc, remaining, inDegree, wave, respawnBudget, todo, spawned,
             breakerOpen>>
worker == <<instance, phase, at, granted>>
vars == <<plan, manager, results, worker, bus>>

Fulfilled == {"fulfilled", "stalled"}
Ended == Fulfilled \cup {"rejected"}
Phases == {"off", "inputs", "ask", "watch", "try", "queue", "work"} \cup Ended

Self(s) == <<s, instance[s]>>
Known == Planned \cup spawned
Dependents(s) == {m \in Subtask : s \in dependsOn[m]}
Least(S) == CHOOSE s \in S : \A m \in S : s <= m

Init ==
  /\ \E g \in Graphs :
       dependsOn = [s \in Subtask |-> IF s \in Planned THEN Repaired(g)[s] ELSE {}]
  /\ mode \in {"parallel", "sequential"}
  /\ pc = "top" /\ remaining = Planned
  /\ inDegree = [s \in Subtask |-> Cardinality(dependsOn[s])]
  /\ wave = {} /\ respawnBudget = 1 /\ todo = {} /\ spawned = {}
  /\ breakerOpen = FALSE
  /\ results = [s \in Subtask |-> "none"]
  /\ instance = [s \in Subtask |-> 1]
  /\ phase = [s \in Subtask |-> "off"]
  /\ at = [s \in Subtask |-> 1]
  /\ granted = [s \in Subtask |-> {}]
  /\ BusInit

(***************************************************************************)
(* A worker                                                                *)
(***************************************************************************)

\* Its dependencies have all completed: their outputs go into its context.
\* (waitFor() would give up after 60 s without them; InputsStand says that
\* they are there.)
TakeInputs(s) ==
  /\ phase[s] = "inputs"
  /\ \A d \in dependsOn[s] : outputs[d] = "done"
  /\ phase' = [phase EXCEPT ![s] = "ask"]
  /\ UNCHANGED <<plan, manager, results, instance, at, granted, bus>>

\* The file the worker is at, while there is one.
HasFile(s) == at[s] <= Len(FilesOf[s])
FileAt(s) == FilesOf[s][at[s]]

\* It has the lock on the file it is at, and goes on to the next.
GetLock(s) ==
  /\ Take(FileAt(s), Self(s))
  /\ granted' = [granted EXCEPT ![s] = @ \cup {FileAt(s)}]
  /\ at' = [at EXCEPT ![s] = @ + 1]
  /\ phase' = [phase EXCEPT ![s] = "ask"]

\* The next file is free and locked at once, or taken and watched; after the
\* last one publish() is wrapped and the work begins.
Ask(s) ==
  /\ phase[s] = "ask"
  /\ \/ /\ HasFile(s) /\ ~IsFileLocked(FileAt(s))
        /\ GetLock(s)
        /\ UNCHANGED <<outputs, wrapped>>
     \/ /\ HasFile(s) /\ IsFileLocked(FileAt(s))
        /\ phase' = [phase EXCEPT ![s] = "watch"]
        /\ UNCHANGED <<at, granted, bus>>
     \/ /\ ~HasFile(s)
        /\ phase' = [phase EXCEPT ![s] = "work"]
        /\ wrapped' = IF FilesOf[s] = << >> THEN wrapped ELSE wrapped \cup {Self(s)}
        /\ UNCHANGED <<at, granted, outputs, locks>>
  /\ UNCHANGED <<plan, manager, results, instance>>

\* waitForFileRelease() has had no release in 10 s.
WatchTimeout(s) ==
  /\ phase[s] = "watch"
  /\ phase' = [phase EXCEPT ![s] = "try"]
  /\ UNCHANGED <<plan, manager, results, instance, at, granted, bus>>

\* lockFile() after the watch.
TryLock(s) ==
  /\ phase[s] = "try"
  /\ \/ ~IsFileLocked(FileAt(s)) /\ GetLock(s)
     \/ /\ IsFileLocked(FileAt(s))
        /\ JoinQueue(FileAt(s), Self(s))
        /\ phase' = [phase EXCEPT ![s] = "queue"]
        /\ UNCHANGED <<at, granted>>
  /\ UNCHANGED <<plan, manager, results, instance, outputs, wrapped>>

\* Mutated form of LockTimeout: a worker that gave up takes itself to have
\* the lock.
LockTimeoutGranted(s) ==
  /\ phase[s] = "queue"
  /\ phase' = [phase EXCEPT ![s] = "ask"]
  /\ at' = [at EXCEPT ![s] = @ + 1]
  /\ granted' = [granted EXCEPT ![s] = @ \cup {FileAt(s)}]
  /\ UNCHANGED <<plan, manager, results, instance, bus>>

\* lockFile() gives up after 10 s, and the worker goes on without the lock.
LockTimeout(s) ==
  /\ phase[s] = "queue"
  /\ phase' = [phase EXCEPT ![s] = "ask"]
  /\ at' = [at EXCEPT ![s] = @ + 1]
  /\ UNCHANGED <<plan, manager, results, instance, granted, bus>>

\* A release of the files `F` wakes the worker at the head of the list of
\* one of them, if it still waits, and all who watch one of them.
IsGranted(s, F) ==
  /\ phase[s] = "queue" /\ FileAt(s) \in F
  /\ locks[FileAt(s)].waiters # << >>
  /\ Head(locks[FileAt(s)].waiters) = Self(s)
IsWoken(s, F) == phase[s] = "watch" /\ FileAt(s) \in F

\* Worker `s` publishes `status`, and its execute() resolves with a result
\* that says the same; `end` says whether it asks for a tool.
Settled(s, status, end) ==
  LET F == Freed(Self(s)) IN
  /\ Publish(Self(s), s, status)
  /\ results' = [results EXCEPT ![s] = status]
  /\ phase' = [m \in Subtask |->
                 IF m = s THEN end
                 ELSE IF IsGranted(m, F) THEN "ask"
                 ELSE IF IsWoken(m, F) THEN "try" ELSE phase[m]]
  /\ at' = [m \in Subtask |->
              IF m = s THEN 1 ELSE IF IsGranted(m, F) THEN at[m] + 1 ELSE at[m]]
  /\ granted' = [m \in Subtask |->
                   IF m = s THEN {}
                   ELSE IF IsGranted(m, F) THEN granted[m] \cup {FileAt(m)}
                   ELSE granted[m]]
  /\ UNCHANGED <<plan, manager, instance>>

\* A dependency failed: the worker publishes that it is blocked and ends.
BlockedByInput(s) ==
  /\ phase[s] = "inputs"
  /\ \E d \in dependsOn[s] : outputs[d] = "failed"
  /\ Settled(s, "failed", "fulfilled")

\* The work ends: completed, failed (or escalated), or stalled for want of a
\* tool, which is published as failed.
Finish(s) ==
  /\ phase[s] = "work"
  /\ \/ Settled(s, "done", "fulfilled")
     \/ \E end \in Fulfilled : Settled(s, "failed", end)

\* execute() rejects: something before the agent loop threw, which nothing
\* there catches, so nothing is published.
Throw(s) ==
  /\ phase[s] \in {"inputs", "work"}
  /\ phase' = [phase EXCEPT ![s] = "rejected"]
  /\ at' = [at EXCEPT ![s] = 1] /\ granted' = [granted EXCEPT ![s] = {}]
  /\ UNCHANGED <<plan, manager, results, instance, bus>>

WorkerStep(s) ==
  \/ TakeInputs(s) \/ BlockedByInput(s) \/ Ask(s) \/ WatchTimeout(s)
  \/ TryLock(s) \/ LockTimeout(s) \/ Finish(s) \/ Throw(s)

(***************************************************************************)
(* T2: the top of the loop                                                 *)
(***************************************************************************)

\* runWithDependencies() is over.
Return ==
  /\ pc = "top" /\ remaining = {}
  /\ pc' = "done"
  /\ UNCHANGED <<plan, remaining, inDegree, wave, respawnBudget, todo, spawned,
                 breakerOpen, results, worker, bus>>

\* Mutated form of SkipRest: what has run is recorded as failed with the rest.
SkipAll ==
  /\ pc = "top" /\ remaining # {}
  /\ PublishFailed(Known)
  /\ results' = [s \in Subtask |-> IF s \in Known THEN "failed" ELSE results[s]]
  /\ remaining' = {}
  /\ UNCHANGED <<plan, pc, inDegree, wave, respawnBudget, todo, spawned,
                 breakerOpen, worker>>

\* The breaker is open, or the budget is being wrapped up, which can begin at
\* any time: what remains is published and recorded as failed.
SkipRest ==
  /\ pc = "top" /\ remaining # {}
  /\ PublishFailed(remaining)
  /\ results' = [s \in Subtask |-> IF s \in remaining THEN "failed" ELSE results[s]]
  /\ remaining' = {}
  /\ UNCHANGED <<plan, pc, inDegree, wave, respawnBudget, todo, spawned,
                 breakerOpen, worker>>

Runnable == {s \in remaining : inDegree[s] = 0}

\* The next wave.  In parallel mode all its workers start at once.
StartWave ==
  /\ pc = "top" /\ ~breakerOpen /\ Runnable # {}
  /\ pc' = "wave" /\ wave' = Runnable
  /\ phase' = [s \in Subtask |->
                 IF s \in Runnable /\ mode = "parallel" THEN "inputs" ELSE phase[s]]
  /\ UNCHANGED <<plan, remaining, inDegree, respawnBudget, todo, spawned,
                 breakerOpen, results, instance, at, granted, bus>>

\* throwIfCancelled(), before the wave.
Cancelled ==
  /\ pc = "top" /\ remaining # {} /\ ~breakerOpen
  /\ pc' = "cancelled"
  /\ UNCHANGED <<plan, remaining, inDegree, wave, respawnBudget, todo, spawned,
                 breakerOpen, results, worker, bus>>

\* Sequential mode: the next worker, when the one before has settled.
StartNext ==
  /\ pc = "wave"
  /\ \A s \in wave : phase[s] \in Ended \cup {"off"}
  /\ LET off == {s \in wave : phase[s] = "off"} IN
       /\ off # {}
       /\ phase' = [phase EXCEPT ![Least(off)] = "inputs"]
  /\ UNCHANGED <<plan, manager, results, instance, at, granted, bus>>

(***************************************************************************)
(* T2: when all workers of the wave have settled                           *)
(***************************************************************************)

WaveOver == pc = "wave" /\ \A s \in wave : phase[s] \in Ended

\* A new worker for each subtask of `S`.
Renewed(S, first) ==
  /\ instance' = [s \in Subtask |-> IF s \in S THEN instance[s] + 1 ELSE instance[s]]
  /\ phase' = [s \in Subtask |-> IF s \in S THEN first ELSE phase[s]]
  /\ UNCHANGED <<at, granted>>

WantsTool == \E s \in wave : phase[s] = "stalled"

\* Mutated form of Respawn: the budget of respawns is not used up.
RespawnAgain ==
  /\ WaveOver /\ respawnBudget > 0 /\ WantsTool
  /\ ClearOutputs(wave)
  /\ instance' = instance
  /\ phase' = [s \in Subtask |-> IF s \in wave THEN "off" ELSE phase[s]]
  /\ pc' = "top" /\ wave' = {}
  /\ UNCHANGED <<plan, remaining, inDegree, respawnBudget, todo, spawned,
                 breakerOpen, results, at, granted>>

\* A worker stalled for want of a tool: it is made, the outputs of the wave
\* are cleared and the whole wave is queued again, with new workers.
Respawn ==
  /\ WaveOver /\ respawnBudget > 0 /\ WantsTool
  /\ respawnBudget' = respawnBudget - 1
  /\ ClearOutputs(wave)
  /\ Renewed(wave, "off")
  /\ inDegree' = [s \in Subtask |-> IF s \in wave THEN 0 ELSE inDegree[s]]
  /\ remaining' = remaining \cup wave
  /\ pc' = "top" /\ wave' = {}
  /\ UNCHANGED <<plan, todo, spawned, breakerOpen, results>>

\* Otherwise the results of the wave are gone through.
EndWave ==
  /\ WaveOver /\ ~(respawnBudget > 0 /\ WantsTool)
  /\ pc' = "settle" /\ todo' = wave
  /\ UNCHANGED <<plan, remaining, inDegree, wave, respawnBudget, spawned,
                 breakerOpen, results, worker, bus>>

\* A subtask is dealt with, however it ended: one dependency less for each
\* that depends on it.
ReleaseDependents(s) ==
  inDegree' = [m \in Subtask |->
                 IF m \in Dependents(s) /\ inDegree[m] > 0
                 THEN inDegree[m] - 1 ELSE inDegree[m]]

Dealt(s) == pc' = "settle" /\ todo' = todo \ {s} /\ ReleaseDependents(s)

\* Its worker had a result.
KeepResult(s) ==
  /\ pc = "settle" /\ todo # {} /\ s = Least(todo)
  /\ phase[s] \in Fulfilled
  /\ remaining' = remaining \ {s}
  /\ Dealt(s)
  /\ UNCHANGED <<plan, wave, respawnBudget, spawned, breakerOpen, results,
                 worker, bus>>

\* Its worker threw, and the breaker is open or opens on this failure.
GiveUpBroken(s) ==
  /\ pc = "settle" /\ todo # {} /\ s = Least(todo)
  /\ phase[s] = "rejected"
  /\ remaining' = remaining \ {s}
  /\ breakerOpen' = TRUE
  /\ PublishFailed({s})
  /\ results' = [results EXCEPT ![s] = "failed"]
  /\ Dealt(s)
  /\ UNCHANGED <<plan, wave, respawnBudget, spawned, worker>>

\* Its worker threw and the breaker stays shut: it is retried.
Retry(s) ==
  /\ pc = "settle" /\ todo # {} /\ s = Least(todo)
  /\ phase[s] = "rejected" /\ ~breakerOpen
  /\ remaining' = remaining \ {s}
  /\ pc' = "retry"
  /\ Renewed({s}, "inputs")
  /\ UNCHANGED <<plan, inDegree, wave, respawnBudget, todo, spawned,
                 breakerOpen, results, bus>>

\* Mutated form of RetryThrew: nothing is published.
RetryThrewSilently(s) ==
  /\ pc = "retry" /\ s = Least(todo) /\ phase[s] = "rejected"
  /\ results' = [results EXCEPT ![s] = "failed"]
  /\ Dealt(s)
  /\ UNCHANGED <<plan, remaining, wave, respawnBudget, spawned, breakerOpen,
                 worker, bus>>

\* Mutated form of RetryThrew: it is retried once more.
RetriedAgain(s) ==
  /\ pc = "retry" /\ s = Least(todo) /\ phase[s] = "rejected"
  /\ Renewed({s}, "inputs")
  /\ UNCHANGED <<plan, manager, results, bus>>

\* The retry threw too: T2 publishes that it failed.
RetryThrew(s) ==
  /\ pc = "retry" /\ s = Least(todo) /\ phase[s] = "rejected"
  /\ PublishFailed({s})
  /\ results' = [results EXCEPT ![s] = "failed"]
  /\ Dealt(s)
  /\ UNCHANGED <<plan, remaining, wave, respawnBudget, spawned, breakerOpen,
                 worker>>

\* The retry had a result.
Retried(s) ==
  /\ pc = "retry" /\ s = Least(todo) /\ phase[s] \in Fulfilled
  /\ Dealt(s)
  /\ UNCHANGED <<plan, remaining, wave, respawnBudget, spawned, breakerOpen,
                 results, worker, bus>>

\* All are dealt with.  Workers that had a result may have asked for
\* reinforcements: subtasks of their own, without dependencies.
NextWave ==
  /\ pc = "settle" /\ todo = {}
  /\ pc' = "top" /\ wave' = {}
  /\ \E S \in SUBSET (Subtask \ Known) :
       /\ S # {} => \E s \in wave \cap Planned : phase[s] \in Fulfilled
       /\ spawned' = spawned \cup S
       /\ remaining' = remaining \cup S
  /\ phase' = [s \in Subtask |-> "off"]
  /\ UNCHANGED <<plan, inDegree, respawnBudget, todo, breakerOpen, results,
                 instance, at, granted, bus>>

ManagerStep ==
  \/ Return \/ SkipRest \/ StartWave \/ Cancelled \/ StartNext
  \/ Respawn \/ EndWave \/ NextWave
  \/ \E s \in Subtask :
       KeepResult(s) \/ GiveUpBroken(s) \/ Retry(s) \/ RetryThrew(s) \/ Retried(s)

\* Another section of the run opens the breaker.
BreakerOpens ==
  /\ ~breakerOpen /\ pc \notin {"done", "cancelled"}
  /\ breakerOpen' = TRUE
  /\ UNCHANGED <<plan, pc, remaining, inDegree, wave, respawnBudget, todo,
                 spawned, results, worker, bus>>

Stopped == pc \in {"done", "cancelled"} /\ UNCHANGED vars

Next ==
  \/ ManagerStep \/ BreakerOpens \/ Stopped
  \/ \E s \in Subtask : WorkerStep(s)

\* T2 runs on; a worker's waits are all bounded, and its work ends.
Spec ==
  /\ Init /\ [][Next]_vars
  /\ WF_vars(ManagerStep)
  /\ \A s \in Subtask : WF_vars(WorkerStep(s))

(***************************************************************************)
(* Properties                                                              *)
(***************************************************************************)

\* The type invariant.  That an instance is one of three says that a subtask
\* is worked on at most three times: once, again after the one respawn, and
\* for the one retry.
TypeOK ==
  /\ dependsOn \in [Subtask -> SUBSET Planned]
  /\ mode \in {"parallel", "sequential"}
  /\ pc \in {"top", "wave", "settle", "retry", "done", "cancelled"}
  /\ remaining \subseteq Subtask /\ wave \subseteq Subtask /\ todo \subseteq wave
  /\ spawned \subseteq Subtask \ Planned
  /\ inDegree \in [Subtask -> Nat] /\ respawnBudget \in 0..1
  /\ breakerOpen \in BOOLEAN
  /\ results \in [Subtask -> Published]
  /\ instance \in [Subtask -> 1..MaxInstance]
  /\ phase \in [Subtask -> Phases]
  /\ at \in [Subtask -> Nat \ {0}]
  /\ granted \in [Subtask -> SUBSET File]
  /\ BusTypeOK

Active(s) == phase[s] \in Phases \ (Ended \cup {"off"})

\* A lock that a worker got while it waited is its own until it has ended:
\* whatever is released, handed over, timed out or run again, no other worker
\* takes it, so two workers that both got their lock never write the same
\* file at once (lockFile, releaseFile and the cleanup in
\* coordinateFileIntents).
TakenLockIsHeld ==
  \A s \in Subtask : Active(s) =>
    \A f \in granted[s] : locks[f].holder = Self(s)

\* What a worker that has begun builds on is there and stays: the outputs of
\* its dependencies are published before it starts, completed while it works,
\* and no respawn, retry or skipping takes them from under it, so the 60 s
\* wait for an output is never used (step 0 of T3Worker.execute, clearOutput
\* in T2's respawn).
InputsStand ==
  \A s \in Subtask : Active(s) =>
    \A d \in dependsOn[s] :
      /\ outputs[d] # "none"
      /\ phase[s] # "inputs" => outputs[d] = "done"

\* The subtasks that T2 is through with.
DealtWith == Known \ (remaining \cup todo)

\* The section has one story: once a subtask has been dealt with, what its
\* siblings read of it on the bus and the result that goes up to T1 are of
\* the same attempt, also after respawns, retries and skipped waves
\* (resultMap and publish in runWithDependencies).
BusAgreesWithResults ==
  \A s \in DealtWith :
    /\ outputs[s] # "none"
    /\ outputs[s] = "done" <=> results[s] = "done"

VerdictsKept ==
  \A s \in DealtWith :
    s \in DealtWith' /\ outputs'[s] = outputs[s] /\ results'[s] = results[s]

\* A verdict stands: once a subtask has been dealt with no respawn, retry or
\* skip opens it again, and nothing that is published later, by a worker or by
\* T2, replaces what its dependents have read or what T1 will be told
\* (remaining, resultMap and publish in runWithDependencies).
VerdictStands == [][VerdictsKept]_vars

\* Lock coordination is time-boxed, the respawn is done once and a graph of
\* the compiler has no cycle, so a section comes to its end whatever its
\* workers meet ("a stuck or never-released lock must never hang the actual
\* work", coordinateFileIntents).
SectionEnds == <>(pc \in {"done", "cancelled"})

\* Violated.  A worker that has published its result, which is where it gives
\* its locks back, has none any more ("Register cleanup: release all locks
\* when this worker finishes", coordinateFileIntents).
FinishedHoldsNoLock ==
  \A f \in File : \A s \in Subtask :
    phase[s] \in Fulfilled => locks[f].holder # Self(s)
=============================================================================
