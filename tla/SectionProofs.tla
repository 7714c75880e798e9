--------------------------- MODULE SectionProofs ---------------------------
(***************************************************************************)
(* What is proved of a section for every finite set of subtasks, every set *)
(* of graphs over those of the plan, and every choice of files and locks:  *)
(* its type invariant with the bound on a subtask's workers, that a lock   *)
(* taken in time is held, that what a worker builds on stands, and that    *)
(* the bus and the results of T2 tell one story.                           *)
(***************************************************************************)
EXTENDS Section, FiniteSetTheorems, TLAPS

(***************************************************************************)
(* The inductive invariant                                                 *)
(***************************************************************************)

\* What has not been dealt with: it may still run, or be retried.
Open == remaining \cup todo

\* T2 and its workers: outside a wave no worker is about, while results are
\* gone through all have ended but the one that is retried.
PhaseInv ==
  /\ remaining \subseteq Known /\ wave \subseteq Known
  /\ \A s \in Subtask \ wave : phase[s] = "off"
  /\ pc \in {"top", "done", "cancelled"} => wave = {}
  /\ pc = "wave" => todo = {} /\ wave \subseteq remaining
  /\ pc = "settle" =>
       /\ todo \subseteq remaining
       /\ \A s \in wave : phase[s] \in Ended
  /\ pc = "retry" =>
       /\ todo # {} /\ phase[Least(todo)] # "off"
       /\ todo \cap remaining = todo \ {Least(todo)}
       /\ \A s \in wave \ {Least(todo)} : phase[s] \in Ended

\* How many workers a subtask has had: one, one more once the respawn is
\* used up, and one more once it has left `remaining`.
InstanceInv ==
  /\ \A s \in Subtask : instance[s] \in 1..(3 - respawnBudget)
  /\ \A s \in remaining : instance[s] <= 2 - respawnBudget
  /\ \A s \in Subtask \ Known : instance[s] = 1

\* A subtask's in-degree counts the dependencies not yet dealt with, until
\* the rest is skipped; what is in a wave waits for none.
CountInv ==
  /\ pc # "done" /\ ~(pc = "top" /\ remaining = {}) =>
       \A s \in Subtask : inDegree[s] = Cardinality(dependsOn[s] \cap Open)
  /\ \A s \in wave : dependsOn[s] \cap Open = {}

Agrees(s) == outputs[s] # "none" /\ (outputs[s] = "done" <=> results[s] = "done")

\* A worker that had a result has published it.
StoryInv ==
  /\ \A s \in Subtask : phase[s] \in Fulfilled => Agrees(s)
  /\ \A s \in Known \ Open : Agrees(s)

\* A worker that has begun, and only such a one, has locks, and all it got
\* are its own; it waits only for a file it plans to write.
LockInv ==
  /\ \A s \in Subtask : ~Active(s) => granted[s] = {} /\ at[s] = 1
  /\ \A s \in Subtask : phase[s] \in {"watch", "try", "queue"} => HasFile(s)
  /\ TakenLockIsHeld

IInv ==
  /\ TypeOK /\ PhaseInv /\ InstanceInv /\ CountInv /\ StoryInv /\ LockInv
  /\ InputsStand

(***************************************************************************)
(* Workers and subtasks                                                    *)
(***************************************************************************)

LEMMA LeastIsIn ==
  ASSUME NEW S \in SUBSET Subtask, S # {}
  PROVE  Least(S) \in S
<1> DEFINE R == OpToRel(<, Nat)
<1>1. S \subseteq Nat /\ IsWellFoundedOn(R, Nat)
  BY SubtaskAssumption, NatLessThanWellFounded
<1>2. \A a, b \in Nat : a < b => <<a, b>> \in R
  BY Zenon DEF OpToRel
<1> HIDE DEF R
<1>3. PICK s \in S : \A m \in S : <<m, s>> \notin R
  BY <1>1, WFMin, Zenon
<1>4. ASSUME NEW m \in S
      PROVE  s <= m
  <2>1. ~(m < s)
    BY <1>1, <1>2, <1>3, Zenon
  <2> QED
    BY <1>1, <2>1
<1> QED
  BY <1>4 DEF Least

\* An instance of a subtask is a worker, and of that subtask only.
LEMMA SelfIsWorker ==
  ASSUME TypeOK, NEW s \in Subtask
  PROVE  /\ Self(s) \in Worker /\ Self(s) # Nobody
         /\ \A m \in Subtask : Self(m) = Self(s) => m = s
BY SubtaskAssumption DEF TypeOK, Self, Worker, Nobody, MaxInstance

\* A worker that is at work is one of the wave, of a subtask not dealt with,
\* and waits for nothing.
LEMMA ActiveIsOpen ==
  ASSUME IInv, NEW s \in Subtask, Active(s)
  PROVE  /\ s \in wave /\ s \in Open /\ pc \in {"wave", "retry"}
         /\ dependsOn[s] \cap Open = {}
<1>1. s \in wave
  BY DEF IInv, PhaseInv, Active, Phases
<1>2. pc \in {"wave", "retry"}
  BY <1>1 DEF IInv, TypeOK, PhaseInv, Active
<1>3. s \in Open
  <2>1. CASE pc = "wave"
    BY <1>1, <2>1 DEF IInv, PhaseInv, Open
  <2>2. CASE pc = "retry"
    <3>1. s = Least(todo) /\ todo # {} /\ todo \subseteq Subtask
      BY <1>1, <2>2 DEF IInv, TypeOK, PhaseInv, Active
    <3> QED
      BY <3>1, LeastIsIn DEF Open
  <2> QED
    BY <1>2, <2>1, <2>2
<1> QED
  BY <1>1, <1>2, <1>3 DEF IInv, CountInv

\* What a subtask waits for no more has been dealt with.
LEMMA ClosedDependency ==
  ASSUME IInv, NEW s \in Subtask, NEW d \in dependsOn[s], d \notin Open
  PROVE  d \in Subtask /\ d \in Known \ Open /\ Agrees(d)
BY PlannedAssumption DEF IInv, TypeOK, Known, StoryInv

(***************************************************************************)
(* A worker's steps                                                        *)
(***************************************************************************)

Beside == <<plan, manager, instance>>

\* T2 is where it was when no worker starts and none that ended moves.
LEMMA WorkerKeepsManager ==
  ASSUME IInv, UNCHANGED Beside,
         \A m \in Subtask : /\ phase'[m] = "off" <=> phase[m] = "off"
                            /\ phase[m] \in Ended => phase'[m] = phase[m]
  PROVE  PhaseInv' /\ InstanceInv' /\ CountInv'
<1>1. UNCHANGED <<dependsOn, pc, remaining, inDegree, wave, respawnBudget, todo, spawned, instance>>
  BY DEF Beside, plan, manager
<1>2. InstanceInv' /\ CountInv'
  BY <1>1 DEF IInv, InstanceInv, CountInv, Open, Known
<1>3. Least(todo)' = Least(todo) /\ wave \subseteq Subtask
  BY <1>1 DEF Least, IInv, TypeOK
<1>4. todo # {} => Least(todo) \in Subtask
  BY LeastIsIn DEF IInv, TypeOK
<1>5. PhaseInv'
  BY <1>1, <1>3, <1>4 DEF IInv, PhaseInv, Known
<1> QED
  BY <1>2, <1>5

\* A step that publishes nothing leaves the story as it is, and what a
\* worker builds on, if who goes beyond its inputs has seen them.
LEMMA WorkerKeepsStory ==
  ASSUME IInv, UNCHANGED Beside, UNCHANGED <<outputs, results>>,
         \A m \in Subtask :
           /\ phase'[m] \in Fulfilled => phase[m] \in Fulfilled
           /\ Active(m)' => Active(m)
           /\ Active(m)' /\ phase[m] = "inputs" /\ phase'[m] # "inputs" =>
                \A d \in dependsOn[m] : outputs[d] = "done"
  PROVE  StoryInv' /\ InputsStand'
<1>1. UNCHANGED <<dependsOn, pc, remaining, todo, spawned>>
  BY DEF Beside, plan, manager
<1>2. StoryInv'
  BY <1>1 DEF IInv, StoryInv, Agrees, Known, Open
<1>3. InputsStand'
  BY <1>1 DEF IInv, InputsStand
<1> QED
  BY <1>2, <1>3

LEMMA TakeInputsKeeps ==
  ASSUME IInv, NEW s \in Subtask, TakeInputs(s)
  PROVE  IInv'
<1>1. /\ phase \in [Subtask -> Phases] /\ phase[s] = "inputs"
      /\ phase' = [phase EXCEPT ![s] = "ask"]
      /\ UNCHANGED <<Beside, results, at, granted, bus, outputs, locks>>
  BY DEF IInv, TypeOK, TakeInputs, Beside, bus
<1>2. /\ phase' \in [Subtask -> Phases] /\ phase'[s] = "ask"
      /\ \A m \in Subtask \ {s} : phase'[m] = phase[m]
  BY <1>1 DEF Phases
<1>3. PhaseInv' /\ InstanceInv' /\ CountInv'
  BY <1>1, <1>2, WorkerKeepsManager DEF Ended, Fulfilled
<1>4. StoryInv' /\ InputsStand'
  BY <1>1, <1>2, WorkerKeepsStory DEF TakeInputs, Active, Ended, Fulfilled, Phases
<1>5. TypeOK'
  BY <1>1, <1>2 DEF IInv, TypeOK, BusTypeOK, TakeInputs, plan, manager, bus
<1>6. LockInv'
  <2>1. UNCHANGED <<instance, at, granted, locks>>
    BY DEF TakeInputs, bus
  <2>2. \A m \in Subtask : Active(m)' <=> Active(m)
    BY <1>1, <1>2 DEF Active, Phases, Ended, Fulfilled
  <2> QED
    BY <1>1, <1>2, <2>1, <2>2 DEF IInv, LockInv, TakenLockIsHeld, HasFile, Self
<1> QED
  BY <1>3, <1>4, <1>5, <1>6 DEF IInv

\* A lock that is free is taken by who asks for it.
LEMMA GetLockKeeps ==
  ASSUME IInv, NEW s \in Subtask, phase[s] \in {"ask", "try"}, HasFile(s),
         ~IsFileLocked(FileAt(s)), GetLock(s),
         UNCHANGED <<plan, manager, results, instance, outputs, wrapped>>
  PROVE  IInv'
<1> DEFINE f == FileAt(s)
<1>1. /\ phase \in [Subtask -> Phases] /\ at \in [Subtask -> Nat \ {0}]
      /\ granted \in [Subtask -> SUBSET File] /\ BusTypeOK
      /\ Self(s) \in Worker
      /\ \A m \in Subtask : instance'[m] = instance[m]
      /\ UNCHANGED Beside /\ UNCHANGED <<outputs, results>>
  BY SelfIsWorker DEF IInv, TypeOK, Beside
<1>2. f \in File
  BY <1>1, FilesAssumption DEF FileAt, HasFile
<1>3. /\ phase' \in [Subtask -> Phases] /\ phase'[s] = "ask"
      /\ at' \in [Subtask -> Nat \ {0}]
      /\ granted' \in [Subtask -> SUBSET File]
      /\ granted'[s] = granted[s] \cup {f}
      /\ \A m \in Subtask \ {s} :
           phase'[m] = phase[m] /\ at'[m] = at[m] /\ granted'[m] = granted[m]
  BY <1>1, <1>2 DEF GetLock, Phases
<1>4. /\ locks' \in [File -> [holder : Worker \cup {Nobody}, waiters : Seq(Worker)]]
      /\ locks'[f].holder = Self(s) /\ locks[f].holder = Nobody
      /\ \A g \in File \ {f} : locks'[g] = locks[g]
  <2>1. [holder |-> Self(s), waiters |-> << >>]
          \in [holder : Worker \cup {Nobody}, waiters : Seq(Worker)]
    BY <1>1
  <2> QED
    BY <1>1, <1>2, <2>1 DEF GetLock, Take, IsFileLocked, BusTypeOK
<1> HIDE DEF f
<1>5. TypeOK'
  BY <1>1, <1>3, <1>4 DEF IInv, TypeOK, BusTypeOK, plan, manager
<1>6. \A m \in Subtask : Active(m)' <=> Active(m)
  BY <1>3 DEF Active, Phases, Ended, Fulfilled
<1>7. PhaseInv' /\ InstanceInv' /\ CountInv'
  BY <1>1, <1>3, WorkerKeepsManager DEF Ended, Fulfilled
<1>8. StoryInv' /\ InputsStand'
  BY <1>1, <1>3, <1>6, WorkerKeepsStory DEF Ended, Fulfilled
<1>9. TakenLockIsHeld'
  <2> SUFFICES ASSUME NEW m \in Subtask, Active(m)', NEW g \in granted'[m]
               PROVE  locks'[g].holder = Self(m)'
    BY DEF TakenLockIsHeld
  <2>1. Self(m)' = Self(m) /\ Self(m) # Nobody /\ g \in File
    BY <1>1, <1>3, SelfIsWorker DEF Self, IInv
  <2>2. CASE m = s /\ g = f
    BY <1>4, <2>1, <2>2
  <2>3. CASE g \in granted[m]
    <3>1. locks[g].holder = Self(m)
      BY <1>6, <2>3 DEF IInv, LockInv, TakenLockIsHeld
    <3> QED
      BY <1>4, <2>1, <3>1
  <2> QED
    BY <1>3, <2>2, <2>3
<1>10. LockInv'
  <2>1. \A m \in Subtask : ~Active(m)' => granted'[m] = {} /\ at'[m] = 1
    BY <1>3, <1>6 DEF IInv, LockInv, Active, Phases, Ended, Fulfilled
  <2>2. \A m \in Subtask : phase'[m] \in {"watch", "try", "queue"} => HasFile(m)'
    BY <1>3 DEF IInv, LockInv, HasFile
  <2> QED
    BY <1>9, <2>1, <2>2 DEF LockInv
<1> QED
  BY <1>5, <1>7, <1>8, <1>10 DEF IInv

\* A step of a worker between two files, that leaves every lock with its
\* holder.
LEMMA BetweenLocksKeeps ==
  ASSUME IInv, NEW s \in Subtask, NEW p \in {"ask", "watch", "try", "queue", "work"},
         phase[s] \in {"ask", "watch", "try", "queue"},
         phase' = [phase EXCEPT ![s] = p],
         p \in {"watch", "try", "queue"} => HasFile(s) /\ at' = at,
         \/ at' = at
         \/ at' = [at EXCEPT ![s] = @ + 1],
         BusTypeOK', \A f \in File : locks'[f].holder = locks[f].holder,
         UNCHANGED <<plan, manager, results, instance, outputs, granted>>
  PROVE  IInv'
<1>1. /\ phase \in [Subtask -> Phases] /\ at \in [Subtask -> Nat \ {0}]
      /\ granted \in [Subtask -> SUBSET File]
      /\ UNCHANGED Beside /\ UNCHANGED <<outputs, results>>
  BY DEF IInv, TypeOK, Beside
<1>2. /\ phase' \in [Subtask -> Phases] /\ phase'[s] = p
      /\ at' \in [Subtask -> Nat \ {0}]
      /\ \A m \in Subtask \ {s} : phase'[m] = phase[m] /\ at'[m] = at[m]
  BY <1>1 DEF Phases
<1>3. TypeOK'
  BY <1>1, <1>2 DEF IInv, TypeOK, plan, manager
<1>4. \A m \in Subtask : Active(m)' <=> Active(m)
  BY <1>2 DEF Active, Phases, Ended, Fulfilled
<1>5. PhaseInv' /\ InstanceInv' /\ CountInv'
  BY <1>1, <1>2, WorkerKeepsManager DEF Ended, Fulfilled
<1>6. StoryInv' /\ InputsStand'
  BY <1>1, <1>2, <1>4, WorkerKeepsStory DEF Ended, Fulfilled
<1>7. TakenLockIsHeld'
  BY <1>1, <1>4 DEF IInv, LockInv, TakenLockIsHeld, Self
<1>8. LockInv'
  <2>1. \A m \in Subtask : ~Active(m)' => granted'[m] = {} /\ at'[m] = 1
    BY <1>2, <1>4 DEF IInv, LockInv, Active, Phases, Ended, Fulfilled
  <2>2. \A m \in Subtask : phase'[m] \in {"watch", "try", "queue"} => HasFile(m)'
    BY <1>2 DEF IInv, LockInv, HasFile
  <2> QED
    BY <1>7, <2>1, <2>2 DEF LockInv
<1> QED
  BY <1>3, <1>5, <1>6, <1>8 DEF IInv

LEMMA AskKeeps ==
  ASSUME IInv, NEW s \in Subtask, Ask(s)
  PROVE  IInv'
<1>1. phase[s] = "ask" /\ UNCHANGED <<plan, manager, results, instance>>
  BY DEF Ask
<1>2. CASE /\ HasFile(s) /\ ~IsFileLocked(FileAt(s))
           /\ GetLock(s) /\ UNCHANGED <<outputs, wrapped>>
  BY <1>1, <1>2, GetLockKeeps
<1>3. CASE /\ HasFile(s) /\ phase' = [phase EXCEPT ![s] = "watch"]
           /\ UNCHANGED <<at, granted, bus>>
  <2>1. BusTypeOK' /\ UNCHANGED <<outputs, locks>>
    BY <1>3 DEF IInv, TypeOK, BusTypeOK, bus
  <2> QED
    BY <1>1, <1>3, <2>1, BetweenLocksKeeps
<1>4. CASE /\ phase' = [phase EXCEPT ![s] = "work"]
           /\ wrapped' = IF FilesOf[s] = << >> THEN wrapped ELSE wrapped \cup {Self(s)}
           /\ UNCHANGED <<at, granted, outputs, locks>>
  <2>1. BusTypeOK'
    BY <1>4, SelfIsWorker DEF IInv, TypeOK, BusTypeOK
  <2> QED
    BY <1>1, <1>4, <2>1, BetweenLocksKeeps
<1> QED
  BY <1>2, <1>3, <1>4 DEF Ask

LEMMA WatchTimeoutKeeps ==
  ASSUME IInv, NEW s \in Subtask, WatchTimeout(s)
  PROVE  IInv'
<1>1. BusTypeOK' /\ HasFile(s) /\ UNCHANGED <<outputs, locks>>
  BY DEF IInv, TypeOK, BusTypeOK, LockInv, WatchTimeout, bus
<1> QED
  BY <1>1, BetweenLocksKeeps DEF WatchTimeout

LEMMA LockTimeoutKeeps ==
  ASSUME IInv, NEW s \in Subtask, LockTimeout(s)
  PROVE  IInv'
<1>1. BusTypeOK' /\ UNCHANGED <<outputs, locks>>
  BY DEF IInv, TypeOK, BusTypeOK, LockTimeout, bus
<1> QED
  BY <1>1, BetweenLocksKeeps DEF LockTimeout

LEMMA TryLockKeeps ==
  ASSUME IInv, NEW s \in Subtask, TryLock(s)
  PROVE  IInv'
<1>1. /\ phase[s] = "try" /\ HasFile(s)
      /\ UNCHANGED <<plan, manager, results, instance, outputs, wrapped>>
  BY DEF TryLock, IInv, LockInv
<1>2. CASE ~IsFileLocked(FileAt(s)) /\ GetLock(s)
  BY <1>1, <1>2, GetLockKeeps
<1>3. CASE /\ JoinQueue(FileAt(s), Self(s))
           /\ phase' = [phase EXCEPT ![s] = "queue"] /\ UNCHANGED <<at, granted>>
  <2> DEFINE f == FileAt(s)
  <2>1. f \in File /\ Self(s) \in Worker /\ BusTypeOK
    BY <1>1, FilesAssumption, SelfIsWorker DEF IInv, TypeOK, FileAt, HasFile
  <2>2. locks' = [locks EXCEPT ![f].waiters = Append(@, Self(s))]
    BY <1>3 DEF JoinQueue
  <2> HIDE DEF f
  <2>3. Append(locks[f].waiters, Self(s)) \in Seq(Worker)
    BY <2>1 DEF BusTypeOK
  <2> DEFINE q == Append(locks[f].waiters, Self(s))
  <2>4. locks' = [locks EXCEPT ![f].waiters = q] /\ q \in Seq(Worker)
    BY <2>2, <2>3
  <2> HIDE DEF q
  <2>5. BusTypeOK' /\ \A g \in File : locks'[g].holder = locks[g].holder
    BY <1>1, <2>1, <2>4 DEF BusTypeOK
  <2> QED
    BY <1>1, <1>3, <2>5, BetweenLocksKeeps
<1> QED
  BY <1>2, <1>3 DEF TryLock

LEMMA ThrowKeeps ==
  ASSUME IInv, NEW s \in Subtask, Throw(s)
  PROVE  IInv'
<1>1. /\ phase \in [Subtask -> Phases] /\ at \in [Subtask -> Nat \ {0}]
      /\ granted \in [Subtask -> SUBSET File]
      /\ phase[s] \in {"inputs", "work"}
      /\ UNCHANGED Beside /\ UNCHANGED <<outputs, locks, results, instance>>
  BY DEF IInv, TypeOK, Throw, Beside, bus
<1>2. /\ phase' \in [Subtask -> Phases] /\ phase'[s] = "rejected"
      /\ at' \in [Subtask -> Nat \ {0}] /\ at'[s] = 1
      /\ granted' \in [Subtask -> SUBSET File] /\ granted'[s] = {}
      /\ \A m \in Subtask \ {s} :
           phase'[m] = phase[m] /\ at'[m] = at[m] /\ granted'[m] = granted[m]
  BY <1>1 DEF Throw, Phases, Ended
<1>3. TypeOK'
  BY <1>1, <1>2 DEF IInv, TypeOK, BusTypeOK, Throw, plan, manager, bus
<1>4. \A m \in Subtask : Active(m)' <=> Active(m) /\ m # s
  BY <1>2 DEF Active, Phases, Ended
<1>5. PhaseInv' /\ InstanceInv' /\ CountInv'
  BY <1>1, <1>2, WorkerKeepsManager DEF Ended, Fulfilled
<1>6. StoryInv' /\ InputsStand'
  BY <1>1, <1>2, <1>4, WorkerKeepsStory DEF Ended, Fulfilled
<1>7. LockInv'
  BY <1>1, <1>2, <1>4 DEF IInv, LockInv, TakenLockIsHeld, HasFile, Self
<1> QED
  BY <1>3, <1>5, <1>6, <1>7 DEF IInv

(***************************************************************************)
(* A worker ends                                                           *)
(***************************************************************************)

\* What a publication does to the bus: the files given back go to the first
\* who waits for them or are free, the others are left alone.
LEMMA PublishEffect ==
  ASSUME TypeOK, NEW s \in Subtask, NEW status \in Published,
         Publish(Self(s), s, status)
  PROVE  /\ BusTypeOK'
         /\ outputs' = [outputs EXCEPT ![s] = status]
         /\ \A f \in File : locks[f].holder # Self(s) => locks'[f] = locks[f]
         /\ \A f \in Freed(Self(s)) :
              locks[f].waiters # << >> => locks'[f].holder = Head(locks[f].waiters)
<1>1. BusTypeOK
  BY DEF TypeOK
<1>2. \A f \in File :
        HandOver(locks[f]) \in [holder : Worker \cup {Nobody}, waiters : Seq(Worker)]
  <2> SUFFICES ASSUME NEW f \in File
               PROVE  HandOver(locks[f]) \in [holder : Worker \cup {Nobody}, waiters : Seq(Worker)]
    OBVIOUS
  <2>1. locks[f].waiters \in Seq(Worker)
    BY <1>1 DEF BusTypeOK
  <2>2. CASE locks[f].waiters = << >>
    BY <2>2 DEF HandOver, NoLock
  <2>3. CASE locks[f].waiters # << >>
    <3>1. Head(locks[f].waiters) \in Worker
      BY <2>1, <2>3
    <3> QED
      BY <2>3, <3>1 DEF HandOver
  <2> QED
    BY <2>2, <2>3
<1>3. Freed(Self(s)) \subseteq {f \in File : locks[f].holder = Self(s)}
  BY DEF Freed
<1>4. locks' = [f \in File |-> IF f \in Freed(Self(s)) THEN HandOver(locks[f]) ELSE locks[f]]
  BY DEF Publish
<1>5. BusTypeOK'
  BY <1>1, <1>2, <1>4 DEF BusTypeOK, Publish
<1>6. \A f \in File : locks[f].holder # Self(s) => locks'[f] = locks[f]
  BY <1>3, <1>4
<1>7. \A f \in Freed(Self(s)) :
        locks[f].waiters # << >> => locks'[f].holder = Head(locks[f].waiters)
  BY <1>3, <1>4 DEF HandOver
<1> QED
  BY <1>5, <1>6, <1>7 DEF Publish

LEMMA SettledKeeps ==
  ASSUME IInv, NEW s \in Subtask, phase[s] \in {"inputs", "work"},
         NEW status \in {"done", "failed"}, NEW end \in Fulfilled,
         Settled(s, status, end)
  PROVE  IInv'
<1> DEFINE F == Freed(Self(s))
<1>1. /\ phase \in [Subtask -> Phases] /\ at \in [Subtask -> Nat \ {0}]
      /\ granted \in [Subtask -> SUBSET File] /\ results \in [Subtask -> Published]
      /\ outputs \in [Subtask -> Published]
      /\ Active(s) /\ F \subseteq File
      /\ UNCHANGED Beside /\ UNCHANGED instance
  BY DEF IInv, TypeOK, BusTypeOK, Settled, Beside, Active, Phases, Ended, Fulfilled, Freed
<1>2. \A m \in Subtask : IsGranted(m, F) => FileAt(m) \in F /\ phase[m] = "queue"
  BY DEF IsGranted
<1>3. \A m \in Subtask : IsWoken(m, F) => phase[m] = "watch"
  BY DEF IsWoken
<1>4. /\ phase' \in [Subtask -> Phases]
      /\ at' \in [Subtask -> Nat \ {0}]
      /\ granted' \in [Subtask -> SUBSET File]
      /\ results' = [results EXCEPT ![s] = status] /\ results' \in [Subtask -> Published]
  <2> HIDE DEF F
  <2>1. phase' \in [Subtask -> Phases]
    BY <1>1 DEF Settled, Phases, Ended, F
  <2>2. at' \in [Subtask -> Nat \ {0}]
    BY <1>1 DEF Settled, F
  <2>3. granted' \in [Subtask -> SUBSET File]
    BY <1>1, <1>2 DEF Settled, F
  <2> QED
    BY <1>1, <2>1, <2>2, <2>3 DEF Settled, Published
<1>5. phase'[s] = end /\ at'[s] = 1 /\ granted'[s] = {}
  BY DEF Settled
<1>6. ASSUME NEW m \in Subtask \ {s}
      PROVE  \/ /\ IsGranted(m, F)
                /\ phase[m] = "queue" /\ phase'[m] = "ask"
                /\ granted'[m] = granted[m] \cup {FileAt(m)}
             \/ /\ phase[m] = "watch" /\ phase'[m] = "try"
                /\ at'[m] = at[m] /\ granted'[m] = granted[m]
             \/ phase'[m] = phase[m] /\ at'[m] = at[m] /\ granted'[m] = granted[m]
  BY <1>2, <1>3 DEF Settled
<1>7. /\ BusTypeOK' /\ outputs' = [outputs EXCEPT ![s] = status]
      /\ \A f \in File : locks[f].holder # Self(s) => locks'[f] = locks[f]
      /\ \A f \in F : locks[f].waiters # << >> => locks'[f].holder = Head(locks[f].waiters)
  BY PublishEffect DEF Settled, IInv, Published
<1>8. TypeOK'
  BY <1>1, <1>4, <1>7 DEF IInv, TypeOK, Beside, plan, manager
<1>9. \A m \in Subtask : Active(m)' <=> Active(m) /\ m # s
  BY <1>5, <1>6 DEF Active, Phases, Ended, Fulfilled
<1> HIDE DEF F
<1>10. PhaseInv' /\ InstanceInv' /\ CountInv'
  BY <1>1, <1>5, <1>6, WorkerKeepsManager DEF Ended, Fulfilled
<1>11. s \in Open
  BY <1>1, ActiveIsOpen
<1>12. \A m \in Subtask \ {s} : outputs'[m] = outputs[m] /\ results'[m] = results[m]
  BY <1>1, <1>4, <1>7
<1>13. outputs'[s] = status /\ results'[s] = status
  BY <1>1, <1>4, <1>7
<1>14. UNCHANGED <<dependsOn, remaining, todo, spawned>>
  BY <1>1 DEF Beside, plan, manager
<1>15. StoryInv'
  <2>1. \A m \in Subtask : phase'[m] \in Fulfilled => Agrees(m)'
    BY <1>5, <1>6, <1>12, <1>13 DEF IInv, StoryInv, Agrees, Fulfilled
  <2>2. \A m \in Known \ Open : Agrees(m)'
    BY <1>11, <1>12, PlannedAssumption DEF IInv, TypeOK, StoryInv, Agrees, Known
  <2> QED
    BY <1>14, <2>1, <2>2 DEF StoryInv, Known, Open
<1>16. InputsStand'
  <2> SUFFICES ASSUME NEW m \in Subtask, Active(m)', NEW d \in dependsOn[m]
               PROVE  /\ outputs'[d] # "none"
                      /\ phase'[m] # "inputs" => outputs'[d] = "done"
    BY <1>14 DEF InputsStand
  <2>1. Active(m) /\ m # s
    BY <1>9
  <2>2. d \notin Open /\ d \in Subtask
    BY <2>1, ActiveIsOpen, PlannedAssumption DEF IInv, TypeOK
  <2>3. outputs'[d] = outputs[d]
    BY <1>11, <1>12, <2>2
  <2>4. phase'[m] # "inputs" => phase[m] # "inputs"
    BY <1>6, <2>1
  <2> QED
    BY <2>1, <2>3, <2>4 DEF IInv, InputsStand
<1>17. TakenLockIsHeld'
  <2> SUFFICES ASSUME NEW m \in Subtask, Active(m)', NEW f \in granted'[m]
               PROVE  locks'[f].holder = Self(m)'
    BY DEF TakenLockIsHeld
  <2>1. Active(m) /\ m # s /\ f \in File /\ Self(m)' = Self(m) /\ Self(m) # Self(s)
    BY <1>1, <1>4, <1>9, SelfIsWorker DEF IInv, Self
  <2>2. CASE f \in granted[m]
    <3>1. locks[f].holder = Self(m)
      BY <2>1, <2>2 DEF IInv, LockInv, TakenLockIsHeld
    <3> QED
      BY <1>7, <2>1, <3>1
  <2>3. CASE IsGranted(m, F) /\ f = FileAt(m)
    BY <1>7, <2>1, <2>3 DEF IsGranted
  <2> QED
    BY <1>6, <2>1, <2>2, <2>3
<1>18. LockInv'
  <2>1. \A m \in Subtask : ~Active(m)' => granted'[m] = {} /\ at'[m] = 1
    BY <1>5, <1>6, <1>9 DEF IInv, LockInv, Active, Phases, Ended, Fulfilled
  <2>2. \A m \in Subtask : phase'[m] \in {"watch", "try", "queue"} => HasFile(m)'
    BY <1>5, <1>6 DEF IInv, LockInv, HasFile, Fulfilled
  <2> QED
    BY <1>17, <2>1, <2>2 DEF LockInv
<1> QED
  BY <1>8, <1>10, <1>15, <1>16, <1>18 DEF IInv

LEMMA WorkerKeeps ==
  ASSUME IInv, NEW s \in Subtask, WorkerStep(s)
  PROVE  IInv'
<1>1. ASSUME BlockedByInput(s)
      PROVE  IInv'
  BY <1>1, SettledKeeps DEF BlockedByInput, Fulfilled
<1>2. ASSUME Finish(s)
      PROVE  IInv'
  BY <1>2, SettledKeeps DEF Finish, Fulfilled
<1> QED
  BY <1>1, <1>2, TakeInputsKeeps, AskKeeps, WatchTimeoutKeeps, TryLockKeeps,
     LockTimeoutKeeps, ThrowKeeps DEF WorkerStep

(***************************************************************************)
(* T2 goes through the results                                             *)
(***************************************************************************)

LEMMA SameWorkersKeepLocks ==
  ASSUME IInv, UNCHANGED <<worker, locks>>
  PROVE  LockInv'
BY DEF IInv, LockInv, TakenLockIsHeld, Active, HasFile, Self, worker

\* What workers build on is untouched when only what is not dealt with
\* changes on the bus, and who starts waits for nothing.
LEMMA StartsKeepInputs ==
  ASSUME IInv, UNCHANGED dependsOn,
         \A d \in Subtask \ Open : outputs'[d] = outputs[d],
         \A m \in Subtask : Active(m)' =>
           \/ Active(m) /\ phase'[m] = phase[m]
           \/ phase'[m] = "inputs" /\ dependsOn[m] \cap Open = {}
  PROVE  InputsStand'
<1> SUFFICES ASSUME NEW m \in Subtask, Active(m)', NEW d \in dependsOn[m]
             PROVE  /\ outputs'[d] # "none"
                    /\ phase'[m] # "inputs" => outputs'[d] = "done"
  BY DEF InputsStand
<1>1. d \notin Open
  BY ActiveIsOpen
<1>2. d \in Subtask /\ Agrees(d) /\ outputs'[d] = outputs[d]
  BY <1>1, ClosedDependency
<1> QED
  BY <1>2 DEF IInv, InputsStand, Agrees

\* The dependencies of a subtask that are still open are finitely many.
LEMMA OpenDependencies ==
  ASSUME TypeOK, NEW m \in Subtask
  PROVE  LET D == dependsOn[m] \cap Open IN
         /\ IsFiniteSet(D) /\ Cardinality(D) \in Nat
         /\ Cardinality(D) = 0 <=> D = {}
<1> DEFINE D == dependsOn[m] \cap Open
<1>1. IsFiniteSet(D)
  BY PlannedAssumption, FS_Subset DEF TypeOK
<1> HIDE DEF D
<1>2. Cardinality(D) \in Nat /\ (Cardinality(D) = 0 <=> D = {})
  BY <1>1, FS_CardinalityType, FS_EmptySet
<1> QED
  BY <1>1, <1>2 DEF D

\* A subtask that is dealt with, however it ended: its story is told and its
\* dependents wait for one less.
LEMMA DealtKeeps ==
  ASSUME IInv, NEW s \in Subtask, pc \in {"settle", "retry"}, todo # {},
         s = Least(todo), phase[s] \in Ended,
         Dealt(s), remaining' = remaining \ {s},
         Agrees(s)',
         \A m \in Subtask \ {s} : outputs'[m] = outputs[m] /\ results'[m] = results[m],
         BusTypeOK', results' \in [Subtask -> Published], breakerOpen' \in BOOLEAN,
         UNCHANGED <<plan, wave, respawnBudget, spawned, worker, locks>>
  PROVE  IInv'
<1>1. /\ TypeOK /\ wave \subseteq Subtask /\ s \in todo /\ todo \subseteq wave
      /\ remaining \subseteq Subtask
      /\ inDegree \in [Subtask -> Nat]
  BY LeastIsIn DEF IInv, TypeOK
<1>2. /\ pc' = "settle" /\ todo' = todo \ {s}
      /\ inDegree' = [m \in Subtask |->
                        IF m \in Dependents(s) /\ inDegree[m] > 0
                        THEN inDegree[m] - 1 ELSE inDegree[m]]
      /\ UNCHANGED <<dependsOn, mode, wave, respawnBudget, spawned, instance,
                     phase, at, granted>>
  BY DEF Dealt, ReleaseDependents, plan, worker
<1>3. inDegree' \in [Subtask -> Nat]
  BY <1>1, <1>2
<1>4. TypeOK'
  BY <1>1, <1>2, <1>3 DEF TypeOK
<1>5. PhaseInv'
  BY <1>1, <1>2 DEF IInv, PhaseInv, Known
<1>6. InstanceInv'
  BY <1>2 DEF IInv, InstanceInv, Known
<1>7. Open' = Open \ {s} /\ s \in Open
  BY <1>1, <1>2 DEF Open
<1>8. ASSUME NEW m \in Subtask
      PROVE  inDegree'[m] = Cardinality(dependsOn[m] \cap (Open \ {s}))
  <2>1. inDegree[m] = Cardinality(dependsOn[m] \cap Open) /\ inDegree[m] \in Nat
    BY <1>1 DEF IInv, CountInv
  <2>2. inDegree'[m] = IF s \in dependsOn[m] /\ inDegree[m] > 0
                       THEN inDegree[m] - 1 ELSE inDegree[m]
    BY <1>2 DEF Dependents
  <2> DEFINE D == dependsOn[m] \cap Open
  <2>3. /\ IsFiniteSet(D) /\ Cardinality(D) \in Nat /\ (Cardinality(D) = 0 <=> D = {})
        /\ s \in D <=> s \in dependsOn[m]
        /\ D \ {s} = dependsOn[m] \cap (Open \ {s})
        /\ inDegree[m] = Cardinality(D)
    BY <1>1, <1>7, <2>1, OpenDependencies
  <2> HIDE DEF D
  <2>4. Cardinality(D \ {s}) = IF s \in D THEN Cardinality(D) - 1 ELSE Cardinality(D)
    BY <2>3, FS_RemoveElement
  <2>5. inDegree'[m] = Cardinality(D \ {s})
    BY <2>2, <2>3, <2>4
  <2> QED
    BY <2>3, <2>5
<1>9. CountInv'
  BY <1>1, <1>2, <1>7, <1>8 DEF IInv, CountInv
<1>10. StoryInv'
  <2>1. \A m \in Subtask : phase[m] \in Fulfilled => Agrees(m)'
    BY DEF IInv, StoryInv, Agrees
  <2>2. \A m \in Known \ (Open \ {s}) : Agrees(m)'
    BY PlannedAssumption DEF IInv, TypeOK, StoryInv, Agrees, Known
  <2> QED
    BY <1>2, <1>7, <2>1, <2>2 DEF StoryInv, Known
<1>11. InputsStand'
  BY <1>2, <1>7, StartsKeepInputs DEF Active
<1> QED
  BY <1>4, <1>5, <1>6, <1>9, <1>10, <1>11, SameWorkersKeepLocks DEF IInv

\* In a retry, the subtask retried is one of the wave, and no longer in
\* `remaining`.
LEMMA RetriedIsOut ==
  ASSUME IInv, pc = "retry"
  PROVE  /\ todo # {} /\ remaining \ {Least(todo)} = remaining
         /\ Least(todo) \in todo
<1>1. todo # {} /\ Least(todo) \in todo
  BY LeastIsIn DEF IInv, PhaseInv, TypeOK
<1> QED
  BY <1>1 DEF IInv, PhaseInv

\* What T2's publication that one subtask failed leaves.
LEMMA FailedTold ==
  ASSUME TypeOK, NEW s \in Subtask, PublishFailed({s}),
         results' = [results EXCEPT ![s] = "failed"]
  PROVE  /\ Agrees(s)' /\ BusTypeOK' /\ results' \in [Subtask -> Published]
         /\ \A m \in Subtask \ {s} : outputs'[m] = outputs[m] /\ results'[m] = results[m]
         /\ UNCHANGED locks
BY DEF TypeOK, BusTypeOK, PublishFailed, Agrees, Published

LEMMA KeepResultKeeps ==
  ASSUME IInv, NEW s \in Subtask, KeepResult(s)
  PROVE  IInv'
<1>1. BusTypeOK' /\ UNCHANGED <<outputs, locks>> /\ breakerOpen' \in BOOLEAN
      /\ results' \in [Subtask -> Published]
  BY DEF IInv, TypeOK, BusTypeOK, KeepResult, bus
<1>2. Agrees(s)'
  BY <1>1 DEF IInv, StoryInv, Agrees, KeepResult
<1> QED
  BY <1>1, <1>2, DealtKeeps DEF KeepResult, Ended

LEMMA GiveUpBrokenKeeps ==
  ASSUME IInv, NEW s \in Subtask, GiveUpBroken(s)
  PROVE  IInv'
<1>1. TypeOK
  BY DEF IInv
<1> QED
  BY <1>1, FailedTold, DealtKeeps DEF GiveUpBroken, Ended

LEMMA RetryThrewKeeps ==
  ASSUME IInv, NEW s \in Subtask, RetryThrew(s)
  PROVE  IInv'
<1>1. TypeOK /\ breakerOpen' \in BOOLEAN
  BY DEF IInv, TypeOK, RetryThrew
<1>2. todo # {} /\ remaining' = remaining \ {s}
  BY RetriedIsOut DEF RetryThrew
<1> QED
  BY <1>1, <1>2, FailedTold, DealtKeeps DEF RetryThrew, Ended

LEMMA RetriedKeeps ==
  ASSUME IInv, NEW s \in Subtask, Retried(s)
  PROVE  IInv'
<1>1. BusTypeOK' /\ UNCHANGED <<outputs, locks>> /\ breakerOpen' \in BOOLEAN
      /\ results' \in [Subtask -> Published]
  BY DEF IInv, TypeOK, BusTypeOK, Retried, bus
<1>2. Agrees(s)'
  BY <1>1 DEF IInv, StoryInv, Agrees, Retried
<1>3. todo # {} /\ remaining' = remaining \ {s}
  BY RetriedIsOut DEF Retried
<1> QED
  BY <1>1, <1>2, <1>3, DealtKeeps DEF Retried, Ended

\* A worker that threw is replaced.
LEMMA RetryKeeps ==
  ASSUME IInv, NEW s \in Subtask, Retry(s)
  PROVE  IInv'
<1>1. /\ TypeOK /\ s \in todo /\ todo \subseteq remaining /\ s = Least(todo)
      /\ todo \subseteq wave /\ wave \subseteq Subtask
      /\ pc = "settle" /\ phase[s] = "rejected"
      /\ phase \in [Subtask -> Phases] /\ instance \in [Subtask -> 1..MaxInstance]
      /\ \A m \in wave : phase[m] \in Ended
  BY LeastIsIn DEF IInv, TypeOK, PhaseInv, Retry
<1>2. /\ pc' = "retry" /\ remaining' = remaining \ {s}
      /\ UNCHANGED <<dependsOn, mode, inDegree, wave, respawnBudget, todo, spawned,
                     breakerOpen, results, at, granted, outputs, locks, wrapped>>
      /\ phase' = [m \in Subtask |-> IF m \in {s} THEN "inputs" ELSE phase[m]]
      /\ instance' = [m \in Subtask |-> IF m \in {s} THEN instance[m] + 1 ELSE instance[m]]
  BY DEF Retry, Renewed, plan, bus
<1>3. /\ phase' \in [Subtask -> Phases] /\ phase'[s] = "inputs"
      /\ \A m \in Subtask \ {s} : phase'[m] = phase[m] /\ instance'[m] = instance[m]
      /\ instance'[s] = instance[s] + 1
  BY <1>1, <1>2 DEF Phases
<1>4. InstanceInv' /\ instance' \in [Subtask -> 1..MaxInstance]
  <2>1. /\ respawnBudget \in 0..1 /\ s \in remaining /\ s \in Known
        /\ \A m \in Subtask : instance[m] \in 1..(3 - respawnBudget)
        /\ \A m \in remaining : instance[m] <= 2 - respawnBudget
        /\ \A m \in Subtask \ Known : instance[m] = 1
    BY <1>1 DEF IInv, TypeOK, PhaseInv, InstanceInv
  <2>2. \A m \in Subtask : instance'[m] \in 1..(3 - respawnBudget)
    BY <1>3, <2>1
  <2>3. InstanceInv'
    BY <1>1, <1>2, <1>3, <2>1, <2>2 DEF TypeOK, InstanceInv, Known
  <2>4. instance' \in [Subtask -> 1..3]
    BY <1>2, <2>1, <2>2
  <2> QED
    BY <2>3, <2>4 DEF MaxInstance
<1>5. TypeOK'
  BY <1>1, <1>2, <1>3, <1>4 DEF TypeOK, BusTypeOK
<1>6. Open' = Open
  BY <1>1, <1>2 DEF Open
<1>7. PhaseInv'
  BY <1>1, <1>2, <1>3 DEF IInv, PhaseInv, Known, Least
<1>8. CountInv'
  BY <1>1, <1>2, <1>6 DEF IInv, CountInv
<1>9. StoryInv'
  BY <1>2, <1>3, <1>6 DEF IInv, StoryInv, Agrees, Known, Fulfilled
<1>10. dependsOn[s] \cap Open = {}
  BY <1>1 DEF IInv, CountInv
<1>11. InputsStand'
  BY <1>2, <1>3, <1>10, StartsKeepInputs DEF Active
<1>12. \A m \in Subtask : Active(m)' /\ granted[m] # {} => m # s /\ Active(m)
  BY <1>1, <1>3 DEF IInv, LockInv, Active, Ended
<1>13. TakenLockIsHeld'
  BY <1>2, <1>3, <1>12 DEF IInv, LockInv, TakenLockIsHeld, Self
<1>14. LockInv'
  BY <1>1, <1>2, <1>3, <1>13 DEF IInv, LockInv, Active, HasFile, Ended, Phases
<1> QED
  BY <1>4, <1>5, <1>7, <1>8, <1>9, <1>11, <1>14 DEF IInv

\* All workers have settled, and none is run again for want of a tool.
LEMMA EndWaveKeeps ==
  ASSUME IInv, EndWave
  PROVE  IInv'
<1>1. /\ pc = "wave" /\ todo = {} /\ wave \subseteq remaining /\ wave \subseteq Subtask
      /\ pc' = "settle" /\ todo' = wave
      /\ \A s \in wave : phase[s] \in Ended
      /\ UNCHANGED <<dependsOn, mode, remaining, inDegree, wave, respawnBudget, spawned,
                     breakerOpen, results, instance, phase, at, granted, outputs,
                     locks, wrapped>>
      /\ UNCHANGED worker
  BY DEF IInv, TypeOK, PhaseInv, EndWave, WaveOver, plan, worker, bus
<1>2. Open' = Open
  BY <1>1 DEF Open
<1>3. TypeOK' /\ PhaseInv' /\ InstanceInv'
  BY <1>1 DEF IInv, TypeOK, BusTypeOK, PhaseInv, InstanceInv, Known
<1>4. CountInv'
  BY <1>1, <1>2 DEF IInv, CountInv
<1>5. StoryInv' /\ InputsStand'
  BY <1>1, <1>2 DEF IInv, StoryInv, Agrees, Known, InputsStand, Active
<1> QED
  BY <1>1, <1>3, <1>4, <1>5, SameWorkersKeepLocks DEF IInv

\* The whole wave is run again with new workers.
LEMMA RespawnKeeps ==
  ASSUME IInv, Respawn
  PROVE  IInv'
<1>1. /\ pc = "wave" /\ todo = {} /\ wave \subseteq remaining /\ remaining \subseteq Subtask
      /\ respawnBudget = 1 /\ respawnBudget' = 0
      /\ \A s \in wave : phase[s] \in Ended
      /\ pc' = "top" /\ wave' = {} /\ remaining' = remaining
      /\ UNCHANGED <<dependsOn, mode, todo, spawned, breakerOpen, results, at, granted,
                     locks, wrapped>>
      /\ outputs' = [s \in Subtask |-> IF s \in wave THEN "none" ELSE outputs[s]]
      /\ inDegree' = [s \in Subtask |-> IF s \in wave THEN 0 ELSE inDegree[s]]
      /\ instance' = [s \in Subtask |-> IF s \in wave THEN instance[s] + 1 ELSE instance[s]]
      /\ phase' = [s \in Subtask |-> IF s \in wave THEN "off" ELSE phase[s]]
  BY DEF IInv, TypeOK, PhaseInv, Respawn, WaveOver, Renewed, ClearOutputs, plan
<1>2. \A s \in Subtask : phase'[s] = "off"
  BY <1>1 DEF IInv, PhaseInv
<1>3. InstanceInv' /\ instance' \in [Subtask -> 1..MaxInstance]
  <2>1. /\ wave \subseteq Known
        /\ \A s \in Subtask : instance[s] \in 1..2
        /\ \A s \in remaining : instance[s] = 1
        /\ \A s \in Subtask \ Known : instance[s] = 1
    BY <1>1 DEF IInv, PhaseInv, InstanceInv
  <2>2. instance' \in [Subtask -> 1..3]
    BY <1>1, <2>1
  <2>3. \A s \in remaining : instance'[s] <= 2
    BY <1>1, <2>1
  <2>4. \A s \in Subtask \ Known : instance'[s] = 1
    BY <1>1, <2>1
  <2> QED
    BY <1>1, <2>2, <2>3, <2>4 DEF InstanceInv, Known, MaxInstance
<1>4. TypeOK'
  BY <1>1, <1>3 DEF IInv, TypeOK, BusTypeOK, Phases, Published
<1>5. PhaseInv'
  BY <1>1, <1>2 DEF IInv, PhaseInv, Known
<1>6. Open' = Open /\ wave \subseteq Open
  BY <1>1 DEF Open
<1>7. CountInv'
  <2>1. ASSUME NEW s \in Subtask
        PROVE  inDegree'[s] = Cardinality(dependsOn[s] \cap Open)
    <3>1. CASE s \in wave
      BY <1>1, <3>1, FS_EmptySet DEF IInv, CountInv
    <3>2. CASE s \notin wave
      BY <1>1, <3>2 DEF IInv, CountInv
    <3> QED
      BY <3>1, <3>2
  <2> QED
    BY <1>1, <1>6, <2>1 DEF CountInv
<1>8. StoryInv'
  <2>1. \A s \in Known \ Open : Agrees(s)'
    BY <1>1, <1>6, PlannedAssumption DEF IInv, TypeOK, StoryInv, Agrees, Known
  <2> QED
    BY <1>1, <1>2, <1>6, <2>1 DEF StoryInv, Fulfilled, Known
<1>9. InputsStand' /\ LockInv'
  BY <1>1, <1>2 DEF IInv, InputsStand, LockInv, TakenLockIsHeld, Active, Ended
<1> QED
  BY <1>3, <1>4, <1>5, <1>7, <1>8, <1>9 DEF IInv

\* All are dealt with, and reinforcements may have been asked for.
LEMMA NextWaveKeeps ==
  ASSUME IInv, NextWave
  PROVE  IInv'
<1>1. PICK S \in SUBSET (Subtask \ Known) :
        spawned' = spawned \cup S /\ remaining' = remaining \cup S
  BY DEF NextWave
<1>2. /\ pc = "settle" /\ todo = {} /\ pc' = "top" /\ wave' = {}
      /\ phase' = [s \in Subtask |-> "off"]
      /\ \A s \in wave : phase[s] \in Ended
      /\ UNCHANGED <<dependsOn, mode, inDegree, respawnBudget, todo, breakerOpen, results,
                     instance, at, granted, outputs, locks, wrapped>>
  BY DEF IInv, PhaseInv, NextWave, plan, bus
<1>3. Known' = Known \cup S /\ Open' = Open \cup S
  BY <1>1, <1>2 DEF Known, Open
<1>4. TypeOK' /\ PhaseInv'
  BY <1>1, <1>2, <1>3 DEF IInv, TypeOK, BusTypeOK, PhaseInv, Known, Phases
<1>5. InstanceInv'
  BY <1>1, <1>2, <1>3 DEF IInv, TypeOK, InstanceInv
<1>6. \A s \in Subtask : dependsOn[s] \cap Open' = dependsOn[s] \cap Open
  BY <1>3 DEF IInv, TypeOK, Known
<1>7. CountInv'
  BY <1>2, <1>6 DEF IInv, CountInv
<1>8. \A s \in Subtask : ~Active(s)' /\ ~Active(s)
  BY <1>2 DEF IInv, PhaseInv, Active, Ended
<1>9. StoryInv'
  BY <1>2, <1>3 DEF IInv, StoryInv, Agrees, Fulfilled
<1>10. InputsStand' /\ LockInv'
  BY <1>2, <1>8 DEF IInv, InputsStand, LockInv, TakenLockIsHeld
<1> QED
  BY <1>4, <1>5, <1>7, <1>9, <1>10 DEF IInv

(***************************************************************************)
(* The top of T2's loop                                                    *)
(***************************************************************************)

\* Workers that are made start at their inputs; they wait for nothing.
LEMMA StartKeepsWorkers ==
  ASSUME IInv, NEW S \in SUBSET Subtask,
         \A s \in S : phase[s] = "off" /\ dependsOn[s] \cap Open = {},
         phase' = [s \in Subtask |-> IF s \in S THEN "inputs" ELSE phase[s]],
         UNCHANGED <<dependsOn, mode, remaining, inDegree, respawnBudget, todo, spawned,
                     breakerOpen, results, instance, at, granted, bus>>
  PROVE  /\ phase' \in [Subtask -> Phases]
         /\ InstanceInv' /\ StoryInv' /\ InputsStand' /\ LockInv'
<1>1. /\ phase \in [Subtask -> Phases]
      /\ UNCHANGED <<outputs, locks, wrapped>>
  BY DEF IInv, TypeOK, bus
<1>2. phase' \in [Subtask -> Phases]
  BY <1>1 DEF Phases
<1>3. InstanceInv' /\ StoryInv'
  BY DEF IInv, InstanceInv, StoryInv, Agrees, Known, Open, Fulfilled, bus
<1>4. InputsStand'
  BY <1>1, StartsKeepInputs DEF Active
<1>5. \A s \in Subtask : Active(s)' /\ granted[s] # {} => Active(s)
  BY DEF IInv, LockInv, Active
<1>6. \A s \in Subtask : ~Active(s)' => ~Active(s)
  BY DEF Active
<1>7. LockInv'
  BY <1>1, <1>5, <1>6 DEF IInv, LockInv, TakenLockIsHeld, HasFile, Self
<1> QED
  BY <1>2, <1>3, <1>4, <1>7

LEMMA StartWaveKeeps ==
  ASSUME IInv, StartWave
  PROVE  IInv'
<1>1. /\ pc = "top" /\ wave = {} /\ todo = {} /\ remaining # {}
      /\ remaining \subseteq Known
      /\ Runnable \subseteq remaining /\ remaining \subseteq Subtask
      /\ pc' = "wave" /\ wave' = Runnable
      /\ \A s \in Subtask : phase[s] = "off"
      /\ UNCHANGED <<dependsOn, mode, remaining, inDegree, respawnBudget, todo, spawned,
                     breakerOpen, results, instance, at, granted, bus>>
  BY DEF IInv, TypeOK, PhaseInv, StartWave, Runnable, plan
<1>2. \A s \in Runnable : dependsOn[s] \cap Open = {}
  <2> SUFFICES ASSUME NEW s \in Runnable
               PROVE  dependsOn[s] \cap Open = {}
    OBVIOUS
  <2>1. inDegree[s] = 0 /\ inDegree[s] = Cardinality(dependsOn[s] \cap Open)
    BY <1>1 DEF IInv, CountInv, Runnable
  <2> QED
    BY <1>1, <2>1, OpenDependencies DEF IInv
<1> DEFINE S == {s \in Runnable : mode = "parallel"}
<1>3. phase' = [s \in Subtask |-> IF s \in S THEN "inputs" ELSE phase[s]]
  BY DEF StartWave
<1>4. S \subseteq Runnable
  OBVIOUS
<1> HIDE DEF S
<1>5. /\ phase' \in [Subtask -> Phases]
      /\ InstanceInv' /\ StoryInv' /\ InputsStand' /\ LockInv'
  BY <1>1, <1>2, <1>3, <1>4, StartKeepsWorkers
<1>6. TypeOK'
  BY <1>1, <1>5 DEF IInv, TypeOK, BusTypeOK, bus
<1>7. PhaseInv'
  BY <1>1, <1>3, <1>4 DEF PhaseInv, Known
<1>8. CountInv'
  BY <1>1, <1>2 DEF IInv, CountInv, Open
<1> QED
  BY <1>5, <1>6, <1>7, <1>8 DEF IInv

LEMMA StartNextKeeps ==
  ASSUME IInv, StartNext
  PROVE  IInv'
<1> DEFINE off == {s \in wave : phase[s] = "off"}
           S == {Least(off)}
<1>1. /\ pc = "wave" /\ off # {} /\ off \subseteq Subtask
      /\ UNCHANGED <<plan, manager, results, instance, at, granted, bus>>
      /\ phase' = [phase EXCEPT ![Least(off)] = "inputs"]
      /\ phase \in [Subtask -> Phases]
  BY DEF IInv, TypeOK, StartNext
<1>2. S \subseteq wave /\ S \in SUBSET Subtask /\ \A s \in S : phase[s] = "off"
  <2>1. Least(off) \in off
    BY <1>1, LeastIsIn, Zenon
  <2> QED
    BY <1>1, <2>1
<1>3. \A s \in S : dependsOn[s] \cap Open = {}
  BY <1>2 DEF IInv, CountInv
<1>4. phase' = [s \in Subtask |-> IF s \in S THEN "inputs" ELSE phase[s]]
  <2> HIDE DEF off
  <2> QED
    BY <1>1
<1> HIDE DEF S
<1>5. UNCHANGED <<dependsOn, mode, pc, remaining, inDegree, wave, respawnBudget, todo,
                  spawned, breakerOpen, results, instance, at, granted, bus>>
  BY <1>1 DEF plan, manager
<1>6. /\ phase' \in [Subtask -> Phases]
      /\ InstanceInv' /\ StoryInv' /\ InputsStand' /\ LockInv'
  BY <1>2, <1>3, <1>4, <1>5, StartKeepsWorkers
<1>7. TypeOK'
  BY <1>5, <1>6 DEF IInv, TypeOK, BusTypeOK, bus
<1>8. PhaseInv'
  BY <1>1, <1>2, <1>4, <1>5 DEF IInv, PhaseInv, Known
<1>9. CountInv'
  BY <1>5 DEF IInv, CountInv, Open
<1> QED
  BY <1>6, <1>7, <1>8, <1>9 DEF IInv

\* What remains is skipped, and told as failed.
LEMMA SkipRestKeeps ==
  ASSUME IInv, SkipRest
  PROVE  IInv'
<1>1. /\ pc = "top" /\ wave = {} /\ todo = {} /\ remaining' = {}
      /\ \A s \in Subtask : phase[s] = "off"
      /\ outputs' = [s \in Subtask |-> IF s \in remaining THEN "failed" ELSE outputs[s]]
      /\ results' = [s \in Subtask |-> IF s \in remaining THEN "failed" ELSE results[s]]
      /\ wrapped' = {}
      /\ UNCHANGED <<dependsOn, mode, pc, inDegree, wave, respawnBudget, todo, spawned,
                     breakerOpen, worker, instance, phase, at, granted, locks>>
  BY DEF IInv, TypeOK, PhaseInv, SkipRest, PublishFailed, plan, worker
<1>2. TypeOK'
  BY <1>1 DEF IInv, TypeOK, BusTypeOK, Published
<1>3. PhaseInv' /\ InstanceInv' /\ CountInv'
  BY <1>1 DEF IInv, PhaseInv, InstanceInv, CountInv, Known
<1>4. StoryInv'
  <2>1. \A s \in Known : Agrees(s)'
    <3> SUFFICES ASSUME NEW s \in Known
                 PROVE  Agrees(s)'
      OBVIOUS
    <3>1. s \in Subtask
      BY PlannedAssumption DEF IInv, TypeOK, Known
    <3>2. s \notin remaining => Agrees(s)
      BY <1>1 DEF IInv, StoryInv, Open
    <3> QED
      BY <1>1, <3>1, <3>2 DEF Agrees
  <2> QED
    BY <1>1, <2>1 DEF StoryInv, Fulfilled, Known
<1>5. InputsStand'
  BY <1>1 DEF InputsStand, Active
<1> QED
  BY <1>1, <1>2, <1>3, <1>4, <1>5, SameWorkersKeepLocks DEF IInv

\* Steps that leave the work as it is.
LEMMA AsideKeeps ==
  ASSUME IInv, Return \/ Cancelled \/ BreakerOpens \/ UNCHANGED vars
  PROVE  IInv'
<1>1. /\ UNCHANGED <<plan, remaining, inDegree, wave, respawnBudget, todo, spawned,
                     results, worker, bus>>
      /\ breakerOpen' \in BOOLEAN
      /\ \/ pc' = pc
         \/ pc = "top" /\ remaining = {} /\ pc' = "done"
         \/ pc = "top" /\ remaining # {} /\ pc' = "cancelled"
  BY DEF IInv, TypeOK, Return, Cancelled, BreakerOpens, vars, manager
<1>2. UNCHANGED <<dependsOn, mode, instance, phase, at, granted, outputs, locks, wrapped>>
  BY <1>1 DEF plan, worker, bus
<1>3. TypeOK'
  BY <1>1, <1>2 DEF IInv, TypeOK, BusTypeOK
<1>4. PhaseInv' /\ InstanceInv' /\ CountInv'
  BY <1>1, <1>2 DEF IInv, PhaseInv, InstanceInv, CountInv, Known, Open, Least
<1>5. StoryInv' /\ InputsStand'
  BY <1>1, <1>2 DEF IInv, StoryInv, InputsStand, Agrees, Known, Open, Active
<1> QED
  BY <1>1, <1>2, <1>3, <1>4, <1>5, SameWorkersKeepLocks DEF IInv

(***************************************************************************)
(* The theorems                                                            *)
(***************************************************************************)

LEMMA InitHolds == Init => IInv
<1> SUFFICES ASSUME Init
             PROVE  IInv
  OBVIOUS
<1>1. dependsOn \in [Subtask -> SUBSET Planned]
  <2>1. PICK g \in Graphs :
          dependsOn = [s \in Subtask |-> IF s \in Planned THEN Repaired(g)[s] ELSE {}]
    BY DEF Init
  <2>2. \A s \in Planned : Repaired(g)[s] \subseteq Planned
    BY PlannedAssumption DEF Repaired, WithoutEdgesInside
  <2> QED
    BY <2>1, <2>2
<1>2. \A s \in Subtask : Cardinality(dependsOn[s]) \in Nat
  BY <1>1, PlannedAssumption, FS_Subset, FS_CardinalityType
<1>3. TypeOK
  <2>1. BusTypeOK
    <3>1. NoLock \in [holder : Worker \cup {Nobody}, waiters : Seq(Worker)]
      BY DEF NoLock
    <3> QED
      BY <3>1 DEF Init, BusInit, BusTypeOK, Published
  <2>2. inDegree \in [Subtask -> Nat]
    BY <1>2 DEF Init
  <2>3. instance \in [Subtask -> 1..MaxInstance] /\ respawnBudget \in 0..1
    BY DEF Init, MaxInstance
  <2>4. /\ phase \in [Subtask -> Phases] /\ results \in [Subtask -> Published]
        /\ at \in [Subtask -> Nat \ {0}] /\ granted \in [Subtask -> SUBSET File]
    BY DEF Init, Phases, Published
  <2> QED
    BY <1>1, <2>1, <2>2, <2>3, <2>4, PlannedAssumption DEF Init, TypeOK
<1>4. PhaseInv /\ InstanceInv
  <2>1. PhaseInv
    BY DEF Init, PhaseInv, Known
  <2>2. 3 - respawnBudget = 2 /\ 2 - respawnBudget = 1
    BY DEF Init
  <2> QED
    BY <2>1, <2>2, PlannedAssumption DEF Init, InstanceInv, Known
<1>5. \A s \in Subtask : dependsOn[s] \cap Open = dependsOn[s]
  BY <1>1 DEF Init, Open
<1>6. CountInv
  BY <1>5 DEF Init, CountInv
<1>7. StoryInv /\ InputsStand /\ LockInv
  BY DEF Init, StoryInv, InputsStand, LockInv, TakenLockIsHeld, Active, Known, Open,
         Fulfilled, Phases, Ended
<1> QED
  BY <1>3, <1>4, <1>6, <1>7 DEF IInv

LEMMA StepKeeps == IInv /\ [Next]_vars => IInv'
<1> SUFFICES ASSUME IInv, [Next]_vars
             PROVE  IInv'
  OBVIOUS
<1>1. ASSUME ManagerStep
      PROVE  IInv'
  BY <1>1, AsideKeeps, SkipRestKeeps, StartWaveKeeps, StartNextKeeps, RespawnKeeps,
     EndWaveKeeps, NextWaveKeeps, KeepResultKeeps, GiveUpBrokenKeeps, RetryKeeps,
     RetryThrewKeeps, RetriedKeeps DEF ManagerStep
<1>2. ASSUME Stopped
      PROVE  IInv'
  BY <1>2, AsideKeeps DEF Stopped
<1> QED
  BY <1>1, <1>2, AsideKeeps, WorkerKeeps DEF Next

LEMMA Invariance == Spec => []IInv
<1> QED
  BY InitHolds, StepKeeps, PTL DEF Spec

\* A section's state is well formed; in particular no subtask is given more
\* than three workers, whatever stalls, throws and is run again.
THEOREM TypeCorrect == Spec => []TypeOK
<1>1. IInv => TypeOK
  BY DEF IInv
<1> QED
  BY <1>1, Invariance, PTL

\* Two workers that both got their lock in time never have the same file, in
\* any section: waits that time out, locks handed over to workers that gave
\* up, respawns and retries included.
THEOREM LocksHeld == Spec => []TakenLockIsHeld
<1>1. IInv => TakenLockIsHeld
  BY DEF IInv, LockInv
<1> QED
  BY <1>1, Invariance, PTL

\* The outputs a worker began with are there for as long as it works.
THEOREM InputsAreThere == Spec => []InputsStand
<1>1. IInv => InputsStand
  BY DEF IInv
<1> QED
  BY <1>1, Invariance, PTL

\* What T2 hands up and what siblings read of a subtask that has been dealt
\* with are of the same attempt.
THEOREM OneStory == Spec => []BusAgreesWithResults
<1>1. IInv => BusAgreesWithResults
  BY DEF IInv, StoryInv, Agrees, BusAgreesWithResults, DealtWith, Open
<1> QED
  BY <1>1, Invariance, PTL
(***************************************************************************)
(* What has been dealt with stays so                                       *)
(***************************************************************************)

\* A step that changes no result or output but that of a subtask still open,
\* and opens none again.
LEMMA OpenChangesAlone ==
  ASSUME IInv, Known \subseteq Known',
         remaining' \cap Known \subseteq Open, todo' \subseteq Open,
         \A m \in Subtask \ Open : outputs'[m] = outputs[m] /\ results'[m] = results[m]
  PROVE  VerdictsKept
BY PlannedAssumption DEF VerdictsKept, DealtWith, Open, Known, IInv, TypeOK

LEMMA WorkerKeepsVerdicts ==
  ASSUME IInv, NEW s \in Subtask, WorkerStep(s)
  PROVE  VerdictsKept
<1>1. UNCHANGED <<remaining, todo, spawned>>
  BY DEF WorkerStep, TakeInputs, BlockedByInput, Ask, WatchTimeout, TryLock, LockTimeout,
         Finish, Throw, Settled, manager
<1>2. Known' = Known /\ remaining' \cap Known \subseteq Open /\ todo' \subseteq Open
  BY <1>1 DEF Known, Open
<1>3. ASSUME NEW status, NEW end, Settled(s, status, end), phase[s] \in {"inputs", "work"}
      PROVE  VerdictsKept
  <2>1. s \in Open
    BY <1>3, ActiveIsOpen DEF Active, Phases, Ended, Fulfilled
  <2>2. \A m \in Subtask \ {s} : outputs'[m] = outputs[m] /\ results'[m] = results[m]
    BY <1>3 DEF Settled, Publish, IInv, TypeOK, BusTypeOK
  <2> QED
    BY <1>2, <2>1, <2>2, OpenChangesAlone
<1>4. CASE UNCHANGED <<outputs, results>>
  BY <1>2, <1>4, OpenChangesAlone
<1>5. CASE BlockedByInput(s) \/ Finish(s)
  BY <1>3, <1>5 DEF BlockedByInput, Finish
<1>6. CASE \/ TakeInputs(s) \/ Ask(s) \/ WatchTimeout(s) \/ TryLock(s)
           \/ LockTimeout(s) \/ Throw(s)
  BY <1>4, <1>6 DEF TakeInputs, Ask, WatchTimeout, TryLock, LockTimeout, Throw, bus
<1> QED
  BY <1>5, <1>6 DEF WorkerStep

LEMMA ManagerKeepsVerdicts ==
  ASSUME IInv, ManagerStep
  PROVE  VerdictsKept
<1>1. TypeOK /\ outputs \in [Subtask -> Published] /\ todo \subseteq Open
  BY DEF IInv, TypeOK, BusTypeOK, Open
<1>2. CASE Return \/ StartWave \/ Cancelled \/ StartNext \/ EndWave
  <2>1. UNCHANGED <<remaining, spawned, outputs, results>> /\ todo' \subseteq wave \cup todo
    BY <1>2 DEF Return, StartWave, Cancelled, StartNext, EndWave, manager, bus
  <2>2. todo' \subseteq Open
    BY <1>1, <1>2, <2>1
       DEF Return, StartWave, Cancelled, StartNext, EndWave, WaveOver, manager, Open,
           IInv, PhaseInv
  <2> QED
    BY <2>1, <2>2, OpenChangesAlone DEF Known, Open
<1>3. CASE SkipRest
  BY <1>1, <1>3, OpenChangesAlone DEF SkipRest, PublishFailed, Known, Open
<1>4. CASE Respawn
  <2>1. wave \subseteq Open
    BY <1>4 DEF Respawn, WaveOver, IInv, PhaseInv, Open
  <2> QED
    BY <1>1, <1>4, <2>1, OpenChangesAlone DEF Respawn, ClearOutputs, Known, Open
<1>5. CASE NextWave
  BY <1>1, <1>5, OpenChangesAlone DEF NextWave, Known, Open, bus
<1>6. ASSUME NEW s \in Subtask, KeepResult(s) \/ Retry(s) \/ Retried(s)
      PROVE  VerdictsKept
  <2>1. /\ UNCHANGED <<spawned, outputs, results>>
        /\ remaining' \subseteq remaining /\ todo' \subseteq todo
    BY <1>6 DEF KeepResult, Retry, Retried, Dealt, bus
  <2> QED
    BY <1>1, <2>1, OpenChangesAlone DEF Known, Open
<1>7. ASSUME NEW s \in Subtask, GiveUpBroken(s) \/ RetryThrew(s)
      PROVE  VerdictsKept
  <2>1. s \in Open
    <3>1. CASE GiveUpBroken(s)
      BY <1>1, <3>1, LeastIsIn DEF GiveUpBroken, TypeOK, Open
    <3>2. CASE RetryThrew(s)
      BY <3>2, RetriedIsOut DEF RetryThrew, Open
    <3> QED
      BY <1>7, <3>1, <3>2
  <2>2. /\ UNCHANGED spawned
        /\ remaining' \subseteq remaining /\ todo' \subseteq todo
        /\ PublishFailed({s}) /\ results' = [results EXCEPT ![s] = "failed"]
    BY <1>7 DEF GiveUpBroken, RetryThrew, Dealt
  <2> QED
    BY <1>1, <2>1, <2>2, FailedTold, OpenChangesAlone DEF Known, Open
<1> QED
  BY <1>2, <1>3, <1>4, <1>5, <1>6, <1>7 DEF ManagerStep

\* A subtask that was dealt with is not opened again, and what was said of it
\* to its siblings and to T1 does not change.
THEOREM VerdictsStand == Spec => VerdictStands
<1>1. IInv /\ [Next]_vars => [VerdictsKept]_vars
  <2> SUFFICES ASSUME IInv, Next
               PROVE  VerdictsKept \/ UNCHANGED vars
    OBVIOUS
  <2>1. CASE BreakerOpens
    BY <2>1, OpenChangesAlone DEF BreakerOpens, Known, Open, bus
  <2> QED
    BY <2>1, WorkerKeepsVerdicts, ManagerKeepsVerdicts DEF Next, Stopped
<1> QED
  BY <1>1, Invariance, PTL DEF Spec, VerdictStands
=============================================================================
