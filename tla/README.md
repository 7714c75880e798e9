# A TLA+ verification of Cascade AI

Cascade AI runs a task through three tiers of language-model agents: an
administrator (T1) plans, managers (T2) split sections, workers (T3) call tools.
What can go wrong in it that a unit test hardly reaches is not in a prompt but in
the coordination code: a plan's dependency graph, the scheduler that walks it,
the gates and leases that decide who may touch a workspace or a browser, the
budgets that concurrent calls draw on. This project models that code in TLA+,
checks the models with TLC on small instances and proves the main results with
TLAPS for all instances.

Paths below are relative to the repository; `orchestration/…` stands for
`src/core/orchestration/…` and so on.

## 1. The system

### Components that carry the core logic

| Component | State it keeps | Operations | Talks to | What is hard |
| --- | --- | --- | --- | --- |
| Task graph compiler (`orchestration/task-graph.ts`) | none between calls; the search keeps index, lowlink, stack, frames | `compileTaskGraph` in `repair` or `strict` mode | T1, T2 give it a model's plan, the scheduler gets its graph | plans are written by a model: duplicates, ghosts, cycles; an iterative Tarjan search; a repair that must break every cycle and nothing else |
| Dependency scheduler (`orchestration/scheduler.ts`) | in-degrees, settled set, results, blocked causes | `run()`, with the caller's `execute` | T1 runs sections with it | workers of a wave finish in any order, fail, or throw while siblings are still out; failures block what is downstream |
| Workspace gate (`tools/workspace-gate.ts`) | per process a queue and the running turns; on disk a marker per turn, a lock file, pending markers | `enter(mode)` and the `leave` it returns, `pending()` | `ToolRegistry` before every tool call; other Cascade processes through the state folder | several processes and no server; crashes, stalls past a heartbeat, cancellation at every await, files left behind |
| Browser lease (`browser/lease.ts`) with its callers in `browser/remote/controller.ts` | holder, waiting workers, action slot and its queue, the person's timer, deferred handback and lapse | `acquire`, `actorEnded`, `acquireActionSlot`, `endAction`, `takeOver`, `handBack`, `touch`, `dropRun` | T3 workers through `browser_control`; a person and viewers over sockets | three kinds of actors, two queues, one timer with two meanings, awaits between every check and its use |
| Router: budgets (`router/index.ts`, `router/run-budget.ts`) | run cost and tokens, reservations, wrap-up flag | `generate`, preflight reservation, settlement, `beginRun`, `startWrapUp` | every tier | concurrent calls that check before any has spent; a new run while calls of the last are in flight |
| Local model queue (`router/local-queue.ts`) | active count, waiters | `acquire(timeout, signal)`, release | router | timeout, abort and release of one waiter race |
| T2 manager (`tiers/t2-manager.ts`) | remaining, in-degrees, results, respawn budget | waves of workers, respawn, breaker, wrap-up, retries, reinforcements | T3 workers, peer bus | a wave repeated after some of it finished; workers that throw, and throw again |
| Peer bus (`core/peer/bus.ts`) and the worker's use of it (`tiers/t3-worker.ts`) | outputs, file locks with waiters; which workers have wrapped `publish` | `publish`, `clearOutput`, `waitFor`, `lockFile`, `releaseFile`, `waitForFileRelease` | T2 and its workers | timed-out waiters that stay in a lock's list; hand-over of a lock; cleanup by wrapping a method |
| Resume store (`orchestration/resume-store.ts`) with the facade's use of it (`core/cascade.ts`) | checkpoint files, shared by processes; per process the claim and what it resumed from | `save`, `prune`, `list`, `claim`, `settle`, `release`, `reclaimStale`; `prepareDurableResume`, `checkpointRun`, `settleClaimedResume` | other processes, through the directory | a crash between any two steps; two processes that list the same checkpoint; a claimer that is only slow |
| Permission escalator (`core/permissions/escalator.ts`) | two caches of decisions and who made them, the parked requests | `requestPermission`, `resolveUserDecision`, `cancelAllPending` | T3 workers and dynamic tools ask; T2, T1 and the person, through the facade's host, answer | answers that come after their caller left; a decision that is kept and answers other callers; one question, four ways to end |

The rest of the repository (providers, configuration, dashboard, command line,
documents, retrieval, web and desktop clients, the cloud server, …) is listed in
`PROJECT.json` with the reason each part is not modelled: text transformation,
numerical scoring, thin adapters, or state that a database transaction guards.

### What makes each of them correct

* **Compiler**: the search finds exactly the nodes on cycles; repair leaves a
  graph that can be scheduled and takes no dependency from an innocent node;
  strict mode hands a clean plan on unchanged.
* **Scheduler**: nothing starts before all it depends on, directly or not, has
  released it; with the block policy exactly what is downstream of a failure is
  skipped, with true causes; a compiled graph never stalls; the run ends.
* **Gate**: callers that cannot run together never are, in one process or across
  processes, through crashes and stalls; turns of a process are given in order, and
  only to those who still want one; nothing stays behind from a turn that is
  over; marks that were not saved keep others out; a holder of the lock gets in.
* **Lease**: who is in the page holds the browser; a worker's sequence is not
  broken; nobody waits for what is free; a person's hold always has an end; the
  slot goes to whoever has waited longest.
* **Budget and local queue**: what calls in flight hold is what the accounts say,
  given back exactly once, to the run it was taken from; work leaves the answer's
  reserve alone; a run at its cap stops and none of its calls goes out any more; a
  call that outlived its run leaves the next one's accounts alone; no local slot is
  lost when a timeout, an abort and a release meet, and none passes those that wait.
* **Section** (T2, its workers and their bus): a lock that was got in time is
  nobody else's; a worker's inputs are there when it starts and stay; what the bus
  says of a subtask is what T1 is told, and stands once it is; a subtask has three workers at most; the
  section ends.
* **Resume**: a live claim stands; a checkpoint leaves the disk only when its work
  is finished, saved elsewhere or crowded out; a stranded claim comes back.
* **Escalator**: what is granted was decided by somebody who may; a decision that
  comes too late grants nothing and is not kept; nobody is left waiting.

The hazards behind these are listed in `PROJECT.json`, each at its line; those
without a property say why none covers them.

## 2. The modules

| Module | Models | Is used by |
| --- | --- | --- |
| `TaskGraph` | cleaning of a plan, cycles, repair, as operators on graphs (no recursion: what is upstream of a node is the least closed set) | `GraphCompiler`, `PlanExecution`, `Scheduler`, `Section` |
| `GraphCompiler` | `compileTaskGraph` step by step, the iterative Tarjan search included | `MCGraphCompiler`, `GraphCompilerProofs` |
| `PlanExecution` | what running a plan promises: the abstract specification | `Scheduler` (refinement) |
| `Scheduler` | `DependencyScheduler.run` | `MCScheduler`, `SchedulerProofs` |
| `WorkspaceGate` | `WorkspaceGate` and `Markers`, across processes | `MCWorkspaceGate`, `WorkspaceGateProofs` |
| `SlotQueue` | what a first-come first-served queue for slots promises: an abstract specification | `RunBudget`, `BrowserLease` (refinements) |
| `BrowserLease` | `BrowserLease` as `RemoteBrowserController` uses it | `MCBrowserLease`, `BrowserLeaseProofs` |
| `RunBudget` | `generateCall` of the router: admission, the waits before a call is sent with the `LocalRequestQueue` among them, settlement, `beginRun` | `MCRunBudget`, `RunBudgetProofs` |
| `PeerBus` | outputs, file locks and the wrappers of `publish` | `Section` |
| `Section` | `runWithDependencies` of T2 over workers on a `PeerBus`, from a graph of `TaskGraph` | `MCSection`, `SectionProofs` |
| `ResumeStore` | the directory of checkpoints | `DurableResume` |
| `DurableResume` | processes that run, are interrupted, resume and crash over a `ResumeStore` | `MCDurableResume`, `DurableResumeProofs` |
| `PermissionEscalator` | `PermissionEscalator` with the evaluators of T2 and T1 and the facade's handler | `MCPermissionEscalator`, `PermissionEscalatorProofs` |
| `GraphCompilerProofs`, `SchedulerProofs`, `WorkspaceGateProofs`, `BrowserLeaseProofs`, `RunBudgetProofs`, `SectionProofs`, `DurableResumeProofs`, `PermissionEscalatorProofs` | the theorems | |

Definitions named as mutated forms (`ReadyButOne`, `LockKept`, …) are not part of
a specification: each is a plausible bug that replaces one definition to show
that a property can fail. They stand before the definition they replace.

### Compiler

`plan` is a sequence of nodes with an id, a title present or not, and a set of
dependencies. `Clean` is the two sanitising passes, `OpenRoot`, `FollowEdge` and
`CloseFrame` the loop of `cycleNodes`, `Repair` the removal of edges within the
cyclic set, `Return` the final check. The order in which a node's dependencies
are followed is free, where the code takes the planner's. Ids are taken as
trimmed and issue texts are left out.

### Scheduler

`SelectWave` is the top of the loop, `StartNext` a turn of a sequential wave,
`Finish` and `Throw` the two ways `execute` ends, `EndWave`, `Visit` and
`EmitBlocked` the blocking of what is downstream, `Return` the end of `run()`. In
a parallel wave workers finish in any order; when one throws, `run()` has ended
but its siblings still finish and still write, which the model keeps. A run
starts from any graph that can be scheduled (`GraphsAssumption`), which is what
the compiler hands on for every plan (`RepairIsEnough`, and `RepairedSchedulable`
for the graphs of the run). `PlanExecution` knows neither waves nor
counts: a set of nodes whose dependencies are released starts, a node finishes,
nodes below a failure are skipped, a worker's error abandons the plan.
`Scheduler` implements it under the mapping `PlanStatus`.

### Workspace gate

A step is one synchronous stretch of one process. `Enter`, `GiveUpQueued` and
`EndTurn` pump the FIFO of the process (`pump`: a prefix of the queue is granted);
`GroupPoll`, `AlonePoll` and `Drain` are one poll each of `Markers.group()` and
`Markers.alone()`, made under the mutex of the state folder; `GiveUp` is every
error or cancellation during the wait; `Leave` the function `enter` returned;
`HoldPending` and `SavePending` the marks of a local-only command that cannot be
saved. `Crash` ends a process anywhere and leaves its files. `Stall` and `Resume`
are a process whose liveness the others cannot ask, stopped for longer than
`STALE_MS`. A poll that finds a marker of a process gone removes it (`Left`,
`MarkersTidied`, `LockTidied`). Not modelled: symlink and ownership checks of the
folder, and a process that stops exactly between reading the lock file and
removing it (two adjacent system calls; listed as a hazard).

### Browser lease

Operations are workers (T3 calls of `act`), takeovers, inputs, captures (show or
hide the picture) and teardowns (the stream of a viewer that left). `pc` says how
far each has come; `waiting` is the queue for the lease, `line` that for the slot.
`Ask`, `Granted`, `GoIn`, `Finish` follow `act` from await to await;
`LetSlotGo`/`FinishLeaving` is `releaseIfIdle` when the run was stopped during
`open`; `End` is `actorEnded`; `AskTakeOver` … `TakeOver` is `takeOver`;
`AskEvent`, `Land`, `Landed` are `input` and `setCapture`; `HandBack`,
`RetryFires` and `Lapse` the two uses of `humanTimer`; `StopRun` and `CancelRun`
the end of the run. `endAction` hands the slot straight to the next in line, in
the same step (`HandOn`). A timer fires only when no settled promise is pending
(`NothingPending`), as the event loop guarantees. The page and view comparisons
after a wait are the free choice between going in and being refused. The local
ceiling timer (`armCeiling`) is off for this controller (`setLifecycleReleaseWired`)
and not modelled. What the slot and `line` do is a `SlotQueue` with one slot
(`ImplementsSlotQueue`: who has it is `{slot} \ {Nobody}`).

### Budget and local queue

A call goes from `idle` through the rate limiter (`metering`, `metered`), if its
model is local through the local queue (`queued`, `slotted`), to the provider
(`sent`) and back; each of these is an await of `generateCall`. `Generate` is
everything up to the first await: the checks of the session, the run and the
wrap-up, `fitFinalCall`, `enforcePreflightBudget` and `admitWork`, with the order
they stop at (`Admit`). `LeaveMeter`, `Abandon` and `TurnAway` are the refusals
during and after the waits, `Reroute` and `FailOver` the two ways a call is made
again on another model, `Fail` and `Succeed` its end, `BeginRun` the next run
under calls that have not ended. The accounts (`run`) are those of the current
run; `call[c].gen` is the run a call was admitted in. `Holding` adds to what is
held, and `Released` is both release handles, which `generateCall` runs in its
`finally`. `SlotGivenBack` with `Heir` is the release of a local slot, handed to
the head of the queue without being free in between. The callers that have a
slot (`Holders`) and `waiting` are a `SlotQueue` (`ImplementsSlotQueue`), which knows
nothing of calls, accounts and runs.

Abstracted: tokens are small numbers, and the cost cap, which repeats the token
cap for models with a price, is left out; the session's budget is counted in
tokens too. The rate limiter is a wait of any length. Which model serves a call
and whether one is ruled out while the call waits is free, so `TurnAway` needs no
cause. Warnings, statistics and the count of work that was not started are
left out.

### Section and peer bus

`pc` is where T2 is: at the `top` of its loop (`Return`, `SkipRest` for the breaker
and the wrap-up, `Cancelled`, `StartWave`), in a `wave` (`StartNext` in sequential
mode), going through its results (`settle`: `KeepResult`, `GiveUpBroken`, `Retry`),
or waiting for a `retry` (`Retried`, `RetryThrew`). `Respawn` is the second turn of a
whole wave after a worker stalled for want of a tool; `NextWave` may add
reinforcements. A worker takes its inputs (`TakeInputs`, `BlockedByInput`), goes
through the files it means to write (`Ask`, `WatchTimeout`, `TryLock`,
`LockTimeout`, as `coordinateFileIntents` does), works, and settles (`Finish`,
`Throw`). Each worker T2 makes for a subtask has a number (`instance`), as in the
code it has an id of its own: a lock of an earlier one is not one of the later.

In `PeerBus` the closure a waiter leaves in a lock's list is not taken out by its
timeout, and `HandOver` gives the lock to whoever left it. A worker with locks wraps
`publish`; each wrapper restores the one it found, so any publication takes all
of them off (`wrapped`, `Freed`). The agent loop is one step with any outcome.
`waitFor` has no timeout in the model: `InputsStand` says why it is never used.
Messages, barriers and `markRetryPending` are left out.

### Resume

`Ask`, `Reclaim`, `Look`, `TakeClaim`, `LoseClaim` are `prepareDurableResume` from one
file system call to the next; `StartFails` a run that does not begin; `Begin`, then
one of `Save`, `EndEmpty`, `EndNormally`, and `Settle` a run's way through
`checkpointRun` and `settleClaimedResume`. `Crash` ends a process anywhere. A file
goes by the name of its run and a time, and claims go by names, so an operation on
a claim whose file was renamed meanwhile finds nothing (`HasName`). What a run
has come to is chosen when it stops (`Attempts`). A plan's sections keep their ids
between attempts in the model; see below for what happens in the code when they do
not. The limit of seven days and unreadable files are left out.

### Permission

`RequestPermission` is `decide` up to its first await: the signal, the two caches, the
rule for safe tools, the autonomous mode, then T2, T1 or the person (`AskT2`, `AskT1`,
`AskUser`). `T2Evaluates` and `T1Evaluates` are what follows an evaluator's answer;
both pass on what is dangerous, whatever their model says, so T2 decides only
about tools that are not, and T1 about nothing: the code that caches a decision of
T1 is never reached and not modelled. `PersonAnswers` and `ResolveUserDecision` are
the host's answer and its arrival, which may come after `TimeOut`, `CallerEnds`,
`CancelRun` or `EndRun` has ended the wait: nothing takes a question back from the
host. `said` is history, for `GrantHasMandate`. All sections of a run share one T2
evaluator in the code, the one of the T2 that came last (`setT2Evaluator`); since
its model's answer decides nothing, only the advice shown to the person is affected.

## 3. What TLC checks

| Run | Instance | Distinct states | Shows |
| --- | --- | --- | --- |
| `graph_compiler` | all 4,096 graphs on four nodes, and malformed plans of up to three entries over two ids; both modes | 437,811 | the search is exact, repair always schedulable, innocent edges kept, termination |
| `scheduler` | all 64 forward graphs on four nodes, eight written backwards, four with cycles; both policies, both modes, all outcomes and rejections | 106,404 | dependency order, exact blocking, true causes, refinement of `PlanExecution`, completion |
| `workspace_gate` | three processes, five callers; one process may crash or stall | 15,503 | exclusion, nothing left behind, pending marks keep out, first come first served and no turn for who gave up, the lock's holder gets in |
| `browser_lease` | three workers, a takeover, an input, a capture, a teardown; one worker may queue, two operations | 134,174 | one user, nobody waits in vain, every hold has a deadline, a handback stands, sequences kept, refinement of `SlotQueue`, a forgotten hold ends |
| `lease_leak` (violation) | two workers and a teardown | about 280 | a worker's only release can be skipped for good |
| `router_budget` | two workers and a tier that answers; one local slot; a cap of five tokens, a session's of seven, two runs | 692,329 | the ledger and the slots are exact, refinement of `SlotQueue`, the answer's reserve is kept, the caps stop, what is shut stays shut, stragglers settle apart |
| `straggler_rerouted` (violation) | the same | about 330 | a call of a run that is over is made again at the expense of the next |
| `section` | two roots, a join and a reinforcement over two files; both modes, one respawn, retries, breaker, wrap-up, cancellation | 734,697 | a lock got in time is exclusive, inputs stand, bus and results agree and stand, three workers at most per subtask, the section ends |
| `section_lock_leak` (violation) | the same, the roots with a file of their own each | about 290 | a worker that published keeps its lock when a sibling published before it |
| `resume` | two processes, three runs, four times, one checkpoint kept | 404,601 | a live claim stands, progress is kept, a stranded claim comes back |
| `resume_twice` (violation) | the same | about 37,000 | a claim is given back while its run still goes on, and taken again |
| `permission` | two requests of eight kinds over three tools and two sections, every root tier, autonomous or not | 680,896 | what is granted has a mandate, nothing for those who are gone, every request is answered |

**Bounds.** Four nodes hold two disjoint cycles joined by an edge, a diamond with
a tail, and two failures of one wave that meet above a third node; the
malformed plans hold every kind of issue and pairs of them. In the gate one
process does everything hard (crash, stall, keep marks), the second has a caller
alone and two of groups, and the third is the one that an unguarded removal of a
lock would let in beside the second. In the lease `MaxQueued` is 1 and three
workers make one hold, one wait and one be refused; `MaxInLine` 2 is reached by
the five other operations. In the budget three callers share one local slot
(`MaxLocal` 1), so two wait for it; `Cap` is 5, whose share for work is 4, so that
two small calls of work fit, a third or the one with a large input does not, and
an answer is cut to what is left (`MinAnswer` is 1); `Overrun` 1 lets a provider
report one token more than was estimated; `SessionCap` 7 is reached in the second
run, and `MaxRuns` 2 is one run and its successor. In the section one file is wanted
by both roots and the other by a root and the join, so a lock is watched, queued
for, timed out on, handed over and passed to a worker that has left; four
subtasks over three waves make a respawn, a retry and a reinforcement meet. In the
resume three runs are a run, the one that resumes it and one more that resumes or
crowds out; two processes race for a claim while a timeout may pass at any
moment. In the permission run two requests are one that makes a cache entry and
one that meets it, and the eight kinds vary the tool, the section, `localOnly` and
`forceReprompt`. In the gate, the lease and the budget an operation that is over may
be made again, so sequences of any length are covered; only `End`, `StopRun`, `CancelRun` and
`Crash` are final. No run uses symmetry: most check liveness too.

**Deadlock** is checked in every run: where a system may stop, its end is a step
that changes nothing (`Done` of the compiler, the last disjunct of the scheduler's
`Next`, `Stopped` of the section, `AllOver` of the escalator), and the others never
stop.

**Fairness.** *Compiler*: it runs on. *Scheduler*: the code between two awaits
runs on, and every `execute` ends, since model and tool calls carry timeouts
and the run's abort signal. *Gate*: a caller with a turn goes on, because its
polls are on a timer and a tool call ends; nothing makes a process save its marks,
be cancelled or wake. *Lease*:
continuations of settled promises run, timers fire, and what is in the page
unwinds, since Playwright and CDP calls have timeouts; nobody has to ask for
anything. `ForgottenHoldEnds` is about behaviours in which the person stops acting.
*Budget*: none is assumed; its properties are all about safety. *Section*: T2 runs
on, the waits of a worker are all bounded and its work ends, for the reason given
for the scheduler. *Resume*: a process that was asked to do something goes on with
it; nobody has to resume, and `StrandedComesBack` is about behaviours in which
somebody does again and again. *Permission*: evaluators answer (a model call has
a timeout), timers fire and continuations run; nobody has to answer a question.

### Disagreements with the documentation or intent

* `lease_leak`: `releaseIfHeldBy` does nothing while *any* operation has the slot.
  When that is the teardown of a viewer's stream or a change of the picture, the
  ended worker's lease is never given up and the run's other workers queue behind
  it until the run is stopped.
* `straggler_rerouted`: a call that finds its provider backing off after its waits
  is passed to `generate` again without a look at its run, which the failover paths
  take. A straggler's call then reserves, spends and can stop the run that
  followed, which the comment on `runGeneration` says it must not.
* `section_lock_leak`: a worker's locks are given back in a wrapper around the bus's
  `publish`, and the first publication of any worker takes every wrapper off. The
  trace: two workers lock a file each, the first publishes and its file is given
  back, the second publishes with no wrapper left and keeps its lock; later workers on that
  file wait out two timeouts and go on without one. (A worker that throws never
  publishes, and gives nothing back of its own either; `FinishedHoldsNoLock` is
  about those that published.)
* `resume_twice`: nothing renews a claim, so a run of more than ten minutes loses it to
  another process that resumes; both then restore the same work.

Noticed in reading, and not the subject of a run: repair drops every edge between
two nodes that are each on *some* cycle, also between two cycles; a node below a
join of two failures is reported with one of them; the gate's header promises
first come first served across processes, but a polling group caller leaves no sign
and can be overtaken for as long as turns of another process overlap; section ids
of a re-plan may collide with those of the plan before (`t1-administrator.ts:662`,
`cascade.ts:1328`), so that an inherited section can be superseded by another; after a
respawn a breaker or wrap-up at the top of the loop replaces results of workers of
that wave that had finished; the REPL keeps one resolver for an approval
(`cli/repl/index.tsx:1087`), so a second question replaces the first, which then only
times out.

## 4. What TLAPS proves

All theorems hold for every value of the constants, under the named assumptions
of the modules: `PlansAssumption` (a plan is a sequence of nodes with a title or
not), `NodeAssumption` (a finite set of naturals) and `GraphsAssumption` (what the
scheduler is given can be scheduled, as `RepairIsEnough` shows of the compiler),
`GateAssumption`, `LeaseAssumption` (the sets of operations are disjoint and do
not contain the actors' names), `BudgetAssumption` (the caps, the smallest
answer and the number of local slots are not zero), `SubtaskAssumption`,
`PlannedAssumption` and `FilesAssumption` (finitely many numbered subtasks, graphs over
those of the plan, a list of files for each), `StoreAssumption` (the bounds are
naturals and at least one checkpoint is kept) and `CallsAssumption` (the type of
what a request is about).

* **`GraphCompilerProofs`**: `SearchIsExact`, `RepairIsEnough`, `InnocentEdgesStay`
  and `RepairedSchedulable`, for every plan. The search is Tarjan's with the
  recursion turned into `frames`, and the argument is his. The open nodes are those
  with a frame (`Gray`). `OrderInv`: the stack and the frames are in the order of
  the numbers. `ReachInv`: an open node reaches all that was put on the stack after
  it, everything on the stack reaches an open node numbered no later, and a lowlink
  is the number of a node on the stack that is reached. `EdgeInv`: followed edges lead
  to numbered nodes and, from a node on the stack, to nothing on the stack below
  the lowlink of the open node above. `VerdictInv`: what has left the stack leads
  only to what has, and those marked are the ones upstream of themselves. When the
  last frame closes on its own number, what lies above it on the stack is therefore
  one component that leads only into finished ones. The search ends with everything
  finished. That repair is enough is a fact about graphs: a group of nodes without a
  free one would contain, by finiteness, a node upstream of itself, but removing the
  edges among cyclic nodes leaves none.
* **`SchedulerProofs`**: `TypeCorrect`, `DependencyOrderHolds`, `BlockingIsExact`,
  `CausesAreTrue`, `CycleNeverReported`, `SettledStaysSettled`, and
  `SchedulerImplementsPlan`. None of these is inductive. The invariant `Inv` adds:
  an in-degree is the number of dependencies not yet released (`CountInv`), what
  has started had all its dependencies released (`OrderInv`), everything below a
  dead node is blocked except below the failures of the wave still going on
  (`ClosureInv`), and during the walk what is below a failure has been reached or
  is queued (`WalkInv`). `NeverReportsCycle` then follows from `GraphInv` (the
  graph is schedulable): among unsettled nodes one waits
  for none of the others, and its count is zero.
* **`WorkspaceGateProofs`**: `TypeCorrect`, `ExclusionHolds`, `NothingIsLeftBehind`,
  `PendingKeepsOutHolds`, `TurnsGoInOrder`. Exclusion is not inductive: two callers inside in two
  processes fit because each that goes in sees the other's file. The invariant
  `TypeOK ∧ DrainsAlone ∧ FitInProcess ∧ FilesInv ∧ FitAcross ∧ NothingLeftBehind`
  says that a turn that did not live through a stall has its marker or lock on
  disk (`FilesInv`), that turns within a process fit (`FitInProcess`), and that
  turns inside in two processes fit (`FitAcross`). The order of turns is
  `PumpInOrder` (a pump leaves nobody waiting ahead of a caller it gives a turn)
  for each list that is pumped: the queue, the queue one joined, the queue one left;
  that none goes to a caller that gave up is `TurnsWereAskedFor`, since the queue
  lists waiting callers only.
* **`BrowserLeaseProofs`**: `TypeCorrect`, `OneUserHolds`, `NobodyWaits`,
  `DeadlineHolds`, `HandBackHolds`, `SequenceIsKept`, `LeaseImplementsSlotQueue`. Together with two facts they
  are inductive: only the person's hold has a timer or can lapse
  (`TimerIsThePersons`), and a worker leaves early only in a run that was stopped
  (`LeavesWhenStopped`). From the invariant follows `LeaseImplementsSlotQueue`, over
the four things that happen to the slot: `AskPromised`, `GiveUpPromised`,
`GiveBackPromised` and nothing (`SlotLeftAlone`). The heart is `EndActionKeeps`: the end of a turn in the
  slot hands the slot on, may end a lapsed hold, and leaves nobody in the page.
* **`RunBudgetProofs`**: `SlotsStayExact`, `CapStopsTheRun`, `ShutStaysShut`,
  `StragglersLeaveNoMark`, `BudgetImplementsSlotQueue`. The invariant keeps the slots taken equal to the number
  of callers that have one (`SlotsInv`, with a finite set of holders even if there
  are infinitely many callers), the queue equal to those who wait, all with local
  calls (`QueueInv`), and the abort of a stopped run fired (`SwitchInv`): the
  switch, not the flag, is what keeps a call of an earlier run from going out.
  `KeptBy` states once what a step has to leave alone; `GiveBackEffect` and
  `AdmitEffect` are the two halves of a call that is made again. The refinement of
  `SlotQueue` goes action by action (`StepPromised`): a call made again gives its slot
  back in the step in which it is admitted again (`MadeAgainPromised`).
  What the accounts add up to is a second invariant, `Ledger`, over the first:
  `TypeCorrect`, `LedgerStaysExact`, `ReserveStays`. `Total(f)` counts what `f` gives
  to each, one by one, so that a sum is a cardinality: `TotalMoves` says what it does
  when one caller's share changes, and `BooksMove` reduces a step of a call to
  the difference between what it held and what it holds. `BooksInv` adds to the
  property that every sum is finite, also over infinitely many callers, and that
  what work is estimated at is a part of what is held; `TallyInv` that work spent no
  more than the run; `RunsInv` that no call is of a run to come, so the sums are
  empty when a run begins.
* **`DurableResumeProofs`**: `TypeCorrect`, `ClaimStands`, `NothingLost`. A claim is
  safe because every operation on a claim goes by its name, which holds the time it
  was taken at: no two claims share a time, so what another process gives back or
  discards is its own claim or one that has timed out. `NothingLost` needs that what a
  run started from is what its claimed checkpoint saved, and that what it saves is
  merged on top of that (`MergedType`).
* **`PermissionEscalatorProofs`**: `TypeCorrect`, `MandateHolds`,
  `LateAnswersDecideNothing`. The invariant relates each cache to the decisions that
  were made: the task's holds only what a person said for good
  (`TaskCacheIsThePersons`), a section's approval is marked as a model's, or the tool
  is safe (`SectionCacheIsMarked`); an approval that is decided and not yet returned
  has its mandate already (`ApprovalsInHand`); no tier sees a local-only request
  (`TiersSeeNothingLocal`); and who is parked has not gone (`ParkedIsThere`).
* **`SectionProofs`**: `TypeCorrect` (with three workers at most for a subtask),
  `LocksHeld`, `InputsAreThere`, `OneStory`, `VerdictsStand`, with one invariant. `PhaseInv` says when
  a worker is about: only in a wave, and while results are gone through only the one
  that is retried. `InstanceInv` counts a subtask's workers: one, one more once the
  respawn is used up, one more once it has left `remaining`. `CountInv`: an
  in-degree counts the dependencies not yet dealt with, and what is in a wave waits
  for none, so that no respawn or retry clears an output somebody builds on.
  `StoryInv`: a worker with a result has published it, and for what has been dealt
  with bus and results agree. `LockInv`: only a worker that has begun has locks, and
  all it got are its own. Steps of workers keep what T2 rests on and the other way
  round (`WorkerKeepsManager`, `SameWorkersKeepLocks`). `OpenChangesAlone` is why a
  verdict stands: whatever publishes or is opened again was open (`ActiveIsOpen`).
  That a subtask could wait for
  itself is not excluded by these: safety does not need the repair, `SectionEnds` does.

**Only model-checked**: all liveness (`CompilationEnds`, `RunCompletes`,
`AloneServed`, `ForgottenHoldEnds`, `SectionEnds`, `StrandedComesBack`,
`EveryRequestAnswered`), since the prover has no ENABLED, and what the violations
show. Every safety and action property of a passing run is proved. The other way
round, the type invariants of `Scheduler`, `WorkspaceGate`, `BrowserLease`,
`RunBudget`, `DurableResume` and `PermissionEscalator` are proved and not the subject of a run.

## 5. Plan

What is left, in this order:

1. Liveness of a call that waits for a local slot, which needs fairness of what the
   provider answers.
2. The gates of the facade for a plan, an escalation and a clarification, with their
   timeouts.
3. T2 composed with `RunBudget`: a respawn gives up the calls of its wave.

## 6. Not modelled

What models are asked and answer; prices and scoring (floating point); the
contents of files, pages and messages; the operating system below single file
operations; the session pool and billing of the remote browser; the cloud
server's SQL. `PROJECT.json` has the list with reasons.

## 7. Running it

    tlc -workers 2 -config scheduler.cfg MCScheduler
    tlapm SchedulerProofs.tla

The run, its module and its configuration are named in `PROJECT.json`.
