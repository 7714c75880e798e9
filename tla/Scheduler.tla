----------------------------- MODULE Scheduler -----------------------------
(***************************************************************************)
(* DependencyScheduler.run (src/core/orchestration/scheduler.ts), on the   *)
(* graph compileTaskGraph makes of a plan.                                 *)
(*                                                                         *)
(* The scheduler executes a graph in waves: all unsettled nodes with an    *)
(* in-degree of zero run together, or one after another in sequential      *)
(* mode.  A node that finishes lowers the in-degree of its dependents,     *)
(* unless it failed and the policy is "block"; the failures of a wave then *)
(* block everything downstream of them, by a breadth-first walk from the   *)
(* failed nodes in ordinal order.                                          *)
(*                                                                         *)
(* Ids and ordinals coincide here: a node is its ordinal.  The caller's    *)
(* hooks only report (T1 adds to a result map), so a node's completion     *)
(* and its onNodeComplete are one step.                                    *)
(***************************************************************************)
EXTENDS TaskGraph

CONSTANTS
  Node,     \* the nodes of the plan
  Graphs    \* the graphs a plan may be compiled to

ASSUME NodeAssumption == Node \subseteq Nat /\ IsFiniteSet(Node)

\* What compileTaskGraph returns can be scheduled: GraphCompilerProofs shows
\* that it does, for every plan.
ASSUME GraphsAssumption ==
  \A g \in Graphs : g \in [Node -> SUBSET Node] /\ Schedulable(g)

VARIABLES
  deps,       \* node.dependsOn
  policy,     \* onUpstreamFailure
  mode,       \* "parallel" or "sequential"
  pc,         \* where run() is
  inDegree,
  settled,    \* nodes that ran, or were skipped
  outcome,    \* how each node that ran turned out, "none" before
  running,    \* nodes whose execute() is awaited
  toRun,      \* nodes of a sequential wave that have not started
  wave,       \* the nodes of the current wave
  thrown,     \* nodes whose execute() rejected
  queue, rootsFor,   \* locals of blockDescendants
  blocked     \* the blockedBy of each blocked node, empty for the others

fixed == <<deps, policy, mode>>
walk == <<queue, rootsFor>>
vars == <<fixed, pc, inDegree, settled, outcome, running, toRun, wave,
          thrown, walk, blocked>>

Outcomes == {"succeeded", "partial", "failed"}
NoRoots == [n \in Node |-> {}]

Dependents(n) == {m \in Node : n \in deps[m]}

\* The in-degree of a node at first.
DependencyCount(n) == Cardinality(deps[n])

\* Mutated form of Unlocks: partial output does not release.
UnlocksIfSucceeded(result) == result = "succeeded"

\* The outcome of a node releases its dependents.
Unlocks(result) == ~(result = "failed" /\ policy = "block")

\* Mutated form of Ready: one dependency may be missing.
ReadyButOne == {n \in Node \ settled : inDegree[n] <= 1}

Ready == {n \in Node \ settled : inDegree[n] = 0}

Init ==
  /\ deps \in Graphs
  /\ policy \in {"continue", "block"}
  /\ mode \in {"parallel", "sequential"}
  /\ pc = "select"
  /\ inDegree = [n \in Node |-> DependencyCount(n)]
  /\ settled = {} /\ outcome = [n \in Node |-> "none"]
  /\ running = {} /\ toRun = {} /\ wave = {} /\ thrown = {}
  /\ queue = << >> /\ rootsFor = NoRoots
  /\ blocked = NoRoots

(***************************************************************************)
(* Waves                                                                   *)
(***************************************************************************)

\* The next wave is every node that is ready.  Without one the graph was
\* "cyclic or incomplete" and run() throws.
SelectWave ==
  /\ pc = "select" /\ settled # Node
  /\ wave' = Ready
  /\ running' = IF mode = "parallel" THEN Ready ELSE {}
  /\ toRun' = IF mode = "parallel" THEN {} ELSE Ready
  /\ pc' = IF Ready = {} THEN "cyclic" ELSE "wave"
  /\ UNCHANGED <<fixed, inDegree, settled, outcome, thrown, walk, blocked>>

\* Sequential mode: the next node of the wave, in ordinal order.
StartNext ==
  /\ pc = "wave" /\ running = {} /\ toRun # {}
  /\ \E n \in toRun :
       /\ \A m \in toRun : n <= m
       /\ running' = {n}
       /\ toRun' = toRun \ {n}
  /\ UNCHANGED <<fixed, pc, inDegree, settled, outcome, wave, thrown, walk,
                 blocked>>

\* execute() resolves.  After a rejected sibling has ended run(), the
\* workers of a parallel wave still do this.
Finish(n, result) ==
  /\ n \in running
  /\ running' = running \ {n}
  /\ outcome' = [outcome EXCEPT ![n] = result]
  /\ settled' = settled \cup {n}
  /\ inDegree' =
       [m \in Node |->
          IF n \in deps[m] /\ Unlocks(result) /\ inDegree[m] > 0
          THEN inDegree[m] - 1 ELSE inDegree[m]]
  /\ UNCHANGED <<fixed, pc, toRun, wave, thrown, walk, blocked>>

\* Mutated form of Throw: the error is swallowed and the run goes on.
ThrowSwallowed(n) ==
  /\ n \in running
  /\ running' = running \ {n}
  /\ thrown' = thrown \cup {n}
  /\ UNCHANGED <<fixed, pc, toRun, inDegree, settled, outcome, wave, walk,
                 blocked>>

\* execute() rejects (T1 throws here when the run has been cancelled): run()
\* rejects with it, and a sequential wave goes no further.
Throw(n) ==
  /\ n \in running
  /\ running' = running \ {n}
  /\ thrown' = thrown \cup {n}
  /\ pc' = "rejected" /\ toRun' = {}
  /\ UNCHANGED <<fixed, inDegree, settled, outcome, wave, walk, blocked>>

\* Mutated form of FailedThisWave: partial output counts as failure.
NotSucceededThisWave == {n \in wave : outcome[n] # "succeeded"}

FailedThisWave == {n \in wave : outcome[n] = "failed"}

(***************************************************************************)
(* Blocking                                                                *)
(***************************************************************************)

\* The visits of a walk in the order they are queued: by root, then by node.
Before(v, w) == v.root < w.root \/ (v.root = w.root /\ v.node < w.node)

Enumerations(S) ==
  {s \in [1..Cardinality(S) -> S] :
     /\ \A x \in S : \E i \in DOMAIN s : s[i] = x
     /\ \A i, j \in DOMAIN s : i < j => Before(s[i], s[j])}

\* Mutated form of Visits: the cause recorded is the node just above instead
\* of the failure.
VisitsFromParent(n, root) == {[node |-> m, root |-> n] : m \in Dependents(n)}

Visits(n, root) == {[node |-> m, root |-> root] : m \in Dependents(n)}

\* The wave is over.  Its failures, taken together, start a walk from their
\* dependents; without any (or under "continue") the next wave is selected.
EndWave ==
  /\ pc = "wave" /\ running = {} /\ toRun = {}
  /\ IF policy = "block" /\ FailedThisWave # {}
     THEN /\ pc' = "walk"
          /\ queue' \in Enumerations(UNION {Visits(r, r) : r \in FailedThisWave})
     ELSE /\ pc' = "select"
          /\ UNCHANGED queue
  /\ UNCHANGED <<fixed, inDegree, settled, outcome, running, toRun, wave,
                 thrown, rootsFor, blocked>>

\* One turn of the walk: a node already reached records the new root and is
\* not walked again, a node reached for the first time queues its dependents.
Visit ==
  /\ pc = "walk" /\ queue # << >>
  /\ LET node == Head(queue).node
         root == Head(queue).root
         seen == rootsFor[node] # {}
     IN  IF node \in settled
         THEN queue' = Tail(queue) /\ UNCHANGED rootsFor
         ELSE /\ rootsFor' = [rootsFor EXCEPT ![node] = @ \cup {root}]
              /\ IF seen THEN queue' = Tail(queue)
                 ELSE \E more \in Enumerations(Visits(node, root)) :
                        queue' = Tail(queue) \o more
  /\ UNCHANGED <<fixed, pc, inDegree, settled, outcome, running, toRun, wave,
                 thrown, blocked>>

\* The walk is over: the nodes it reached are settled as blocked.
EmitBlocked ==
  /\ pc = "walk" /\ queue = << >>
  /\ blocked' = [n \in Node |-> IF n \in settled THEN blocked[n] ELSE rootsFor[n]]
  /\ settled' = settled \cup {n \in Node : rootsFor[n] # {}}
  /\ rootsFor' = NoRoots
  /\ pc' = "select"
  /\ UNCHANGED <<fixed, inDegree, outcome, running, toRun, wave, thrown, queue>>

-----------------------------------------------------------------------------

Return ==
  /\ pc = "select" /\ settled = Node
  /\ pc' = "returned"
  /\ UNCHANGED <<fixed, inDegree, settled, outcome, running, toRun, wave,
                 thrown, walk, blocked>>

Ended == pc \in {"returned", "rejected", "cyclic"} /\ running = {}

Next ==
  \/ SelectWave \/ StartNext \/ EndWave \/ Visit \/ EmitBlocked \/ Return
  \/ \E n \in Node : Throw(n) \/ \E result \in Outcomes : Finish(n, result)
  \/ (Ended /\ UNCHANGED vars)

\* run() itself is never preempted for good, and every execute() the caller
\* supplies settles in the end (T1 bounds each one by the run's abort signal
\* and the model calls' own timeouts).
Fairness ==
  /\ WF_vars(SelectWave \/ StartNext \/ EndWave \/ Visit \/ EmitBlocked \/ Return)
  /\ \A n \in Node :
       WF_vars(Throw(n) \/ \E result \in Outcomes : Finish(n, result))

Spec == Init /\ [][Next]_vars /\ Fairness

-----------------------------------------------------------------------------
(* Properties                                                              *)

Blocked == {n \in Node : blocked[n] # {}}
Failed == {n \in Node : outcome[n] = "failed"}

\* Nodes whose outcome lets their dependents start.
Released == {n \in Node : outcome[n] # "none" /\ Unlocks(outcome[n])}

TypeOK ==
  /\ deps \in [Node -> SUBSET Node]
  /\ policy \in {"continue", "block"} /\ mode \in {"parallel", "sequential"}
  /\ pc \in {"select", "wave", "walk", "returned", "rejected", "cyclic"}
  /\ inDegree \in [Node -> Nat]
  /\ outcome \in [Node -> Outcomes \cup {"none"}]
  /\ {settled, running, toRun, wave, thrown} \subseteq SUBSET Node
  /\ queue \in Seq([node : Node, root : Node])
  /\ rootsFor \in [Node -> SUBSET Node] /\ blocked \in [Node -> SUBSET Node]

\* A node is worked on only after everything it depends on has released it,
\* directly and through others: counting dependencies down (scheduler.ts 191)
\* never lets a node start early, whatever the order a wave finishes in.
DependencyOrder ==
  \A n \in Node :
    n \in running \/ outcome[n] # "none" => Upstream(deps, n) \subseteq Released

\* When run() returns, the nodes it skipped are exactly those with a failure
\* upstream of them, and none under "continue": the walk over the wave's
\* failures neither misses a node two hops down nor blocks one that ran.
BlockedIffFailedUpstream ==
  pc = "returned" =>
    Blocked = {n \in Node : policy = "block" /\ Upstream(deps, n) \cap Failed # {}}

\* The causes a blocked node is reported with are failures upstream of it,
\* and include every direct dependency that failed in the same wave.
BlockedByNamesCauses ==
  \A n \in Blocked :
    /\ blocked[n] \subseteq Failed \cap Upstream(deps, n)
    /\ pc = "select" /\ blocked[n] \cap FailedThisWave # {} =>
         deps[n] \cap FailedThisWave \subseteq blocked[n]

\* The error for a "cyclic or incomplete" graph is never raised: on a graph
\* compileTaskGraph has repaired, whatever is not yet settled when a wave is
\* selected has a node that is ready.
NeverReportsCycle == pc # "cyclic"

KeepsSettled ==
  \A n \in settled : /\ n \in settled' /\ n \notin running'
                     /\ outcome'[n] = outcome[n] /\ blocked'[n] = blocked[n]

\* What is settled stays settled, with the outcome or the causes it was
\* settled with: a node is never run twice, nor run after it was blocked.
SettledForGood == [][KeepsSettled]_vars

\* The scheduler is an implementation of PlanExecution.
PlanStatus ==
  [n \in Node |->
     IF n \in thrown THEN "lost"
     ELSE IF n \in running THEN "working"
     ELSE IF outcome[n] # "none"
          THEN IF outcome[n] = "failed" THEN "failed" ELSE "usable"
     ELSE IF n \in Blocked THEN "skipped" ELSE "pending"]

Plan == INSTANCE PlanExecution
          WITH graph <- deps, blocks <- (policy = "block"),
               status <- PlanStatus, abandoned <- (thrown # {})

\* Every step of the scheduler is one that an execution of the plan allows.
ImplementsPlan == Plan!Spec

\* run() comes to an end with nothing left running: it settles every node,
\* or a worker's error ended it and the workers still out have come back.
RunCompletes == Plan!Completion
=============================================================================
