--------------------------- MODULE PlanExecution ---------------------------
(***************************************************************************)
(* What executing a plan promises, apart from waves, in-degrees and queues. *)
(* Every node of a dependency graph is worked on at most once, after the   *)
(* work it depends on; under the "block" policy a node is skipped exactly  *)
(* when something upstream of it failed.  An execution can be abandoned by *)
(* a worker that raises an error: work already started may still finish.   *)
(* Scheduler implements this specification.                                *)
(***************************************************************************)
EXTENDS TaskGraph

CONSTANT Node

VARIABLES
  graph,    \* what each node depends on
  blocks,   \* whether a failure blocks what depends on it
  status,   \* how far each node has come
  abandoned \* whether an error ended the execution early

vars == <<graph, blocks, status, abandoned>>

Statuses == {"pending", "working", "usable", "failed", "skipped", "lost"}

\* A finished node lets its dependents start.
Releases(n) == status[n] = "usable" \/ (status[n] = "failed" /\ ~blocks)

Settled(n) == status[n] \in {"usable", "failed", "skipped"}

Init ==
  /\ graph \in {g \in [Node -> SUBSET Node] : Schedulable(g)}
  /\ blocks \in BOOLEAN
  /\ status = [n \in Node |-> "pending"]
  /\ abandoned = FALSE

Set(S, new) == status' = [n \in Node |-> IF n \in S THEN new ELSE status[n]]

\* Some nodes whose dependencies have all been released start together.
Start(S) ==
  /\ ~abandoned
  /\ \A n \in S : status[n] = "pending" /\ \A d \in graph[n] : Releases(d)
  /\ Set(S, "working")
  /\ UNCHANGED <<graph, blocks, abandoned>>

Finish(n, result) ==
  /\ status[n] = "working"
  /\ Set({n}, result)
  /\ UNCHANGED <<graph, blocks, abandoned>>

\* Nodes that can never run are skipped together, each below a failure.
Skip(S) ==
  /\ ~abandoned /\ blocks
  /\ \A n \in S :
       /\ status[n] = "pending"
       /\ \E d \in Upstream(graph, n) : status[d] = "failed"
  /\ Set(S, "skipped")
  /\ UNCHANGED <<graph, blocks, abandoned>>

\* The worker of a node raises an error: the execution is abandoned.
Abandon(n) ==
  /\ status[n] = "working"
  /\ Set({n}, "lost")
  /\ abandoned' = TRUE
  /\ UNCHANGED <<graph, blocks>>

Next ==
  \/ \E S \in SUBSET Node : S # {} /\ (Start(S) \/ Skip(S))
  \/ \E n \in Node : Finish(n, "usable") \/ Finish(n, "failed") \/ Abandon(n)

Spec == Init /\ [][Next]_vars

\* The execution is over for everyone: nothing runs, and unless it was
\* abandoned every node has been worked on or skipped.
Over == /\ \A n \in Node : status[n] # "working"
        /\ abandoned \/ \A n \in Node : Settled(n)

Completion == <>[]Over
=============================================================================
