---------------------------- MODULE WorkspaceGate ----------------------------
(***************************************************************************)
(* The gate that decides who may use a workspace at once                   *)
(* (tools/workspace-gate.ts): within a process a FIFO queue in front of    *)
(* the callers that have a turn; between processes a marker file for each  *)
(* turn of a group, one lock file for a turn alone, and a pending marker   *)
(* for marks a process could not save.  ToolRegistry takes every turn      *)
(* against the other processes too (registry.ts:496), so the model does.   *)
(*                                                                         *)
(* One step is one synchronous stretch of a process between two awaits;    *)
(* what withLock(mutex) covers is always inside one.  A process can end    *)
(* anywhere between two steps and leave its files.  One that others cannot *)
(* ask about (another host or PID namespace) can also stall until its      *)
(* heartbeat is older than STALE_MS, lose its files to others, and go on.  *)
(***************************************************************************)
EXTENDS Integers, Sequences, FiniteSets

CONSTANTS
    Processes,   \* the Cascade processes sharing the workspace
    NoProcess,   \* the content of a lock file that is not there
    Callers,     \* the tool calls and workspace readers that take turns
    ProcessOf,   \* the process of each caller
    ModesOf,     \* the modes each caller may ask for
    Mortal,      \* the processes that may end (bounds the crashes)
    Unseen       \* the processes whose liveness the others cannot ask

GateModes == {"tools", "commands", "git", "alone"}

ASSUME GateAssumption ==
    /\ NoProcess \notin Processes
    /\ ProcessOf \in [Callers -> Processes]
    /\ ModesOf \in [Callers -> SUBSET GateModes]
    /\ Mortal \subseteq Processes
    /\ Unseen \subseteq Processes

VARIABLES
    life,     \* per process: "live", "stalled" or "dead"
    mode,     \* per caller: the mode it last asked for
    pc,       \* per caller: where it is in enter()
    queue,    \* per process: the callers waiting for a turn, in order
    markers,  \* the callers whose group marker is in the state folder
    lock,     \* the owner in the lock file `alone'
    pending,  \* the processes with a pending marker
    lapsed    \* history: callers whose turn lived through a stall

vars == <<life, mode, pc, queue, markers, lock, pending, lapsed>>

\* A caller is idle, in the queue, granted its turn in the process and
\* polling for the others', holding the lock until they are gone, or inside.
Stages == {"idle", "queued", "polling", "draining", "inside"}
Turn == {"polling", "draining", "inside"}

\* q lists the queued callers of p, each once, when everyone is where `at' says.
Lists(p, q, at) ==
    /\ q \in Seq(Callers)
    /\ \A c \in Callers :
        (\E i \in 1..Len(q) : q[i] = c) <=> (ProcessOf[c] = p /\ at[c] = "queued")
    /\ \A i, j \in 1..Len(q) : q[i] = q[j] => i = j

\* The types of the variables; a queue lists exactly the callers of its
\* process that wait for a turn, each once: one that gave up or was granted
\* its turn is not granted another.
TypeOK ==
    /\ life \in [Processes -> {"live", "stalled", "dead"}]
    /\ mode \in [Callers -> GateModes]
    /\ pc \in [Callers -> Stages]
    /\ queue \in [Processes -> Seq(Callers)]
    /\ \A p \in Processes : Lists(p, queue[p], pc)
    /\ markers \subseteq Callers
    /\ lock \in Processes \cup {NoProcess}
    /\ pending \subseteq Processes
    /\ lapsed \subseteq Callers

Fits(m, n) == m = "tools" /\ n = "tools"

Init ==
    /\ life = [p \in Processes |-> "live"]
    /\ mode = [c \in Callers |-> "tools"]
    /\ pc = [c \in Callers |-> "idle"]
    /\ queue = [p \in Processes |-> <<>>]
    /\ markers = {}
    /\ lock = NoProcess
    /\ pending = {}
    /\ lapsed = {}

-----------------------------------------------------------------------------
(* Within a process.                                                       *)

CallersOf(p) == {c \in Callers : ProcessOf[c] = p}

\* The first n callers of q run with each other and with those in R.
RunTogether(n, q, R, md) ==
    \A i \in 1..n : \A d \in R \cup {q[j] : j \in 1..(i - 1)} :
        Fits(md[q[i]], md[d])

\* A pump that skips a head it cannot grant.
PumpPastHead(p, q, at, md) ==
    LET R == {c \in CallersOf(p) : at[c] \in Turn}
        Fit == {i \in 1..Len(q) : \A d \in R : Fits(md[q[i]], md[d])}
        n == IF Fit = {} THEN 0 ELSE CHOOSE i \in Fit : \A j \in Fit : i <= j
    IN  /\ queue' = [queue EXCEPT ![p] =
                        SubSeq(q, 1, n - 1) \o SubSeq(q, n + 1, Len(q))]
        /\ pc' = [c \in Callers |-> IF n # 0 /\ c = q[n] THEN "polling" ELSE at[c]]

\* Turns go to the callers at the head of the queue q, each while it fits all
\* those that have one (at says where everyone is) and not a caller further.
Pump(p, q, at, md) ==
    LET R == {c \in CallersOf(p) : at[c] \in Turn}
    IN  \E n \in 0..Len(q) :
            /\ RunTogether(n, q, R, md)
            /\ n < Len(q) => ~RunTogether(n + 1, q, R, md)
            /\ queue' = [queue EXCEPT ![p] = SubSeq(q, n + 1, Len(q))]
            /\ pc' = [c \in Callers |->
                        IF \E i \in 1..n : q[i] = c THEN "polling" ELSE at[c]]

\* enter(): the caller joins the queue, which is pumped.
Enter(c, m) ==
    LET p == ProcessOf[c]
        md == [mode EXCEPT ![c] = m]
    IN  /\ life[p] = "live"
        /\ pc[c] = "idle"
        /\ mode' = md
        /\ Pump(p, Append(queue[p], c), [pc EXCEPT ![c] = "queued"], md)
        /\ UNCHANGED <<life, markers, lock, pending, lapsed>>

\* A caller that gave up stays in the queue.
StillQueued(c) == queue[ProcessOf[c]]

\* The queue without the caller that gave up.
Unqueued(c) ==
    LET q == queue[ProcessOf[c]]
        at == CHOOSE i \in DOMAIN q : q[i] = c
    IN  SubSeq(q, 1, at - 1) \o SubSeq(q, at + 1, Len(q))

\* The run of a queued caller is cancelled: it leaves the queue, which may let
\* those behind it through.
GiveUpQueued(c) ==
    LET p == ProcessOf[c]
    IN  /\ life[p] = "live"
        /\ pc[c] = "queued"
        /\ Pump(p, Unqueued(c), [pc EXCEPT ![c] = "idle"], mode)
        /\ UNCHANGED <<life, mode, markers, lock, pending, lapsed>>

\* leave(): the turn in the process ends.
EndTurn(c) ==
    /\ Pump(ProcessOf[c], queue[ProcessOf[c]], [pc EXCEPT ![c] = "idle"], mode)
    /\ lapsed' = lapsed \ {c}

-----------------------------------------------------------------------------
(* Between processes.                                                      *)

\* Whether q's files count as left: its owner ended, or is out of sight and
\* has not touched them for STALE_MS.
Left(q) == life[q] # "live"

\* The lock seen as nobody else's, whoever holds it.
LockSeenFree(p) == TRUE

\* Nobody else's lock stands: there is none, it is p's, or it was left.
LockFree(p) == lock \in {NoProcess, p} \cup {q \in Processes : Left(q)}

\* A lock that was left is removed by whoever finds it.
LockTidied(p) == IF lock = p THEN p ELSE NoProcess

\* othersPending that takes a marker of a process that ended as gone.
LivePendingOfOthers(p) == {q \in pending \ {p} : ~Left(q)}

PendingOfOthers(p) == pending \ {p}

\* A pending marker whose process ended refuses every turn.
Refuses(p) == \E q \in PendingOfOthers(p) : Left(q)

\* One whose process runs is waited for.
WaitsForMarks(p) == PendingOfOthers(p) # {} /\ ~Refuses(p)

\* others() removes the markers that were left and reports the rest.
MarkersTidied(p) == {d \in markers : ProcessOf[d] = p \/ ~Left(ProcessOf[d])}

OthersInside(p) == {d \in MarkersTidied(p) : ProcessOf[d] # p}

\* One poll of Markers.group(), under the mutex.
GroupPoll(c) ==
    LET p == ProcessOf[c]
    IN  /\ life[p] = "live"
        /\ pc[c] = "polling"
        /\ mode[c] # "alone"
        /\ LockFree(p)
        /\ lock' = LockTidied(p)
        /\ \/ /\ Refuses(p)
              /\ EndTurn(c)
              /\ UNCHANGED markers
           \/ /\ PendingOfOthers(p) = {}
              /\ \A d \in OthersInside(p) : Fits(mode[c], mode[d])
              /\ markers' = MarkersTidied(p) \cup {c}
              /\ pc' = [pc EXCEPT ![c] = "inside"]
              /\ UNCHANGED <<queue, lapsed>>
           \/ /\ PendingOfOthers(p) = {}
              /\ \E d \in OthersInside(p) : ~Fits(mode[c], mode[d])
              /\ markers' = MarkersTidied(p)
              /\ UNCHANGED <<pc, queue, lapsed>>
           \/ /\ WaitsForMarks(p)
              /\ UNCHANGED <<pc, queue, markers, lapsed>>
        /\ UNCHANGED <<life, mode, pending>>

\* One poll of Markers.alone() for the lock, under the mutex.
AlonePoll(c) ==
    LET p == ProcessOf[c]
    IN  /\ life[p] = "live"
        /\ pc[c] = "polling"
        /\ mode[c] = "alone"
        /\ LockFree(p)
        /\ \/ /\ Refuses(p)
              /\ lock' = LockTidied(p)
              /\ EndTurn(c)
           \/ /\ PendingOfOthers(p) = {}
              /\ lock' = p
              /\ pc' = [pc EXCEPT ![c] = "draining"]
              /\ UNCHANGED <<queue, lapsed>>
           \/ /\ WaitsForMarks(p)
              /\ lock' = LockTidied(p)
              /\ UNCHANGED <<pc, queue, lapsed>>
        /\ UNCHANGED <<life, mode, markers, pending>>

\* drop() of a lock taken by c without looking whose it is now.
LockWithout(c) == IF mode[c] = "alone" THEN NoProcess ELSE lock

\* drop(): the lock goes only while it is still this process's.
LockDropped(c) ==
    IF mode[c] = "alone" /\ lock = ProcessOf[c] THEN NoProcess ELSE lock

\* With the lock held, one look whether the other processes' callers are gone.
Drain(c) ==
    LET p == ProcessOf[c]
    IN  /\ life[p] = "live"
        /\ pc[c] = "draining"
        /\ markers' = MarkersTidied(p)
        /\ \/ /\ OthersInside(p) = {}
              /\ Refuses(p)
              /\ lock' = LockDropped(c)
              /\ EndTurn(c)
           \/ /\ OthersInside(p) = {}
              /\ PendingOfOthers(p) = {}
              /\ pc' = [pc EXCEPT ![c] = "inside"]
              /\ UNCHANGED <<queue, lock, lapsed>>
           \/ /\ OthersInside(p) # {}
              /\ UNCHANGED <<pc, queue, lock, lapsed>>
        /\ UNCHANGED <<life, mode, pending>>

\* The lock stays where a wait is given up.
LockKept(c) == lock

\* What giving up the wait does to the lock.
LockGivenUp(c) == IF pc[c] = "draining" THEN LockDropped(c) ELSE lock

\* The wait for the other processes ends in an error: the run was cancelled,
\* the mutex was not had in time, or the folder cannot be read.
GiveUp(c) ==
    /\ life[ProcessOf[c]] = "live"
    /\ pc[c] \in {"polling", "draining"}
    /\ lock' = LockGivenUp(c)
    /\ EndTurn(c)
    /\ UNCHANGED <<life, mode, markers, pending>>

\* The function enter() returned: the marker or the lock goes, then the turn.
Leave(c) ==
    /\ life[ProcessOf[c]] = "live"
    /\ pc[c] = "inside"
    /\ markers' = markers \ {c}
    /\ lock' = LockDropped(c)
    /\ EndTurn(c)
    /\ UNCHANGED <<life, mode, pending>>

\* A local-only command's marks could not be saved before its turn ends.
HoldPending(c) ==
    /\ life[ProcessOf[c]] = "live"
    /\ pc[c] = "inside"
    /\ mode[c] = "alone"
    /\ pending' = pending \cup {ProcessOf[c]}
    /\ UNCHANGED <<life, mode, pc, queue, markers, lock, lapsed>>

\* A later try saved them.
SavePending(p) ==
    /\ life[p] = "live"
    /\ p \in pending
    /\ pending' = pending \ {p}
    /\ UNCHANGED <<life, mode, pc, queue, markers, lock, lapsed>>

-----------------------------------------------------------------------------
(* Processes.                                                              *)

\* The process ends: its callers are no more, its files stay.
Crash(p) ==
    /\ p \in Mortal
    /\ life[p] # "dead"
    /\ life' = [life EXCEPT ![p] = "dead"]
    /\ pc' = [c \in Callers |-> IF ProcessOf[c] = p THEN "idle" ELSE pc[c]]
    /\ queue' = [queue EXCEPT ![p] = <<>>]
    /\ lapsed' = lapsed \ CallersOf(p)
    /\ UNCHANGED <<mode, markers, lock, pending>>

\* A process out of the others' sight is stopped past STALE_MS ...
Stall(p) ==
    /\ p \in Unseen
    /\ life[p] = "live"
    /\ life' = [life EXCEPT ![p] = "stalled"]
    /\ lapsed' = lapsed \cup {c \in CallersOf(p) : pc[c] \in {"draining", "inside"}}
    /\ UNCHANGED <<mode, pc, queue, markers, lock, pending>>

\* ... and goes on where it was.
Resume(p) ==
    /\ life[p] = "stalled"
    /\ life' = [life EXCEPT ![p] = "live"]
    /\ UNCHANGED <<mode, pc, queue, markers, lock, pending, lapsed>>

Next ==
    \/ \E c \in Callers :
        \/ \E m \in ModesOf[c] : Enter(c, m)
        \/ GiveUpQueued(c)
        \/ GroupPoll(c)
        \/ AlonePoll(c)
        \/ Drain(c)
        \/ GiveUp(c)
        \/ HoldPending(c)
        \/ Leave(c)
    \/ \E p \in Processes :
        \/ SavePending(p)
        \/ Crash(p)
        \/ Stall(p)
        \/ Resume(p)

\* A poll is on a timer and a tool call ends, so a caller with a turn goes on.
\* Nothing says that marks are ever saved, that a run is cancelled or that a
\* stalled process resumes.
GoesOn(c) == GroupPoll(c) \/ AlonePoll(c) \/ Drain(c) \/ Leave(c)

Fairness == \A c \in Callers : WF_vars(GoesOn(c))

Spec == Init /\ [][Next]_vars /\ Fairness

-----------------------------------------------------------------------------
(* Properties.                                                             *)

\* No two callers that cannot run together are ever inside together, in one
\* process or in two, whoever crashed, gave up or took over whose files
\* meanwhile.  A turn that itself lived through a stall past STALE_MS is the
\* exception the code grants; what it does on waking must not cost others.
Exclusion ==
    \A c, d \in Callers :
        (/\ c # d
         /\ pc[c] = "inside"
         /\ pc[d] = "inside"
         /\ ~Fits(mode[c], mode[d]))
        => \/ c \in lapsed /\ ProcessOf[c] # ProcessOf[d]
           \/ d \in lapsed /\ ProcessOf[c] # ProcessOf[d]

\* The files of a process that is running are those of its callers' turns: a
\* wait given up, refused or ended leaves neither marker nor lock behind.
NothingLeftBehind ==
    /\ \A c \in markers : life[ProcessOf[c]] # "dead" => pc[c] = "inside"
    /\ (lock # NoProcess /\ life[lock] # "dead") =>
            \E c \in CallersOf(lock) : /\ mode[c] = "alone"
                                       /\ pc[c] \in {"draining", "inside"}

\* While a process holds marks it could not save, or ended with them, no
\* caller of another process goes in.
KeepsOut ==
    \A c \in Callers :
        (pc[c] # "inside" /\ pc'[c] = "inside") => pending \subseteq {ProcessOf[c]}
PendingKeepsOut == [][KeepsOut]_vars

InOrder ==
    \A c \in Callers :
        (pc[c] \in {"idle", "queued"} /\ pc'[c] = "polling") =>
            LET q == queue[ProcessOf[c]]
                Ahead == {i \in DOMAIN q : \A j \in 1..i : q[j] # c}
            IN  \A i \in Ahead : pc'[q[i]] # "queued"

\* Who gets a turn without having waited asks for it in that very step: nobody
\* else's step gives one to a caller that is not waiting.
AsAskedFor ==
    \A c \in Callers :
        (pc[c] = "idle" /\ pc'[c] = "polling") =>
            \A d \in Callers \ {c} :
                pc'[d] # pc[d] => pc[d] = "queued" /\ pc'[d] = "polling"

\* Turns in a process go to those who still want one, in the order they were
\* asked for: no caller gets one while a caller ahead of it is left waiting, and
\* none once it has given up, which would be a turn that nobody ends
\* (workspace-gate.ts: enter, its onAbort, pump).
FirstComeFirstServed == [][InOrder /\ AsAskedFor]_vars

\* A caller that has the lock gets in: the lock holds newcomers back and those
\* inside leave.  It is put off only while another process keeps marks it
\* could not save, or once a process is stalled (a crash does not put it off).
AloneServed ==
    \A c \in Callers :
        (pc[c] = "draining" /\ c \notin lapsed) ~>
            \/ pc[c] # "draining"
            \/ c \in lapsed
            \/ PendingOfOthers(ProcessOf[c]) # {}
            \/ \E p \in Processes : life[p] = "stalled"
=============================================================================
