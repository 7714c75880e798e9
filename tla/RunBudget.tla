------------------------------ MODULE RunBudget ------------------------------
(***************************************************************************)
(* A run's budget, and the waits a model call goes through before it is    *)
(* sent (core/router/index.ts: generateCall; core/router/local-queue.ts).  *)
(* A run may spend Cap.  The last fifth is kept for the call that writes   *)
(* the answer: work that would eat into it is refused.  What calls in      *)
(* flight may spend is held against the cap until they settle.             *)
(*                                                                         *)
(* One step is what the event loop runs between two awaits.  A call keeps  *)
(* the run it was admitted in (`gen') and can outlive it.  The token cap   *)
(* is the one modelled; the cost cap repeats it for models with a price.   *)
(***************************************************************************)
EXTENDS Integers, Sequences, FiniteSets

CONSTANTS
    Callers,     \* the workers and tiers that call models
    ShapesOf,    \* the calls each may make: class, local, in and out tokens
    Cap,         \* budget.maxTokensPerRun
    SessionCap,  \* budget.sessionBudgetUsd, counted in tokens
    MinAnswer,   \* MIN_FINAL_OUTPUT_TOKENS
    MaxLocal,    \* the slots for local inference
    Overrun,     \* how far a call's usage may exceed its estimate (a bound)
    MaxRuns      \* the runs of a session (a bound)

Classes == {"work", "final"}
Shapes == [class : Classes, local : BOOLEAN, in : Nat, out : Nat]

ASSUME BudgetAssumption ==
    /\ ShapesOf \in [Callers -> SUBSET Shapes]
    /\ Cap \in Nat \ {0}
    /\ SessionCap \in Nat \ {0}
    /\ MinAnswer \in Nat \ {0}
    /\ MaxLocal \in Nat \ {0}
    /\ Overrun \in Nat
    /\ MaxRuns \in Nat \ {0}

VARIABLES
    generation,  \* the current run
    run,         \* its accounts: spent, reserved, work, exceeded, wrapping
    fired,       \* the runs whose abort controller fired
    session,     \* what the session has spent
    halted,      \* the session's budget is exceeded
    pc,          \* per caller: where its call is
    call,        \* per caller: its call, as admitted, and the run it is in
    cancelled,   \* the callers whose own signal fired
    active,      \* the local slots taken
    waiting,     \* the callers waiting for a local slot, in order
    tally        \* history: what work spent in this run, and beyond estimates

vars == <<generation, run, fired, session, halted, pc, call, cancelled,
          active, waiting, tally>>

\* A call waits for the provider's rate limit, has passed it, waits for a
\* local slot, was given one, or is at the provider.
Stages == {"idle", "metering", "metered", "queued", "slotted", "sent"}

Runs == 1..MaxRuns

NoCall == [class |-> "work", local |-> FALSE, in |-> 0, out |-> 0, gen |-> 0]

FreshRun == [spent |-> 0, reserved |-> 0, work |-> 0,
             exceeded |-> FALSE, wrapping |-> FALSE]

Init ==
    /\ generation = 1
    /\ run = FreshRun
    /\ fired = {}
    /\ session = 0
    /\ halted = FALSE
    /\ pc = [c \in Callers |-> "idle"]
    /\ call = [c \in Callers |-> NoCall]
    /\ cancelled = {}
    /\ active = 0
    /\ waiting = <<>>
    /\ tally = [work |-> 0, excess |-> 0]

-----------------------------------------------------------------------------
(* The accounts of a run, r, as a call of shape k finds them.              *)

Closed(k, r) == halted \/ r.exceeded \/ (k.class = "work" /\ r.wrapping)

Least(m, n) == IF m <= n THEN m ELSE n

\* What an answer may write: what it asks for, or what the cap has left.
Room(k, r) == Least(k.out, Cap - r.spent - r.reserved - k.in)

NoRoom(k, r) == k.class = "final" /\ Room(k, r) < MinAnswer

\* The preflight: the input alone is more than the cap has left.
Overdraws(k, r) == k.in > Cap - r.spent - r.reserved

\* More than work's share, four fifths of the cap.
BeyondShare(n) == 5 * n > 4 * Cap

\* The wave that measures itself against what is spent only.
EatsReserveOfSpent(k, r) ==
    k.class = "work" /\ BeyondShare(r.spent + k.in + k.out)

EatsReserve(k, r) ==
    /\ k.class = "work"
    /\ BeyondShare(r.spent + r.reserved + k.in + r.work + k.out)

WorkOut(k) == IF k.class = "work" THEN k.out ELSE 0

\* i tokens of input and o of work's output more are held.
Holding(r, i, o) == [[r EXCEPT !.reserved = @ + i] EXCEPT !.work = @ + o]

Reserved(k, r) ==
    Holding(r, k.in, WorkOut(k))

\* A release that does not look whose run it was.
ReleasedAnyway(c, r) ==
    Holding(r, -call[c].in, -WorkOut(call[c]))

\* What c holds is given back, to the run it was taken from.
Released(c, r) ==
    IF call[c].gen = generation
    THEN Holding(r, -call[c].in, -WorkOut(call[c]))
    ELSE r

\* failPreflight and enforceRunBudget: the run stops.
Stopped(r) == [r EXCEPT !.exceeded = TRUE]

-----------------------------------------------------------------------------
(* Steps shared by the handlers.                                           *)

\* The abort of the run the call is in, or of its caller, has reached it.
Aborted(c) == c \in cancelled \/ call[c].gen \in fired

HoldsSlot(c) == call[c].local /\ pc[c] \in {"slotted", "sent"}

\* The caller a slot given back by c goes to, if any waits.
Heir(c) == IF HoldsSlot(c) /\ waiting # <<>> THEN {Head(waiting)} ELSE {}

\* c goes to stage s with the call k; those in W are handed a slot.
MovesTo(c, s, k, W) ==
    /\ pc' = [d \in Callers |-> IF d = c THEN s
                                ELSE IF d \in W THEN "slotted" ELSE pc[d]]
    /\ call' = [call EXCEPT ![c] = k]
    /\ cancelled' = IF s = "idle" THEN cancelled \ {c} ELSE cancelled

\* release() that frees a slot although somebody waits for it.
SlotFreed(c) ==
    /\ active' = IF HoldsSlot(c) THEN active - 1 ELSE active
    /\ waiting' = IF Heir(c) # {} THEN Tail(waiting) ELSE waiting

\* release(): the slot goes to the next in the queue, or is free.
SlotGivenBack(c) ==
    /\ active' = IF HoldsSlot(c) /\ waiting = <<>> THEN active - 1 ELSE active
    /\ waiting' = IF Heir(c) # {} THEN Tail(waiting) ELSE waiting

\* A call ends: its slot and its reservation are given back, as r has it.
Ends(c, r) ==
    /\ run' = Released(c, r)
    /\ SlotGivenBack(c)
    /\ MovesTo(c, "idle", NoCall, Heir(c))

Fitted(k, r) == IF k.class = "final" THEN [k EXCEPT !.out = Room(k, r)] ELSE k

Pinned(k) ==
    [class |-> k.class, local |-> k.local, in |-> k.in, out |-> k.out,
     gen |-> generation]

\* generateCall() up to its first wait, with the accounts r: the call is
\* refused, stops the run, makes it wrap up, or is admitted.
Admit(c, k, r, W) ==
    \/ /\ Closed(k, r) \/ NoRoom(k, r)
       /\ run' = r
       /\ MovesTo(c, "idle", NoCall, W)
       /\ UNCHANGED fired
    \/ /\ ~Closed(k, r) /\ ~NoRoom(k, r) /\ Overdraws(k, r)
       /\ run' = Stopped(r)
       /\ fired' = fired \cup {generation}
       /\ MovesTo(c, "idle", NoCall, W)
    \/ /\ ~Closed(k, r) /\ ~Overdraws(k, r) /\ EatsReserve(k, r)
       /\ run' = [r EXCEPT !.wrapping = TRUE]
       /\ MovesTo(c, "idle", NoCall, W)
       /\ UNCHANGED fired
    \/ /\ ~Closed(k, r) /\ ~NoRoom(k, r) /\ ~Overdraws(k, r) /\ ~EatsReserve(k, r)
       /\ run' = Reserved(k, r)
       /\ MovesTo(c, "metering", Pinned(Fitted(k, r)), W)
       /\ UNCHANGED fired

\* The call is made again on another model, in whatever run is current: what
\* it held is given back first.
MadeAgain(c) ==
    /\ \E k \in {s \in ShapesOf[c] : s.class = call[c].class} :
            Admit(c, k, Released(c, run), Heir(c))
    /\ SlotGivenBack(c)

-----------------------------------------------------------------------------
(* The handlers.                                                           *)

\* generate(): a caller asks for a model call.
Generate(c, k) ==
    /\ pc[c] = "idle"
    /\ Admit(c, k, run, {})
    /\ UNCHANGED <<generation, session, halted, active, waiting, tally>>

\* The rate limiter has room for the call.
Withdraw(c) ==
    /\ pc[c] = "metering"
    /\ ~Aborted(c)
    /\ MovesTo(c, "metered", call[c], {})
    /\ UNCHANGED <<generation, run, fired, session, halted, active, waiting, tally>>

\* The abort reaches a call that waits for the rate limiter.
LeaveMeter(c) ==
    /\ pc[c] = "metering"
    /\ Aborted(c)
    /\ Ends(c, run)
    /\ UNCHANGED <<generation, fired, session, halted, tally>>

\* A queue that the last to come is served from.
JoinedInFront(c) == <<c>> \o waiting

\* The queue with c behind all that wait.
Joined(c) == Append(waiting, c)

\* acquire() of a local slot.
Acquire(c) ==
    /\ pc[c] = "metered"
    /\ call[c].local
    /\ \/ /\ Aborted(c)
          /\ Ends(c, run)
       \/ /\ ~Aborted(c)
          /\ active < MaxLocal
          /\ active' = active + 1
          /\ MovesTo(c, "slotted", call[c], {})
          /\ UNCHANGED <<run, waiting>>
       \/ /\ ~Aborted(c)
          /\ active >= MaxLocal
          /\ waiting' = Joined(c)
          /\ MovesTo(c, "queued", call[c], {})
          /\ UNCHANGED <<run, active>>
    /\ UNCHANGED <<generation, fired, session, halted, tally>>

\* The queue without c.
Unqueued(c) ==
    LET at == CHOOSE i \in DOMAIN waiting : waiting[i] = c
    IN  SubSeq(waiting, 1, at - 1) \o SubSeq(waiting, at + 1, Len(waiting))

\* A call waiting for a slot is timed out or aborted.
Abandon(c) ==
    /\ pc[c] = "queued"
    /\ waiting' = Unqueued(c)
    /\ run' = Released(c, run)
    /\ MovesTo(c, "idle", NoCall, {})
    /\ UNCHANGED <<generation, fired, session, halted, active, tally>>

\* Its waits are over.
Ready(c) == pc[c] = "slotted" \/ (pc[c] = "metered" /\ ~call[c].local)

\* The run of the call was stopped while it waited.
StoppedMeanwhile(c) == call[c].gen = generation /\ run.exceeded

\* Looked at before the waits only.
NotStopped(c) == TRUE

MayGoOut(c) == ~StoppedMeanwhile(c) /\ ~Aborted(c)

Send(c) ==
    /\ Ready(c)
    /\ MayGoOut(c)
    /\ MovesTo(c, "sent", call[c], {})
    /\ UNCHANGED <<generation, run, fired, session, halted, active, waiting, tally>>

\* A call whose run was stopped, that was aborted, or whose model was ruled
\* out while it waited, is not sent.
TurnAway(c) ==
    /\ Ready(c)
    /\ Ends(c, run)
    /\ UNCHANGED <<generation, fired, session, halted, tally>>

\* Its provider is backing off and another model can serve the call.
Reroute(c) ==
    /\ Ready(c)
    /\ ~StoppedMeanwhile(c)
    /\ MadeAgain(c)
    /\ UNCHANGED <<generation, session, halted, tally>>

\* The provider fails with an error another model may not meet.
FailOver(c) ==
    /\ pc[c] = "sent"
    /\ ~Aborted(c)
    /\ call[c].gen = generation
    /\ MadeAgain(c)
    /\ UNCHANGED <<generation, session, halted, tally>>

\* The provider fails, or is cut off by the timeout or an abort.
Fail(c) ==
    /\ pc[c] = "sent"
    /\ Ends(c, run)
    /\ UNCHANGED <<generation, fired, session, halted, tally>>

\* A settlement that does not look whose run the call was in.
ChargedAnyway(c, u) == [run EXCEPT !.spent = @ + u]

\* recordStats: the usage counts against the run the call was admitted in.
Charged(c, u) ==
    IF call[c].gen = generation THEN [run EXCEPT !.spent = @ + u] ELSE run

\* The cap counts as reached once it is exceeded.
OverCapLate(r) == r.spent > Cap

OverCap(r) == r.spent >= Cap

\* enforceRunBudget, then checkWrapUp, which does nothing once the run stopped.
Checked(r) ==
    IF r.exceeded \/ OverCap(r) THEN Stopped(r)
    ELSE [r EXCEPT !.wrapping = @ \/ 5 * r.spent >= 4 * Cap]

Excess(k, u) == IF u > k.in + k.out THEN u - k.in - k.out ELSE 0

\* The provider answers and u tokens were used.  A call that takes the session
\* to its budget halts it, and its run is not looked at.
Succeed(c, u) ==
    LET own == call[c].gen = generation
        halts == ~halted /\ session + u >= SessionCap
        r == IF own /\ ~halts THEN Checked(Charged(c, u)) ELSE Charged(c, u)
    IN  /\ pc[c] = "sent"
        /\ session' = session + u
        /\ halted' = (halted \/ halts)
        /\ fired' = IF r.exceeded /\ ~run.exceeded THEN fired \cup {generation} ELSE fired
        /\ Ends(c, r)
        /\ tally' = IF own /\ call[c].class = "work"
                    THEN [work |-> tally.work + u,
                          excess |-> tally.excess + Excess(call[c], u)]
                    ELSE tally
        /\ UNCHANGED generation

\* The caller gives up on its call: the user cancels, or a wave is respawned.
Cancel(c) ==
    /\ pc[c] # "idle"
    /\ c \notin cancelled
    /\ cancelled' = cancelled \cup {c}
    /\ UNCHANGED <<generation, run, fired, session, halted, pc, call, active, waiting, tally>>

\* beginRun(): the accounts of the last run are dropped, its calls are not.
BeginRun ==
    /\ generation < MaxRuns
    /\ generation' = generation + 1
    /\ run' = FreshRun
    /\ tally' = [work |-> 0, excess |-> 0]
    /\ UNCHANGED <<fired, session, halted, pc, call, cancelled, active, waiting>>

Usage(c) == 0..(call[c].in + call[c].out + Overrun)

Next ==
    \/ \E c \in Callers :
        \/ \E k \in ShapesOf[c] : Generate(c, k)
        \/ Withdraw(c)
        \/ LeaveMeter(c)
        \/ Acquire(c)
        \/ Abandon(c)
        \/ Send(c)
        \/ TurnAway(c)
        \/ Reroute(c)
        \/ FailOver(c)
        \/ Fail(c)
        \/ \E u \in Usage(c) : Succeed(c, u)
        \/ Cancel(c)
    \/ BeginRun

Spec == Init /\ [][Next]_vars

-----------------------------------------------------------------------------
(* Properties.                                                             *)

\* The types of the variables.
TypeOK ==
    /\ generation \in Runs
    /\ run \in [spent : Nat, reserved : Nat, work : Nat,
                exceeded : BOOLEAN, wrapping : BOOLEAN]
    /\ fired \subseteq Runs
    /\ session \in Nat
    /\ halted \in BOOLEAN
    /\ pc \in [Callers -> Stages]
    /\ call \in [Callers -> [class : Classes, local : BOOLEAN, in : Nat,
                             out : Nat, gen : Runs \cup {0}]]
    /\ \A c \in Callers : pc[c] = "idle" <=> call[c].gen = 0
    /\ cancelled \subseteq {c \in Callers : pc[c] # "idle"}
    /\ active \in Nat
    /\ waiting \in Seq(Callers)
    /\ tally \in [work : Nat, excess : Nat]

\* What f gives to each is counted, one by one.
Tokens(f) == UNION {{c} \X (1..f[c]) : c \in DOMAIN f}
Total(f) == Cardinality(Tokens(f))

\* The callers whose call is in the current run, and those at work in it.
Own == {c \in Callers : call[c].gen = generation}
OwnWork == {c \in Own : call[c].class = "work"}

\* What the calls in flight of the current run hold is exactly what its
\* accounts say is held, whichever of its exits a call takes and whatever runs
\* began meanwhile: nothing is held for good, or given back twice
\* (index.ts: enforcePreflightBudget, admitWork, their release handles, beginRun).
LedgerExact ==
    /\ run.reserved = Total([c \in Own |-> call[c].in])
    /\ run.work = Total([c \in Own |-> WorkOut(call[c])])

Holders == {c \in Callers : HoldsSlot(c)}

\* The local slots counted as taken are those somebody has, nobody waits while
\* one is free, and the queue is those waiting, each once: a timeout or an
\* abort that meets a release loses no slot (local-queue.ts: acquire, release).
SlotsExact ==
    /\ active = Cardinality(Holders)
    /\ active <= MaxLocal
    /\ waiting # <<>> => active = MaxLocal
    /\ \A c \in Callers :
        (\E i \in 1..Len(waiting) : waiting[i] = c) <=> pc[c] = "queued"
    /\ \A i, j \in 1..Len(waiting) : waiting[i] = waiting[j] => i = j

Queue == INSTANCE SlotQueue
           WITH User <- Callers, Slots <- MaxLocal, holding <- Holders, line <- waiting

\* Whatever a call goes through - the rate limiter, aborts, timeouts, another
\* model, the end of its run - the slots are taken and given back as the queue
\* promises: in the order they were asked for, none past those who wait
\* (local-queue.ts: acquire, makeRelease; index.ts: generateCall's finally).
ImplementsSlotQueue == Queue!Spec

\* Work leaves the answer's reserve alone: what it spent in this run and what
\* its calls in flight are estimated at exceed its share only by what calls
\* used beyond their estimates (run-budget.ts: workShare; index.ts: admitWork).
ReserveKept ==
    5 * (tally.work + Total([c \in OwnWork |-> call[c].in + call[c].out]))
        <= 4 * Cap + 5 * tally.excess

\* A run that spent its cap is stopped, and a session that spent its budget is
\* halted, although a call that halts the session skips the check of its run
\* (index.ts: recordStats, updateBudgetState, enforceRunBudget).
StopsAtCap ==
    /\ run.spent >= Cap => run.exceeded \/ halted
    /\ session >= SessionCap => halted

\* Once a run is stopped none of its calls goes out, wherever it waited; once
\* it wraps up no work is admitted; once it is stopped nothing is admitted
\* (index.ts: the checks before and after the waits; runAbort).
StaysShut ==
    /\ \A c \in Callers :
        pc[c] # "sent" /\ pc'[c] = "sent" => call[c].gen \notin fired
    /\ generation' = generation =>
        /\ run.wrapping => run'.wrapping /\ run'.work <= run.work
        /\ run.exceeded => run'.exceeded /\ run'.reserved <= run.reserved

ShutForGood == [][StaysShut]_vars

\* A call that settles after its run was followed by another leaves the
\* accounts of that other run alone (index.ts: recordStats' currentRun, the
\* generation the release handles remember).
SettlesApart ==
    \A c \in Callers :
        pc[c] = "sent" /\ pc'[c] # "sent" /\ call[c].gen # generation => run' = run

StragglersSettleApart == [][SettlesApart]_vars

\* No step of a call that outlived its run touches the accounts of the run
\* that followed, while it is past the rate limiter as well.
StaysApart ==
    \A c \in Callers :
        /\ pc[c] \in {"metering", "metered", "slotted", "sent"}
        /\ pc'[c] # pc[c]
        /\ call[c].gen # generation
        => run' = run

StragglersApart == [][StaysApart]_vars
=============================================================================
