---------------------------- MODULE BrowserLease ----------------------------
(***************************************************************************)
(* Who drives a run's browser (browser/lease.ts), as RemoteBrowserController*)
(* uses it (browser/remote/controller.ts): the lease a worker holds across *)
(* its sequence of actions, the person who can take the browser over, and  *)
(* the slot one operation at a time holds while it touches the page.       *)
(*                                                                         *)
(* A step is one synchronous stretch between two awaits.  The controller   *)
(* keeps a lease per run and reports the end of workers, so there is one   *)
(* session and no ownership timer but the person's (armCeiling is off).    *)
(* The view is left out: an operation that had to wait may find the page   *)
(* or the picture changed, whatever else happened.                         *)
(***************************************************************************)
EXTENDS Integers, Sequences, FiniteSets

CONSTANTS
    Workers,     \* the T3 workers of the run, each with one call at a time
    Takeovers,   \* requests of the person to take control
    Inputs,      \* clicks, keys and pointer moves
    Captures,    \* requests to hide or show the picture
    Teardowns,   \* detaching the stream of a viewer that left
    Human,       \* the actor a takeover holds the lease under
    Nobody,      \* no actor, no operation
    MaxQueued,   \* MAX_QUEUED: workers waiting for the lease
    MaxInLine    \* MAX_HUMAN_INPUT_QUEUE, MAX_CAPTURE_TRANSITION_QUEUE

Ops == Workers \cup Takeovers \cup Inputs \cup Captures \cup Teardowns

Disjoint(A, B) == A \cap B = {}

ASSUME LeaseAssumption ==
    /\ Nobody \notin Ops \cup {Human}
    /\ Human \notin Ops
    /\ Disjoint(Workers, Takeovers \cup Inputs \cup Captures \cup Teardowns)
    /\ Disjoint(Takeovers, Inputs \cup Captures \cup Teardowns)
    /\ Disjoint(Inputs, Captures \cup Teardowns)
    /\ Disjoint(Captures, Teardowns)
    /\ MaxQueued \in Nat
    /\ MaxInLine \in Nat

VARIABLES
    actor,      \* who holds the lease
    waiting,    \* the workers in line for it
    slot,       \* the operation that may touch the page (action)
    line,       \* the operations in line for the slot (actionQueue)
    timer,      \* humanTimer: "off", "idle" or "retry" (a handback put off)
    wanted,     \* handBackWanted
    grace,      \* idleGraceAction
    lapsing,    \* idleLapseAfterAction
    pc,         \* where each operation is
    revoked,    \* the person stopped the browser for this run
    cancelled   \* the run was cancelled

hold == <<actor, waiting, timer, wanted, grace, lapsing>>
vars == <<actor, waiting, slot, line, timer, wanted, grace, lapsing, pc,
          revoked, cancelled>>

\* A worker is idle between its calls, queued for the lease, granted it; an
\* operation is in line for the slot, has it, or is inside the page; a worker
\* that gave its browser back is leaving; one that finished has ended.
Stages == {"idle", "queued", "granted", "inLine", "hasSlot", "inside",
           "leaving", "ended"}

\* q lists the members of S, each once.
Lists(q, S) ==
    /\ q \in Seq(S)
    /\ \A o \in S : \E i \in 1..Len(q) : q[i] = o
    /\ \A i, j \in 1..Len(q) : q[i] = q[j] => i = j

At(stage) == {o \in Ops : pc[o] = stage}

\* The types of the variables; each line holds exactly the operations that
\* wait in it, each once, and the slot is held by the one operation that has
\* it: one that timed out, was turned away or was served waits no more.
TypeOK ==
    /\ actor \in Workers \cup {Human, Nobody}
    /\ slot \in Ops \cup {Nobody}
    /\ timer \in {"off", "idle", "retry"}
    /\ wanted \in BOOLEAN
    /\ {grace, lapsing} \subseteq Ops \cup {Nobody}
    /\ pc \in [Ops -> Stages]
    /\ \A o \in Ops \ Workers : pc[o] \in {"idle", "inLine", "hasSlot", "inside"}
    /\ revoked \in BOOLEAN
    /\ cancelled \in BOOLEAN
    /\ Lists(waiting, At("queued"))
    /\ Lists(line, At("inLine"))
    /\ \A o \in Ops : pc[o] \in {"hasSlot", "inside"} <=> slot = o

Init ==
    /\ actor = Nobody
    /\ waiting = <<>>
    /\ slot = Nobody
    /\ line = <<>>
    /\ timer = "off"
    /\ wanted = FALSE
    /\ grace = Nobody
    /\ lapsing = Nobody
    /\ pc = [o \in Ops |-> "idle"]
    /\ revoked = FALSE
    /\ cancelled = FALSE

-----------------------------------------------------------------------------
(* The lease.                                                              *)

Stopped == revoked \/ cancelled

\* The worker the lease goes to when it is released with q in line.
NextHolder(q) == IF q = <<>> \/ revoked THEN Nobody ELSE Head(q)

\* release(), with everyone where `at' says and q in line for the lease.
Release(at, q) ==
    /\ actor' = NextHolder(q)
    /\ waiting' = IF q = <<>> \/ revoked THEN <<>> ELSE Tail(q)
    /\ pc' = [o \in Ops |-> IF o = NextHolder(q) THEN "granted"
                            ELSE IF revoked /\ at[o] = "queued" THEN "idle"
                            ELSE at[o]]
    /\ timer' = "off"
    /\ wanted' = FALSE
    /\ grace' = Nobody
    /\ lapsing' = Nobody

\* Whether releaseIfHeldBy(w) releases, an action in flight or not.
GivesUpAnyway(w) == actor = w

\* Whether releaseIfHeldBy(w) releases: never while an action is in flight.
GivesUp(w) == slot = Nobody /\ actor = w

ReleaseIfHeldBy(w, at) ==
    \/ GivesUp(w) /\ Release(at, waiting)
    \/ ~GivesUp(w) /\ pc' = at /\ UNCHANGED hold

\* touch() that takes no notice of a handback asked for.
TouchedAnyway == IF actor = Human THEN "idle" ELSE timer

\* The person's timer after touch().
Touched == IF actor = Human /\ ~wanted THEN "idle" ELSE timer

-----------------------------------------------------------------------------
(* The slot.                                                               *)

\* An operation that waited too long is still in line.
LineKept(o) == line

LineWithout(o) ==
    LET at == CHOOSE i \in DOMAIN line : line[i] = o
    IN  SubSeq(line, 1, at - 1) \o SubSeq(line, at + 1, Len(line))

\* acquireActionSlot(): taken at once when it is free and nobody is in line.
AskForSlot(o) ==
    IF slot = Nobody /\ line = <<>>
    THEN /\ slot' = o
         /\ pc' = [pc EXCEPT ![o] = "hasSlot"]
         /\ UNCHANGED line
    ELSE /\ line' = Append(line, o)
         /\ pc' = [pc EXCEPT ![o] = "inLine"]
         /\ UNCHANGED slot

\* A slot that is only cleared.
ClearedSlot == Nobody

\* The slot goes straight to the head of the line.
NextInSlot == IF line = <<>> THEN Nobody ELSE Head(line)

HandOn(at) ==
    /\ slot' = NextInSlot
    /\ line' = IF slot' = Nobody THEN line ELSE Tail(line)

Handed(at) == [o \in Ops |-> IF o = NextInSlot THEN "hasSlot" ELSE at[o]]

\* A lapse that was put off is forgotten.
LapseForgotten(o, holder) == FALSE

\* The lapse that waited for o to unwind.
LapseDue(o, holder) == holder = Human /\ lapsing = o

\* endAction() by o, with `holder' holding the lease and q in line for it.
EndAction(o, at, holder, q, tm) ==
    /\ HandOn(at)
    /\ \/ LapseDue(o, holder) /\ Release(Handed(at), q)
       \/ /\ ~LapseDue(o, holder)
          /\ actor' = holder
          /\ waiting' = q
          /\ timer' = tm
          /\ grace' = IF grace = o THEN Nobody ELSE grace
          /\ lapsing' = IF lapsing = o THEN Nobody ELSE lapsing
          /\ pc' = Handed(at)
          /\ UNCHANGED wanted

\* endAction() by o when nothing else changes.
EndSlot(o, stage, tm) ==
    EndAction(o, [pc EXCEPT ![o] = stage], actor, waiting, tm)

-----------------------------------------------------------------------------
(* A worker's call (act).                                                  *)

\* acquire(): taken when it is free or already the worker's (no state changes
\* when a person holds it or the line is full: the call is refused).
Ask(w) ==
    /\ pc[w] = "idle"
    /\ ~Stopped
    /\ \/ /\ actor \in {Nobody, w}
          /\ actor' = w
          /\ pc' = [pc EXCEPT ![w] = "granted"]
          /\ UNCHANGED waiting
       \/ /\ actor \notin {Nobody, w, Human}
          /\ Len(waiting) < MaxQueued
          /\ waiting' = Append(waiting, w)
          /\ pc' = [pc EXCEPT ![w] = "queued"]
          /\ UNCHANGED actor
    /\ UNCHANGED <<slot, line, timer, wanted, grace, lapsing, revoked, cancelled>>

\* The lease was granted: on to the slot, unless the run was stopped meanwhile.
Granted(w) ==
    /\ pc[w] = "granted"
    /\ \/ /\ Stopped
          /\ ReleaseIfHeldBy(w, [pc EXCEPT ![w] = "idle"])
          /\ UNCHANGED <<slot, line>>
       \/ /\ ~Stopped
          /\ AskForSlot(w)
          /\ UNCHANGED hold
    /\ UNCHANGED <<revoked, cancelled>>

\* ACTION_HANDOFF_MS passed before the slot came.
GiveUpSlot(w) ==
    /\ pc[w] = "inLine"
    /\ line' = LineWithout(w)
    /\ ReleaseIfHeldBy(w, [pc EXCEPT ![w] = "idle"])
    /\ UNCHANGED <<slot, revoked, cancelled>>

\* The holder is not asked again once the slot has come.
HoldsStale(w) == TRUE

StillHolds(w) == actor = w

\* With the slot: into the page, or refused when the lease is another's now.
GoIn(w) ==
    /\ pc[w] = "hasSlot"
    /\ \/ /\ StillHolds(w)
          /\ pc' = [pc EXCEPT ![w] = "inside"]
          /\ UNCHANGED <<hold, slot, line>>
       \/ /\ ~StillHolds(w)
          /\ EndSlot(w, "idle", timer)
    /\ UNCHANGED <<revoked, cancelled>>

\* The action is over; a stopped run does not keep the lease.
Finish(w) ==
    /\ pc[w] = "inside"
    /\ \/ /\ Stopped /\ line = <<>> /\ actor = w
          /\ Release([pc EXCEPT ![w] = "idle"], waiting)
          /\ slot' = Nobody
          /\ UNCHANGED line
       \/ /\ ~(Stopped /\ line = <<>> /\ actor = w)
          /\ EndSlot(w, "idle", timer)
    /\ UNCHANGED <<revoked, cancelled>>

\* releaseIfIdle(): the run was stopped before the action touched the page; the
\* slot goes on before the session is handed back ...
LetSlotGo(w) ==
    /\ pc[w] = "inside"
    /\ Stopped
    /\ EndSlot(w, "leaving", timer)
    /\ UNCHANGED <<revoked, cancelled>>

\* ... and the lease after.
FinishLeaving(w) ==
    /\ pc[w] = "leaving"
    /\ ReleaseIfHeldBy(w, [pc EXCEPT ![w] = "idle"])
    /\ UNCHANGED <<slot, line, revoked, cancelled>>

\* actorEnded(): the worker, which awaits every call it makes, is between two
\* calls and will never ask again.
End(w) ==
    /\ pc[w] = "idle"
    /\ ReleaseIfHeldBy(w, [pc EXCEPT ![w] = "ended"])
    /\ UNCHANGED <<slot, line, revoked, cancelled>>

-----------------------------------------------------------------------------
(* The person and the viewer.                                              *)

\* takeOver(): one more look at the panel when they hold it already.
AskTakeOver(t) ==
    /\ pc[t] = "idle"
    /\ ~revoked
    /\ \/ /\ actor = Human
          /\ timer' = Touched
          /\ UNCHANGED <<pc, slot, line>>
       \/ /\ actor # Human
          /\ AskForSlot(t)
          /\ UNCHANGED timer
    /\ UNCHANGED <<actor, waiting, wanted, grace, lapsing, revoked, cancelled>>

\* ACTION_TIMEOUT_MS passed before the slot came.
GiveUpTakeOver(t) ==
    /\ pc[t] = "inLine"
    /\ line' = LineWithout(t)
    /\ pc' = [pc EXCEPT ![t] = "idle"]
    /\ UNCHANGED <<hold, slot, revoked, cancelled>>

NobodyQueued == [o \in Ops |-> IF pc[o] = "queued" THEN "idle" ELSE pc[o]]

\* A takeover that sets no deadline.
DeadlineNotSet == timer

\* The person's timer once they have taken over.
DeadlineSet == IF wanted THEN timer ELSE "idle"

\* With the slot: the browser is the person's and those in line for it are
\* refused, unless the run was stopped or the page or the view changed.
TakeOver(t) ==
    /\ pc[t] = "hasSlot"
    /\ \/ /\ ~revoked
          /\ EndAction(t, [NobodyQueued EXCEPT ![t] = "idle"], Human, <<>>, DeadlineSet)
       \/ EndSlot(t, "idle", timer)
    /\ UNCHANGED <<revoked, cancelled>>

\* input() or setCapture(): joins the line unless that is full (Show needs no
\* hold; pointer moves never join the line, which is one of these cases).
AskEvent(o) ==
    /\ pc[o] = "idle"
    /\ o \in Inputs => actor = Human
    /\ slot = Nobody \/ Len(line) < MaxInLine
    /\ AskForSlot(o)
    /\ UNCHANGED <<hold, revoked, cancelled>>

\* With the slot: into the page, or refused when the hold has ended or the
\* page or the view changed.
Land(o) ==
    /\ pc[o] = "hasSlot"
    /\ \/ /\ o \in Inputs => actor = Human
          /\ pc' = [pc EXCEPT ![o] = "inside"]
          /\ UNCHANGED <<hold, slot, line>>
       \/ EndSlot(o, "idle", timer)
    /\ UNCHANGED <<revoked, cancelled>>

\* It landed, which extends the hold, or failed.
Landed(o) ==
    /\ pc[o] = "inside"
    /\ \E tm \in {Touched, timer} : EndSlot(o, "idle", tm)
    /\ UNCHANGED <<revoked, cancelled>>

\* stopWatching(): detaching the stream waits for its turn without a bound.
AskTeardown(o) ==
    /\ pc[o] = "idle"
    /\ AskForSlot(o)
    /\ UNCHANGED <<hold, revoked, cancelled>>

StartDetach(o) ==
    /\ pc[o] = "hasSlot"
    /\ pc' = [pc EXCEPT ![o] = "inside"]
    /\ UNCHANGED <<hold, slot, line, revoked, cancelled>>

Detached(o) ==
    /\ pc[o] = "inside"
    /\ EndSlot(o, "idle", timer)
    /\ UNCHANGED <<revoked, cancelled>>

\* handBack(): put off while an operation is in the page.
HandBack ==
    /\ actor = Human
    /\ \/ /\ slot = Nobody
          /\ Release(pc, waiting)
       \/ /\ slot # Nobody
          /\ wanted' = TRUE
          /\ timer' = "retry"
          /\ UNCHANGED <<actor, waiting, grace, lapsing, pc>>
    /\ UNCHANGED <<slot, line, revoked, cancelled>>

-----------------------------------------------------------------------------
(* Timers and the end of the run.                                          *)

\* A timer fires once the continuations of settled promises have run.
NothingPending == At("granted") \cup At("hasSlot") = {}

RetryFires == timer = "retry" /\ NothingPending /\ HandBack

\* Whether the operation in the page shows the person was there.
ShowsActivity == slot # Nobody /\ slot \notin Teardowns

\* lapse(): two minutes without input.
Lapse ==
    /\ timer = "idle"
    /\ NothingPending
    /\ \/ /\ ~ShowsActivity
          /\ Release(pc, waiting)
       \/ /\ ShowsActivity
          /\ grace # slot
          /\ grace' = slot
          /\ UNCHANGED <<actor, waiting, timer, wanted, lapsing, pc>>
       \/ /\ ShowsActivity
          /\ grace = slot
          /\ lapsing' = slot
          /\ timer' = "off"
          /\ UNCHANGED <<actor, waiting, wanted, grace, pc>>
    /\ UNCHANGED <<slot, line, revoked, cancelled>>

\* stopRun(): the person stopped the browser for this run.
StopRun ==
    /\ ~revoked
    /\ revoked' = TRUE
    /\ IF actor = Nobody
       THEN waiting' = <<>> /\ pc' = NobodyQueued
            /\ UNCHANGED <<actor, timer, wanted, grace, lapsing>>
       ELSE Release(NobodyQueued, <<>>)
    /\ UNCHANGED <<slot, line, cancelled>>

\* The run's signal aborts: every worker in line for the lease gives up.
CancelRun ==
    /\ ~cancelled
    /\ cancelled' = TRUE
    /\ waiting' = <<>>
    /\ pc' = NobodyQueued
    /\ UNCHANGED <<actor, slot, line, timer, wanted, grace, lapsing, revoked>>

Next ==
    \/ \E w \in Workers :
        \/ Ask(w)
        \/ Granted(w)
        \/ GiveUpSlot(w)
        \/ GoIn(w)
        \/ Finish(w)
        \/ LetSlotGo(w)
        \/ FinishLeaving(w)
        \/ End(w)
    \/ \E t \in Takeovers : AskTakeOver(t) \/ GiveUpTakeOver(t) \/ TakeOver(t)
    \/ \E o \in Inputs \cup Captures : AskEvent(o) \/ Land(o) \/ Landed(o)
    \/ \E o \in Teardowns : AskTeardown(o) \/ StartDetach(o) \/ Detached(o)
    \/ HandBack
    \/ RetryFires
    \/ Lapse
    \/ StopRun
    \/ CancelRun

\* Continuations run, timers fire, and what is in the page unwinds: Playwright
\* and CDP calls have their own timeouts.  Nobody has to ask for anything.
Fairness ==
    /\ \A w \in Workers :
        WF_vars(Granted(w) \/ GoIn(w) \/ Finish(w) \/ FinishLeaving(w))
    /\ \A t \in Takeovers : WF_vars(TakeOver(t))
    /\ \A o \in Inputs \cup Captures : WF_vars(Land(o) \/ Landed(o))
    /\ \A o \in Teardowns : WF_vars(StartDetach(o) \/ Detached(o))
    /\ WF_vars(RetryFires)
    /\ WF_vars(Lapse)

Spec == Init /\ [][Next]_vars /\ Fairness

-----------------------------------------------------------------------------
(* Properties.                                                             *)

\* Whoever is in the page holds the browser: no action of a worker runs on a
\* page that was taken over or is in another worker's sequence, and no event
\* of the person lands once their hold has ended, unless the run was stopped
\* under it (the slot still keeps everybody else out of the page).
OneUser ==
    \A o \in At("inside") :
        /\ o \in Workers => actor = o \/ revoked
        /\ o \in Inputs => actor = Human \/ revoked

Queue == INSTANCE SlotQueue
           WITH User <- Ops, Slots <- 1, holding <- {slot} \ {Nobody}, line <- line

\* The slot of a page is one slot of a first-come first-served queue, whoever
\* asks for it and whatever becomes of the lease meanwhile: it passes none that
\* wait, and a wait that was given up leaves the others as they were
\* (lease.ts: acquireActionSlot, endAction; controller.ts: its callers).
ImplementsSlotQueue == Queue!Spec

KeepsSequence ==
    \A w \in Workers :
        (actor = w /\ actor' # w) =>
            actor' = Human \/ pc'[w] = "ended" \/ revoked' \/ cancelled'

\* A worker's sequence is not broken between two of its actions: the lease
\* leaves a worker that has not ended only for the person, or with the run.
SequenceKept == [][KeepsSequence]_vars

\* Nobody waits for what nobody has: workers are in line for the lease only
\* behind a worker, never behind a person, and operations only behind one that
\* has the slot.
NobodyWaitsInVain ==
    /\ waiting # <<>> => actor \in Workers
    /\ line # <<>> => slot # Nobody

\* A person's hold always has an end in sight: a deadline is set, or the
\* operation that outlived two of them ends it as it unwinds.
HoldHasDeadline ==
    actor = Human => \/ timer # "off"
                     \/ lapsing # Nobody /\ lapsing = slot

\* A handback that was asked for is not undone by what was under way: as long
\* as it is wanted, the timer that is set is its retry.
HandBackNotUndone == wanted => actor = Human /\ timer = "retry"

PersonActs ==
    \/ \E t \in Takeovers : AskTakeOver(t)
    \/ \E o \in Inputs \cup Captures : AskEvent(o)
    \/ \E o \in Teardowns : AskTeardown(o)

\* A takeover nobody uses any more ends, and the browser with its bill is free
\* again: however slow the last event and whatever was in line behind it.
ForgottenHoldEnds ==
    <>[][~PersonActs]_vars => (actor = Human ~> actor # Human)

\* What lease.ts:17-19 and t3-worker.ts:851-854 say of a worker's end: it
\* releases the browser.  Stated once nothing is in the page any more.
EndedHoldsNothing ==
    \A w \in Workers : (pc[w] = "ended" /\ slot = Nobody) => actor # w
=============================================================================
