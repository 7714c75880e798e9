------------------------------ MODULE SlotQueue ------------------------------
(***************************************************************************)
(* What the queue for local inference slots promises ("a simple FIFO       *)
(* concurrency limiter", core/router/local-queue.ts), apart from counters, *)
(* promises and timers: no more users than slots, a slot that comes free   *)
(* goes to whoever has waited longest and to nobody past them, and a user  *)
(* that stops waiting changes nothing for those that stay.  RunBudget      *)
(* implements it, whatever its calls go through, and so does, with a       *)
(* single slot, the turn in the page of BrowserLease (browser/lease.ts).   *)
(***************************************************************************)
EXTENDS Naturals, Sequences, FiniteSets

CONSTANTS User, Slots

VARIABLES
    holding,  \* the users that have a slot
    line      \* the users that wait for one, in order

vars == <<holding, line>>

Init ==
    /\ holding = {}
    /\ line = <<>>

\* A slot is free, so nobody waits, and u takes it.
Take(u) ==
    /\ u \notin holding
    /\ line = <<>>
    /\ Cardinality(holding) < Slots
    /\ holding' = holding \cup {u}
    /\ UNCHANGED line

\* None is free: u waits behind all that wait.
Join(u) ==
    /\ u \notin holding
    /\ \A i \in DOMAIN line : line[i] # u
    /\ Cardinality(holding) = Slots
    /\ line' = Append(line, u)
    /\ UNCHANGED holding

\* Whoever is at i stops waiting.
Leave(i) ==
    /\ line' = SubSeq(line, 1, i - 1) \o SubSeq(line, i + 1, Len(line))
    /\ UNCHANGED holding

\* A slot is given back and nobody wants it.
GiveBack(u) ==
    /\ u \in holding
    /\ line = <<>>
    /\ holding' = holding \ {u}
    /\ UNCHANGED line

\* A slot is given back and goes to the one that has waited longest.
HandOver(u) ==
    /\ u \in holding
    /\ line # <<>>
    /\ holding' = (holding \ {u}) \cup {Head(line)}
    /\ line' = Tail(line)

Next ==
    \/ \E u \in User : Take(u) \/ Join(u) \/ GiveBack(u) \/ HandOver(u)
    \/ \E i \in DOMAIN line : Leave(i)

Spec == Init /\ [][Next]_vars
=============================================================================
