-------------------------- MODULE RunBudgetProofs --------------------------
(***************************************************************************)
(* Proofs about RunBudget, for every number of callers, shapes of calls,   *)
(* caps, slots and usage.  Inv is about the slots, the queue and when a    *)
(* run stops; there the accounts are integers and nothing rests on what    *)
(* they add up to.  Ledger, kept by every step from a state of Inv, is     *)
(* about what they add up to.                                              *)
(***************************************************************************)
EXTENDS RunBudget, SequenceTheorems, FiniteSetTheorems, TLAPS

(***************************************************************************)
(* A queue from which a wait that was given up is taken                    *)
(***************************************************************************)

\* A sequence without the element at k.
LEMMA RemovedAt ==
  ASSUME NEW S, NEW q \in Seq(S), NEW k \in 1..Len(q)
  PROVE  LET s == SubSeq(q, 1, k - 1) \o SubSeq(q, k + 1, Len(q))
         IN  /\ s \in Seq(S)
             /\ Len(s) = Len(q) - 1
             /\ \A i \in 1..(Len(q) - 1) : s[i] = IF i < k THEN q[i] ELSE q[i + 1]
<1> DEFINE u == SubSeq(q, 1, k - 1)
           v == SubSeq(q, k + 1, Len(q))
<1>1. u \in Seq(S) /\ Len(u) = k - 1 /\ \A i \in 1..(k - 1) : u[i] = q[i]
  BY SubSeqProperties
<1>2. v \in Seq(S) /\ Len(v) = Len(q) - k /\ \A i \in 1..(Len(q) - k) : v[i] = q[k + i]
  BY SubSeqProperties
<1> HIDE DEF u, v
<1>3. /\ u \o v \in Seq(S)
      /\ Len(u \o v) = Len(u) + Len(v)
      /\ \A i \in 1..(Len(u) + Len(v)) :
           (u \o v)[i] = IF i <= Len(u) THEN u[i] ELSE v[i - Len(u)]
  BY <1>1, <1>2, ConcatProperties
<1>4. ASSUME NEW i \in 1..(Len(q) - 1)
      PROVE  /\ i < k => (u \o v)[i] = q[i]
             /\ ~(i < k) => (u \o v)[i] = q[i + 1]
  <2> DEFINE j == i - (k - 1)
  <2>1. (i < k => (u \o v)[i] = u[i]) /\ (~(i < k) => (u \o v)[i] = v[j])
    BY <1>1, <1>2, <1>3
  <2>2. ~(i < k) => j \in 1..(Len(q) - k) /\ k + j = i + 1
    OBVIOUS
  <2> HIDE DEF j
  <2>3. i < k => u[i] = q[i]
    BY <1>1
  <2>4. ~(i < k) => v[j] = q[i + 1]
    BY <1>2, <2>2
  <2> QED
    BY <2>1, <2>3, <2>4
<1>5. /\ Len(u \o v) = Len(q) - 1
      /\ \A i \in 1..(Len(q) - 1) :
           (u \o v)[i] = IF i < k THEN q[i] ELSE q[i + 1]
  BY <1>1, <1>2, <1>3, <1>4
<1> QED
  BY <1>3, <1>5, Zenon DEF u, v

Accounts == [spent : Int, reserved : Int, work : Int,
             exceeded : BOOLEAN, wrapping : BOOLEAN]

Calls == [class : Classes, local : BOOLEAN, in : Nat, out : Nat, gen : Nat]

\* The types the other parts rest on.
Types ==
    /\ generation \in Nat
    /\ run \in Accounts
    /\ session \in Int
    /\ halted \in BOOLEAN
    /\ pc \in [Callers -> Stages]
    /\ call \in [Callers -> Calls]

\* The slots taken are counted, and none is free while somebody waits.
SlotsInv ==
    /\ IsFiniteSet(Holders)
    /\ active = Cardinality(Holders)
    /\ active <= MaxLocal
    /\ waiting # <<>> => active = MaxLocal

\* The queue lists those waiting for a local slot, each once.
QueueInv ==
    /\ waiting \in Seq(Callers)
    /\ \A c \in Callers :
        (\E i \in 1..Len(waiting) : waiting[i] = c) <=> pc[c] = "queued"
    /\ \A i, j \in 1..Len(waiting) : waiting[i] = waiting[j] => i = j
    /\ \A c \in Callers : pc[c] = "queued" => call[c].local

\* The switch of a stopped run has been thrown.
SwitchInv == run.exceeded => generation \in fired

Inv == Types /\ SlotsInv /\ QueueInv /\ SwitchInv /\ StopsAtCap

(***************************************************************************)
(* What the shared steps do                                                *)
(***************************************************************************)

LEMMA HoldingEffect ==
  ASSUME NEW r \in Accounts, NEW i \in Int, NEW o \in Int
  PROVE  LET s == Holding(r, i, o)
         IN  /\ s \in Accounts
             /\ s.spent = r.spent /\ s.exceeded = r.exceeded /\ s.wrapping = r.wrapping
             /\ s.reserved = r.reserved + i /\ s.work = r.work + o
<1> DEFINE t == [r EXCEPT !.reserved = @ + i]
           s == [t EXCEPT !.work = @ + o]
<1>1. /\ t \in Accounts
      /\ t.spent = r.spent /\ t.exceeded = r.exceeded /\ t.wrapping = r.wrapping
      /\ t.reserved = r.reserved + i /\ t.work = r.work
  BY DEF Accounts
<1> HIDE DEF t
<1>2. /\ s \in Accounts
      /\ s.spent = t.spent /\ s.exceeded = t.exceeded /\ s.wrapping = t.wrapping
      /\ s.reserved = t.reserved /\ s.work = t.work + o
  BY <1>1 DEF Accounts
<1>3. Holding(r, i, o) = s
  BY DEF Holding, t
<1> HIDE DEF s
<1> QED  BY <1>1, <1>2, <1>3

LEMMA ReleasedEffect ==
  ASSUME Types, NEW c \in Callers, NEW r \in Accounts
  PROVE  LET s == Released(c, r)
         IN  /\ s \in Accounts
             /\ s.spent = r.spent /\ s.exceeded = r.exceeded /\ s.wrapping = r.wrapping
             /\ s.reserved <= r.reserved /\ s.work <= r.work
             /\ call[c].gen # generation => s = r
<1> DEFINE i == call[c].in
           w == WorkOut(call[c])
           s == Holding(r, -i, -w)
<1>1. i \in Nat /\ w \in Nat
  BY DEF Types, Calls, WorkOut
<1>2. Released(c, r) = IF call[c].gen = generation THEN s ELSE r
  BY DEF Released
<1> HIDE DEF i, w
<1>3. -i \in Int /\ -w \in Int
  BY <1>1
<1>4. /\ s \in Accounts
      /\ s.spent = r.spent /\ s.exceeded = r.exceeded /\ s.wrapping = r.wrapping
      /\ s.reserved = r.reserved + (-i) /\ s.work = r.work + (-w)
  BY <1>3, HoldingEffect
<1> HIDE DEF s
<1>5. r.reserved \in Int /\ r.work \in Int
  BY DEF Accounts
<1>6. s.reserved <= r.reserved /\ s.work <= r.work /\ r.reserved <= r.reserved /\ r.work <= r.work
  BY <1>1, <1>4, <1>5
<1> QED  BY <1>2, <1>4, <1>6

\* Where the callers are after c moved and W were handed slots.
LEMMA MovesEffect ==
  ASSUME Types, NEW c \in Callers, NEW s \in Stages, NEW k \in Calls, NEW W,
         MovesTo(c, s, k, W), c \notin W
  PROVE  /\ pc' \in [Callers -> Stages]
         /\ call' \in [Callers -> Calls]
         /\ pc'[c] = s /\ call'[c] = k
         /\ \A d \in Callers \ {c} :
                /\ call'[d] = call[d]
                /\ d \in W => pc'[d] = "slotted"
                /\ d \notin W => pc'[d] = pc[d]
BY DEF MovesTo, Types, Stages

\* The heir of a slot is the head of the queue.
LEMMA HeirEffect ==
  ASSUME Types, QueueInv, NEW c \in Callers, pc[c] # "queued"
  PROVE  /\ c \notin Heir(c)
         /\ \A d \in Heir(c) : d \in Callers /\ pc[d] = "queued" /\ call[d].local
         /\ Heir(c) # {} <=> HoldsSlot(c) /\ waiting # <<>>
         /\ Heir(c) # {} => Heir(c) = {waiting[1]} /\ Len(waiting) >= 1
<1>1. ASSUME HoldsSlot(c), waiting # <<>>
      PROVE  /\ Heir(c) = {waiting[1]} /\ 1 \in 1..Len(waiting)
             /\ waiting[1] \in Callers /\ pc[waiting[1]] = "queued"
  <2>1. Heir(c) = {waiting[1]} /\ 1 \in 1..Len(waiting) /\ waiting[1] \in Callers
    BY <1>1 DEF Heir, QueueInv
  <2> QED  BY <2>1 DEF QueueInv
<1>2. ~(HoldsSlot(c) /\ waiting # <<>>) => Heir(c) = {}
  BY DEF Heir
<1> QED  BY <1>1, <1>2 DEF QueueInv

\* A step that changes neither slots nor queue.
LEMMA SlotsSame ==
  ASSUME SlotsInv, QueueInv, UNCHANGED <<active, waiting>>,
         \A d \in Callers : HoldsSlot(d)' = HoldsSlot(d),
         \A d \in Callers : (pc'[d] = "queued") = (pc[d] = "queued"),
         \A d \in Callers : pc'[d] = "queued" => call'[d] = call[d]
  PROVE  SlotsInv' /\ QueueInv'
<1>1. Holders' = Holders
  BY DEF Holders
<1> QED  BY <1>1 DEF SlotsInv, QueueInv
\* A caller that waits for no slot gives up what it holds: the slot it has
\* goes to the head of the queue, or is free.
LEMMA GiveBackEffect ==
  ASSUME Types, SlotsInv, QueueInv, NEW c \in Callers, pc[c] # "queued",
         NEW s \in {"idle", "metering"}, NEW k \in Calls,
         MovesTo(c, s, k, Heir(c)), SlotGivenBack(c)
  PROVE  SlotsInv' /\ QueueInv'
<1>1. /\ pc' \in [Callers -> Stages] /\ call' \in [Callers -> Calls]
      /\ pc'[c] = s /\ call'[c] = k /\ c \notin Heir(c)
      /\ \A d \in Callers \ {c} :
            /\ call'[d] = call[d]
            /\ d \in Heir(c) => pc'[d] = "slotted"
            /\ d \notin Heir(c) => pc'[d] = pc[d]
  BY HeirEffect, MovesEffect DEF Stages
<1>2. ~HoldsSlot(c)' /\ pc'[c] # "queued"
  BY <1>1 DEF HoldsSlot
<1>3. CASE ~HoldsSlot(c)
  <2>1. Heir(c) = {} /\ UNCHANGED <<active, waiting>>
    BY <1>3 DEF Heir, SlotGivenBack
  <2>2. /\ \A d \in Callers : HoldsSlot(d)' = HoldsSlot(d)
        /\ \A d \in Callers : (pc'[d] = "queued") = (pc[d] = "queued")
        /\ \A d \in Callers : pc'[d] = "queued" => call'[d] = call[d]
    BY <1>1, <1>2, <1>3, <2>1 DEF HoldsSlot
  <2> QED  BY <2>1, <2>2, SlotsSame
<1>4. CASE HoldsSlot(c) /\ waiting = <<>>
  <2>1. Heir(c) = {} /\ active' = active - 1 /\ waiting' = waiting
    BY <1>4 DEF Heir, SlotGivenBack
  <2>2. Holders' = Holders \ {c} /\ c \in Holders
    BY <1>1, <1>2, <1>4, <2>1 DEF Holders, HoldsSlot
  <2>3. IsFiniteSet(Holders') /\ Cardinality(Holders') = Cardinality(Holders) - 1
    BY <2>2, FS_RemoveElement DEF SlotsInv
  <2>4. MaxLocal \in Nat /\ active \in Nat
    BY BudgetAssumption, FS_CardinalityType DEF SlotsInv
  <2>5. SlotsInv'
    BY <1>4, <2>1, <2>3, <2>4 DEF SlotsInv
  <2>6. QueueInv'
    BY <1>1, <1>2, <2>1 DEF QueueInv
  <2> QED  BY <2>5, <2>6
<1>5. CASE HoldsSlot(c) /\ waiting # <<>>
  <2> DEFINE h == waiting[1]
  <2>1. /\ Heir(c) = {h} /\ Len(waiting) >= 1 /\ h \in Callers /\ h # c
        /\ pc[h] = "queued" /\ call[h].local
    BY <1>1, <1>5, HeirEffect
  <2>2. active' = active /\ waiting' = Tail(waiting)
    BY <1>5, <2>1 DEF SlotGivenBack
  <2>3. /\ \A d \in Callers \ {c, h} : pc'[d] = pc[d] /\ call'[d] = call[d]
        /\ pc'[h] = "slotted" /\ call'[h] = call[h]
    BY <1>1, <2>1
  <2> HIDE DEF h
  <2>4. Holders' = (Holders \ {c}) \cup {h} /\ c \in Holders /\ h \notin Holders \ {c}
    BY <1>2, <1>5, <2>1, <2>3 DEF Holders, HoldsSlot
  <2>5. IsFiniteSet(Holders \ {c}) /\ Cardinality(Holders \ {c}) = Cardinality(Holders) - 1
    BY <2>4, FS_RemoveElement DEF SlotsInv
  <2>6. IsFiniteSet(Holders') /\ Cardinality(Holders') = Cardinality(Holders \ {c}) + 1
    BY <2>4, <2>5, FS_AddElement
  <2>7. Cardinality(Holders) \in Nat
    BY FS_CardinalityType DEF SlotsInv
  <2>8. SlotsInv'
    BY <1>5, <2>2, <2>5, <2>6, <2>7 DEF SlotsInv
  <2>9. /\ waiting' \in Seq(Callers) /\ Len(waiting') = Len(waiting) - 1
        /\ Len(waiting) \in Nat
        /\ \A i \in 1..Len(waiting') : waiting'[i] = waiting[i + 1]
    BY <2>2, <1>5 DEF QueueInv
  <2>10. \A i, j \in 1..Len(waiting') : waiting'[i] = waiting'[j] => i = j
    <3> SUFFICES ASSUME NEW i \in 1..Len(waiting'), NEW j \in 1..Len(waiting'),
                        waiting'[i] = waiting'[j]
                 PROVE  i = j
      OBVIOUS
    <3>1. i + 1 \in 1..Len(waiting) /\ j + 1 \in 1..Len(waiting)
          /\ waiting[i + 1] = waiting[j + 1]
      BY <2>9
    <3>2. i + 1 = j + 1
      BY <3>1 DEF QueueInv
    <3> QED  BY <3>2, <2>9
  <2>11. ASSUME NEW d \in Callers
         PROVE  (\E i \in 1..Len(waiting') : waiting'[i] = d) <=> pc'[d] = "queued"
    <3>1. (\E i \in 1..Len(waiting') : waiting'[i] = d)
            <=> (\E i \in 2..Len(waiting) : waiting[i] = d)
      <4>1. ASSUME NEW i \in 1..Len(waiting'), waiting'[i] = d
            PROVE  \E j \in 2..Len(waiting) : waiting[j] = d
        BY <2>9, <4>1
      <4>2. ASSUME NEW j \in 2..Len(waiting), waiting[j] = d
            PROVE  \E i \in 1..Len(waiting') : waiting'[i] = d
        <5>1. j - 1 \in 1..Len(waiting') /\ waiting'[j - 1] = waiting[(j - 1) + 1] /\ (j - 1) + 1 = j
          BY <2>9
        <5> QED  BY <4>2, <5>1
      <4> QED  BY <4>1, <4>2
    <3>2. CASE d = h
      <4>1. \A j \in 2..Len(waiting) : waiting[j] # waiting[1]
        BY <2>1, <2>9 DEF QueueInv
      <4> QED  BY <3>1, <3>2, <4>1, <2>3 DEF h
    <3>3. CASE d = c
      BY <1>2, <1>5, <2>9, <3>1, <3>3 DEF QueueInv
    <3>4. CASE d # h /\ d # c
      <4>1. pc'[d] = pc[d]
        BY <2>3, <3>4
      <4>2. (\E i \in 2..Len(waiting) : waiting[i] = d) <=> (\E i \in 1..Len(waiting) : waiting[i] = d)
        BY <2>9, <3>4 DEF h
      <4> QED  BY <3>1, <4>1, <4>2 DEF QueueInv
    <3> QED  BY <3>2, <3>3, <3>4
  <2>12. \A d \in Callers : pc'[d] = "queued" => call'[d].local
    BY <1>2, <2>3 DEF QueueInv
  <2> QED  BY <2>8, <2>9, <2>10, <2>11, <2>12 DEF QueueInv
<1> QED  BY <1>3, <1>4, <1>5

\* What the admission of a call does to the accounts, and to its caller.
LEMMA AdmitEffect ==
  ASSUME Types, NEW c \in Callers, NEW k \in Shapes, NEW r \in Accounts, NEW W,
         Admit(c, k, r, W)
  PROVE  /\ run' \in Accounts
         /\ run'.spent = r.spent
         /\ r.exceeded => run' = r
         /\ run'.exceeded => r.exceeded \/ generation \in fired'
         /\ fired \subseteq fired'
         /\ r.wrapping => run'.wrapping /\ run'.work = r.work
         /\ \E s \in {"idle", "metering"}, m \in Calls : MovesTo(c, s, m, W)
<1>1. NoCall \in Calls /\ Cap \in Nat /\ MinAnswer \in Nat \ {0} /\ generation \in Nat
  BY BudgetAssumption DEF NoCall, Calls, Classes, Types
<1>2. CASE run' = r /\ MovesTo(c, "idle", NoCall, W) /\ UNCHANGED fired
  BY <1>1, <1>2
<1>3. CASE /\ ~Closed(k, r)
           /\ run' = Stopped(r)
           /\ fired' = fired \cup {generation}
           /\ MovesTo(c, "idle", NoCall, W)
  BY <1>1, <1>3 DEF Stopped, Accounts, Closed
<1>4. CASE /\ ~Closed(k, r)
           /\ run' = [r EXCEPT !.wrapping = TRUE]
           /\ MovesTo(c, "idle", NoCall, W)
           /\ UNCHANGED fired
  BY <1>1, <1>4 DEF Accounts, Closed
<1>5. CASE /\ ~Closed(k, r) /\ ~NoRoom(k, r)
           /\ run' = Reserved(k, r)
           /\ MovesTo(c, "metering", Pinned(Fitted(k, r)), W)
           /\ UNCHANGED fired
  <2>1. k.in \in Int /\ WorkOut(k) \in Int
    BY DEF Shapes, WorkOut
  <2>2. /\ run' \in Accounts /\ run'.spent = r.spent /\ run'.exceeded = r.exceeded
        /\ run'.wrapping = r.wrapping /\ run'.work = r.work + WorkOut(k)
    BY <1>5, <2>1, HoldingEffect DEF Reserved
  <2>3. ~r.exceeded /\ (r.wrapping => WorkOut(k) = 0)
    BY <1>5 DEF Closed, WorkOut, Shapes
  <2>4. r.wrapping => run'.work = r.work
    BY <2>1, <2>2, <2>3 DEF Accounts
  <2>5. Fitted(k, r) \in Shapes
    <3>1. k.class = "final" => Room(k, r) \in Nat
      BY <1>1, <1>5 DEF NoRoom, Room, Least, Shapes, Accounts
    <3> DEFINE n == Room(k, r)
    <3> HIDE DEF n
    <3>2. Fitted(k, r) = IF k.class = "final" THEN [k EXCEPT !.out = n] ELSE k
      BY DEF Fitted, n
    <3>3. k.class = "final" => n \in Nat
      BY <3>1 DEF n
    <3> QED  BY <3>2, <3>3 DEF Shapes
  <2> DEFINE m == Fitted(k, r)
  <2> HIDE DEF m
  <2>6. m \in Shapes
    BY <2>5 DEF m
  <2>7. Pinned(m) \in Calls
    BY <1>1, <2>6 DEF Pinned, Calls, Shapes
  <2>8. MovesTo(c, "metering", Pinned(m), W)
    BY <1>5 DEF m
  <2> QED  BY <1>5, <2>2, <2>3, <2>4, <2>7, <2>8
<1> QED  BY <1>2, <1>3, <1>4, <1>5 DEF Admit
(***************************************************************************)
(* The invariant, and what a step may never do, action by action           *)
(***************************************************************************)

\* What is shown of every step from a state where Inv holds.
Kept == Inv' /\ StaysShut /\ SettlesApart

\* A step that neither settles a call nor begins a run.
LEMMA KeptBy ==
  ASSUME Inv, Types', SlotsInv', QueueInv',
         UNCHANGED <<generation, session, halted>>,
         run'.spent = run.spent,
         run.exceeded => run'.exceeded /\ run'.reserved <= run.reserved,
         run.wrapping => run'.wrapping /\ run'.work <= run.work,
         run'.exceeded => run.exceeded \/ generation \in fired',
         fired \subseteq fired',
         \A d \in Callers : pc[d] # "sent" /\ pc'[d] = "sent" => call[d].gen \notin fired,
         \A d \in Callers :
            pc[d] = "sent" /\ pc'[d] # "sent" /\ call[d].gen # generation => run' = run
  PROVE  Kept
<1>1. SwitchInv'
  BY DEF Inv, SwitchInv
<1>2. StopsAtCap'
  BY DEF Inv, StopsAtCap
<1>3. StaysShut /\ SettlesApart
  BY DEF StaysShut, SettlesApart
<1> QED  BY <1>1, <1>2, <1>3 DEF Kept, Inv

\* Only those handed a slot move besides the caller that gives it back.
LEMMA OthersStay ==
  ASSUME Types, QueueInv, NEW c \in Callers, pc[c] # "queued",
         NEW s \in {"idle", "metering"}, NEW k \in Calls, MovesTo(c, s, k, Heir(c))
  PROVE  /\ pc' \in [Callers -> Stages] /\ call' \in [Callers -> Calls]
         /\ \A d \in Callers : pc'[d] = "sent" => pc[d] = "sent"
         /\ \A d \in Callers \ {c} : pc[d] = "sent" => pc'[d] = "sent"
<1>1. s \in Stages
  BY DEF Stages
<1> QED  BY <1>1, HeirEffect, MovesEffect

\* A call that ends, with the accounts as the release finds them.
LEMMA EndsEffect ==
  ASSUME Inv, NEW c \in Callers, pc[c] # "queued", NEW r \in Accounts, Ends(c, r)
  PROVE  /\ run' = Released(c, r) /\ SlotsInv' /\ QueueInv'
         /\ pc' \in [Callers -> Stages] /\ call' \in [Callers -> Calls]
         /\ \A d \in Callers : pc'[d] = "sent" => pc[d] = "sent"
         /\ \A d \in Callers \ {c} : pc[d] = "sent" => pc'[d] = "sent"
<1>1. NoCall \in Calls /\ "idle" \in {"idle", "metering"}
  BY DEF NoCall, Calls, Classes
<1> QED  BY <1>1, GiveBackEffect, OthersStay DEF Ends, Inv

LEMMA EndsKept ==
  ASSUME Inv, NEW c \in Callers, pc[c] # "queued", Ends(c, run),
         UNCHANGED <<generation, fired, session, halted>>
  PROVE  Kept
<1>1. run \in Accounts /\ Types
  BY DEF Inv, Types
<1>2. /\ run' \in Accounts
      /\ run'.spent = run.spent /\ run'.exceeded = run.exceeded /\ run'.wrapping = run.wrapping
      /\ run'.reserved <= run.reserved /\ run'.work <= run.work
      /\ call[c].gen # generation => run' = run
  BY <1>1, EndsEffect, ReleasedEffect
<1>3. Types'
  BY <1>1, <1>2, EndsEffect DEF Types
<1> QED  BY <1>1, <1>2, <1>3, EndsEffect, KeptBy

LEMMA GenerateKept ==
  ASSUME Inv, NEW c \in Callers, NEW k \in ShapesOf[c], Generate(c, k)
  PROVE  Kept
<1>1. run \in Accounts /\ Types /\ SlotsInv /\ QueueInv /\ k \in Shapes /\ pc[c] = "idle"
  BY BudgetAssumption DEF Inv, Types, Generate
<1>2. /\ run' \in Accounts
      /\ run'.spent = run.spent
      /\ run.exceeded => run' = run
      /\ run'.exceeded => run.exceeded \/ generation \in fired'
      /\ fired \subseteq fired'
      /\ run.wrapping => run'.wrapping /\ run'.work = run.work
  BY <1>1, AdmitEffect DEF Generate
<1>3. PICK s \in {"idle", "metering"}, m \in Calls : MovesTo(c, s, m, {})
  BY <1>1, AdmitEffect DEF Generate
<1>4. /\ pc' \in [Callers -> Stages] /\ call' \in [Callers -> Calls]
      /\ pc'[c] = s
      /\ \A d \in Callers \ {c} : pc'[d] = pc[d] /\ call'[d] = call[d]
  BY <1>1, <1>3, MovesEffect DEF Stages
<1>5. Types'
  BY <1>1, <1>2, <1>4 DEF Types, Generate
<1>6. SlotsInv' /\ QueueInv'
  <2>1. /\ \A d \in Callers : HoldsSlot(d)' = HoldsSlot(d)
        /\ \A d \in Callers : (pc'[d] = "queued") = (pc[d] = "queued")
        /\ \A d \in Callers : pc'[d] = "queued" => call'[d] = call[d]
    BY <1>1, <1>4 DEF HoldsSlot
  <2> QED  BY <1>1, <2>1, SlotsSame DEF Generate
<1>7. run'.reserved <= run'.reserved /\ run'.work <= run'.work
  BY <1>2 DEF Accounts
<1> QED  BY <1>1, <1>2, <1>4, <1>5, <1>6, <1>7, KeptBy DEF Generate

\* A call that moves on without touching the slots or the accounts.
LEMMA MovesKept ==
  ASSUME Inv, NEW c \in Callers, NEW s \in Stages, s # "idle",
         MovesTo(c, s, call[c], {}),
         s = "sent" => call[c].gen \notin fired,
         pc[c] # "sent", pc[c] # "queued", s # "queued",
         call[c].local => (pc[c] = "slotted") = (s \in {"slotted", "sent"}),
         UNCHANGED <<generation, run, fired, session, halted, active, waiting>>
  PROVE  Kept
<1>1. Types /\ SlotsInv /\ QueueInv /\ call[c] \in Calls /\ run \in Accounts
  BY DEF Inv, Types
<1>2. /\ pc' \in [Callers -> Stages] /\ call' \in [Callers -> Calls]
      /\ pc'[c] = s /\ call'[c] = call[c]
      /\ \A d \in Callers \ {c} : pc'[d] = pc[d] /\ call'[d] = call[d]
  BY <1>1, MovesEffect
<1>3. Types'
  BY <1>1, <1>2 DEF Types
<1>4. SlotsInv' /\ QueueInv'
  <2>1. /\ \A d \in Callers : HoldsSlot(d)' = HoldsSlot(d)
        /\ \A d \in Callers : (pc'[d] = "queued") = (pc[d] = "queued")
        /\ \A d \in Callers : pc'[d] = "queued" => call'[d] = call[d]
    BY <1>1, <1>2 DEF HoldsSlot
  <2> QED  BY <1>1, <2>1, SlotsSame
<1>5. run.reserved <= run.reserved /\ run.work <= run.work
  BY <1>1 DEF Accounts
<1> QED  BY <1>1, <1>2, <1>3, <1>4, <1>5, KeptBy

LEMMA WithdrawKept ==
  ASSUME Inv, NEW c \in Callers, Withdraw(c)
  PROVE  Kept
BY MovesKept DEF Withdraw, Stages

LEMMA SendKept ==
  ASSUME Inv, NEW c \in Callers, Send(c)
  PROVE  Kept
BY MovesKept DEF Send, Stages, Ready, MayGoOut, Aborted

LEMMA MadeAgainKept ==
  ASSUME Inv, NEW c \in Callers, pc[c] # "queued", MadeAgain(c),
         pc[c] = "sent" => call[c].gen = generation,
         UNCHANGED <<generation, session, halted>>
  PROVE  Kept
<1> DEFINE r == Released(c, run)
<1>1. run \in Accounts /\ Types /\ SlotsInv /\ QueueInv
  BY DEF Inv, Types
<1>2. /\ r \in Accounts
      /\ r.spent = run.spent /\ r.exceeded = run.exceeded /\ r.wrapping = run.wrapping
      /\ r.reserved <= run.reserved /\ r.work <= run.work
  BY <1>1, ReleasedEffect
<1>3. PICK k \in Shapes : Admit(c, k, r, Heir(c))
  BY BudgetAssumption DEF MadeAgain
<1> HIDE DEF r
<1>4. /\ run' \in Accounts
      /\ run'.spent = r.spent
      /\ r.exceeded => run' = r
      /\ run'.exceeded => r.exceeded \/ generation \in fired'
      /\ fired \subseteq fired'
      /\ r.wrapping => run'.wrapping /\ run'.work = r.work
  BY <1>1, <1>2, <1>3, AdmitEffect
<1>5. PICK s \in {"idle", "metering"}, m \in Calls : MovesTo(c, s, m, Heir(c))
  BY <1>1, <1>2, <1>3, AdmitEffect
<1>6. SlotsInv' /\ QueueInv'
  BY <1>1, <1>5, GiveBackEffect DEF MadeAgain
<1>7. /\ pc' \in [Callers -> Stages] /\ call' \in [Callers -> Calls]
      /\ \A d \in Callers : pc'[d] = "sent" => pc[d] = "sent"
      /\ \A d \in Callers \ {c} : pc[d] = "sent" => pc'[d] = "sent"
  BY <1>1, <1>5, OthersStay
<1>8. Types'
  BY <1>1, <1>4, <1>7 DEF Types
<1> QED  BY <1>2, <1>4, <1>6, <1>7, <1>8, KeptBy
LEMMA AcquireKept ==
  ASSUME Inv, NEW c \in Callers, Acquire(c)
  PROVE  Kept
<1>1. /\ Types /\ SlotsInv /\ QueueInv /\ call[c] \in Calls /\ run \in Accounts
      /\ pc[c] = "metered" /\ call[c].local /\ ~HoldsSlot(c)
  BY DEF Inv, Types, Acquire, HoldsSlot
<1>2. CASE Ends(c, run)
  BY <1>1, <1>2, EndsKept DEF Acquire
<1>3. ASSUME NEW s \in {"slotted", "queued"}, MovesTo(c, s, call[c], {}), UNCHANGED run,
             SlotsInv', QueueInv'
      PROVE  Kept
  <2>1. s \in Stages
    BY DEF Stages
  <2>2. /\ pc' \in [Callers -> Stages] /\ call' \in [Callers -> Calls] /\ pc'[c] = s
        /\ \A d \in Callers \ {c} : pc'[d] = pc[d]
    BY <1>1, <1>3, <2>1, MovesEffect
  <2>3. Types'
    BY <1>1, <1>3, <2>2 DEF Types, Acquire
  <2>4. run.reserved <= run.reserved /\ run.work <= run.work
    BY <1>1 DEF Accounts
  <2> QED  BY <1>1, <1>3, <2>2, <2>3, <2>4, KeptBy DEF Acquire
<1>4. ASSUME active < MaxLocal, active' = active + 1, MovesTo(c, "slotted", call[c], {}),
             UNCHANGED <<run, waiting>>
      PROVE  Kept
  <2>1. /\ pc'[c] = "slotted" /\ call'[c] = call[c]
        /\ \A d \in Callers \ {c} : pc'[d] = pc[d] /\ call'[d] = call[d]
    BY <1>1, <1>4, MovesEffect DEF Stages
  <2>2. Holders' = Holders \cup {c} /\ c \notin Holders
    BY <1>1, <2>1 DEF Holders, HoldsSlot
  <2>3. IsFiniteSet(Holders') /\ Cardinality(Holders') = Cardinality(Holders) + 1
    BY <1>1, <2>2, FS_AddElement DEF SlotsInv
  <2>4. MaxLocal \in Nat /\ active \in Nat
    BY <1>1, BudgetAssumption, FS_CardinalityType DEF SlotsInv
  <2>5. SlotsInv'
    BY <1>1, <1>4, <2>3, <2>4 DEF SlotsInv
  <2>6. QueueInv'
    BY <1>1, <1>4, <2>1 DEF QueueInv
  <2> QED  BY <1>3, <1>4, <2>5, <2>6
<1>5. ASSUME active >= MaxLocal, waiting' = Joined(c),
             MovesTo(c, "queued", call[c], {}), UNCHANGED <<run, active>>
      PROVE  Kept
  <2>1. /\ pc'[c] = "queued" /\ call'[c] = call[c]
        /\ \A d \in Callers \ {c} : pc'[d] = pc[d] /\ call'[d] = call[d]
    BY <1>1, <1>5, MovesEffect DEF Stages
  <2>2. Holders' = Holders
    BY <1>1, <2>1 DEF Holders, HoldsSlot
  <2>3. MaxLocal \in Nat /\ active \in Nat
    BY <1>1, BudgetAssumption, FS_CardinalityType DEF SlotsInv
  <2>4. SlotsInv'
    BY <1>1, <1>5, <2>2, <2>3 DEF SlotsInv
  <2>5. /\ waiting' \in Seq(Callers) /\ Len(waiting) \in Nat /\ Len(waiting') = Len(waiting) + 1
        /\ waiting'[Len(waiting) + 1] = c
        /\ \A i \in 1..Len(waiting) : waiting'[i] = waiting[i]
    BY <1>1, <1>5 DEF QueueInv, Joined
  <2>6. \A i \in 1..Len(waiting) : waiting[i] # c
    BY <1>1 DEF QueueInv
  <2>7. \A d \in Callers :
            (\E i \in 1..Len(waiting') : waiting'[i] = d)
              <=> d = c \/ (\E i \in 1..Len(waiting) : waiting[i] = d)
    BY <2>5
  <2>8. \A d \in Callers : (\E i \in 1..Len(waiting') : waiting'[i] = d) <=> pc'[d] = "queued"
    BY <1>1, <2>1, <2>7 DEF QueueInv
  <2>9. \A i, j \in 1..Len(waiting') : waiting'[i] = waiting'[j] => i = j
    BY <1>1, <2>5, <2>6 DEF QueueInv
  <2>10. \A d \in Callers : pc'[d] = "queued" => call'[d].local
    BY <1>1, <2>1 DEF QueueInv
  <2>11. QueueInv'
    BY <2>5, <2>8, <2>9, <2>10 DEF QueueInv
  <2> QED  BY <1>3, <1>5, <2>4, <2>11
<1> QED  BY <1>2, <1>4, <1>5 DEF Acquire

LEMMA AbandonKept ==
  ASSUME Inv, NEW c \in Callers, Abandon(c)
  PROVE  Kept
<1>1. /\ Types /\ SlotsInv /\ QueueInv /\ call[c] \in Calls /\ run \in Accounts
      /\ pc[c] = "queued" /\ ~HoldsSlot(c)
  BY DEF Inv, Types, Abandon, HoldsSlot
<1>2. NoCall \in Calls
  BY DEF NoCall, Calls, Classes
<1>3. /\ pc' \in [Callers -> Stages] /\ call' \in [Callers -> Calls]
      /\ pc'[c] = "idle"
      /\ \A d \in Callers \ {c} : pc'[d] = pc[d] /\ call'[d] = call[d]
  BY <1>1, <1>2, MovesEffect DEF Abandon, Stages
<1>4. /\ run' \in Accounts
      /\ run'.spent = run.spent /\ run'.exceeded = run.exceeded /\ run'.wrapping = run.wrapping
      /\ run'.reserved <= run.reserved /\ run'.work <= run.work
      /\ call[c].gen # generation => run' = run
  BY <1>1, ReleasedEffect DEF Abandon
<1>5. Types'
  BY <1>1, <1>3, <1>4 DEF Types, Abandon
<1> DEFINE at == CHOOSE i \in DOMAIN waiting : waiting[i] = c
<1>6. at \in 1..Len(waiting) /\ waiting[at] = c
  <2>1. DOMAIN waiting = 1..Len(waiting)
    BY <1>1 DEF QueueInv
  <2>2. \E i \in DOMAIN waiting : waiting[i] = c
    BY <1>1, <2>1 DEF QueueInv
  <2> QED  BY <2>1, <2>2
<1>7. waiting' = SubSeq(waiting, 1, at - 1) \o SubSeq(waiting, at + 1, Len(waiting))
  BY DEF Abandon, Unqueued
<1> HIDE DEF at
<1>8. waiting \in Seq(Callers) /\ Len(waiting) \in Nat
  BY <1>1, LenProperties DEF QueueInv
<1>9. /\ waiting' \in Seq(Callers)
      /\ Len(waiting') = Len(waiting) - 1
      /\ \A i \in 1..(Len(waiting) - 1) :
            waiting'[i] = IF i < at THEN waiting[i] ELSE waiting[i + 1]
  BY <1>6, <1>7, <1>8, RemovedAt
<1>10. SlotsInv'
  <2>1. Holders' = Holders
    BY <1>1, <1>3 DEF Holders, HoldsSlot
  <2>2. active' = active /\ (waiting' # <<>> => waiting # <<>>)
    BY <1>6, <1>8 DEF Abandon
  <2> QED  BY <1>1, <2>1, <2>2 DEF SlotsInv
<1>11. \A i, j \in 1..Len(waiting') : waiting'[i] = waiting'[j] => i = j
  <2> SUFFICES ASSUME NEW i \in 1..Len(waiting'), NEW j \in 1..Len(waiting'),
                      waiting'[i] = waiting'[j]
               PROVE  i = j
    OBVIOUS
  <2> DEFINE m == IF i < at THEN i ELSE i + 1
             n == IF j < at THEN j ELSE j + 1
  <2>1. m \in 1..Len(waiting) /\ n \in 1..Len(waiting) /\ (m = n => i = j)
    BY <1>6, <1>8, <1>9
  <2>2. waiting'[i] = waiting[m] /\ waiting'[j] = waiting[n]
    BY <1>9
  <2> HIDE DEF m, n
  <2>3. waiting[m] = waiting[n]
    BY <2>2, waiting'[i] = waiting'[j]
  <2>4. \A x, y \in 1..Len(waiting) : waiting[x] = waiting[y] => x = y
    BY <1>1 DEF QueueInv
  <2>5. m = n
    BY <2>1, <2>3, <2>4
  <2> QED  BY <2>1, <2>5
<1>12. ASSUME NEW d \in Callers
       PROVE  (\E i \in 1..Len(waiting') : waiting'[i] = d) <=> pc'[d] = "queued"
  <2>1. ASSUME NEW i \in 1..Len(waiting'), waiting'[i] = d
        PROVE  \E j \in 1..Len(waiting) : waiting[j] = d /\ j # at
    <3>1. CASE i < at
      BY <1>6, <1>8, <1>9, <2>1, <3>1
    <3>2. CASE ~(i < at)
      <4>1. i + 1 \in 1..Len(waiting) /\ i + 1 # at /\ waiting[i + 1] = d
        BY <1>6, <1>8, <1>9, <2>1, <3>2
      <4> QED  BY <4>1
    <3> QED  BY <3>1, <3>2
  <2>2. ASSUME NEW j \in 1..Len(waiting), waiting[j] = d, j # at
        PROVE  \E i \in 1..Len(waiting') : waiting'[i] = d
    <3>1. CASE j < at
      <4>1. j \in 1..Len(waiting') /\ waiting'[j] = d
        BY <1>6, <1>8, <1>9, <2>2, <3>1
      <4> QED  BY <4>1
    <3>2. CASE ~(j < at)
      <4>1. j - 1 \in 1..Len(waiting') /\ ~(j - 1 < at) /\ (j - 1) + 1 = j
        BY <1>6, <1>8, <1>9, <2>2, <3>2
      <4>2. waiting'[j - 1] = d
        BY <1>9, <2>2, <4>1
      <4> QED  BY <4>1, <4>2
    <3> QED  BY <3>1, <3>2
  <2>3. CASE d = c
    <3>1. \A j \in 1..Len(waiting) : waiting[j] = d => j = at
      BY <1>1, <1>6, <2>3 DEF QueueInv
    <3> QED  BY <1>3, <2>1, <2>3, <3>1
  <2>4. CASE d # c
    <3>1. pc'[d] = pc[d] /\ (pc[d] = "queued" <=> \E j \in 1..Len(waiting) : waiting[j] = d)
      BY <1>1, <1>3, <2>4 DEF QueueInv
    <3>2. \A j \in 1..Len(waiting) : waiting[j] = d => j # at
      BY <1>6, <2>4
    <3> QED  BY <2>1, <2>2, <3>1, <3>2
  <2> QED  BY <2>3, <2>4
<1>13. \A d \in Callers : pc'[d] = "queued" => call'[d].local
  BY <1>1, <1>3 DEF QueueInv
<1>14. QueueInv'
  BY <1>9, <1>11, <1>12, <1>13 DEF QueueInv
<1> QED  BY <1>1, <1>3, <1>4, <1>5, <1>10, <1>14, KeptBy DEF Abandon
\* What the settlement of a call does to the accounts before it gives back
\* what it holds.
LEMMA SettledEffect ==
  ASSUME Types, NEW c \in Callers, NEW u \in Nat, NEW halts \in BOOLEAN,
         NEW r, r = IF call[c].gen = generation /\ ~halts
                    THEN Checked(Charged(c, u)) ELSE Charged(c, u)
  PROVE  /\ r \in Accounts
         /\ run.exceeded => r.exceeded
         /\ run.wrapping => r.wrapping
         /\ r.reserved = run.reserved /\ r.work = run.work
         /\ call[c].gen # generation => r = run
         /\ r.spent >= Cap /\ call[c].gen = generation => r.exceeded \/ halts
<1> DEFINE s == Charged(c, u)
<1>1. /\ s \in Accounts
      /\ s.exceeded = run.exceeded /\ s.wrapping = run.wrapping
      /\ s.reserved = run.reserved /\ s.work = run.work
      /\ call[c].gen # generation => s = run
  BY DEF Charged, Types, Accounts
<1> HIDE DEF s
<1>2. /\ Checked(s) \in Accounts
      /\ s.exceeded => Checked(s).exceeded
      /\ s.wrapping => Checked(s).wrapping
      /\ Checked(s).reserved = s.reserved /\ Checked(s).work = s.work
      /\ Checked(s).spent >= Cap => Checked(s).exceeded
  <2>1. CASE s.exceeded \/ OverCap(s)
    BY <1>1, <2>1 DEF Checked, Stopped, Accounts
  <2>2. CASE ~(s.exceeded \/ OverCap(s))
    <3> DEFINE w == s.wrapping \/ 5 * s.spent >= 4 * Cap
    <3>1. Checked(s) = [s EXCEPT !.wrapping = w] /\ w \in BOOLEAN /\ (s.wrapping => w)
      BY <2>2 DEF Checked
    <3> HIDE DEF w
    <3>2. ~(s.spent >= Cap)
      BY <2>2 DEF OverCap
    <3> QED  BY <1>1, <3>1, <3>2 DEF Accounts
  <2> QED  BY <2>1, <2>2
<1>3. r = IF call[c].gen = generation /\ ~halts THEN Checked(s) ELSE s
  BY DEF s
<1> QED  BY <1>1, <1>2, <1>3

LEMMA SucceedKept ==
  ASSUME Inv, NEW c \in Callers, NEW u \in Usage(c), Succeed(c, u)
  PROVE  Kept
<1> DEFINE halts == ~halted /\ session + u >= SessionCap
           r == IF call[c].gen = generation /\ ~halts
                THEN Checked(Charged(c, u)) ELSE Charged(c, u)
<1>1. /\ Types /\ SwitchInv /\ StopsAtCap /\ pc[c] = "sent" /\ pc[c] # "queued"
      /\ halts \in BOOLEAN /\ u \in Nat /\ run \in Accounts
  <2>1. call[c] \in Calls /\ Overrun \in Nat
    BY BudgetAssumption DEF Inv, Types
  <2>2. call[c].in + call[c].out + Overrun \in Nat
    BY <2>1 DEF Calls
  <2> QED  BY <2>2 DEF Inv, Types, Succeed, Usage
<1>2. /\ session' = session + u
      /\ halted' = (halted \/ halts)
      /\ fired' = IF r.exceeded /\ ~run.exceeded THEN fired \cup {generation} ELSE fired
      /\ Ends(c, r) /\ UNCHANGED generation
  BY Zenon DEF Succeed
<1>3. /\ r \in Accounts
      /\ run.exceeded => r.exceeded
      /\ run.wrapping => r.wrapping
      /\ r.reserved = run.reserved /\ r.work = run.work
      /\ call[c].gen # generation => r = run
      /\ r.spent >= Cap /\ call[c].gen = generation => r.exceeded \/ halts
  <2> HIDE DEF halts
  <2> QED  BY <1>1, SettledEffect
<1>4. session + u >= SessionCap => halted \/ halts
  OBVIOUS
<1> HIDE DEF halts, r
<1>5. /\ run' \in Accounts
      /\ run'.spent = r.spent /\ run'.exceeded = r.exceeded /\ run'.wrapping = r.wrapping
      /\ run'.reserved <= r.reserved /\ run'.work <= r.work
      /\ call[c].gen # generation => run' = r
  BY <1>1, <1>2, <1>3, EndsEffect, ReleasedEffect
<1>6. /\ SlotsInv' /\ QueueInv'
      /\ pc' \in [Callers -> Stages] /\ call' \in [Callers -> Calls]
      /\ \A d \in Callers : pc'[d] = "sent" => pc[d] = "sent"
      /\ \A d \in Callers \ {c} : pc[d] = "sent" => pc'[d] = "sent"
  BY <1>1, <1>2, <1>3, EndsEffect
<1>7. Types'
  BY <1>1, <1>2, <1>5, <1>6 DEF Types
<1>8. SwitchInv'
  BY <1>1, <1>2, <1>3, <1>5 DEF SwitchInv
<1>9. StopsAtCap'
  <2>1. session' >= SessionCap => halted'
    BY <1>2, <1>4
  <2>2. run'.spent >= Cap => run'.exceeded \/ halted'
    <3>1. CASE call[c].gen = generation
      BY <1>2, <1>3, <1>5, <3>1
    <3>2. CASE call[c].gen # generation
      BY <1>1, <1>2, <1>3, <1>5, <3>2 DEF StopsAtCap
    <3> QED  BY <3>1, <3>2
  <2> QED  BY <2>1, <2>2 DEF StopsAtCap
<1>10. StaysShut
  BY <1>3, <1>5, <1>6 DEF StaysShut
<1>11. SettlesApart
  BY <1>3, <1>5, <1>6 DEF SettlesApart
<1> QED  BY <1>6, <1>7, <1>8, <1>9, <1>10, <1>11 DEF Kept, Inv

LEMMA CancelKept ==
  ASSUME Inv, NEW c \in Callers, Cancel(c)
  PROVE  Kept
<1>1. Types /\ SlotsInv /\ QueueInv /\ run \in Accounts
  BY DEF Inv, Types
<1>2. Types'
  BY <1>1 DEF Types, Cancel
<1>3. SlotsInv' /\ QueueInv'
  BY <1>1, SlotsSame DEF Cancel, HoldsSlot
<1>4. run.reserved <= run.reserved /\ run.work <= run.work
  BY <1>1 DEF Accounts
<1> QED  BY <1>2, <1>3, <1>4, KeptBy DEF Cancel

LEMMA BeginRunKept ==
  ASSUME Inv, BeginRun
  PROVE  Kept
<1>1. Types /\ SlotsInv /\ QueueInv /\ StopsAtCap /\ Cap \in Nat \ {0}
  BY BudgetAssumption DEF Inv
<1>2. /\ run' \in Accounts /\ run'.spent = 0 /\ ~run'.exceeded
      /\ generation' = generation + 1 /\ generation \in Nat
  BY <1>1 DEF BeginRun, FreshRun, Accounts, Types
<1>3. Types'
  BY <1>1, <1>2 DEF Types, BeginRun
<1>4. SlotsInv' /\ QueueInv'
  BY <1>1, SlotsSame DEF BeginRun, HoldsSlot
<1>5. SwitchInv' /\ StopsAtCap'
  BY <1>1, <1>2 DEF SwitchInv, StopsAtCap, BeginRun
<1>6. StaysShut /\ SettlesApart
  BY <1>2 DEF StaysShut, SettlesApart, BeginRun
<1> QED  BY <1>3, <1>4, <1>5, <1>6 DEF Kept, Inv

LEMMA InvInit ==
  Init => Inv
<1> SUFFICES ASSUME Init PROVE Inv
  OBVIOUS
<1>1. Types
  <2>1. FreshRun \in Accounts
    BY DEF FreshRun, Accounts
  <2>2. NoCall \in Calls
    BY DEF NoCall, Calls, Classes
  <2>3. "idle" \in Stages
    BY DEF Stages
  <2>4. pc \in [Callers -> Stages] /\ call \in [Callers -> Calls]
    BY <2>2, <2>3 DEF Init
  <2>5. run \in Accounts /\ generation \in Nat /\ session \in Int
    BY <2>1 DEF Init
  <2>6. halted \in BOOLEAN
    BY DEF Init
  <2> QED  BY <2>4, <2>5, <2>6 DEF Types
<1>2. SlotsInv
  <2>1. Holders = {}
    BY DEF Init, Holders, HoldsSlot
  <2> QED  BY <2>1, FS_EmptySet, BudgetAssumption DEF SlotsInv, Init
<1>3. QueueInv
  BY DEF QueueInv, Init
<1>4. SwitchInv /\ StopsAtCap
  BY BudgetAssumption DEF SwitchInv, StopsAtCap, Init, FreshRun
<1> QED  BY <1>1, <1>2, <1>3, <1>4 DEF Inv

\* Every step keeps the invariant and is one the two action properties allow.
LEMMA InvStep ==
  Inv /\ [Next]_vars => Inv' /\ [StaysShut]_vars /\ [SettlesApart]_vars
<1> SUFFICES ASSUME Inv, [Next]_vars
             PROVE  Inv' /\ [StaysShut]_vars /\ [SettlesApart]_vars
  OBVIOUS
<1>1. CASE UNCHANGED vars
  <2>1. Types' /\ QueueInv' /\ SwitchInv' /\ StopsAtCap'
    BY <1>1 DEF Inv, vars, Types, QueueInv, SwitchInv, StopsAtCap
  <2>2. Holders' = Holders
    BY <1>1 DEF vars, Holders, HoldsSlot
  <2>3. SlotsInv'
    BY <1>1, <2>2 DEF Inv, vars, SlotsInv
  <2> QED  BY <1>1, <2>1, <2>3 DEF Inv
<1>2. CASE Next
  <2>1. ASSUME NEW c \in Callers, NEW k \in ShapesOf[c], Generate(c, k) PROVE Kept
    BY <2>1, GenerateKept
  <2>2. ASSUME NEW c \in Callers, Withdraw(c) PROVE Kept
    BY <2>2, WithdrawKept
  <2>3. ASSUME NEW c \in Callers, LeaveMeter(c) PROVE Kept
    BY <2>3, EndsKept DEF LeaveMeter
  <2>4. ASSUME NEW c \in Callers, Acquire(c) PROVE Kept
    BY <2>4, AcquireKept
  <2>5. ASSUME NEW c \in Callers, Abandon(c) PROVE Kept
    BY <2>5, AbandonKept
  <2>6. ASSUME NEW c \in Callers, Send(c) PROVE Kept
    BY <2>6, SendKept
  <2>7. ASSUME NEW c \in Callers, TurnAway(c) PROVE Kept
    BY <2>7, EndsKept DEF TurnAway, Ready
  <2>8. ASSUME NEW c \in Callers, Reroute(c) PROVE Kept
    BY <2>8, MadeAgainKept DEF Reroute, Ready
  <2>9. ASSUME NEW c \in Callers, FailOver(c) PROVE Kept
    BY <2>9, MadeAgainKept DEF FailOver
  <2>10. ASSUME NEW c \in Callers, Fail(c) PROVE Kept
    BY <2>10, EndsKept DEF Fail
  <2>11. ASSUME NEW c \in Callers, NEW u \in Usage(c), Succeed(c, u) PROVE Kept
    BY <2>11, SucceedKept
  <2>12. ASSUME NEW c \in Callers, Cancel(c) PROVE Kept
    BY <2>12, CancelKept
  <2>13. Kept
    BY <1>2, <2>1, <2>2, <2>3, <2>4, <2>5, <2>6, <2>7, <2>8, <2>9, <2>10, <2>11, <2>12,
       BeginRunKept DEF Next
  <2> QED  BY <2>13 DEF Kept
<1> QED  BY <1>1, <1>2

(***************************************************************************)
(* What the first invariant shows                                          *)
(***************************************************************************)

\* Everything the arguments below rest on holds in every reachable state.
THEOREM Invariant == Spec => []Inv
<1>1. Inv /\ [Next]_vars => Inv'
  BY InvStep
<1> QED  BY InvInit, <1>1, PTL DEF Spec

\* The count of local slots is exact, none is free while somebody waits, and
\* the queue is those waiting, however timeouts and releases meet (acquire,
\* release).
THEOREM SlotsStayExact == Spec => []SlotsExact
<1>1. Inv => SlotsExact
  BY DEF Inv, SlotsInv, QueueInv, SlotsExact, Holders
<1> QED  BY <1>1, Invariant, PTL

\* A run that spent its cap is stopped or its session halted, and a session
\* that spent its budget is halted (recordStats, enforceRunBudget).
THEOREM CapStopsTheRun == Spec => []StopsAtCap
<1>1. Inv => StopsAtCap
  BY DEF Inv
<1> QED  BY <1>1, Invariant, PTL

\* No call of a stopped run goes out, a run that wraps up admits no work and a
\* stopped one admits nothing (generateCall, the checks around its waits).
THEOREM ShutStaysShut == Spec => ShutForGood
<1>1. Inv /\ [Next]_vars => [StaysShut]_vars
  BY InvStep
<1> QED  BY <1>1, Invariant, PTL DEF Spec, ShutForGood

\* A call that settles after its run was followed by another leaves that
\* other's accounts alone (recordStats, the release handles).
THEOREM StragglersLeaveNoMark == Spec => StragglersSettleApart
<1>1. Inv /\ [Next]_vars => [SettlesApart]_vars
  BY InvStep
<1> QED  BY <1>1, Invariant, PTL DEF Spec, StragglersSettleApart

(***************************************************************************)
(* The sums: what a function gives to one caller and to the others         *)
(***************************************************************************)

Without(f, c) == [d \in DOMAIN f \ {c} |-> f[d]]
Given(f, c) == IF c \in DOMAIN f THEN f[c] ELSE 0
Counted(f) == IsFiniteSet(Tokens(f))

LEMMA TotalSplit ==
  ASSUME NEW f, NEW c, c \in DOMAIN f => f[c] \in Nat
  PROVE  /\ Counted(f) <=> Counted(Without(f, c))
         /\ Counted(f) => /\ Total(f) \in Nat /\ Total(Without(f, c)) \in Nat
                          /\ Total(f) = Total(Without(f, c)) + Given(f, c)
<1>1. CASE c \notin DOMAIN f
  <2>1. Tokens(Without(f, c)) = Tokens(f)
    BY <1>1 DEF Tokens, Without
  <2>2. Counted(f) => Total(f) \in Nat
    BY FS_CardinalityType DEF Counted, Total
  <2> QED  BY <1>1, <2>1, <2>2 DEF Counted, Total, Given
<1>2. CASE c \in DOMAIN f
  <2> DEFINE X == {c} \X (1..f[c])
             R == Tokens(Without(f, c))
  <2>1. IsFiniteSet(X) /\ Cardinality(X) = f[c]
    <3>1. IsFiniteSet(1..f[c]) /\ Cardinality(1..f[c]) = f[c]
      BY <1>2, FS_Interval
    <3>2. IsFiniteSet({c}) /\ Cardinality({c}) = 1
      BY FS_Singleton
    <3> QED  BY <1>2, <3>1, <3>2, FS_Product
  <2>2. Tokens(f) = R \cup X /\ R \cap X = {}
    BY <1>2 DEF Tokens, Without
  <2> HIDE DEF X, R
  <2>3. Counted(f) <=> IsFiniteSet(R)
    <3>1. Counted(f) => IsFiniteSet(R)
      BY <2>2, FS_Subset DEF Counted
    <3>2. IsFiniteSet(R) => Counted(f)
      BY <2>1, <2>2, FS_Union DEF Counted
    <3> QED  BY <3>1, <3>2
  <2>4. IsFiniteSet(R) => Cardinality(R \cup X) = Cardinality(R) + f[c]
    <3> SUFFICES ASSUME IsFiniteSet(R)
                 PROVE  Cardinality(R \cup X) = Cardinality(R) + f[c]
      OBVIOUS
    <3>1. Cardinality(R \cup X) = Cardinality(R) + Cardinality(X) - Cardinality(R \cap X)
      BY <2>1, FS_Union
    <3>2. Cardinality(R \cap X) = 0 /\ Cardinality(R) \in Nat
      BY <2>2, FS_EmptySet, FS_CardinalityType
    <3> QED  BY <1>2, <2>1, <3>1, <3>2
  <2>5. IsFiniteSet(R) => Cardinality(R) \in Nat
    BY FS_CardinalityType
  <2> QED  BY <1>2, <2>2, <2>3, <2>4, <2>5 DEF Counted, Total, Given, R
<1> QED  BY <1>1, <1>2

\* Two functions that differ at one caller differ in their totals by that.
LEMMA TotalMoves ==
  ASSUME NEW f, NEW g, NEW c, Without(f, c) = Without(g, c),
         c \in DOMAIN f => f[c] \in Nat, c \in DOMAIN g => g[c] \in Nat, Counted(f)
  PROVE  /\ Counted(g) /\ Total(f) \in Nat /\ Total(g) \in Nat
         /\ Total(g) = Total(f) - Given(f, c) + Given(g, c)
<1>1. Given(f, c) \in Nat /\ Given(g, c) \in Nat
  BY DEF Given
<1>2. /\ Counted(f) <=> Counted(Without(f, c))
      /\ Total(f) \in Nat /\ Total(Without(f, c)) \in Nat
      /\ Total(f) = Total(Without(f, c)) + Given(f, c)
  BY TotalSplit
<1>3. /\ Counted(g) <=> Counted(Without(g, c))
      /\ Counted(g) => Total(g) \in Nat /\ Total(g) = Total(Without(g, c)) + Given(g, c)
  BY TotalSplit
<1> QED  BY <1>1, <1>2, <1>3

(***************************************************************************)
(* What the calls of the run hold                                          *)
(***************************************************************************)

Ins == [c \in Own |-> call[c].in]
Outs == [c \in Own |-> WorkOut(call[c])]
Ests == [c \in OwnWork |-> call[c].in + call[c].out]
Spares == [c \in Own \ OwnWork |-> call[c].in]

\* Of which a call k gives so much, if it is in the run.
InOf(k) == IF k.gen = generation THEN k.in ELSE 0
OutOf(k) == IF k.gen = generation THEN WorkOut(k) ELSE 0
EstOf(k) == IF k.gen = generation /\ k.class = "work" THEN k.in + k.out ELSE 0
SpareOf(k) == IF k.gen = generation /\ k.class # "work" THEN k.in ELSE 0

\* The accounts are the sums, and what work is estimated at is part of them.
BooksInv ==
    /\ Counted(Ins) /\ Counted(Outs) /\ Counted(Ests) /\ Counted(Spares)
    /\ run.reserved = Total(Ins) /\ run.work = Total(Outs)
    /\ Total(Ests) + Total(Spares) = run.reserved + run.work

TallyInv ==
    /\ tally \in [work : Nat, excess : Nat]
    /\ tally.work <= run.spent

\* A call in flight is in the current run or one before it.
RunsInv ==
    /\ generation \in Runs /\ fired \subseteq Runs /\ session \in Nat
    /\ \A c \in Callers : call[c].gen <= generation /\ (pc[c] = "idle" <=> call[c].gen = 0)
    /\ cancelled \subseteq {c \in Callers : pc[c] # "idle"}

Ledger == BooksInv /\ TallyInv /\ RunsInv /\ ReserveKept

LEMMA HeldIs ==
  ASSUME NEW k \in Calls
  PROVE  /\ InOf(k) \in Nat /\ OutOf(k) \in Nat /\ EstOf(k) \in Nat /\ SpareOf(k) \in Nat
         /\ EstOf(k) + SpareOf(k) = InOf(k) + OutOf(k)
BY DEF Calls, Classes, InOf, OutOf, EstOf, SpareOf, WorkOut

\* One caller's call changes.
LEMMA BooksMove ==
  ASSUME Types, BooksInv, NEW c \in Callers, NEW k \in Calls,
         generation' = generation, call' \in [Callers -> Calls], call'[c] = k,
         \A d \in Callers \ {c} : call'[d] = call[d],
         run'.reserved = run.reserved - InOf(call[c]) + InOf(k),
         run'.work = run.work - OutOf(call[c]) + OutOf(k)
  PROVE  /\ BooksInv'
         /\ Total(Ests') = Total(Ests) - EstOf(call[c]) + EstOf(k)
         /\ Total(Ests) \in Nat /\ Total(Ests') \in Nat
         /\ Total(Ests') <= run'.reserved + run'.work
         /\ run'.reserved \in Nat /\ run'.work \in Nat
<1>1. call \in [Callers -> Calls] /\ call[c] \in Calls
  BY DEF Types
<1>2. Own' \ {c} = Own \ {c} /\ OwnWork' \ {c} = OwnWork \ {c}
  BY DEF Own, OwnWork
<1>3. /\ c \in Own <=> call[c].gen = generation
      /\ c \in Own' <=> k.gen = generation
      /\ c \in OwnWork <=> call[c].gen = generation /\ call[c].class = "work"
      /\ c \in OwnWork' <=> k.gen = generation /\ k.class = "work"
  BY DEF Own, OwnWork
<1>4. Own \subseteq Callers /\ OwnWork \subseteq Callers
  BY DEF Own, OwnWork
<1>5. \A d \in Callers : /\ call[d].in \in Nat /\ call[d].out \in Nat
                         /\ call'[d].in \in Nat /\ call'[d].out \in Nat
  BY <1>1 DEF Calls
<1>6. /\ Counted(Ins') /\ Total(Ins) \in Nat /\ Total(Ins') \in Nat
      /\ Total(Ins') = Total(Ins) - InOf(call[c]) + InOf(k)
  <2>1. Ins' = [d \in Own' |-> call'[d].in]
    BY DEF Ins
  <2>2. Without(Ins, c) = Without(Ins', c)
    BY <1>2, <1>4, <2>1 DEF Ins, Without
  <2>3. Given(Ins, c) = InOf(call[c]) /\ Given(Ins', c) = InOf(k)
    BY <1>3, <2>1 DEF Ins, Given, InOf
  <2>4. (c \in DOMAIN Ins => Ins[c] \in Nat) /\ (c \in DOMAIN Ins' => Ins'[c] \in Nat)
    BY <1>5, <2>1 DEF Ins
  <2>5. PICK f, g : f = Ins /\ g = Ins'
    OBVIOUS
  <2>6. Counted(f)
    BY <2>5 DEF BooksInv
  <2>7. /\ Counted(g) /\ Total(f) \in Nat /\ Total(g) \in Nat
        /\ Total(g) = Total(f) - Given(f, c) + Given(g, c)
    BY <2>2, <2>4, <2>5, <2>6, TotalMoves
  <2> QED  BY <2>3, <2>5, <2>7
<1>7. /\ Counted(Outs') /\ Total(Outs) \in Nat /\ Total(Outs') \in Nat
      /\ Total(Outs') = Total(Outs) - OutOf(call[c]) + OutOf(k)
  <2>1. Outs' = [d \in Own' |-> WorkOut(call'[d])]
    BY DEF Outs
  <2>2. Without(Outs, c) = Without(Outs', c)
    BY <1>2, <1>4, <2>1 DEF Outs, Without
  <2>3. Given(Outs, c) = OutOf(call[c]) /\ Given(Outs', c) = OutOf(k)
    BY <1>3, <2>1 DEF Outs, Given, OutOf
  <2>4. (c \in DOMAIN Outs => Outs[c] \in Nat) /\ (c \in DOMAIN Outs' => Outs'[c] \in Nat)
    BY <1>5, <2>1 DEF Outs, WorkOut
  <2>5. PICK f, g : f = Outs /\ g = Outs'
    OBVIOUS
  <2>6. Counted(f)
    BY <2>5 DEF BooksInv
  <2>7. /\ Counted(g) /\ Total(f) \in Nat /\ Total(g) \in Nat
        /\ Total(g) = Total(f) - Given(f, c) + Given(g, c)
    BY <2>2, <2>4, <2>5, <2>6, TotalMoves
  <2> QED  BY <2>3, <2>5, <2>7
<1>8. /\ Counted(Ests') /\ Total(Ests) \in Nat /\ Total(Ests') \in Nat
      /\ Total(Ests') = Total(Ests) - EstOf(call[c]) + EstOf(k)
  <2>1. Ests' = [d \in OwnWork' |-> call'[d].in + call'[d].out]
    BY DEF Ests
  <2>2. Without(Ests, c) = Without(Ests', c)
    BY <1>2, <1>4, <2>1 DEF Ests, Without
  <2>3. Given(Ests, c) = EstOf(call[c]) /\ Given(Ests', c) = EstOf(k)
    BY <1>3, <2>1 DEF Ests, Given, EstOf
  <2>4. (c \in DOMAIN Ests => Ests[c] \in Nat) /\ (c \in DOMAIN Ests' => Ests'[c] \in Nat)
    BY <1>5, <2>1 DEF Ests
  <2>5. PICK f, g : f = Ests /\ g = Ests'
    OBVIOUS
  <2>6. Counted(f)
    BY <2>5 DEF BooksInv
  <2>7. /\ Counted(g) /\ Total(f) \in Nat /\ Total(g) \in Nat
        /\ Total(g) = Total(f) - Given(f, c) + Given(g, c)
    BY <2>2, <2>4, <2>5, <2>6, TotalMoves
  <2> QED  BY <2>3, <2>5, <2>7
<1>9. /\ Counted(Spares') /\ Total(Spares) \in Nat /\ Total(Spares') \in Nat
      /\ Total(Spares') = Total(Spares) - SpareOf(call[c]) + SpareOf(k)
  <2>1. Spares' = [d \in Own' \ OwnWork' |-> call'[d].in]
    BY DEF Spares
  <2>2. Without(Spares, c) = Without(Spares', c)
    BY <1>2, <1>4, <2>1 DEF Spares, Without
  <2>3. Given(Spares, c) = SpareOf(call[c]) /\ Given(Spares', c) = SpareOf(k)
    BY <1>3, <2>1 DEF Spares, Given, SpareOf
  <2>4. (c \in DOMAIN Spares => Spares[c] \in Nat) /\ (c \in DOMAIN Spares' => Spares'[c] \in Nat)
    BY <1>5, <2>1 DEF Spares
  <2>5. PICK f, g : f = Spares /\ g = Spares'
    OBVIOUS
  <2>6. Counted(f)
    BY <2>5 DEF BooksInv
  <2>7. /\ Counted(g) /\ Total(f) \in Nat /\ Total(g) \in Nat
        /\ Total(g) = Total(f) - Given(f, c) + Given(g, c)
    BY <2>2, <2>4, <2>5, <2>6, TotalMoves
  <2> QED  BY <2>3, <2>5, <2>7
<1>10. /\ InOf(call[c]) \in Nat /\ OutOf(call[c]) \in Nat /\ EstOf(call[c]) \in Nat
       /\ SpareOf(call[c]) \in Nat
       /\ EstOf(call[c]) + SpareOf(call[c]) = InOf(call[c]) + OutOf(call[c])
       /\ InOf(k) \in Nat /\ OutOf(k) \in Nat /\ EstOf(k) \in Nat /\ SpareOf(k) \in Nat
       /\ EstOf(k) + SpareOf(k) = InOf(k) + OutOf(k)
  BY <1>1, HeldIs
<1>11. /\ run.reserved = Total(Ins) /\ run.work = Total(Outs)
       /\ Total(Ests) + Total(Spares) = run.reserved + run.work
  BY DEF BooksInv
<1>12. run'.reserved = Total(Ins') /\ run'.work = Total(Outs')
  BY <1>6, <1>7, <1>11
<1>13. Total(Ests') + Total(Spares') = run'.reserved + run'.work
  <2> DEFINE i == Total(Ins)    di == InOf(call[c])    ki == InOf(k)
             o == Total(Outs)   do == OutOf(call[c])   ko == OutOf(k)
             e == Total(Ests)   de == EstOf(call[c])   ke == EstOf(k)
             x == Total(Spares) dx == SpareOf(call[c]) kx == SpareOf(k)
  <2>1. {i, o, e, x, di, do, de, dx, ki, ko, ke, kx} \subseteq Int
    BY <1>6, <1>7, <1>8, <1>9, <1>10
  <2>2. e + x = i + o /\ de + dx = di + do /\ ke + kx = ki + ko
    BY <1>10, <1>11
  <2>3. /\ run'.reserved = i - di + ki /\ run'.work = o - do + ko
        /\ Total(Ests') = e - de + ke /\ Total(Spares') = x - dx + kx
    BY <1>6, <1>7, <1>8, <1>9, <1>12
  <2> HIDE DEF i, o, e, x, di, do, de, dx, ki, ko, ke, kx
  <2>4. (e - de + ke) + (x - dx + kx) = (i - di + ki) + (o - do + ko)
    BY <2>1, <2>2
  <2> QED  BY <2>3, <2>4
<1>14. BooksInv'
  <2>1. /\ Total(Ins)' = Total(Ins') /\ Total(Outs)' = Total(Outs')
        /\ Total(Ests)' = Total(Ests') /\ Total(Spares)' = Total(Spares')
        /\ (Counted(Ins)' <=> Counted(Ins')) /\ (Counted(Outs)' <=> Counted(Outs'))
        /\ (Counted(Ests)' <=> Counted(Ests')) /\ (Counted(Spares)' <=> Counted(Spares'))
    BY DEF Total, Counted, Tokens
  <2> QED  BY <1>6, <1>7, <1>8, <1>9, <1>12, <1>13, <2>1 DEF BooksInv
<1> QED  BY <1>6, <1>7, <1>8, <1>9, <1>12, <1>13, <1>14

LEMMA ReleasedBooks ==
  ASSUME Types, NEW c \in Callers, NEW r \in Accounts
  PROVE  /\ Released(c, r).reserved = r.reserved - InOf(call[c])
         /\ Released(c, r).work = r.work - OutOf(call[c])
<1> DEFINE i == call[c].in
           w == WorkOut(call[c])
           s == Holding(r, -i, -w)
<1>1. i \in Nat /\ w \in Nat /\ r.reserved \in Int /\ r.work \in Int
  BY DEF Types, Calls, WorkOut, Accounts
<1>2. Released(c, r) = IF call[c].gen = generation THEN s ELSE r
  BY DEF Released
<1>3. /\ InOf(call[c]) = IF call[c].gen = generation THEN i ELSE 0
      /\ OutOf(call[c]) = IF call[c].gen = generation THEN w ELSE 0
  BY DEF InOf, OutOf
<1> HIDE DEF i, w
<1>4. -i \in Int /\ -w \in Int
  BY <1>1
<1>5. s.reserved = r.reserved + (-i) /\ s.work = r.work + (-w)
  BY <1>4, HoldingEffect
<1> HIDE DEF s
<1> QED  BY <1>1, <1>2, <1>3, <1>5

\* A call that nobody makes holds nothing.
LEMMA NothingHeld ==
  ASSUME Types, RunsInv
  PROVE  /\ NoCall \in Calls /\ NoCall.gen = 0
         /\ InOf(NoCall) = 0 /\ OutOf(NoCall) = 0 /\ EstOf(NoCall) = 0
         /\ generation \in Nat \ {0}
<1>1. generation \in Nat \ {0}
  BY BudgetAssumption DEF RunsInv, Runs
<1> QED  BY <1>1 DEF NoCall, Calls, Classes, InOf, OutOf, EstOf

\* What is to be shown of a step that moves one caller's call.
LEMMA LedgerMove ==
  ASSUME Inv, Inv', Ledger, NEW c \in Callers, NEW s \in Stages, NEW k \in Calls, NEW W,
         MovesTo(c, s, k, W), c \notin W, \A d \in W : d \in Callers => pc[d] = "queued",
         s = "idle" <=> k.gen = 0, k.gen <= generation,
         run'.reserved = run.reserved - InOf(call[c]) + InOf(k),
         run'.work = run.work - OutOf(call[c]) + OutOf(k),
         generation' = generation, fired' \subseteq fired \cup {generation}, session' \in Nat,
         tally' \in [work : Nat, excess : Nat], tally'.work <= run'.spent,
         \/ 5 * (tally'.work + Total(Ests) - EstOf(call[c]) + EstOf(k)) <= 4 * Cap + 5 * tally'.excess
         \/ 5 * (tally'.work + run'.reserved + run'.work) <= 4 * Cap + 5 * tally'.excess
  PROVE  Ledger'
<1>1. Types /\ Types' /\ BooksInv /\ RunsInv
  BY DEF Inv, Ledger
<1>2. /\ pc' \in [Callers -> Stages] /\ call' \in [Callers -> Calls]
      /\ pc'[c] = s /\ call'[c] = k
      /\ \A d \in Callers \ {c} :
             /\ call'[d] = call[d]
             /\ d \in W => pc'[d] = "slotted"
             /\ d \notin W => pc'[d] = pc[d]
  BY <1>1, MovesEffect
<1>3. /\ BooksInv'
      /\ Total(Ests') = Total(Ests) - EstOf(call[c]) + EstOf(k)
      /\ Total(Ests) \in Nat /\ Total(Ests') \in Nat
      /\ Total(Ests') <= run'.reserved + run'.work
      /\ run'.reserved \in Nat /\ run'.work \in Nat
  BY <1>1, <1>2, BooksMove
<1>4. \A d \in Callers \ {c} : pc'[d] = "idle" <=> pc[d] = "idle"
  BY <1>2
<1>5. \A d \in Callers : call'[d].gen <= generation' /\ (pc'[d] = "idle" <=> call'[d].gen = 0)
  BY <1>1, <1>2, <1>4 DEF RunsInv
<1>6. cancelled' \subseteq {d \in Callers : pc'[d] # "idle"}
  BY <1>1, <1>2, <1>4 DEF RunsInv, MovesTo
<1>7. RunsInv'
  BY <1>1, <1>5, <1>6 DEF RunsInv
<1>8. TallyInv'
  BY DEF TallyInv
<1>9. ReserveKept'
  <2> DEFINE e == Total(Ests')
  <2>1. ReserveKept' <=> 5 * (tally'.work + e) <= 4 * Cap + 5 * tally'.excess
    BY DEF ReserveKept, Ests
  <2>2. Cap \in Nat /\ tally'.work \in Nat /\ tally'.excess \in Nat
    BY BudgetAssumption
  <2>3. call[c] \in Calls
    BY <1>1 DEF Types
  <2>4. EstOf(call[c]) \in Nat /\ EstOf(k) \in Nat
    BY <2>3, HeldIs
  <2>5. CASE 5 * (tally'.work + Total(Ests) - EstOf(call[c]) + EstOf(k)) <= 4 * Cap + 5 * tally'.excess
    <3>1. tally'.work + Total(Ests) - EstOf(call[c]) + EstOf(k) = tally'.work + e
      BY <1>3, <2>2, <2>4
    <3> QED  BY <2>1, <2>5, <3>1
  <2>6. CASE 5 * (tally'.work + run'.reserved + run'.work) <= 4 * Cap + 5 * tally'.excess
    <3>1. e \in Nat /\ e <= run'.reserved + run'.work /\ run'.reserved \in Nat /\ run'.work \in Nat
      BY <1>3
    <3> HIDE DEF e
    <3> QED  BY <2>1, <2>2, <2>6, <3>1
  <2> QED  BY <2>5, <2>6
<1> QED  BY <1>3, <1>7, <1>8, <1>9 DEF Ledger

\* A call that moves on as it is.
LEMMA LedgerOn ==
  ASSUME Inv, Inv', Ledger, NEW c \in Callers, NEW s \in Stages \ {"idle"}, pc[c] # "idle",
         MovesTo(c, s, call[c], {}), UNCHANGED <<generation, run, fired, session, tally>>
  PROVE  Ledger'
<1>1. Types /\ RunsInv /\ call[c] \in Calls /\ TallyInv /\ BooksInv
  BY DEF Inv, Types, Ledger
<1>2. /\ InOf(call[c]) \in Nat /\ OutOf(call[c]) \in Nat /\ EstOf(call[c]) \in Nat
      /\ run.reserved \in Int /\ run.work \in Int
  BY <1>1, HeldIs DEF Types, Accounts
<1>3. /\ run'.reserved = run.reserved - InOf(call[c]) + InOf(call[c])
      /\ run'.work = run.work - OutOf(call[c]) + OutOf(call[c])
  BY <1>2
<1>4. Total(Ests) \in Nat
  BY <1>1, FS_CardinalityType DEF BooksInv, Counted, Total
<1>5. 5 * (tally'.work + Total(Ests) - EstOf(call[c]) + EstOf(call[c])) <= 4 * Cap + 5 * tally'.excess
  <2>1. tally.work + Total(Ests) - EstOf(call[c]) + EstOf(call[c]) = tally.work + Total(Ests)
    BY <1>1, <1>2, <1>4 DEF TallyInv
  <2> QED  BY <2>1 DEF Ledger, ReserveKept, Ests
<1>6. call[c].gen # 0 /\ call[c].gen <= generation
  BY <1>1 DEF RunsInv
<1> QED  BY <1>1, <1>3, <1>5, <1>6, LedgerMove DEF Ledger, RunsInv, TallyInv

\* A call that ends, and what the tally takes of it.
LEMMA LedgerEnds ==
  ASSUME Inv, Inv', Ledger, NEW c \in Callers, NEW W,
         MovesTo(c, "idle", NoCall, W), c \notin W,
         \A d \in W : d \in Callers => pc[d] = "queued",
         run'.reserved = run.reserved - InOf(call[c]), run'.work = run.work - OutOf(call[c]),
         generation' = generation, fired' \subseteq fired \cup {generation}, session' \in Nat,
         tally' \in [work : Nat, excess : Nat], tally'.work <= run'.spent,
         5 * (tally'.work - EstOf(call[c])) <= 5 * (tally.work + (tally'.excess - tally.excess))
  PROVE  Ledger'
<1>1. Types /\ RunsInv /\ call[c] \in Calls /\ TallyInv /\ BooksInv
  BY DEF Inv, Types, Ledger
<1>2. /\ InOf(call[c]) \in Nat /\ OutOf(call[c]) \in Nat /\ EstOf(call[c]) \in Nat
      /\ run.reserved \in Int /\ run.work \in Int
  BY <1>1, HeldIs DEF Types, Accounts
<1>3. /\ NoCall \in Calls /\ NoCall.gen = 0
      /\ InOf(NoCall) = 0 /\ OutOf(NoCall) = 0 /\ EstOf(NoCall) = 0
      /\ generation \in Nat \ {0}
  BY <1>1, NothingHeld
<1>4. /\ run'.reserved = run.reserved - InOf(call[c]) + InOf(NoCall)
      /\ run'.work = run.work - OutOf(call[c]) + OutOf(NoCall)
  BY <1>2, <1>3
<1>5. Total(Ests) \in Nat
  BY <1>1, FS_CardinalityType DEF BooksInv, Counted, Total
<1>6. 5 * (tally'.work + Total(Ests) - EstOf(call[c]) + EstOf(NoCall)) <= 4 * Cap + 5 * tally'.excess
  <2> DEFINE e == Total(Ests)
  <2>1. 5 * (tally.work + e) <= 4 * Cap + 5 * tally.excess
    BY DEF Ledger, ReserveKept, Ests
  <2>2. /\ e \in Nat /\ tally.work \in Nat /\ tally.excess \in Nat /\ Cap \in Nat
        /\ tally'.work \in Nat /\ tally'.excess \in Nat
    BY <1>1, <1>5, BudgetAssumption DEF TallyInv
  <2> HIDE DEF e
  <2>3. 5 * (tally'.work + e - EstOf(call[c]) + 0) <= 4 * Cap + 5 * tally'.excess
    BY <1>2, <2>1, <2>2
  <2> QED  BY <1>3, <2>3 DEF e
<1>7. "idle" \in Stages
  BY DEF Stages
<1> QED  BY <1>3, <1>4, <1>6, <1>7, LedgerMove

\* A call that ends with the accounts r, which hold what the run's do.
LEMMA LedgerSettles ==
  ASSUME Inv, Inv', Ledger, NEW c \in Callers, pc[c] # "queued", NEW r \in Accounts, Ends(c, r),
         r.reserved = run.reserved, r.work = run.work,
         generation' = generation, fired' \subseteq fired \cup {generation}, session' \in Nat,
         tally' \in [work : Nat, excess : Nat], tally'.work <= r.spent,
         5 * (tally'.work - EstOf(call[c])) <= 5 * (tally.work + (tally'.excess - tally.excess))
  PROVE  Ledger'
<1>1. Types /\ QueueInv
  BY DEF Inv
<1>2. /\ run' = Released(c, r) /\ MovesTo(c, "idle", NoCall, Heir(c))
  BY DEF Ends
<1>3. c \notin Heir(c) /\ \A d \in Heir(c) : d \in Callers => pc[d] = "queued"
  BY <1>1, HeirEffect
<1>4. /\ run'.reserved = run.reserved - InOf(call[c])
      /\ run'.work = run.work - OutOf(call[c])
      /\ run'.spent = r.spent
  BY <1>1, <1>2, ReleasedBooks, ReleasedEffect
<1> QED  BY <1>2, <1>3, <1>4, LedgerEnds

LEMMA LedgerEndsPlain ==
  ASSUME Inv, Inv', Ledger, NEW c \in Callers, pc[c] # "queued", Ends(c, run),
         UNCHANGED <<generation, fired, session, tally>>
  PROVE  Ledger'
<1>1. /\ run \in Accounts /\ call[c] \in Calls /\ session \in Nat
      /\ tally \in [work : Nat, excess : Nat] /\ tally.work <= run.spent
  BY DEF Inv, Types, Ledger, RunsInv, TallyInv
<1>2. EstOf(call[c]) \in Nat /\ tally.work \in Nat /\ tally.excess \in Nat
  BY <1>1, HeldIs
<1>3. 5 * (tally'.work - EstOf(call[c])) <= 5 * (tally.work + (tally'.excess - tally.excess))
  <2>1. tally' = tally
    OBVIOUS
  <2> QED  BY <1>2, <2>1
<1> QED  BY <1>1, <1>3, LedgerSettles

\* The admission of a call, once what its caller held is given back.
LEMMA LedgerAdmit ==
  ASSUME Inv, Inv', Ledger, NEW c \in Callers, NEW k \in Shapes, NEW r, r = Released(c, run),
         NEW W, Admit(c, k, r, W), c \notin W, \A d \in W : d \in Callers => pc[d] = "queued",
         UNCHANGED <<generation, session, tally>>
  PROVE  Ledger'
<1>1. /\ Types /\ RunsInv /\ run \in Accounts /\ call[c] \in Calls /\ session' \in Nat
      /\ tally \in [work : Nat, excess : Nat] /\ tally.work <= run.spent /\ tally' = tally
      /\ generation' = generation
  BY DEF Inv, Types, Ledger, RunsInv, TallyInv
<1>2. /\ r \in Accounts /\ r.spent = run.spent
      /\ r.reserved = run.reserved - InOf(call[c])
      /\ r.work = run.work - OutOf(call[c])
  BY <1>1, ReleasedEffect, ReleasedBooks
<1>3. /\ EstOf(call[c]) \in Nat /\ tally.work \in Nat /\ tally.excess \in Nat
      /\ InOf(call[c]) \in Nat /\ OutOf(call[c]) \in Nat /\ Cap \in Nat /\ MinAnswer \in Nat \ {0}
  BY <1>1, HeldIs, BudgetAssumption
<1>4. ASSUME MovesTo(c, "idle", NoCall, W), fired' \subseteq fired \cup {generation},
             run'.reserved = r.reserved, run'.work = r.work, run'.spent = r.spent
      PROVE  Ledger'
  <2>1. 5 * (tally'.work - EstOf(call[c])) <= 5 * (tally.work + (tally'.excess - tally.excess))
    BY <1>1, <1>3
  <2> QED  BY <1>1, <1>2, <1>4, <2>1, LedgerEnds
<1>5. CASE run' = r /\ MovesTo(c, "idle", NoCall, W) /\ UNCHANGED fired
  BY <1>4, <1>5
<1>6. CASE /\ run' = Stopped(r) /\ fired' = fired \cup {generation}
           /\ MovesTo(c, "idle", NoCall, W)
  <2>1. run'.reserved = r.reserved /\ run'.work = r.work /\ run'.spent = r.spent
    BY <1>2, <1>6 DEF Stopped, Accounts
  <2> QED  BY <1>4, <1>6, <2>1
<1>7. CASE /\ run' = [r EXCEPT !.wrapping = TRUE]
           /\ MovesTo(c, "idle", NoCall, W) /\ UNCHANGED fired
  <2>1. run'.reserved = r.reserved /\ run'.work = r.work /\ run'.spent = r.spent
    BY <1>2, <1>7 DEF Accounts
  <2> QED  BY <1>4, <1>7, <2>1
<1>8. CASE /\ ~NoRoom(k, r) /\ ~EatsReserve(k, r)
           /\ run' = Reserved(k, r)
           /\ MovesTo(c, "metering", Pinned(Fitted(k, r)), W)
           /\ UNCHANGED fired
  <2>1. PICK m : m = Pinned(Fitted(k, r))
    OBVIOUS
  <2>2. /\ k.in \in Nat /\ k.out \in Nat /\ k.class \in Classes /\ WorkOut(k) \in Nat
        /\ r.reserved \in Int /\ r.work \in Int /\ r.spent \in Int
    BY <1>2 DEF Shapes, WorkOut, Accounts
  <2>3. k.class = "final" => Room(k, r) \in Nat
    BY <1>3, <1>8, <2>2 DEF NoRoom, Room, Least
  <2>4. PICK o \in Nat : /\ Fitted(k, r) = IF k.class = "final" THEN [k EXCEPT !.out = o] ELSE k
    BY <2>3 DEF Fitted
  <2>5. /\ m \in Calls /\ m.gen = generation /\ m.in = k.in /\ m.class = k.class
        /\ k.class = "work" => m.out = k.out
    BY <1>1, <2>1, <2>2, <2>4 DEF Pinned, Shapes, Calls, Types
  <2>6. /\ InOf(m) = k.in /\ OutOf(m) = WorkOut(k)
        /\ EstOf(m) = IF k.class = "work" THEN k.in + k.out ELSE 0
    BY <2>5 DEF InOf, OutOf, EstOf, WorkOut
  <2>7. /\ run'.spent = r.spent
        /\ run'.reserved = r.reserved + k.in /\ run'.work = r.work + WorkOut(k)
    BY <1>2, <1>8, <2>2, HoldingEffect DEF Reserved
  <2>8. /\ run'.reserved = run.reserved - InOf(call[c]) + InOf(m)
        /\ run'.work = run.work - OutOf(call[c]) + OutOf(m)
    BY <1>2, <2>6, <2>7
  <2>9. \/ 5 * (tally'.work + Total(Ests) - EstOf(call[c]) + EstOf(m)) <= 4 * Cap + 5 * tally'.excess
        \/ 5 * (tally'.work + run'.reserved + run'.work) <= 4 * Cap + 5 * tally'.excess
    <3>1. CASE k.class = "work"
      <4>1. ~(5 * (r.spent + r.reserved + k.in + r.work + k.out) > 4 * Cap)
        BY <1>8, <3>1 DEF EatsReserve, BeyondShare
      <4>2. run'.work = r.work + k.out
        BY <2>7, <3>1 DEF WorkOut
      <4> QED  BY <1>1, <1>2, <1>3, <2>2, <2>7, <4>1, <4>2
    <3>2. CASE k.class # "work"
      <4> DEFINE e == Total(Ests)
      <4>1. e \in Nat /\ 5 * (tally.work + e) <= 4 * Cap + 5 * tally.excess
        BY FS_CardinalityType DEF Ledger, ReserveKept, Ests, BooksInv, Counted, Total
      <4> HIDE DEF e
      <4>2. 5 * (tally.work + e - EstOf(call[c]) + 0) <= 4 * Cap + 5 * tally.excess
        BY <1>3, <4>1
      <4>3. EstOf(m) = 0
        BY <2>6, <3>2
      <4> QED  BY <1>1, <4>2, <4>3 DEF e
    <3> QED  BY <3>1, <3>2
  <2>10. m.gen # 0 /\ m.gen <= generation
    BY <1>1, <2>5, NothingHeld
  <2>11. "metering" \in Stages
    BY DEF Stages
  <2> QED
    BY <1>1, <1>2, <1>8, <2>1, <2>5, <2>7, <2>8, <2>9, <2>10, <2>11, LedgerMove
<1> QED  BY <1>5, <1>6, <1>7, <1>8 DEF Admit

LEMMA LedgerGenerate ==
  ASSUME Inv, Inv', Ledger, NEW c \in Callers, NEW k \in ShapesOf[c], Generate(c, k)
  PROVE  Ledger'
<1>1. k \in Shapes /\ Types /\ RunsInv /\ pc[c] = "idle" /\ Admit(c, k, run, {})
  BY BudgetAssumption DEF Inv, Ledger, Generate
<1>2. Released(c, run) = run
  BY <1>1, NothingHeld DEF RunsInv, Released
<1>3. UNCHANGED <<generation, session, tally>>
  BY DEF Generate
<1> DEFINE W == {}
<1>4. Admit(c, k, run, W) /\ c \notin W /\ \A d \in W : d \in Callers => pc[d] = "queued"
  BY <1>1
<1> HIDE DEF W
<1> QED  BY <1>1, <1>2, <1>3, <1>4, LedgerAdmit

LEMMA LedgerMadeAgain ==
  ASSUME Inv, Inv', Ledger, NEW c \in Callers, pc[c] # "queued", MadeAgain(c),
         UNCHANGED <<generation, session, tally>>
  PROVE  Ledger'
<1>1. PICK k \in Shapes : Admit(c, k, Released(c, run), Heir(c))
  BY BudgetAssumption DEF MadeAgain
<1>2. c \notin Heir(c) /\ \A d \in Heir(c) : d \in Callers => pc[d] = "queued"
  BY HeirEffect DEF Inv
<1> QED  BY <1>1, <1>2, LedgerAdmit

LEMMA LedgerAcquire ==
  ASSUME Inv, Inv', Ledger, NEW c \in Callers, Acquire(c)
  PROVE  Ledger'
<1>1. pc[c] = "metered" /\ UNCHANGED <<generation, fired, session, tally>>
  BY DEF Acquire
<1>2. \/ Ends(c, run)
      \/ \E s \in {"slotted", "queued"} : MovesTo(c, s, call[c], {}) /\ UNCHANGED run
  BY DEF Acquire
<1>3. {"slotted", "queued"} \subseteq Stages \ {"idle"}
  BY DEF Stages
<1> QED  BY <1>1, <1>2, <1>3, LedgerEndsPlain, LedgerOn

LEMMA LedgerAbandon ==
  ASSUME Inv, Inv', Ledger, NEW c \in Callers, Abandon(c)
  PROVE  Ledger'
<1>1. /\ Types /\ run \in Accounts /\ call[c] \in Calls /\ session \in Nat
      /\ tally \in [work : Nat, excess : Nat] /\ tally.work <= run.spent
  BY DEF Inv, Types, Ledger, RunsInv, TallyInv
<1>2. EstOf(call[c]) \in Nat /\ tally.work \in Nat /\ tally.excess \in Nat
  BY <1>1, HeldIs
<1>3. /\ run' = Released(c, run) /\ UNCHANGED <<generation, fired, session, tally>>
      /\ tally' = tally
  BY DEF Abandon
<1>4. 5 * (tally'.work - EstOf(call[c])) <= 5 * (tally.work + (tally'.excess - tally.excess))
  BY <1>2, <1>3
<1>5. /\ run'.reserved = run.reserved - InOf(call[c])
      /\ run'.work = run.work - OutOf(call[c])
      /\ run'.spent = run.spent
  BY <1>1, <1>3, ReleasedBooks, ReleasedEffect
<1> DEFINE W == {}
<1>6. /\ MovesTo(c, "idle", NoCall, W) /\ c \notin W
      /\ \A d \in W : d \in Callers => pc[d] = "queued"
  BY DEF Abandon
<1> HIDE DEF W
<1> QED  BY <1>1, <1>3, <1>4, <1>5, <1>6, LedgerEnds

LEMMA LedgerSucceed ==
  ASSUME Inv, Inv', Ledger, NEW c \in Callers, NEW u \in Usage(c), Succeed(c, u)
  PROVE  Ledger'
<1> DEFINE own == call[c].gen = generation
           halts == ~halted /\ session + u >= SessionCap
           r == IF own /\ ~halts THEN Checked(Charged(c, u)) ELSE Charged(c, u)
           k == call[c]
<1>1. /\ Types /\ RunsInv /\ run \in Accounts /\ k \in Calls /\ session \in Nat
      /\ tally \in [work : Nat, excess : Nat] /\ tally.work <= run.spent
      /\ pc[c] # "queued" /\ generation \in Runs
  BY DEF Inv, Types, Ledger, RunsInv, TallyInv, Succeed
<1>2. u \in Nat /\ k.in \in Nat /\ k.out \in Nat /\ EstOf(k) \in Nat
  <2>1. k.in \in Nat /\ k.out \in Nat /\ Overrun \in Nat
    BY <1>1, BudgetAssumption DEF Calls
  <2> QED  BY <1>1, <2>1, HeldIs DEF Usage
<1>3. /\ session' = session + u /\ generation' = generation /\ Ends(c, r)
      /\ fired' \subseteq fired \cup {generation}
      /\ tally' = IF own /\ k.class = "work"
                  THEN [work |-> tally.work + u, excess |-> tally.excess + Excess(k, u)]
                  ELSE tally
  BY DEF Succeed
<1>4. /\ r \in Accounts /\ r.reserved = run.reserved /\ r.work = run.work
      /\ r.spent = IF own THEN run.spent + u ELSE run.spent
  <2> DEFINE s == Charged(c, u)
  <2>1. /\ s \in Accounts /\ s.reserved = run.reserved /\ s.work = run.work
        /\ s.spent = IF own THEN run.spent + u ELSE run.spent
    BY <1>1, <1>2 DEF Charged, Accounts
  <2> HIDE DEF s
  <2>2. /\ Checked(s) \in Accounts /\ Checked(s).spent = s.spent
        /\ Checked(s).reserved = s.reserved /\ Checked(s).work = s.work
    <3>1. CASE s.exceeded \/ OverCap(s)
      BY <2>1, <3>1 DEF Checked, Stopped, Accounts
    <3>2. CASE ~(s.exceeded \/ OverCap(s))
      <4> DEFINE w == s.wrapping \/ 5 * s.spent >= 4 * Cap
      <4>1. Checked(s) = [s EXCEPT !.wrapping = w] /\ w \in BOOLEAN
        BY <3>2 DEF Checked
      <4> HIDE DEF w
      <4> QED  BY <2>1, <4>1 DEF Accounts
    <3> QED  BY <3>1, <3>2
  <2>3. r = IF own /\ ~halts THEN Checked(s) ELSE s
    BY DEF s
  <2> QED  BY <2>1, <2>2, <2>3
<1>5. EstOf(k) = IF own /\ k.class = "work" THEN k.in + k.out ELSE 0
  BY DEF EstOf
<1>6. /\ Excess(k, u) \in Nat /\ u <= k.in + k.out + Excess(k, u)
  BY <1>2 DEF Excess
<1> HIDE DEF r, k, own, halts
<1>7. /\ tally' \in [work : Nat, excess : Nat] /\ tally'.work <= r.spent
      /\ 5 * (tally'.work - EstOf(k)) <= 5 * (tally.work + (tally'.excess - tally.excess))
  <2>1. /\ tally.work \in Nat /\ tally.excess \in Nat /\ run.spent \in Int
    BY <1>1 DEF Accounts
  <2>2. CASE own /\ k.class = "work"
    <3>1. tally'.work = tally.work + u /\ tally'.excess = tally.excess + Excess(k, u)
      BY <1>3, <2>2
    <3>2. tally' \in [work : Nat, excess : Nat]
      BY <1>2, <1>3, <1>6, <2>1, <2>2
    <3> QED  BY <1>1, <1>2, <1>4, <1>5, <1>6, <2>1, <2>2, <3>1, <3>2
  <2>3. CASE ~(own /\ k.class = "work")
    <3>1. tally' = tally /\ EstOf(k) = 0
      BY <1>3, <1>5, <2>3
    <3>2. tally.work <= r.spent
      BY <1>1, <1>2, <1>4, <2>1
    <3> QED  BY <1>1, <2>1, <3>1, <3>2
  <2> QED  BY <2>2, <2>3
<1>8. session' \in Nat
  BY <1>1, <1>2, <1>3
<1> QED  BY <1>1, <1>3, <1>4, <1>7, <1>8, LedgerSettles DEF k

LEMMA LedgerCancel ==
  ASSUME Ledger, NEW c \in Callers, Cancel(c)
  PROVE  Ledger'
<1>1. /\ UNCHANGED <<generation, run, fired, session, pc, call, tally>>
      /\ cancelled' = cancelled \cup {c} /\ pc[c] # "idle"
  BY DEF Cancel
<1>2. Own' = Own /\ OwnWork' = OwnWork
  BY <1>1 DEF Own, OwnWork
<1>3. Ins' = Ins /\ Outs' = Outs /\ Ests' = Ests /\ Spares' = Spares
  BY <1>1, <1>2 DEF Ins, Outs, Ests, Spares
<1>4. BooksInv'
  BY <1>1, <1>3 DEF Ledger, BooksInv, Counted, Total, Tokens
<1>5. RunsInv' /\ TallyInv'
  BY <1>1 DEF Ledger, RunsInv, TallyInv
<1>6. ReserveKept'
  BY <1>1, <1>2 DEF Ledger, ReserveKept, Total, Tokens
<1> QED  BY <1>4, <1>5, <1>6 DEF Ledger

\* Nothing counts for nothing.
LEMMA TotalOfNone ==
  ASSUME NEW f, DOMAIN f = {}
  PROVE  Counted(f) /\ Total(f) = 0
BY FS_EmptySet DEF Counted, Total, Tokens

\* Fresh accounts, and nobody's call in the run.
LEMMA LedgerFresh ==
  ASSUME run' = FreshRun, tally' = [work |-> 0, excess |-> 0], Own' = {}
  PROVE  BooksInv' /\ TallyInv' /\ ReserveKept'
<1>1. OwnWork' = {}
  BY DEF OwnWork
<1>2. DOMAIN Ins' = {} /\ DOMAIN Outs' = {} /\ DOMAIN Ests' = {} /\ DOMAIN Spares' = {}
  BY <1>1 DEF Ins, Outs, Ests, Spares
<1>3. /\ Counted(Ins') /\ Counted(Outs') /\ Counted(Ests') /\ Counted(Spares')
      /\ Total(Ins') = 0 /\ Total(Outs') = 0 /\ Total(Ests') = 0 /\ Total(Spares') = 0
  <2>1. PICK i, o, e, x : i = Ins' /\ o = Outs' /\ e = Ests' /\ x = Spares'
    OBVIOUS
  <2> QED  BY <1>2, <2>1, TotalOfNone
<1>4. /\ Total(Ins)' = Total(Ins') /\ Total(Outs)' = Total(Outs')
      /\ Total(Ests)' = Total(Ests') /\ Total(Spares)' = Total(Spares')
      /\ (Counted(Ins)' <=> Counted(Ins')) /\ (Counted(Outs)' <=> Counted(Outs'))
      /\ (Counted(Ests)' <=> Counted(Ests')) /\ (Counted(Spares)' <=> Counted(Spares'))
  BY DEF Total, Counted, Tokens
<1>5. BooksInv'
  BY <1>3, <1>4 DEF BooksInv, FreshRun
<1>6. TallyInv'
  BY DEF TallyInv, FreshRun
<1>7. ReserveKept'
  <2>1. Total(Ests)' = 0
    BY <1>3, <1>4
  <2>2. Cap \in Nat
    BY BudgetAssumption
  <2> QED  BY <2>1, <2>2 DEF ReserveKept, Ests
<1> QED  BY <1>5, <1>6, <1>7

LEMMA LedgerBeginRun ==
  ASSUME Inv, Ledger, BeginRun
  PROVE  Ledger'
<1>1. /\ generation < MaxRuns /\ generation' = generation + 1
      /\ run' = FreshRun /\ tally' = [work |-> 0, excess |-> 0]
      /\ UNCHANGED <<fired, session, pc, call, cancelled>>
      /\ RunsInv /\ generation \in Nat /\ MaxRuns \in Nat /\ generation \in 1..MaxRuns
      /\ call \in [Callers -> Calls]
  BY BudgetAssumption DEF BeginRun, Ledger, RunsInv, Inv, Types, Runs
<1>2. \A c \in Callers : call[c].gen \in Nat /\ call[c].gen <= generation
  BY <1>1 DEF RunsInv, Calls
<1>3. Own' = {}
  <2>1. \A c \in Callers : call'[c].gen # generation'
    BY <1>1, <1>2
  <2> QED  BY <2>1 DEF Own
<1>4. RunsInv'
  <2>1. generation' \in Runs
    BY <1>1 DEF Runs
  <2>2. \A c \in Callers : call'[c].gen <= generation'
    BY <1>1, <1>2
  <2> QED  BY <1>1, <2>1, <2>2 DEF RunsInv
<1> QED  BY <1>1, <1>3, <1>4, LedgerFresh DEF Ledger

LEMMA LedgerStep ==
  Inv /\ Ledger /\ [Next]_vars => Ledger'
<1> SUFFICES ASSUME Inv, Ledger, [Next]_vars
             PROVE  Ledger'
  OBVIOUS
<1>1. Inv'
  BY InvStep
<1>2. CASE UNCHANGED vars
  <2>1. UNCHANGED <<generation, run, fired, session, pc, call, tally, cancelled>>
    BY <1>2 DEF vars
  <2>2. Own' = Own /\ OwnWork' = OwnWork
    BY <2>1 DEF Own, OwnWork
  <2>3. Ins' = Ins /\ Outs' = Outs /\ Ests' = Ests /\ Spares' = Spares
    BY <2>1, <2>2 DEF Ins, Outs, Ests, Spares
  <2>4. BooksInv'
    BY <2>1, <2>3 DEF Ledger, BooksInv, Counted, Total, Tokens
  <2>5. RunsInv' /\ TallyInv'
    BY <2>1 DEF Ledger, RunsInv, TallyInv
  <2>6. ReserveKept'
    BY <2>1, <2>2 DEF Ledger, ReserveKept, Total, Tokens
  <2> QED  BY <2>4, <2>5, <2>6 DEF Ledger
<1>3. CASE Next
  <2>1. ASSUME NEW c \in Callers, NEW k \in ShapesOf[c], Generate(c, k) PROVE Ledger'
    BY <1>1, <2>1, LedgerGenerate
  <2>2. ASSUME NEW c \in Callers, Withdraw(c) \/ Send(c) PROVE Ledger'
    <3>1. {"metered", "sent"} \subseteq Stages \ {"idle"}
      BY DEF Stages
    <3> QED  BY <1>1, <2>2, <3>1, LedgerOn DEF Withdraw, Send, Ready
  <2>3. ASSUME NEW c \in Callers, LeaveMeter(c) \/ TurnAway(c) \/ Fail(c) PROVE Ledger'
    BY <1>1, <2>3, LedgerEndsPlain DEF LeaveMeter, TurnAway, Ready, Fail
  <2>4. ASSUME NEW c \in Callers, Acquire(c) PROVE Ledger'
    BY <1>1, <2>4, LedgerAcquire
  <2>5. ASSUME NEW c \in Callers, Abandon(c) PROVE Ledger'
    BY <1>1, <2>5, LedgerAbandon
  <2>6. ASSUME NEW c \in Callers, Reroute(c) \/ FailOver(c) PROVE Ledger'
    BY <1>1, <2>6, LedgerMadeAgain DEF Reroute, Ready, FailOver
  <2>7. ASSUME NEW c \in Callers, NEW u \in Usage(c), Succeed(c, u) PROVE Ledger'
    BY <1>1, <2>7, LedgerSucceed
  <2>8. ASSUME NEW c \in Callers, Cancel(c) PROVE Ledger'
    BY <2>8, LedgerCancel
  <2> QED
    BY <1>3, <2>1, <2>2, <2>3, <2>4, <2>5, <2>6, <2>7, <2>8, LedgerBeginRun DEF Next
<1> QED  BY <1>2, <1>3

(***************************************************************************)
(* What the second invariant shows                                         *)
(***************************************************************************)

\* What the accounts add up to, in every reachable state.
THEOREM LedgerInvariant == Spec => []Ledger
<1>1. Init => Ledger
  <2> SUFFICES ASSUME Init
               PROVE  Ledger
    OBVIOUS
  <2>1. RunsInv
    BY BudgetAssumption DEF Init, RunsInv, Runs, NoCall
  <2>2. Own = {} /\ OwnWork = {}
    BY DEF Init, Own, OwnWork, NoCall
  <2>3. BooksInv
    <3>1. /\ Counted(Ins) /\ Counted(Outs) /\ Counted(Ests) /\ Counted(Spares)
          /\ Total(Ins) = 0 /\ Total(Outs) = 0 /\ Total(Ests) = 0 /\ Total(Spares) = 0
      BY <2>2, TotalOfNone DEF Ins, Outs, Ests, Spares
    <3> QED  BY <3>1 DEF BooksInv, Init, FreshRun
  <2>4. TallyInv
    BY DEF TallyInv, Init, FreshRun
  <2>5. ReserveKept
    <3>1. Total([c \in OwnWork |-> call[c].in + call[c].out]) = 0
      BY <2>2, TotalOfNone
    <3> QED  BY <3>1, BudgetAssumption DEF ReserveKept, Init
  <2> QED  BY <2>1, <2>3, <2>4, <2>5 DEF Ledger
<1> QED  BY <1>1, LedgerStep, Invariant, PTL DEF Spec

\* Every variable keeps its type: the accounts are never negative, an idle
\* caller has no call and no signal pending.
THEOREM TypeCorrect == Spec => []TypeOK
<1>1. Inv /\ Ledger => TypeOK
  <2> SUFFICES ASSUME Inv, Ledger
               PROVE  TypeOK
    OBVIOUS
  <2>1. run.reserved \in Nat /\ run.work \in Nat
    BY FS_CardinalityType DEF Ledger, BooksInv, Counted, Total
  <2>2. run.spent \in Nat
    BY DEF Inv, Types, Accounts, Ledger, TallyInv
  <2>3. run \in [spent : Nat, reserved : Nat, work : Nat,
                 exceeded : BOOLEAN, wrapping : BOOLEAN]
    BY <2>1, <2>2 DEF Inv, Types, Accounts
  <2>4. call \in [Callers -> [class : Classes, local : BOOLEAN, in : Nat,
                              out : Nat, gen : Runs \cup {0}]]
    <3> SUFFICES ASSUME NEW c \in Callers
                 PROVE  call[c] \in [class : Classes, local : BOOLEAN, in : Nat,
                                     out : Nat, gen : Runs \cup {0}]
      BY DEF Inv, Types
    <3>1. call[c] \in Calls /\ call[c].gen <= generation /\ generation \in 1..MaxRuns
      BY DEF Inv, Types, Ledger, RunsInv, Runs
    <3>2. call[c].gen \in Runs \cup {0}
      BY <3>1, BudgetAssumption DEF Calls, Runs
    <3> QED  BY <3>1, <3>2 DEF Calls
  <2>5. active \in Nat
    BY FS_CardinalityType DEF Inv, SlotsInv
  <2> QED
    BY <2>3, <2>4, <2>5 DEF TypeOK, Inv, Types, Ledger, RunsInv, TallyInv, QueueInv
<1> QED  BY <1>1, Invariant, LedgerInvariant, PTL

\* What the calls in flight of the current run hold is what its accounts say
\* is held, whichever way calls end and whatever runs began meanwhile
\* (admitWork, enforcePreflightBudget, the release handles, beginRun).
THEOREM LedgerStaysExact == Spec => []LedgerExact
<1>1. Ledger => LedgerExact
  BY DEF Ledger, BooksInv, LedgerExact, Ins, Outs
<1> QED  BY <1>1, LedgerInvariant, PTL

\* Work never eats into the answer's fifth of the cap, but for what calls
\* used beyond their estimates (admitWork, workShare).
THEOREM ReserveStays == Spec => []ReserveKept
<1>1. Ledger => ReserveKept
  BY DEF Ledger
<1> QED  BY <1>1, LedgerInvariant, PTL

(***************************************************************************)
(* The local queue keeps what SlotQueue promises                           *)
(***************************************************************************)

\* What is shown of a step: one of the promised steps, or none.
Promised == Queue!Next \/ UNCHANGED <<Holders, waiting>>

\* A step that leaves everyone where slots are concerned.
LEMMA SlotsIdle ==
  ASSUME UNCHANGED waiting, \A d \in Callers : HoldsSlot(d)' = HoldsSlot(d)
  PROVE  Promised
<1>1. Holders' = Holders
  BY DEF Holders
<1> QED  BY <1>1 DEF Promised

\* Giving back what a caller holds frees the slot, hands it to the head of the
\* queue, or does nothing when the caller has none.
LEMMA GiveBackPromised ==
  ASSUME Types, SlotsInv, QueueInv, NEW c \in Callers, pc[c] # "queued",
         NEW s \in {"idle", "metering"}, NEW k \in Calls,
         MovesTo(c, s, k, Heir(c)), SlotGivenBack(c)
  PROVE  Promised
<1>1. /\ pc'[c] = s /\ call'[c] = k /\ c \notin Heir(c)
      /\ \A d \in Callers \ {c} :
            /\ call'[d] = call[d]
            /\ d \in Heir(c) => pc'[d] = "slotted"
            /\ d \notin Heir(c) => pc'[d] = pc[d]
  BY HeirEffect, MovesEffect DEF Stages
<1>2. ~HoldsSlot(c)'
  BY <1>1 DEF HoldsSlot
<1>3. CASE ~HoldsSlot(c)
  <2>1. Heir(c) = {} /\ UNCHANGED waiting
    BY <1>3 DEF Heir, SlotGivenBack
  <2>2. \A d \in Callers : HoldsSlot(d)' = HoldsSlot(d)
    BY <1>1, <1>2, <1>3, <2>1 DEF HoldsSlot
  <2> QED  BY <2>1, <2>2, SlotsIdle
<1>4. CASE HoldsSlot(c) /\ waiting = <<>>
  <2>1. Heir(c) = {} /\ waiting' = waiting
    BY <1>4 DEF Heir, SlotGivenBack
  <2>2. Holders' = Holders \ {c} /\ c \in Holders
    BY <1>1, <1>2, <1>4, <2>1 DEF Holders, HoldsSlot
  <2>3. Queue!GiveBack(c)
    BY <1>4, <2>1, <2>2 DEF Queue!GiveBack
  <2> QED  BY <2>3 DEF Promised, Queue!Next
<1>5. CASE HoldsSlot(c) /\ waiting # <<>>
  <2> DEFINE h == waiting[1]
  <2>1. Heir(c) = {h} /\ h \in Callers /\ h # c /\ pc[h] = "queued" /\ call[h].local
    BY <1>1, <1>5, HeirEffect
  <2>2. waiting' = Tail(waiting) /\ Head(waiting) = h
    BY <1>5, <2>1 DEF SlotGivenBack, QueueInv
  <2>3. /\ \A d \in Callers \ {c, h} : pc'[d] = pc[d] /\ call'[d] = call[d]
        /\ pc'[h] = "slotted" /\ call'[h] = call[h]
    BY <1>1, <2>1
  <2> HIDE DEF h
  <2>4. Holders' = (Holders \ {c}) \cup {h} /\ c \in Holders
    BY <1>2, <1>5, <2>1, <2>3 DEF Holders, HoldsSlot
  <2>5. Queue!HandOver(c)
    BY <1>5, <2>2, <2>4 DEF Queue!HandOver
  <2> QED  BY <2>5 DEF Promised, Queue!Next
<1> QED  BY <1>3, <1>4, <1>5

LEMMA EndsPromised ==
  ASSUME Inv, NEW c \in Callers, pc[c] # "queued", NEW r, Ends(c, r)
  PROVE  Promised
<1>1. NoCall \in Calls /\ "idle" \in {"idle", "metering"}
  BY DEF NoCall, Calls, Classes
<1> QED  BY <1>1, GiveBackPromised DEF Ends, Inv

LEMMA MadeAgainPromised ==
  ASSUME Inv, NEW c \in Callers, pc[c] # "queued", MadeAgain(c)
  PROVE  Promised
<1>1. Types /\ SlotsInv /\ QueueInv /\ run \in Accounts
  BY DEF Inv, Types
<1>2. Released(c, run) \in Accounts
  BY <1>1, ReleasedEffect
<1>3. PICK k \in ShapesOf[c] : Admit(c, k, Released(c, run), Heir(c))
  BY DEF MadeAgain
<1>4. k \in Shapes
  BY BudgetAssumption
<1>5. PICK s \in {"idle", "metering"}, m \in Calls : MovesTo(c, s, m, Heir(c))
  BY <1>1, <1>2, <1>3, <1>4, AdmitEffect
<1>6. SlotGivenBack(c)
  BY DEF MadeAgain
<1> QED  BY <1>1, <1>5, <1>6, GiveBackPromised

\* A caller that takes no slot and gives none back.
LEMMA MovePromised ==
  ASSUME Inv, NEW c \in Callers, NEW s \in Stages, NEW k \in Calls,
         MovesTo(c, s, k, {}), UNCHANGED waiting,
         (k.local /\ s \in {"slotted", "sent"}) <=> HoldsSlot(c)
  PROVE  Promised
<1>1. /\ pc'[c] = s /\ call'[c] = k
      /\ \A d \in Callers \ {c} : pc'[d] = pc[d] /\ call'[d] = call[d]
  BY MovesEffect DEF Inv
<1>2. \A d \in Callers : HoldsSlot(d)' = HoldsSlot(d)
  BY <1>1 DEF HoldsSlot
<1> QED  BY <1>2, SlotsIdle

LEMMA AcquirePromised ==
  ASSUME Inv, NEW c \in Callers, Acquire(c)
  PROVE  Promised
<1>1. /\ Types /\ SlotsInv /\ QueueInv /\ call[c] \in Calls
      /\ pc[c] = "metered" /\ call[c].local /\ ~HoldsSlot(c) /\ c \notin Holders
  BY DEF Inv, Types, Acquire, HoldsSlot, Holders
<1>2. CASE Ends(c, run)
  BY <1>1, <1>2, EndsPromised
<1>3. MaxLocal \in Nat /\ active \in Nat /\ active = Cardinality(Holders)
  BY <1>1, BudgetAssumption, FS_CardinalityType DEF SlotsInv
<1>4. ASSUME active < MaxLocal, MovesTo(c, "slotted", call[c], {}), UNCHANGED waiting
      PROVE  Promised
  <2>1. /\ pc'[c] = "slotted" /\ call'[c] = call[c]
        /\ \A d \in Callers \ {c} : pc'[d] = pc[d] /\ call'[d] = call[d]
    BY <1>1, <1>4, MovesEffect DEF Stages
  <2>2. Holders' = Holders \cup {c}
    BY <1>1, <2>1 DEF Holders, HoldsSlot
  <2>3. waiting = <<>>
    BY <1>1, <1>3, <1>4 DEF SlotsInv
  <2>4. Queue!Take(c)
    BY <1>1, <1>3, <1>4, <2>2, <2>3 DEF Queue!Take, Queue!Cardinality, Cardinality
  <2> QED  BY <2>4 DEF Promised, Queue!Next
<1>5. ASSUME active >= MaxLocal, waiting' = Joined(c), MovesTo(c, "queued", call[c], {})
      PROVE  Promised
  <2>1. /\ pc'[c] = "queued" /\ call'[c] = call[c]
        /\ \A d \in Callers \ {c} : pc'[d] = pc[d] /\ call'[d] = call[d]
    BY <1>1, <1>5, MovesEffect DEF Stages
  <2>2. Holders' = Holders
    BY <1>1, <2>1 DEF Holders, HoldsSlot
  <2>3. \A i \in DOMAIN waiting : waiting[i] # c
    BY <1>1 DEF QueueInv
  <2>4. Cardinality(Holders) = MaxLocal
    BY <1>1, <1>3, <1>5 DEF SlotsInv
  <2>5. Queue!Join(c)
    BY <1>1, <1>5, <2>2, <2>3, <2>4 DEF Queue!Join, Joined, Queue!Cardinality, Cardinality
  <2> QED  BY <2>5 DEF Promised, Queue!Next
<1> QED  BY <1>2, <1>4, <1>5 DEF Acquire

LEMMA AbandonPromised ==
  ASSUME Inv, NEW c \in Callers, Abandon(c)
  PROVE  Promised
<1>1. /\ Types /\ QueueInv /\ pc[c] = "queued" /\ MovesTo(c, "idle", NoCall, {})
      /\ waiting' = Unqueued(c)
  BY DEF Inv, Abandon
<1>2. /\ pc'[c] = "idle"
      /\ \A d \in Callers \ {c} : pc'[d] = pc[d] /\ call'[d] = call[d]
  <2>1. NoCall \in Calls /\ "idle" \in Stages
    BY DEF Stages, NoCall, Calls, Classes
  <2> QED  BY <1>1, <2>1, MovesEffect
<1>3. Holders' = Holders
  BY <1>1, <1>2 DEF Holders, HoldsSlot
<1>4. \E i \in DOMAIN waiting : waiting[i] = c
  BY <1>1 DEF QueueInv
<1>5. PICK at : at = (CHOOSE i \in DOMAIN waiting : waiting[i] = c)
  OBVIOUS
<1>6. at \in DOMAIN waiting
  BY <1>4, <1>5
<1>7. Unqueued(c) = SubSeq(waiting, 1, at - 1) \o SubSeq(waiting, at + 1, Len(waiting))
  BY <1>5 DEF Unqueued
<1>8. Queue!Leave(at)
  BY <1>1, <1>3, <1>7 DEF Queue!Leave
<1> QED  BY <1>6, <1>8 DEF Promised, Queue!Next

LEMMA StepPromised ==
  ASSUME Inv, [Next]_vars
  PROVE  Promised
<1>1. Types /\ NoCall \in Calls /\ \A c \in Callers : call[c] \in Calls
  BY DEF Inv, Types, NoCall, Calls, Classes
<1>2. ASSUME NEW c \in Callers, NEW k \in ShapesOf[c], Generate(c, k)  PROVE  Promised
  <2>1. run \in Accounts /\ k \in Shapes /\ pc[c] = "idle" /\ ~HoldsSlot(c)
    BY <1>1, <1>2, BudgetAssumption DEF Types, Generate, HoldsSlot
  <2>2. PICK s \in {"idle", "metering"}, m \in Calls : MovesTo(c, s, m, {})
    BY <1>1, <1>2, <2>1, AdmitEffect DEF Generate
  <2> QED  BY <1>2, <2>1, <2>2, MovePromised DEF Generate, Stages
<1>3. ASSUME NEW c \in Callers, Withdraw(c)  PROVE  Promised
  BY <1>1, <1>3, MovePromised DEF Withdraw, Stages, HoldsSlot
<1>4. ASSUME NEW c \in Callers, LeaveMeter(c)  PROVE  Promised
  BY <1>4, EndsPromised DEF LeaveMeter
<1>5. ASSUME NEW c \in Callers, Acquire(c)  PROVE  Promised
  BY <1>5, AcquirePromised
<1>6. ASSUME NEW c \in Callers, Abandon(c)  PROVE  Promised
  BY <1>6, AbandonPromised
<1>7. ASSUME NEW c \in Callers, Send(c)  PROVE  Promised
  BY <1>1, <1>7, MovePromised DEF Send, Ready, Stages, HoldsSlot
<1>8. ASSUME NEW c \in Callers, TurnAway(c)  PROVE  Promised
  BY <1>8, EndsPromised DEF TurnAway, Ready
<1>9. ASSUME NEW c \in Callers, Reroute(c)  PROVE  Promised
  BY <1>9, MadeAgainPromised DEF Reroute, Ready
<1>10. ASSUME NEW c \in Callers, FailOver(c)  PROVE  Promised
  BY <1>10, MadeAgainPromised DEF FailOver
<1>11. ASSUME NEW c \in Callers, Fail(c)  PROVE  Promised
  BY <1>11, EndsPromised DEF Fail
<1>12. ASSUME NEW c \in Callers, NEW u \in Usage(c), Succeed(c, u)  PROVE  Promised
  <2>1. pc[c] = "sent" /\ \E r : Ends(c, r)
    BY <1>12 DEF Succeed
  <2> QED  BY <2>1, EndsPromised
<1>13. ASSUME NEW c \in Callers, Cancel(c)  PROVE  Promised
  BY <1>13, SlotsIdle DEF Cancel, HoldsSlot
<1>14. CASE BeginRun
  BY <1>14, SlotsIdle DEF BeginRun, HoldsSlot
<1>15. CASE UNCHANGED vars
  BY <1>15, SlotsIdle DEF vars, HoldsSlot
<1> QED  BY <1>2, <1>3, <1>4, <1>5, <1>6, <1>7, <1>8, <1>9, <1>10, <1>11, <1>12, <1>13, <1>14, <1>15 DEF Next

\* Whatever calls go through, the local slots are taken and given back as a
\* first-in-first-out queue promises, for any callers and number of slots
\* (local-queue.ts: acquire, makeRelease).
THEOREM BudgetImplementsSlotQueue == Spec => ImplementsSlotQueue
<1>1. Init => Queue!Init
  BY DEF Init, Queue!Init, Holders, HoldsSlot
<1>2. Inv /\ [Next]_vars => [Queue!Next]_Queue!vars
  <2> SUFFICES ASSUME Inv, [Next]_vars  PROVE  Queue!Next \/ UNCHANGED Queue!vars
    OBVIOUS
  <2> QED  BY StepPromised DEF Promised, Queue!vars
<1> QED  BY <1>1, <1>2, Invariant, PTL DEF Spec, ImplementsSlotQueue, Queue!Spec
=============================================================================
