------------------------- MODULE DurableResumeProofs -------------------------
(***************************************************************************)
(* Proofs about DurableResume, for any processes, parts and bounds.        *)
(***************************************************************************)
EXTENDS DurableResume, TLAPS

\* What the operations on the directory do to the files, for every run: a
\* claim has a name of its own, so each touches the file that has it only.
LEMMA RelistedEffect ==
  ASSUME NEW c, file \in [Run -> File], Relisted(c)
  PROVE  /\ file' \in [Run -> File]
         /\ \A r \in Run : file'[r] # file[r] =>
              /\ c \in Claim /\ HasName(c) /\ c.run = r
              /\ file[r] = [kind |-> "claimed", stamp |-> c.stamp]
              /\ file'[r] = [kind |-> "listed", stamp |-> c.stamp]
BY DEF Relisted, HasName, File, Claim

LEMMA DiscardedEffect ==
  ASSUME NEW c, file \in [Run -> File], Discarded(c)
  PROVE  /\ file' \in [Run -> File]
         /\ \A r \in Run : file'[r] # file[r] =>
              /\ c \in Claim /\ HasName(c) /\ c.run = r
              /\ file[r] = [kind |-> "claimed", stamp |-> c.stamp]
              /\ file'[r] = NoFile
<1>1. NoFile \in File
  BY StoreAssumption DEF NoFile, File, Time
<1> QED
  BY <1>1 DEF Discarded, HasName, Claim

LEMMA TakeFileEffect ==
  ASSUME NEW r \in Run, TypeOK, TakeFile(r)
  PROVE  /\ file' \in [Run -> File]
         /\ clock \in Time /\ clock' = clock + 1 /\ clock' \in Time
         /\ saved' = saved /\ horizon' = horizon
         /\ file[r].kind = "listed"
         /\ file'[r] = [kind |-> "claimed", stamp |-> clock]
         /\ \A u \in Run : u # r => file'[u] = file[u]
BY StoreAssumption DEF TakeFile, Named, Listed, TypeOK, StoreTypeOK, File, Time

LEMMA PutEffect ==
  ASSUME NEW r \in Run, NEW content \in Content, TypeOK, Put(r, content)
  PROVE  /\ file' \in [Run -> File]
         /\ clock \in Time /\ clock' = clock + 1 /\ clock' \in Time
         /\ saved' = [saved EXCEPT ![r] = content] /\ saved' \in [Run -> Content]
         /\ horizon' = horizon
         /\ file'[r] = [kind |-> "listed", stamp |-> clock]
         /\ \A u \in Run : u # r /\ file'[u] # file[u] =>
              Crowded(u) /\ file[u].kind = "listed" /\ file'[u] = NoFile
<1>1. NoFile \in File
  BY StoreAssumption DEF NoFile, File, Time
<1> QED
  BY <1>1, StoreAssumption
  DEF Put, Named, Listed, Crowded, TypeOK, StoreTypeOK, File, Time

\* What a run starts from or has saved keeps its type, and has a first prompt.
LEMMA MergedType ==
  ASSUME NEW new \in Content, NEW old \in Content
  PROVE  /\ Merged(new, old) \in Content
         /\ new.root # 0 => Merged(new, old).root # 0
         /\ old.root # 0 => Covers(Merged(new, old), old)
<1>1. \A s \in Part : Further(new.parts[s], old.parts[s]) \in Status
  BY DEF Further, Content, Status
<1>2. \A s \in Part : Further(new.parts[s], old.parts[s]) >= old.parts[s]
  BY DEF Further, Content, Status
<1> QED
  BY <1>1, <1>2 DEF Merged, Content, Covers

-----------------------------------------------------------------------------
(* Type correctness *)

LEMMA InitType == Init => TypeOK
BY StoreAssumption
DEF Init, StoreInit, TypeOK, StoreTypeOK, ProcessTypeOK, RunsApart, UnsavedBlank,
    NotSaved, Nothing, NoFile, NoClaim, Content, Status, File, Time, Run, Claim

LEMMA Blank == Nothing \in Content /\ NoClaim \notin Claim
BY StoreAssumption DEF Nothing, Content, Status, NoClaim, Claim, Run

\* A claim that is given back or discarded leaves the directory well-formed
\* and has nothing to do with runs that have no file.
LEMMA ClaimGone ==
  ASSUME TypeOK, NEW c, Relisted(c) \/ Discarded(c), saved' = saved, clock' = clock,
         horizon' = horizon
  PROVE  /\ StoreTypeOK'
         /\ \A r \in Run : NotSaved(r) => NotSaved(r)'
<1>1. file \in [Run -> File]
  BY DEF TypeOK, StoreTypeOK
<1>2. file' \in [Run -> File]
  BY <1>1, RelistedEffect, DiscardedEffect
<1>3. ASSUME NEW r \in Run, file'[r] # file[r]
      PROVE  /\ file[r].kind = "claimed" /\ file[r] # NoFile
             /\ file'[r] = NoFile \/ (file'[r].kind = "listed" /\ file'[r].stamp = file[r].stamp)
  <2>1. CASE Relisted(c)
    <3>1. file[r] = [kind |-> "claimed", stamp |-> c.stamp]
          /\ file'[r] = [kind |-> "listed", stamp |-> c.stamp]
      BY <1>1, <1>3, <2>1, RelistedEffect
    <3> QED
      BY <3>1 DEF NoFile
  <2>2. CASE Discarded(c)
    <3>1. file[r] = [kind |-> "claimed", stamp |-> c.stamp] /\ file'[r] = NoFile
      BY <1>1, <1>3, <2>2, DiscardedEffect
    <3> QED
      BY <3>1 DEF NoFile
  <2> QED
    BY <2>1, <2>2
<1>4. StoreTypeOK'
  BY <1>1, <1>2, <1>3 DEF TypeOK, StoreTypeOK, NoFile
<1> QED
  BY <1>3, <1>4 DEF NotSaved

\* A process that comes to be idle.
LEMMA ForgetType ==
  ASSUME TypeOK, NEW p \in Process, Forget(p), lastRun' = lastRun,
         stale' \in [Process -> SUBSET Claim], target' \in [Process -> 0..MaxRuns],
         \A q \in Process : q # p => target'[q] = target[q],
         \A r \in Run : NotSaved(r) => NotSaved(r)'
  PROVE  ProcessTypeOK' /\ RunsApart' /\ UnsavedBlank'
<1>1. ProcessTypeOK'
  <2>1. /\ from' \in [Process -> Content] /\ claim' \in [Process -> Claim \cup {NoClaim}]
        /\ lastRun' \in 0..MaxRuns /\ run' \in [Process -> 0..lastRun']
    BY Blank, StoreAssumption DEF Forget, TypeOK, ProcessTypeOK
  <2>2. pc' \in [Process -> {"idle", "reclaim", "claim", "prepared", "run", "saved",
                            "finished"}]
    BY DEF Forget, TypeOK, ProcessTypeOK
  <2>3. pc'[p] = "idle" /\ run'[p] = 0
        /\ \A q \in Process : q # p => pc'[q] = pc[q] /\ run'[q] = run[q]
    BY DEF Forget, TypeOK, ProcessTypeOK
  <2>4. \A q \in Process : pc'[q] = "claim" => target'[q] # 0
    BY <2>3 DEF TypeOK, ProcessTypeOK
  <2>5. \A q \in Process : run'[q] # 0 <=> pc'[q] \in {"run", "saved", "finished"}
    BY <2>3 DEF TypeOK, ProcessTypeOK
  <2> QED
    BY <2>1, <2>2, <2>4, <2>5 DEF ProcessTypeOK
<1>2. RunsApart'
  BY DEF Forget, TypeOK, ProcessTypeOK, RunsApart
<1>3. UnsavedBlank'
  <2>1. \A q \in Process : pc'[q] = "run" => q # p /\ pc[q] = "run" /\ run'[q] = run[q]
    BY DEF Forget, TypeOK, ProcessTypeOK
  <2>2. \A q \in Process : pc[q] = "run" => run[q] \in Run
    BY StoreAssumption DEF TypeOK, ProcessTypeOK, Run
  <2> QED
    BY <2>1, <2>2 DEF TypeOK, UnsavedBlank
<1> QED
  BY <1>1, <1>2, <1>3

LEMMA StepType ==
  ASSUME TypeOK, [Next]_vars
  PROVE  TypeOK'
<1> USE StoreAssumption
<1>0. CASE UNCHANGED vars
  BY <1>0 DEF vars, store, process, TypeOK, StoreTypeOK, ProcessTypeOK, RunsApart,
              UnsavedBlank, NotSaved
<1>1. ASSUME NEW p \in Process, Ask(p) PROVE TypeOK'
  BY <1>1 DEF Ask, store, TypeOK, StoreTypeOK, ProcessTypeOK, RunsApart,
              UnsavedBlank, NotSaved, StaleClaims
<1>2. ASSUME NEW p \in Process, Reclaim(p) PROVE TypeOK'
  <2>1. PICK c \in stale[p] : Relisted(c)
                /\ stale' = [stale EXCEPT ![p] = IF HasName(c) THEN @ \ {c} ELSE {}]
    BY <1>2 DEF Reclaim
  <2>2. stale' \in [Process -> SUBSET Claim]
    BY <2>1 DEF TypeOK, ProcessTypeOK
  <2>3. StoreTypeOK' /\ \A r \in Run : NotSaved(r) => NotSaved(r)'
    BY <1>2, <2>1, ClaimGone DEF Reclaim
  <2>4. ProcessTypeOK' /\ RunsApart'
    BY <1>2, <2>2 DEF Reclaim, TypeOK, ProcessTypeOK, RunsApart
  <2>5. \A q \in Process : pc[q] = "run" => run[q] \in Run
    BY DEF TypeOK, ProcessTypeOK, Run
  <2> QED
    BY <1>2, <2>3, <2>4, <2>5 DEF Reclaim, TypeOK, UnsavedBlank
<1>3. ASSUME NEW p \in Process, Look(p) PROVE TypeOK'
  <2>1. /\ target' \in [Process -> 0..MaxRuns]
        /\ \A q \in Process : pc'[q] = "claim" => target'[q] # 0
        /\ pc' \in [Process -> {"idle", "reclaim", "claim", "prepared", "run",
                                "saved", "finished"}]
        /\ \A q \in Process : pc'[q] # pc[q] =>
              pc[q] = "reclaim" /\ pc'[q] \in {"idle", "claim"}
    BY <1>3 DEF Look, TypeOK, ProcessTypeOK, Run
  <2> QED
    BY <1>3, <2>1 DEF Look, store, TypeOK, StoreTypeOK, ProcessTypeOK, RunsApart,
                      UnsavedBlank, NotSaved
<1>4. ASSUME NEW p \in Process, TakeClaim(p) PROVE TypeOK'
  <2>1. target[p] \in Run /\ TakeFile(target[p])
    BY <1>4 DEF TakeClaim, TakeFile, Listed
  <2>2. [run |-> target[p], stamp |-> clock] \in Claim /\ saved[target[p]] \in Content
    BY <2>1, TakeFileEffect DEF TypeOK, StoreTypeOK, Claim
  <2>3. StoreTypeOK'
    <3>1. horizon' \in Time /\ horizon' <= clock' /\ saved' \in [Run -> Content]
      BY <2>1, TakeFileEffect DEF TypeOK, StoreTypeOK, Time
    <3>2. ASSUME NEW r \in Run
          PROVE IF file'[r].kind = "none" THEN file'[r] = NoFile ELSE file'[r].stamp < clock'
      <4>1. CASE r = target[p]
        <5>1. file'[r] = [kind |-> "claimed", stamp |-> clock]
          BY <2>1, <4>1, TakeFileEffect
        <5> QED
          BY <2>1, <5>1, TakeFileEffect DEF Time
      <4>2. CASE r # target[p]
        <5>1. file'[r] = file[r] /\ clock' = clock + 1
          BY <2>1, <4>2, TakeFileEffect
        <5> QED
          BY <5>1 DEF TypeOK, StoreTypeOK, Time, File
      <4> QED
        BY <4>1, <4>2
    <3> QED
      BY <2>1, <3>1, <3>2, TakeFileEffect DEF StoreTypeOK
  <2>4. ProcessTypeOK' /\ RunsApart'
    BY <1>4, <2>2 DEF TakeClaim, TypeOK, ProcessTypeOK, RunsApart
  <2>5. \A r \in Run : NotSaved(r) => NotSaved(r)'
    BY <2>1, TakeFileEffect DEF NotSaved, NoFile
  <2>6. \A q \in Process : pc[q] = "run" => run[q] \in Run
    BY DEF TypeOK, ProcessTypeOK, Run
  <2> QED
    BY <1>4, <2>3, <2>4, <2>5, <2>6 DEF TakeClaim, TypeOK, ProcessTypeOK, UnsavedBlank
<1>5. ASSUME NEW p \in Process, LoseClaim(p) PROVE TypeOK'
  BY <1>5 DEF LoseClaim, store, TypeOK, StoreTypeOK, ProcessTypeOK, RunsApart,
              UnsavedBlank, NotSaved
<1>6. ASSUME NEW p \in Process, StartFails(p) PROVE TypeOK'
  <2>1. CASE Relisted(claim[p]) /\ Forget(p)
    <3>1. StoreTypeOK' /\ \A r \in Run : NotSaved(r) => NotSaved(r)'
      BY <1>6, <2>1, ClaimGone DEF StartFails
    <3> QED
      BY <1>6, <2>1, <3>1, ForgetType DEF StartFails, TypeOK, ProcessTypeOK
  <2>2. CASE pc' = [pc EXCEPT ![p] = "idle"] /\ UNCHANGED <<file, claim, from, run>>
    BY <1>6, <2>2 DEF StartFails, TypeOK, StoreTypeOK, ProcessTypeOK, RunsApart,
                      UnsavedBlank, NotSaved
  <2> QED
    BY <1>6, <2>1, <2>2 DEF StartFails
<1>7. ASSUME NEW p \in Process, Begin(p) PROVE TypeOK'
  <2>1. lastRun + 1 \in Run /\ lastRun' = lastRun + 1
    BY <1>7 DEF Begin, TypeOK, ProcessTypeOK, Run
  <2>2. StoreTypeOK' /\ ProcessTypeOK' /\ RunsApart'
    BY <1>7, <2>1 DEF Begin, store, TypeOK, StoreTypeOK, ProcessTypeOK, RunsApart
  <2>3. UnsavedBlank'
    BY <1>7, <2>1 DEF Begin, store, TypeOK, ProcessTypeOK, UnsavedBlank, NotSaved, Run
  <2> QED
    BY <2>2, <2>3 DEF TypeOK
<1>8. ASSUME NEW p \in Process, EndEmpty(p) PROVE TypeOK'
  <2>1. StoreTypeOK' /\ \A r \in Run : NotSaved(r) => NotSaved(r)'
    BY <1>8, ClaimGone DEF EndEmpty
  <2> QED
    BY <1>8, <2>1, ForgetType DEF EndEmpty, TypeOK, ProcessTypeOK
<1>9. ASSUME NEW p \in Process, Save(p) PROVE TypeOK'
  <2>1. PICK attempt \in Attempts(p) : Put(run[p], Merged(attempt, from[p]))
    BY <1>9 DEF Save
  <2>2. run[p] \in Run /\ attempt \in Content /\ from[p] \in Content
    BY <1>9, <2>1 DEF Save, Attempts, Content, TypeOK, ProcessTypeOK, Run
  <2>3. Merged(attempt, from[p]) \in Content
    BY <2>2, MergedType
  <2>4. StoreTypeOK'
    <3>1. horizon' \in Time /\ horizon' <= clock'
      BY <2>1, <2>2, <2>3, PutEffect DEF TypeOK, StoreTypeOK, Time
    <3>2. ASSUME NEW r \in Run
          PROVE IF file'[r].kind = "none" THEN file'[r] = NoFile ELSE file'[r].stamp < clock'
      <4>1. CASE r = run[p]
        BY <2>1, <2>2, <2>3, <4>1, PutEffect DEF Time
      <4>2. CASE r # run[p] /\ file'[r] = file[r]
        BY <2>1, <2>2, <2>3, <4>2, PutEffect DEF TypeOK, StoreTypeOK, Time, File
      <4>3. CASE r # run[p] /\ file'[r] # file[r]
        BY <2>1, <2>2, <2>3, <4>3, PutEffect DEF NoFile
      <4> QED
        BY <4>1, <4>2, <4>3
    <3> QED
      BY <2>1, <2>2, <2>3, <3>1, <3>2, PutEffect DEF StoreTypeOK
  <2>5. ProcessTypeOK' /\ RunsApart'
    BY <1>9 DEF Save, TypeOK, ProcessTypeOK, RunsApart
  <2>6. \A r \in Run : r # run[p] /\ NotSaved(r) => NotSaved(r)'
    BY <2>1, <2>2, <2>3, PutEffect DEF NotSaved, NoFile, TypeOK, StoreTypeOK
  <2>7. \A q \in Process : pc'[q] = "run" =>
           q # p /\ pc[q] = "run" /\ run'[q] = run[q] /\ run[q] \in Run /\ run[q] # run[p]
    BY <1>9 DEF Save, TypeOK, ProcessTypeOK, RunsApart, Run
  <2>8. run[p] <= lastRun /\ lastRun' = lastRun
    BY <1>9 DEF Save, TypeOK, ProcessTypeOK
  <2>9. UnsavedBlank'
    BY <2>2, <2>6, <2>7, <2>8 DEF TypeOK, ProcessTypeOK, UnsavedBlank, Run
  <2> QED
    BY <2>4, <2>5, <2>9 DEF TypeOK
<1>10. ASSUME NEW p \in Process, EndNormally(p) PROVE TypeOK'
  BY <1>10 DEF EndNormally, store, TypeOK, StoreTypeOK, ProcessTypeOK, RunsApart,
               UnsavedBlank, NotSaved
<1>11. ASSUME NEW p \in Process, Settle(p) PROVE TypeOK'
  <2>1. StoreTypeOK' /\ \A r \in Run : NotSaved(r) => NotSaved(r)'
    BY <1>11, ClaimGone DEF Settle
  <2> QED
    BY <1>11, <2>1, ForgetType DEF Settle, TypeOK, ProcessTypeOK
<1>12. ASSUME NEW p \in Process, Crash(p) PROVE TypeOK'
  <2>1. StoreTypeOK' /\ \A r \in Run : NotSaved(r) => NotSaved(r)'
    BY <1>12 DEF Crash, store, TypeOK, StoreTypeOK, NotSaved
  <2> QED
    BY <1>12, <2>1, ForgetType DEF Crash, TypeOK, ProcessTypeOK
<1>13. CASE TimePasses /\ UNCHANGED <<lastRun, process>>
  BY <1>13 DEF TimePasses, process, TypeOK, StoreTypeOK, ProcessTypeOK, RunsApart,
               UnsavedBlank, NotSaved, Time
<1> QED
  BY <1>0, <1>1, <1>2, <1>3, <1>4, <1>5, <1>6, <1>7, <1>8, <1>9, <1>10, <1>11,
     <1>12, <1>13 DEF Next, Step

\* The type invariant.
THEOREM TypeCorrect == Spec => []TypeOK
BY InitType, StepType, PTL DEF Spec

-----------------------------------------------------------------------------
(* The strengthening *)

\* reclaimStale() has only claims on its list that had timed out.
StaleOld == \A p \in Process : \A c \in stale[p] : c.stamp < horizon

\* A claim has a time that is past, and is held by one process.
ClaimsApart ==
  /\ \A p \in Process : claim[p] # NoClaim => claim[p].stamp < clock
  /\ \A p, q \in Process : claim[p] = claim[q] /\ claim[p] # NoClaim => p = q

\* What has a file has a first prompt.
FileHasRoot == \A r \in Run : file[r] # NoFile => saved[r].root # 0

\* A process starts from what it has claimed.
StartsFromClaim ==
  \A p \in Process : claim[p] # NoClaim =>
    from[p] = saved[claim[p].run] /\ from[p].root # 0

\* The checkpoint of a resumed run holds what it started from.
SavedOnTop ==
  \A p \in Process : claim[p] # NoClaim /\ pc[p] = "saved" =>
    Covers(saved[run[p]], saved[claim[p].run])

IInv ==
  /\ TypeOK /\ StaleOld /\ ClaimsApart /\ LiveClaimStands
  /\ FileHasRoot /\ StartsFromClaim /\ SavedOnTop

-----------------------------------------------------------------------------
(* What a step does to the shared state and to the claim of a process *)

LEMMA ForgetEffect ==
  ASSUME TypeOK, NEW p \in Process, Forget(p)
  PROVE  /\ claim'[p] = NoClaim
         /\ \A q \in Process : q # p => claim'[q] = claim[q] /\ from'[q] = from[q]
BY DEF Forget, TypeOK, ProcessTypeOK

LEMMA ClaimEffect ==
  ASSUME TypeOK, [Next]_vars, NEW q \in Process
  PROVE  \/ claim'[q] = NoClaim
         \/ claim'[q] = claim[q] /\ from'[q] = from[q]
         \/ TakeClaim(q)
<1>1. CASE UNCHANGED vars
  BY <1>1 DEF vars, process
<1>2. ASSUME NEW p \in Process, Ask(p) \/ Reclaim(p) \/ Look(p) \/ LoseClaim(p)
                                \/ Begin(p) \/ Save(p) \/ EndNormally(p)
      PROVE  claim' = claim /\ from' = from
  BY <1>2 DEF Ask, Reclaim, Look, LoseClaim, Begin, Save, EndNormally
<1>3. ASSUME NEW p \in Process, TakeClaim(p), p # q
      PROVE  claim'[q] = claim[q] /\ from'[q] = from[q]
  BY <1>3 DEF TakeClaim, TypeOK, ProcessTypeOK
<1>4. ASSUME NEW p \in Process, StartFails(p) \/ EndEmpty(p) \/ Settle(p) \/ Crash(p)
      PROVE  Forget(p) \/ UNCHANGED <<claim, from>>
  BY <1>4 DEF StartFails, EndEmpty, Settle, Crash
<1>5. CASE TimePasses /\ UNCHANGED <<lastRun, process>>
  BY <1>5 DEF process
<1> QED
  BY <1>1, <1>2, <1>3, <1>4, <1>5, ForgetEffect DEF Next, Step

\* Of what is shared, a step touches one checkpoint: a claim is taken, given
\* back by its process or by reclaimStale(), or settled; or a run is saved
\* and others are pruned.
Taken(r) == \E p \in Process : TakeClaim(p) /\ target[p] = r
ReclaimedAt(r) ==
  \E p \in Process : \E c \in stale[p] :
    c \in Claim /\ HasName(c) /\ c.run = r /\ file'[r].kind = "listed"
ReturnedAt(r) ==
  \E p \in Process :
    Forget(p) /\ HasName(claim[p]) /\ claim[p].run = r /\ file'[r].kind = "listed"
SettledAt(r) ==
  \E p \in Process : Settle(p) /\ Forget(p) /\ HasName(claim[p]) /\ claim[p].run = r
Saving(r) == \E p \in Process : Save(p) /\ run[p] = r
PrunedAt(r) ==
  Crowded(r) /\ file[r].kind = "listed" /\ file'[r] = NoFile /\ \E p \in Process : Save(p)

LEMMA SaveEffect ==
  ASSUME TypeOK, NEW p \in Process, Save(p)
  PROVE  /\ run[p] \in Run /\ NotSaved(run[p])
         /\ saved'[run[p]].root # 0
         /\ from[p].root # 0 => Covers(saved'[run[p]], from[p])
         /\ \A r \in Run : r # run[p] => saved'[r] = saved[r]
         /\ clock' = clock + 1 /\ horizon' = horizon
         /\ \A r \in Run : r # run[p] /\ file'[r] # file[r] =>
              Crowded(r) /\ file[r].kind = "listed" /\ file'[r] = NoFile
<1>1. PICK attempt \in Attempts(p) : Put(run[p], Merged(attempt, from[p]))
  BY DEF Save
<1>2. run[p] \in Run /\ attempt \in Content /\ from[p] \in Content
  BY StoreAssumption, <1>1 DEF Save, Attempts, Content, TypeOK, ProcessTypeOK, Run
<1>3. attempt.root = run[p] /\ run[p] # 0 /\ NotSaved(run[p])
  BY <1>1, <1>2 DEF Save, Attempts, TypeOK, UnsavedBlank, Run
<1>4. Merged(attempt, from[p]) \in Content
  BY <1>2, MergedType
<1>5. saved' = [saved EXCEPT ![run[p]] = Merged(attempt, from[p])]
  BY <1>1, <1>2, <1>4, PutEffect
<1>6. saved'[run[p]] = Merged(attempt, from[p]) /\ \A r \in Run : r # run[p] => saved'[r] = saved[r]
  BY <1>2, <1>5 DEF TypeOK, StoreTypeOK
<1> QED
  BY <1>1, <1>2, <1>3, <1>4, <1>6, MergedType, PutEffect

LEMMA FileEffect ==
  ASSUME TypeOK, [Next]_vars, NEW r \in Run, file'[r] # file[r]
  PROVE  \/ Taken(r) \/ ReclaimedAt(r) \/ ReturnedAt(r)
         \/ SettledAt(r) \/ Saving(r) \/ PrunedAt(r)
<1>0. file \in [Run -> File]
  BY DEF TypeOK, StoreTypeOK
<1>1. CASE UNCHANGED vars
  BY <1>1 DEF vars, store
<1>2. ASSUME NEW p \in Process, Ask(p) \/ Look(p) \/ LoseClaim(p) \/ Begin(p)
                                \/ EndNormally(p) \/ Crash(p)
      PROVE  file' = file
  BY <1>2 DEF Ask, Look, LoseClaim, Begin, EndNormally, Crash, store
<1>3. ASSUME NEW p \in Process, TakeClaim(p) PROVE Taken(r)
  <2>1. target[p] \in Run /\ TakeFile(target[p])
    BY <1>3 DEF TakeClaim, TakeFile, Listed
  <2>2. target[p] = r
    BY <2>1, TakeFileEffect
  <2> QED
    BY <1>3, <2>2 DEF Taken
<1>4. ASSUME NEW p \in Process, Reclaim(p) PROVE ReclaimedAt(r)
  <2>1. PICK c \in stale[p] : Relisted(c)
    BY <1>4 DEF Reclaim
  <2>2. c \in Claim /\ HasName(c) /\ c.run = r
        /\ file'[r] = [kind |-> "listed", stamp |-> c.stamp]
    BY <1>0, <2>1, RelistedEffect
  <2> QED
    BY <2>2 DEF ReclaimedAt
<1>5. ASSUME NEW p \in Process, StartFails(p) \/ EndEmpty(p) PROVE ReturnedAt(r)
  <2>1. Relisted(claim[p]) /\ Forget(p)
    BY <1>5 DEF StartFails, EndEmpty
  <2>2. HasName(claim[p]) /\ claim[p].run = r
        /\ file'[r] = [kind |-> "listed", stamp |-> claim[p].stamp]
    BY <1>0, <2>1, RelistedEffect
  <2> QED
    BY <2>1, <2>2 DEF ReturnedAt
<1>6. ASSUME NEW p \in Process, Settle(p) PROVE SettledAt(r)
  <2>1. Discarded(claim[p]) /\ Forget(p)
    BY <1>6 DEF Settle
  <2>2. HasName(claim[p]) /\ claim[p].run = r
    BY <1>0, <2>1, DiscardedEffect
  <2> QED
    BY <1>6, <2>1, <2>2 DEF SettledAt
<1>7. ASSUME NEW p \in Process, Save(p) PROVE Saving(r) \/ PrunedAt(r)
  BY <1>7, SaveEffect DEF Saving, PrunedAt
<1>8. CASE TimePasses /\ UNCHANGED <<lastRun, process>>
  BY <1>8 DEF TimePasses
<1> QED
  BY <1>1, <1>2, <1>3, <1>4, <1>5, <1>6, <1>7, <1>8 DEF Next, Step

LEMMA SharedEffect ==
  ASSUME TypeOK, [Next]_vars
  PROVE  /\ saved' = saved \/ \E p \in Process : Save(p)
         /\ clock \in Nat /\ clock' \in Nat /\ clock' >= clock
         /\ horizon \in Nat /\ horizon' \in Nat /\ horizon' >= horizon
<1>0. clock \in Nat /\ horizon \in Nat
  BY StoreAssumption DEF TypeOK, StoreTypeOK, Time
<1>1. CASE UNCHANGED vars
  BY <1>0, <1>1 DEF vars, store
<1>2. ASSUME NEW p \in Process, Ask(p) \/ Reclaim(p) \/ Look(p) \/ LoseClaim(p)
                \/ StartFails(p) \/ Begin(p) \/ EndEmpty(p) \/ EndNormally(p)
                \/ Settle(p) \/ Crash(p)
      PROVE  saved' = saved /\ clock' = clock /\ horizon' = horizon
  BY <1>2 DEF Ask, Reclaim, Look, LoseClaim, StartFails, Begin, EndEmpty, EndNormally,
              Settle, Crash, store
<1>3. ASSUME NEW p \in Process, TakeClaim(p)
      PROVE  saved' = saved /\ clock' = clock + 1 /\ horizon' = horizon
  BY <1>3 DEF TakeClaim, TakeFile
<1>4. ASSUME NEW p \in Process, Save(p)
      PROVE  clock' = clock + 1 /\ horizon' = horizon
  BY <1>4, SaveEffect
<1>5. CASE TimePasses /\ UNCHANGED <<lastRun, process>>
  BY <1>0, <1>5 DEF TimePasses
<1> QED
  BY <1>0, <1>1, <1>2, <1>3, <1>4, <1>5 DEF Next, Step

LEMMA TakeClaimEffect ==
  ASSUME TypeOK, NEW p \in Process, TakeClaim(p)
  PROVE  /\ target[p] \in Run /\ file[target[p]].kind = "listed"
         /\ file'[target[p]] = [kind |-> "claimed", stamp |-> clock]
         /\ claim'[p] = [run |-> target[p], stamp |-> clock]
         /\ claim'[p] \in Claim /\ clock' = clock + 1 /\ clock \in Nat
         /\ claim'[p].run = target[p] /\ claim'[p].stamp = clock
         /\ saved' = saved /\ from'[p] = saved[target[p]] /\ pc'[p] = "prepared"
         /\ \A q \in Process : q # p => claim'[q] = claim[q] /\ from'[q] = from[q]
<1>1. target[p] \in Run /\ TakeFile(target[p])
  BY DEF TakeClaim, TakeFile, Listed
<1>2. clock \in Time
  BY <1>1, TakeFileEffect
<1>3. claim'[p] = [run |-> target[p], stamp |-> clock] /\ from'[p] = saved[target[p]]
      /\ pc'[p] = "prepared"
      /\ \A q \in Process : q # p => claim'[q] = claim[q] /\ from'[q] = from[q]
  BY DEF TakeClaim, TypeOK, ProcessTypeOK
<1> QED
  BY <1>1, <1>2, <1>3, StoreAssumption, TakeFileEffect DEF Claim, Time

LEMMA NameEffect ==
  ASSUME NEW c, HasName(c)
  PROVE  /\ c \in Claim /\ file[c.run].kind = "claimed" /\ file[c.run].stamp = c.stamp
         /\ file[c.run] # NoFile
<1>1. c \in Claim /\ file[c.run] = [kind |-> "claimed", stamp |-> c.stamp]
  BY DEF HasName
<1> QED
  BY <1>1 DEF NoFile

LEMMA KindNone == NoFile.kind = "none" /\ Nothing.root = 0
BY DEF NoFile, Nothing

-----------------------------------------------------------------------------
(* The strengthening is inductive *)

LEMMA IInit == Init => IInv
BY InitType
DEF Init, StoreInit, IInv, StaleOld, ClaimsApart, LiveClaimStands, FileHasRoot,
    StartsFromClaim, SavedOnTop

LEMMA StaleOldStep ==
  ASSUME IInv, [Next]_vars
  PROVE  StaleOld'
<1>1. horizon \in Nat /\ horizon' \in Nat /\ horizon' >= horizon
  BY SharedEffect DEF IInv
<1>2. \A c \in Claim : c.stamp \in Nat
  BY StoreAssumption DEF Claim, Time
<1>3. SUFFICES ASSUME NEW q \in Process, NEW c \in stale'[q]
               PROVE  c \in Claim /\ c.stamp < horizon
  BY <1>1, <1>2 DEF StaleOld
<1>4. stale[q] \subseteq Claim /\ \A d \in stale[q] : d.stamp < horizon
  BY DEF IInv, TypeOK, ProcessTypeOK, StaleOld
<1>5. SUFFICES c \in stale[q] \/ c \in StaleClaims
  BY <1>4 DEF StaleClaims
<1>6. CASE UNCHANGED vars
  BY <1>6 DEF vars, process
<1>7. ASSUME NEW p \in Process, Look(p) \/ TakeClaim(p) \/ LoseClaim(p)
                \/ StartFails(p) \/ Begin(p) \/ EndEmpty(p) \/ EndNormally(p)
                \/ Save(p) \/ Settle(p)
      PROVE  stale' = stale
  BY <1>7 DEF Look, TakeClaim, LoseClaim, StartFails, Begin, EndEmpty, EndNormally,
              Save, Settle
<1>8. ASSUME NEW p \in Process, Ask(p) \/ Crash(p) \/ Reclaim(p)
      PROVE  c \in stale[q] \/ c \in StaleClaims
  BY <1>8 DEF Ask, Crash, Reclaim, IInv, TypeOK, ProcessTypeOK
<1>9. CASE TimePasses /\ UNCHANGED <<lastRun, process>>
  BY <1>9 DEF process
<1> QED
  BY <1>6, <1>7, <1>8, <1>9 DEF Next, Step

LEMMA ClaimsApartStep ==
  ASSUME IInv, [Next]_vars
  PROVE  ClaimsApart'
<1>1. TypeOK /\ clock \in Nat /\ clock' \in Nat /\ clock' >= clock
  BY SharedEffect DEF IInv
<1>2. \A p \in Process : claim[p] # NoClaim => claim[p].stamp \in Nat
  BY StoreAssumption DEF IInv, TypeOK, ProcessTypeOK, Claim, Time
<1>3. ASSUME NEW p \in Process, claim'[p] # NoClaim PROVE claim'[p].stamp < clock'
  <2>1. CASE TakeClaim(p)
    <3>1. claim'[p].stamp = clock /\ clock' = clock + 1
      BY <1>1, <2>1, TakeClaimEffect
    <3> QED
      BY <1>1, <3>1
  <2>2. CASE claim'[p] = claim[p]
    <3>1. claim[p].stamp \in Nat /\ claim[p].stamp < clock
      BY <1>2, <1>3, <2>2 DEF IInv, ClaimsApart
    <3>2. claim'[p].stamp = claim[p].stamp
      BY <2>2
    <3> QED
      BY <1>1, <3>1, <3>2
  <2> QED
    BY <1>1, <1>3, <2>1, <2>2, ClaimEffect
<1>4. ASSUME NEW p \in Process, NEW q \in Process, p # q,
             claim'[p] = claim'[q], claim'[p] # NoClaim
      PROVE  FALSE
  <2>1. CASE TakeClaim(p)
    <3>1. claim'[p].stamp = clock /\ claim'[q] = claim[q]
      BY <1>1, <1>4, <2>1, TakeClaimEffect
    <3>2. claim[q] # NoClaim /\ claim[q].stamp = clock
      BY <1>4, <3>1
    <3> QED
      BY <1>1, <1>2, <3>2 DEF IInv, ClaimsApart
  <2>2. CASE TakeClaim(q)
    <3>1. claim'[q].stamp = clock /\ claim'[p] = claim[p]
      BY <1>1, <1>4, <2>2, TakeClaimEffect
    <3>2. claim[p] # NoClaim /\ claim[p].stamp = clock
      BY <1>4, <3>1
    <3> QED
      BY <1>1, <1>2, <3>2 DEF IInv, ClaimsApart
  <2>3. CASE ~TakeClaim(p) /\ ~TakeClaim(q)
    BY <1>1, <1>4, <2>3, ClaimEffect DEF IInv, ClaimsApart
  <2> QED
    BY <2>1, <2>2, <2>3
<1> QED
  BY <1>3, <1>4 DEF ClaimsApart

LEMMA LiveClaimStep ==
  ASSUME IInv, [Next]_vars
  PROVE  LiveClaimStands'
<1>1. TypeOK /\ horizon \in Nat /\ horizon' \in Nat /\ horizon' >= horizon
  BY SharedEffect DEF IInv
<1>2. SUFFICES ASSUME NEW q \in Process, claim'[q] # NoClaim, claim'[q].stamp >= horizon'
               PROVE  claim'[q] \in Claim
                      /\ file'[claim'[q].run] = [kind |-> "claimed", stamp |-> claim'[q].stamp]
  BY DEF LiveClaimStands, HasName
<1>3. CASE TakeClaim(q)
  <2>1. claim'[q] \in Claim /\ claim'[q].run = target[q] /\ claim'[q].stamp = clock
        /\ file'[target[q]] = [kind |-> "claimed", stamp |-> clock]
    BY <1>1, <1>3, TakeClaimEffect
  <2> QED
    BY <2>1
<1>4. CASE claim'[q] = claim[q] /\ ~TakeClaim(q)
  <2> DEFINE c == claim[q]
  <2>1. c \in Claim /\ c # NoClaim /\ c.stamp \in Nat /\ c.run \in Run
    BY StoreAssumption, <1>1, <1>2, <1>4 DEF TypeOK, ProcessTypeOK, Claim, Time
  <2>2. c.stamp >= horizon
    BY <1>1, <1>2, <1>4, <2>1
  <2>3. HasName(c) /\ file[c.run] = [kind |-> "claimed", stamp |-> c.stamp]
    BY <2>1, <2>2 DEF IInv, LiveClaimStands, HasName
  <2>4. ASSUME file'[c.run] # file[c.run] PROVE FALSE
    <3>0. file[c.run].kind = "claimed" /\ file[c.run].stamp = c.stamp /\ file[c.run] # NoFile
      BY <2>3, NameEffect
    <3>1. ~Taken(c.run)
      BY <1>1, <3>0, TakeClaimEffect DEF Taken
    <3>2. ASSUME ReclaimedAt(c.run) PROVE FALSE
      <4>1. PICK p \in Process : \E d \in stale[p] : HasName(d) /\ d.run = c.run
        BY <3>2 DEF ReclaimedAt
      <4>2. PICK d \in stale[p] : HasName(d) /\ d.run = c.run
        BY <4>1
      <4>3. d.stamp = c.stamp /\ d.stamp < horizon
        BY <3>0, <4>2, NameEffect DEF IInv, StaleOld
      <4> QED
        BY <1>1, <2>1, <2>2, <4>3
    <3>3. ASSUME NEW p \in Process, HasName(claim[p]), claim[p].run = c.run PROVE p = q
      <4>1. claim[p] \in Claim /\ claim[p].stamp = c.stamp
        BY <2>3, <3>3 DEF HasName
      <4>2. claim[p] = c
        BY <2>1, <3>3, <4>1 DEF Claim
      <4> QED
        BY <2>1, <4>2 DEF IInv, ClaimsApart
    <3>4. ~ReturnedAt(c.run) /\ ~SettledAt(c.run)
      BY <1>1, <1>4, <2>1, <3>3, ForgetEffect DEF ReturnedAt, SettledAt
    <3>5. ~Saving(c.run)
      BY <1>1, <3>0, SaveEffect DEF Saving, NotSaved
    <3>6. ~PrunedAt(c.run)
      BY <3>0 DEF PrunedAt
    <3> QED
      BY <1>1, <2>1, <2>4, <3>1, <3>2, <3>4, <3>5, <3>6, FileEffect
  <2> QED
    BY <1>4, <2>1, <2>3, <2>4
<1> QED
  BY <1>1, <1>2, <1>3, <1>4, ClaimEffect

LEMMA FileHasRootStep ==
  ASSUME IInv, [Next]_vars
  PROVE  FileHasRoot'
<1>1. SUFFICES ASSUME NEW r \in Run, file'[r] # NoFile PROVE saved'[r].root # 0
  BY DEF FileHasRoot
<1>2. TypeOK /\ (file[r] # NoFile => saved[r].root # 0)
  BY DEF IInv, FileHasRoot
<1>3. CASE Saving(r)
  BY <1>2, <1>3, SaveEffect DEF Saving
<1>4. CASE ~Saving(r)
  <2>1. saved'[r] = saved[r]
    BY <1>2, <1>4, SaveEffect, SharedEffect DEF Saving
  <2>2. file[r] # NoFile
    <3>1. CASE file'[r] = file[r]
      BY <1>1, <3>1
    <3>2. CASE Taken(r)
      BY <1>2, <3>2, TakeClaimEffect, KindNone DEF Taken
    <3>3. CASE ReclaimedAt(r) \/ ReturnedAt(r) \/ SettledAt(r)
      BY <3>3, NameEffect DEF ReclaimedAt, ReturnedAt, SettledAt
    <3>4. CASE PrunedAt(r)
      BY <1>1, <3>4 DEF PrunedAt
    <3> QED
      BY <1>2, <1>4, <3>1, <3>2, <3>3, <3>4, FileEffect
  <2> QED
    BY <1>2, <2>1, <2>2
<1> QED
  BY <1>3, <1>4

\* What a claim was taken of is not written again.
LEMMA ClaimedContent ==
  ASSUME IInv, [Next]_vars, NEW q \in Process, claim[q] # NoClaim
  PROVE  claim[q].run \in Run /\ saved'[claim[q].run] = saved[claim[q].run]
<1>1. claim[q].run \in Run /\ TypeOK
  BY DEF IInv, TypeOK, ProcessTypeOK, Claim
<1>2. ASSUME NEW p \in Process, Save(p) PROVE run[p] # claim[q].run
  BY <1>1, <1>2, SaveEffect DEF IInv, StartsFromClaim, NotSaved, Nothing
<1> QED
  BY <1>1, <1>2, SaveEffect, SharedEffect

LEMMA StartsFromClaimStep ==
  ASSUME IInv, [Next]_vars
  PROVE  StartsFromClaim'
<1>1. SUFFICES ASSUME NEW q \in Process, claim'[q] # NoClaim
               PROVE  from'[q] = saved'[claim'[q].run] /\ from'[q].root # 0
  BY DEF StartsFromClaim
<1>2. CASE TakeClaim(q)
  <2>1. file[target[q]].kind = "listed" /\ target[q] \in Run
        /\ from'[q] = saved[target[q]] /\ saved' = saved /\ claim'[q].run = target[q]
    BY <1>2, TakeClaimEffect DEF IInv
  <2> QED
    BY <2>1, KindNone DEF IInv, FileHasRoot
<1>3. CASE claim'[q] = claim[q] /\ from'[q] = from[q]
  BY <1>1, <1>3, ClaimedContent DEF IInv, StartsFromClaim
<1> QED
  BY <1>1, <1>2, <1>3, ClaimEffect DEF IInv

LEMMA SavedOnTopStep ==
  ASSUME IInv, [Next]_vars
  PROVE  SavedOnTop'
<1>1. SUFFICES ASSUME NEW q \in Process, claim'[q] # NoClaim, pc'[q] = "saved"
               PROVE  Covers(saved'[run'[q]], saved'[claim'[q].run])
  BY DEF SavedOnTop
<1>2. TypeOK /\ ~TakeClaim(q)
  BY <1>1, TakeClaimEffect DEF IInv
<1>3. claim'[q] = claim[q] /\ claim[q] # NoClaim
  BY <1>1, <1>2, ClaimEffect
<1>4. saved'[claim[q].run] = saved[claim[q].run]
  BY <1>3, ClaimedContent
<1>5. CASE Save(q)
  <2>1. run'[q] = run[q]
    BY <1>5 DEF Save
  <2>2. from[q] = saved[claim[q].run] /\ from[q].root # 0
    BY <1>3 DEF IInv, StartsFromClaim
  <2> QED
    BY <1>2, <1>3, <1>4, <1>5, <2>1, <2>2, SaveEffect
<1>6. CASE ~Save(q)
  <2>1. pc[q] = "saved" /\ run'[q] = run[q]
    BY <1>1, <1>2, <1>3, <1>6 DEF Next, Step, vars, process, Ask, Reclaim, Look,
       TakeClaim, LoseClaim, StartFails, Begin, EndEmpty, EndNormally, Save, Settle,
       Crash, Forget, TypeOK, ProcessTypeOK
  <2>2. run[q] \in Run
    <3>1. run[q] # 0 /\ run[q] \in 0..lastRun /\ lastRun \in 0..MaxRuns
      BY <2>1 DEF IInv, TypeOK, ProcessTypeOK
    <3> QED
      BY <3>1, StoreAssumption DEF Run
  <2>3. ASSUME NEW p \in Process, Save(p) PROVE run[p] # run[q]
    BY <1>2, <1>6, <2>1, <2>3 DEF Save, TypeOK, ProcessTypeOK, RunsApart
  <2>4. saved'[run[q]] = saved[run[q]]
    BY <1>2, <2>2, <2>3, SaveEffect, SharedEffect
  <2> QED
    BY <1>3, <1>4, <2>1, <2>4 DEF IInv, SavedOnTop
<1> QED
  BY <1>5, <1>6

LEMMA IStep == IInv /\ [Next]_vars => IInv'
<1> SUFFICES ASSUME IInv, [Next]_vars PROVE IInv'
  OBVIOUS
<1>1. TypeOK'
  BY StepType DEF IInv
<1> QED
  BY <1>1, StaleOldStep, ClaimsApartStep, LiveClaimStep, FileHasRootStep,
     StartsFromClaimStep, SavedOnTopStep DEF IInv

-----------------------------------------------------------------------------

\* A claim stands as long as its process lives and the timeout has not passed:
\* times make the names of claims different, so what is done by name to one
\* never touches another.
THEOREM ClaimStands == Spec => []LiveClaimStands
<1>1. IInv => LiveClaimStands
  BY DEF IInv
<1> QED
  BY IInit, IStep, <1>1, PTL DEF Spec

\* Only pruning and settling remove a checkpoint, and what is settled is
\* finished or in the checkpoint of the run that started from it.
KeptHere ==
  \A r \in Run : file[r] # NoFile /\ file'[r] = NoFile =>
    \/ Crowded(r) /\ saved' # saved
    \/ \E p \in Process :
         /\ claim[p].run = r
         /\ \/ pc[p] = "finished"
            \/ pc[p] = "saved" /\ Covers(saved[run[p]], saved[r])

LEMMA KeptStep == IInv /\ [Next]_vars => KeptHere
<1> SUFFICES ASSUME IInv, [Next]_vars, NEW r \in Run, file[r] # NoFile, file'[r] = NoFile
             PROVE  \/ Crowded(r) /\ saved' # saved
                    \/ \E p \in Process :
                         /\ claim[p].run = r
                         /\ \/ pc[p] = "finished"
                            \/ pc[p] = "saved" /\ Covers(saved[run[p]], saved[r])
  BY DEF KeptHere
<1>0. TypeOK
  BY DEF IInv
<1>1. ~Taken(r)
  <2>1. ASSUME NEW p \in Process, TakeClaim(p), target[p] = r PROVE FALSE
    <3>1. file'[r] = [kind |-> "claimed", stamp |-> clock]
      BY <1>0, <2>1, TakeClaimEffect
    <3> QED
      BY <3>1 DEF NoFile
  <2> QED
    BY <2>1 DEF Taken
<1>2. ~ReclaimedAt(r) /\ ~ReturnedAt(r)
  BY KindNone DEF ReclaimedAt, ReturnedAt
<1>3. ASSUME SettledAt(r)
      PROVE  \E p \in Process :
               /\ claim[p].run = r
               /\ \/ pc[p] = "finished"
                  \/ pc[p] = "saved" /\ Covers(saved[run[p]], saved[r])
  <2>1. PICK p \in Process : Settle(p) /\ HasName(claim[p]) /\ claim[p].run = r
    BY <1>3 DEF SettledAt
  <2>2. claim[p] # NoClaim /\ pc[p] \in {"saved", "finished"}
    BY <2>1, Blank DEF Settle, HasName
  <2> QED
    BY <2>1, <2>2 DEF IInv, SavedOnTop
<1>4. ~Saving(r)
  BY <1>0, SaveEffect DEF Saving, NotSaved
<1>5. ASSUME PrunedAt(r) PROVE Crowded(r) /\ saved' # saved
  BY <1>0, <1>5, SaveEffect DEF PrunedAt, NotSaved, Nothing
<1> QED
  BY <1>0, <1>1, <1>2, <1>3, <1>4, <1>5, FileEffect

\* Nothing recoverable is lost.
THEOREM NothingLost == Spec => ProgressKept
<1>1. KeptHere => [\A r \in Run : file[r] # NoFile /\ file'[r] = NoFile =>
       \/ Crowded(r) /\ saved' # saved
       \/ \E p \in Process :
            /\ claim[p].run = r
            /\ \/ pc[p] = "finished"
               \/ pc[p] = "saved" /\ Covers(saved[run[p]], saved[r])]_vars
  BY DEF KeptHere
<1> QED
  BY IInit, IStep, KeptStep, <1>1, PTL DEF Spec, ProgressKept
=============================================================================
