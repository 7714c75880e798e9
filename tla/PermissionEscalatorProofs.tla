--------------------- MODULE PermissionEscalatorProofs ---------------------
(***************************************************************************)
(* Proofs about PermissionEscalator, for any requests, tools and sections. *)
(***************************************************************************)
EXTENDS PermissionEscalator, TLAPS

-----------------------------------------------------------------------------
(* Type correctness *)

LEMMA InitType == Init => TypeOK
BY CallsAssumption DEF Init, TypeOK, Verdict

LEMMA KeyType ==
  ASSUME TypeOK, NEW r \in Request
  PROVE  /\ Key(r) \in Section \X Tool /\ call[r].tool \in Tool
         /\ Key(r)[1] = call[r].section /\ Key(r)[2] = call[r].tool
         /\ call[r].localOnly \in BOOLEAN /\ call[r].forceReprompt \in BOOLEAN
BY CallsAssumption DEF TypeOK, Key

LEMMA CachedType ==
  ASSUME TypeOK, NEW r \in Request
  PROVE  Cached(r) \in Verdict \cup {"unset"}
BY KeyType DEF Cached, TypeOK

\* Where a request goes next: to a tier, to the person, or nowhere.
LEMMA AskUserType ==
  ASSUME TypeOK, NEW r \in Request, pc[r] # "user", AskUser(r)
  PROVE  /\ pc' \in [Request -> {"idle", "T2", "T1", "user", "decided", "over"}]
         /\ verdict' \in [Request -> Verdict \cup {"unset"}]
         /\ pending' = {q \in Request : pc'[q] = "user"}
         /\ asked' \subseteq Request
         /\ verdict'[r] = "approve" => pc'[r] # "decided"
         /\ pc'[r] \in {"user", "decided"}
         /\ \A q \in Request \ {r} : pc'[q] = pc[q] /\ verdict'[q] = verdict[q]
         /\ pc'[r] = "user" => r \notin gone
BY DEF TypeOK, AskUser, Decide, Verdict

LEMMA GoesType ==
  ASSUME TypeOK, NEW r \in Request, NEW tier \in {"T1", "T2"},
         pc[r] # "user", Goes(r, tier)
  PROVE  /\ pc' \in [Request -> {"idle", "T2", "T1", "user", "decided", "over"}]
         /\ verdict' = verdict /\ asked' = asked
         /\ pending' = {q \in Request : pc'[q] = "user"}
         /\ pc'[r] = tier
         /\ \A q \in Request \ {r} : pc'[q] = pc[q]
BY DEF TypeOK, Goes

\* What the two ways of passing a request on have in common.
PassedOn(r) ==
  /\ pc' \in [Request -> {"idle", "T2", "T1", "user", "decided", "over"}]
  /\ verdict' \in [Request -> Verdict \cup {"unset"}]
  /\ pending' = {q \in Request : pc'[q] = "user"}
  /\ asked' \subseteq Request
  /\ pc'[r] \in {"T2", "T1", "user", "decided"}
  /\ pc'[r] = "decided" => verdict'[r] # "approve"
  /\ pc'[r] \in {"T2", "T1"} => ~call[r].localOnly
  /\ pc'[r] = "user" => r \notin gone
  /\ \A q \in Request \ {r} : pc'[q] = pc[q] /\ verdict'[q] = verdict[q]

LEMMA AskT1PassesOn ==
  ASSUME TypeOK, NEW r \in Request, pc[r] # "user", AskT1(r)
  PROVE  PassedOn(r)
<1>1. CASE MayEvaluate(r, "T1")
  <2>1. Goes(r, "T1")
    BY <1>1 DEF AskT1
  <2> QED
    BY <1>1, <2>1, GoesType DEF PassedOn, MayEvaluate, TypeOK
<1>2. CASE ~MayEvaluate(r, "T1")
  <2>1. AskUser(r)
    BY <1>2 DEF AskT1
  <2> QED
    BY <2>1, AskUserType DEF PassedOn
<1> QED
  BY <1>1, <1>2

LEMMA AskT2PassesOn ==
  ASSUME TypeOK, NEW r \in Request, pc[r] # "user", AskT2(r)
  PROVE  PassedOn(r)
<1>1. CASE MayEvaluate(r, "T2")
  <2>1. Goes(r, "T2")
    BY <1>1 DEF AskT2
  <2> QED
    BY <1>1, <2>1, GoesType DEF PassedOn, MayEvaluate, TypeOK
<1>2. CASE ~MayEvaluate(r, "T2")
  BY <1>2, AskT1PassesOn DEF AskT2
<1> QED
  BY <1>1, <1>2

\* A decision for one request that is not parked.
LEMMA DecideType ==
  ASSUME TypeOK, NEW r \in Request, NEW v \in Verdict, Decide(r, v),
         pc[r] # "user"
  PROVE  /\ pc' \in [Request -> {"idle", "T2", "T1", "user", "decided", "over"}]
         /\ verdict' \in [Request -> Verdict \cup {"unset"}]
         /\ pc'[r] = "decided" /\ verdict'[r] = v
         /\ \A q \in Request \ {r} : pc'[q] = pc[q] /\ verdict'[q] = verdict[q]
         /\ pending = {q \in Request : pc'[q] = "user"}
BY DEF TypeOK, Decide

LEMMA UnparkType ==
  ASSUME TypeOK, NEW R, R \subseteq pending, Unpark(R)
  PROVE  /\ pc' \in [Request -> {"idle", "T2", "T1", "user", "decided", "over"}]
         /\ verdict' \in [Request -> Verdict \cup {"unset"}]
         /\ pending' = {q \in Request : pc'[q] = "user"}
         /\ pending' = pending \ R
         /\ \A q \in R : pc'[q] = "decided" /\ verdict'[q] = "refuse"
         /\ \A q \in Request \ R : pc'[q] = pc[q] /\ verdict'[q] = verdict[q]
BY DEF TypeOK, Unpark, Verdict

-----------------------------------------------------------------------------
(* The inductive invariant *)

\* What is in the cache of the task a person said, for good.
TaskCacheIsThePersons ==
  \A t \in Tool : taskWideCache[t] = "approve" =>
    \E d \in said : /\ d.by = "person" /\ d.verdict = "approve" /\ d.always
                    /\ call[d.for].tool = t

\* An approval in the cache of a section comes from the rule, or from T2 for
\* that section; and then it is marked.
SectionCacheIsMarked ==
  \A k \in Section \X Tool : sessionCache[k] = "approve" =>
    \/ k[2] \in Safe \ Dangerous
    \/ /\ k \in modelDecided /\ k[2] \notin Dangerous
       /\ \E d \in said : /\ d.by = "T2" /\ d.verdict = "approve" /\ d.always
                          /\ Key(d.for) = k

\* An approval in hand has its mandate already.
ApprovalsInHand ==
  \A r \in Request :
    pc[r] \in {"decided", "over"} /\ verdict[r] = "approve" => Mandated(r)

\* No tier is asked about a local-only caller.
TiersSeeNothingLocal ==
  \A r \in Request : pc[r] \in {"T2", "T1"} => ~call[r].localOnly

\* Who is parked is still there.
ParkedIsThere == pending \cap gone = {}

IInv ==
  /\ TypeOK /\ TaskCacheIsThePersons /\ SectionCacheIsMarked
  /\ ApprovalsInHand /\ TiersSeeNothingLocal /\ ParkedIsThere

LEMMA InitIInv == Init => IInv
<1> SUFFICES ASSUME Init PROVE IInv
  OBVIOUS
<1>1. TypeOK
  BY InitType
<1> QED
  BY <1>1
  DEF Init, IInv, TaskCacheIsThePersons, SectionCacheIsMarked, ApprovalsInHand,
      TiersSeeNothingLocal, ParkedIsThere

\* Requests, the mode and what has been said only grow.
HistoryKept == config' = config /\ said \subseteq said'

LEMMA MandateKept ==
  ASSUME HistoryKept, NEW r \in Request, Mandated(r)
  PROVE  Mandated(r)'
<1>1. call' = call /\ autonomous' = autonomous /\ said \subseteq said'
  BY DEF HistoryKept, config
<1>2. ByPerson(r) => ByPerson(r)'
  BY <1>1 DEF ByPerson, SpeaksFor
<1>3. ByModel(r) => ByModel(r)'
  BY <1>1 DEF ByModel, SpeaksFor
<1>4. IsDangerous(r)' = IsDangerous(r) /\ IsSafe(r)' = IsSafe(r)
  BY <1>1 DEF IsDangerous, IsSafe
<1> QED
  BY <1>1, <1>2, <1>3, <1>4 DEF Mandated

LEMMA CachesKept ==
  ASSUME HistoryKept, UNCHANGED caches
  PROVE  /\ TaskCacheIsThePersons => TaskCacheIsThePersons'
         /\ SectionCacheIsMarked => SectionCacheIsMarked'
<1>1. call' = call /\ said \subseteq said'
  BY DEF HistoryKept, config
<1>2. UNCHANGED <<taskWideCache, sessionCache, modelDecided>>
  BY DEF caches
<1>3. \A d : Key(d.for)' = Key(d.for)
  BY <1>1 DEF Key
<1>4. TaskCacheIsThePersons => TaskCacheIsThePersons'
  BY <1>1, <1>2 DEF TaskCacheIsThePersons
<1>5. SectionCacheIsMarked => SectionCacheIsMarked'
  BY <1>1, <1>2, <1>3 DEF SectionCacheIsMarked
<1> QED
  BY <1>4, <1>5

\* An approval found in a cache has its mandate.
LEMMA CachedIsMandated ==
  ASSUME IInv, NEW r \in Request, Cached(r) = "approve"
  PROVE  Mandated(r)
<1>1. TypeOK /\ TaskCacheIsThePersons /\ SectionCacheIsMarked
  BY DEF IInv
<1>2. /\ Key(r) \in Section \X Tool /\ call[r].tool \in Tool
      /\ Key(r)[2] = call[r].tool
  BY <1>1, KeyType
<1>3. ~call[r].forceReprompt
  BY DEF Cached
<1>4. CASE taskWideCache[call[r].tool] = "approve"
  <2>1. PICK d \in said : /\ d.by = "person" /\ d.verdict = "approve"
                          /\ d.always /\ call[d.for].tool = call[r].tool
    BY <1>1, <1>2, <1>4 DEF TaskCacheIsThePersons
  <2> QED
    BY <1>3, <2>1 DEF Mandated, ByPerson, SpeaksFor
<1>5. CASE sessionCache[Key(r)] = "approve" /\ Stands(r)
  <2>1. CASE Key(r)[2] \in Safe \ Dangerous
    BY <1>2, <2>1 DEF Mandated, IsDangerous, IsSafe
  <2>2. CASE /\ Key(r) \in modelDecided /\ Key(r)[2] \notin Dangerous
             /\ \E d \in said : /\ d.by = "T2" /\ d.verdict = "approve"
                                /\ d.always /\ Key(d.for) = Key(r)
    <3>1. ~call[r].localOnly
      BY <1>5, <2>2 DEF Stands
    <3>2. PICK d \in said : /\ d.by = "T2" /\ d.verdict = "approve"
                            /\ d.always /\ Key(d.for) = Key(r)
      BY <2>2
    <3>3. /\ call[d.for].tool = call[r].tool
          /\ call[d.for].section = call[r].section
      BY <3>2 DEF Key
    <3> QED
      BY <1>2, <1>3, <2>2, <3>1, <3>2, <3>3
      DEF Mandated, ByModel, SpeaksFor, IsDangerous
  <2> QED
    BY <1>1, <1>2, <1>5, <2>1, <2>2 DEF SectionCacheIsMarked
<1> QED
  BY <1>4, <1>5 DEF Cached

-----------------------------------------------------------------------------
(* Every step keeps the invariant *)

\* One request moves and no cache does: what is left to show is that the
\* request is well off where it is now.
LEMMA OneMoves ==
  ASSUME IInv, TypeOK', HistoryKept, UNCHANGED caches, UNCHANGED gone,
         NEW r \in Request,
         \A q \in Request \ {r} : pc'[q] = pc[q] /\ verdict'[q] = verdict[q],
         pc'[r] \in {"decided", "over"} /\ verdict'[r] = "approve"
           => Mandated(r)',
         pc'[r] \in {"T2", "T1"} => ~call[r].localOnly,
         pc'[r] = "user" => r \notin gone
  PROVE  IInv'
<1>1. TaskCacheIsThePersons' /\ SectionCacheIsMarked'
  BY CachesKept DEF IInv
<1>2. call' = call
  BY DEF HistoryKept, config
<1>3. ApprovalsInHand'
  BY MandateKept DEF IInv, ApprovalsInHand
<1>4. TiersSeeNothingLocal'
  BY <1>2 DEF IInv, TiersSeeNothingLocal
<1>5. ParkedIsThere'
  BY DEF IInv, TypeOK, ParkedIsThere
<1> QED
  BY <1>1, <1>3, <1>4, <1>5 DEF IInv

LEMMA RequestKeeps ==
  ASSUME IInv, NEW r \in Request, RequestPermission(r)
  PROVE  IInv'
<1>1. TypeOK /\ pc[r] = "idle" /\ HistoryKept
  BY DEF IInv, RequestPermission, HistoryKept
<1>2. UNCHANGED <<config, gone, answers, running, said>>
  BY DEF RequestPermission
<1>3. CASE AlreadyGone(r)
  <2>1. /\ pc' \in [Request -> {"idle", "T2", "T1", "user", "decided", "over"}]
        /\ verdict' \in [Request -> Verdict \cup {"unset"}]
        /\ pc'[r] = "decided" /\ verdict'[r] = "refuse"
        /\ \A q \in Request \ {r} : pc'[q] = pc[q] /\ verdict'[q] = verdict[q]
        /\ pending = {q \in Request : pc'[q] = "user"}
    BY <1>1, <1>3, DecideType DEF AlreadyGone, Verdict
  <2>2. UNCHANGED <<pending, caches, asked>>
    BY <1>3 DEF AlreadyGone
  <2>3. TypeOK'
    BY <1>1, <1>2, <2>1, <2>2 DEF TypeOK, config, caches
  <2> QED
    BY <1>1, <1>2, <2>1, <2>2, <2>3, OneMoves
<1>4. CASE FromCache(r)
  <2>1. Cached(r) \in Verdict
    BY <1>1, <1>4, CachedType DEF FromCache
  <2>2. /\ pc' \in [Request -> {"idle", "T2", "T1", "user", "decided", "over"}]
        /\ verdict' \in [Request -> Verdict \cup {"unset"}]
        /\ pc'[r] = "decided" /\ verdict'[r] = Cached(r)
        /\ \A q \in Request \ {r} : pc'[q] = pc[q] /\ verdict'[q] = verdict[q]
        /\ pending = {q \in Request : pc'[q] = "user"}
    BY <1>1, <1>4, <2>1, DecideType DEF FromCache
  <2>3. UNCHANGED <<pending, caches, asked>>
    BY <1>4 DEF FromCache
  <2>4. TypeOK'
    BY <1>1, <1>2, <2>2, <2>3 DEF TypeOK, config, caches
  <2>5. verdict'[r] = "approve" => Mandated(r)'
    BY <1>1, <2>2, CachedIsMandated, MandateKept
  <2> QED
    BY <1>1, <1>2, <2>2, <2>3, <2>4, <2>5, OneMoves
<1>5. CASE ByRule(r)
  <2>1. /\ pc' \in [Request -> {"idle", "T2", "T1", "user", "decided", "over"}]
        /\ verdict' \in [Request -> Verdict \cup {"unset"}]
        /\ pc'[r] = "decided"
        /\ \A q \in Request \ {r} : pc'[q] = pc[q] /\ verdict'[q] = verdict[q]
        /\ pending = {q \in Request : pc'[q] = "user"}
    BY <1>1, <1>5, DecideType DEF ByRule, Verdict
  <2>2. /\ UNCHANGED <<pending, taskWideCache, modelDecided, asked>>
        /\ sessionCache' = [sessionCache EXCEPT ![Key(r)] = "approve"]
        /\ Key(r) \in Section \X Tool /\ Key(r)[2] \in Safe \ Dangerous
    BY <1>1, <1>5, KeyType DEF ByRule, IsSafe, IsDangerous
  <2>3. TypeOK'
    BY <1>1, <1>2, <2>1, <2>2 DEF TypeOK, config, Verdict
  <2>4. call' = call /\ said' = said /\ \A d : Key(d.for)' = Key(d.for)
    BY <1>2 DEF config, Key
  <2>5. TaskCacheIsThePersons'
    BY <2>2, <2>4 DEF IInv, TaskCacheIsThePersons
  <2>6. SectionCacheIsMarked'
    BY <1>1, <2>2, <2>4 DEF IInv, TypeOK, SectionCacheIsMarked
  <2>7. Mandated(r)'
    BY <1>1, <1>5, MandateKept DEF ByRule, Mandated, IsSafe
  <2>8. ApprovalsInHand'
    BY <1>1, <2>1, <2>7, MandateKept DEF IInv, ApprovalsInHand
  <2>9. TiersSeeNothingLocal' /\ ParkedIsThere'
    BY <1>2, <2>1, <2>2, <2>4 DEF IInv, TiersSeeNothingLocal, ParkedIsThere
  <2> QED
    BY <2>3, <2>5, <2>6, <2>8, <2>9 DEF IInv
<1>6. CASE ByMode(r)
  <2>1. /\ pc' \in [Request -> {"idle", "T2", "T1", "user", "decided", "over"}]
        /\ verdict' \in [Request -> Verdict \cup {"unset"}]
        /\ pc'[r] = "decided"
        /\ \A q \in Request \ {r} : pc'[q] = pc[q] /\ verdict'[q] = verdict[q]
        /\ pending = {q \in Request : pc'[q] = "user"}
    BY <1>1, <1>6, DecideType DEF ByMode, Verdict
  <2>2. UNCHANGED <<pending, caches, asked>>
    BY <1>6 DEF ByMode
  <2>3. TypeOK'
    BY <1>1, <1>2, <2>1, <2>2 DEF TypeOK, config, caches
  <2>4. Mandated(r)'
    BY <1>1, <1>6, MandateKept DEF ByMode, Mandated
  <2> QED
    BY <1>1, <1>2, <2>1, <2>2, <2>3, <2>4, OneMoves
<1>7. CASE Escalated(r)
  <2>1. PassedOn(r)
    BY <1>1, <1>7, AskT2PassesOn DEF Escalated
  <2>2. UNCHANGED caches
    BY <1>7 DEF Escalated
  <2>3. TypeOK'
    BY <1>1, <1>2, <2>1, <2>2 DEF TypeOK, PassedOn, config, caches
  <2> QED
    BY <1>1, <1>2, <2>1, <2>2, <2>3, OneMoves DEF PassedOn
<1> QED
  BY <1>3, <1>4, <1>5, <1>6, <1>7 DEF RequestPermission

LEMMA TooLateKeeps ==
  ASSUME IInv, NEW r \in Request, pc[r] \in {"T2", "T1"}, TooLate(r),
         UNCHANGED <<config, gone, answers, running>>
  PROVE  IInv'
<1>1. TypeOK /\ HistoryKept
  BY DEF IInv, TooLate, HistoryKept
<1>2. /\ pc' \in [Request -> {"idle", "T2", "T1", "user", "decided", "over"}]
      /\ verdict' \in [Request -> Verdict \cup {"unset"}]
      /\ pc'[r] = "decided" /\ verdict'[r] = "refuse"
      /\ \A q \in Request \ {r} : pc'[q] = pc[q] /\ verdict'[q] = verdict[q]
      /\ pending = {q \in Request : pc'[q] = "user"}
  BY <1>1, DecideType DEF TooLate, Verdict
<1>3. UNCHANGED <<pending, caches, asked, said>>
  BY DEF TooLate
<1>4. TypeOK'
  BY <1>1, <1>2, <1>3 DEF TypeOK, config, caches
<1> QED
  BY <1>1, <1>2, <1>3, <1>4, OneMoves

LEMMA T2Keeps ==
  ASSUME IInv, NEW r \in Request, T2Evaluates(r)
  PROVE  IInv'
<1>1. TypeOK /\ pc[r] = "T2" /\ UNCHANGED <<config, gone, answers, running>>
  BY DEF IInv, T2Evaluates
<1>2. CASE T2Approves(r)
  <2> DEFINE d == [by |-> "T2", for |-> r, verdict |-> "approve",
                   always |-> TRUE]
  <2>1. /\ pc' \in [Request -> {"idle", "T2", "T1", "user", "decided", "over"}]
        /\ verdict' \in [Request -> Verdict \cup {"unset"}]
        /\ pc'[r] = "decided"
        /\ \A q \in Request \ {r} : pc'[q] = pc[q] /\ verdict'[q] = verdict[q]
        /\ pending = {q \in Request : pc'[q] = "user"}
    BY <1>1, <1>2, DecideType DEF T2Approves, Verdict
  <2>2. /\ UNCHANGED <<pending, taskWideCache, asked>>
        /\ sessionCache' = [sessionCache EXCEPT ![Key(r)] = "approve"]
        /\ modelDecided' = modelDecided \cup {Key(r)}
        /\ said' = said \cup {d}
        /\ Key(r) \in Section \X Tool /\ Key(r)[2] \notin Dangerous
        /\ ~IsDangerous(r)
    BY <1>1, <1>2, KeyType DEF T2Approves, IsDangerous, MarkedByModel
  <2>3. /\ d \in [by : {"person", "T2"}, for : Request, verdict : Verdict,
                   always : BOOLEAN]
        /\ d.by = "T2" /\ d.for = r /\ d.verdict = "approve" /\ d.always
    BY DEF Verdict
  <2> HIDE DEF d
  <2>4. said' \subseteq [by : {"person", "T2"}, for : Request,
                          verdict : Verdict, always : BOOLEAN]
    BY <1>1, <2>2, <2>3 DEF TypeOK
  <2>5. /\ sessionCache' \in [Section \X Tool -> Verdict \cup {"unset"}]
        /\ modelDecided' \subseteq Section \X Tool
    BY <1>1, <2>2 DEF TypeOK, Verdict
  <2>6. TypeOK'
    BY <1>1, <2>1, <2>2, <2>4, <2>5 DEF TypeOK, config
  <2>7. call' = call /\ HistoryKept /\ \A e : Key(e.for)' = Key(e.for)
    BY <1>1, <2>2 DEF config, Key, HistoryKept
  <2>8. TaskCacheIsThePersons'
    BY <2>2, <2>7 DEF IInv, TaskCacheIsThePersons
  <2>9. SectionCacheIsMarked'
    <3> SUFFICES ASSUME NEW k \in Section \X Tool, sessionCache'[k] = "approve"
                 PROVE  \/ k[2] \in Safe \ Dangerous
                        \/ /\ k \in modelDecided' /\ k[2] \notin Dangerous
                           /\ \E e \in said' :
                                /\ e.by = "T2" /\ e.verdict = "approve"
                                /\ e.always /\ Key(e.for)' = k
      BY DEF SectionCacheIsMarked
    <3>1. CASE k = Key(r)
      <4>1. d \in said' /\ d.by = "T2" /\ d.verdict = "approve" /\ d.always
            /\ Key(d.for)' = k
        BY <2>2, <2>7, <2>3, <3>1
      <4> QED
        BY <2>2, <3>1, <4>1
    <3>2. CASE k # Key(r)
      <4>1. sessionCache[k] = "approve"
        BY <1>1, <2>2, <3>2 DEF TypeOK
      <4> QED
        BY <2>2, <2>7, <4>1 DEF IInv, SectionCacheIsMarked
    <3> QED
      BY <3>1, <3>2
  <2>10. Mandated(r)'
    <3>1. ~call[r].localOnly
      BY <1>1 DEF IInv, TiersSeeNothingLocal
    <3>2. d \in said' /\ d.by = "T2" /\ d.verdict = "approve" /\ d.for = r
      BY <2>2, <2>3
    <3>3. ByModel(r)'
      BY <2>7, <3>1, <3>2 DEF ByModel, SpeaksFor
    <3> QED
      BY <2>2, <2>7, <3>3 DEF Mandated, IsDangerous
  <2>11. ApprovalsInHand'
    BY <2>1, <2>7, <2>10, MandateKept DEF IInv, ApprovalsInHand
  <2>12. TiersSeeNothingLocal' /\ ParkedIsThere'
    BY <1>1, <2>1, <2>2, <2>7 DEF IInv, TiersSeeNothingLocal, ParkedIsThere
  <2> QED
    BY <2>6, <2>8, <2>9, <2>11, <2>12 DEF IInv
<1>3. CASE T2Passes(r)
  <2>1. PassedOn(r) /\ UNCHANGED <<caches, said>> /\ HistoryKept
    BY <1>1, <1>3, AskT1PassesOn DEF T2Passes, HistoryKept
  <2>2. TypeOK'
    BY <1>1, <2>1 DEF TypeOK, PassedOn, config, caches
  <2> QED
    BY <1>1, <2>1, <2>2, OneMoves DEF PassedOn
<1>4. CASE TooLate(r)
  BY <1>1, <1>4, TooLateKeeps
<1> QED
  BY <1>2, <1>3, <1>4 DEF T2Evaluates

LEMMA T1Keeps ==
  ASSUME IInv, NEW r \in Request, T1Evaluates(r)
  PROVE  IInv'
<1>1. TypeOK /\ pc[r] = "T1" /\ UNCHANGED <<config, gone, answers, running>>
  BY DEF IInv, T1Evaluates
<1>2. CASE T1Passes(r)
  <2>1. PassedOn(r) /\ UNCHANGED <<caches, said>> /\ HistoryKept
    BY <1>1, <1>2, AskUserType DEF T1Passes, PassedOn, HistoryKept
  <2>2. TypeOK'
    BY <1>1, <2>1 DEF TypeOK, PassedOn, config, caches
  <2> QED
    BY <1>1, <2>1, <2>2, OneMoves DEF PassedOn
<1>3. CASE TooLate(r)
  BY <1>1, <1>3, TooLateKeeps
<1> QED
  BY <1>2, <1>3 DEF T1Evaluates

LEMMA ResolveKeeps ==
  ASSUME IInv, NEW a \in answers, ResolveUserDecision(a)
  PROVE  IInv'
<1>1. /\ TypeOK /\ a.for \in Request /\ a.verdict \in Verdict
      /\ a.always \in BOOLEAN
      /\ UNCHANGED <<config, gone, sessionCache, modelDecided, asked, running>>
      /\ answers' \subseteq answers
  BY DEF IInv, TypeOK, ResolveUserDecision
<1>2. CASE a.for \notin pending
  <2>1. UNCHANGED <<pending, pc, verdict, taskWideCache, said>>
    BY <1>2 DEF ResolveUserDecision
  <2>2. TypeOK' /\ HistoryKept /\ UNCHANGED caches
    BY <1>1, <2>1 DEF TypeOK, HistoryKept, config, caches
  <2>3. /\ ApprovalsInHand' /\ TiersSeeNothingLocal' /\ ParkedIsThere'
    BY <1>1, <2>1, <2>2, MandateKept
    DEF IInv, ApprovalsInHand, TiersSeeNothingLocal, ParkedIsThere, config
  <2> QED
    BY <2>2, <2>3, CachesKept DEF IInv
<1>3. CASE a.for \in pending
  <2> DEFINE r == a.for
             d == [by |-> "person", for |-> r, verdict |-> a.verdict,
                   always |-> a.always]
  <2>1. /\ pending' = pending \ {r} /\ said' = said \cup {d}
        /\ Decide(r, a.verdict)
        /\ taskWideCache' = IF a.always
                            THEN [taskWideCache EXCEPT
                                    ![call[r].tool] = a.verdict]
                            ELSE taskWideCache
    BY <1>3 DEF ResolveUserDecision
  <2>2. d \in [by : {"person", "T2"}, for : Request, verdict : Verdict,
               always : BOOLEAN]
    BY <1>1
  <2>3. /\ d.by = "person" /\ d.for = r /\ d.verdict = a.verdict
        /\ d.always = a.always
    OBVIOUS
  <2>4. r \in Request /\ call[r].tool \in Tool
    BY <1>1, KeyType
  <2> HIDE DEF d, r
  <2>5. /\ pc' \in [Request -> {"idle", "T2", "T1", "user", "decided", "over"}]
        /\ verdict' \in [Request -> Verdict \cup {"unset"}]
        /\ pc'[r] = "decided" /\ verdict'[r] = a.verdict
        /\ \A q \in Request \ {r} : pc'[q] = pc[q] /\ verdict'[q] = verdict[q]
    BY <1>1, <2>1, <2>4 DEF Decide, TypeOK
  <2>6. pending' = {q \in Request : pc'[q] = "user"}
    BY <1>1, <2>1, <2>4, <2>5 DEF TypeOK
  <2>7. taskWideCache' \in [Tool -> Verdict \cup {"unset"}]
    BY <1>1, <2>1 DEF TypeOK
  <2>8. TypeOK'
    BY <1>1, <2>1, <2>2, <2>5, <2>6, <2>7 DEF TypeOK, config
  <2>9. call' = call /\ HistoryKept /\ \A e : Key(e.for)' = Key(e.for)
    BY <1>1, <2>1 DEF config, Key, HistoryKept
  <2>10. TaskCacheIsThePersons'
    <3> SUFFICES ASSUME NEW t \in Tool, taskWideCache'[t] = "approve"
                 PROVE  \E e \in said' :
                          /\ e.by = "person" /\ e.verdict = "approve"
                          /\ e.always /\ call[e.for].tool = t
      BY <2>9 DEF TaskCacheIsThePersons
    <3>1. CASE a.always /\ t = call[r].tool
      BY <1>1, <2>1, <2>3, <3>1 DEF TypeOK
    <3>2. CASE ~(a.always /\ t = call[r].tool)
      <4>1. taskWideCache[t] = "approve"
        BY <1>1, <2>1, <3>2 DEF TypeOK
      <4> QED
        BY <2>1, <4>1 DEF IInv, TaskCacheIsThePersons
    <3> QED
      BY <3>1, <3>2
  <2>11. SectionCacheIsMarked'
    BY <1>1, <2>9, <2>1 DEF IInv, SectionCacheIsMarked
  <2>12. a.verdict = "approve" => Mandated(r)'
    BY <2>1, <2>3 DEF Mandated, ByPerson, SpeaksFor
  <2>13. ApprovalsInHand'
    BY <2>5, <2>9, <2>12, MandateKept DEF IInv, ApprovalsInHand
  <2>14. TiersSeeNothingLocal' /\ ParkedIsThere'
    BY <1>1, <2>1, <2>5, <2>9 DEF IInv, TiersSeeNothingLocal, ParkedIsThere
  <2> QED
    BY <2>8, <2>10, <2>11, <2>13, <2>14 DEF IInv
<1> QED
  BY <1>2, <1>3

\* A step that only takes parked requests off the list.
LEMMA UnparkKeeps ==
  ASSUME IInv, NEW R, R \subseteq pending, Unpark(R),
         gone' \subseteq Request, gone' \cap (pending \ R) = {},
         running' \in BOOLEAN, UNCHANGED <<config, caches, host, said>>
  PROVE  IInv'
<1>1. TypeOK /\ HistoryKept /\ call' = call
  BY DEF IInv, HistoryKept, config
<1>2. /\ pc' \in [Request -> {"idle", "T2", "T1", "user", "decided", "over"}]
      /\ verdict' \in [Request -> Verdict \cup {"unset"}]
      /\ pending' = {q \in Request : pc'[q] = "user"}
      /\ pending' = pending \ R
      /\ \A q \in R : pc'[q] = "decided" /\ verdict'[q] = "refuse"
      /\ \A q \in Request \ R : pc'[q] = pc[q] /\ verdict'[q] = verdict[q]
  BY <1>1, UnparkType
<1>3. TypeOK'
  BY <1>1, <1>2 DEF TypeOK, config, caches, host
<1>4. ApprovalsInHand'
  BY <1>1, <1>2, MandateKept DEF IInv, ApprovalsInHand
<1>5. TiersSeeNothingLocal' /\ ParkedIsThere'
  BY <1>1, <1>2 DEF IInv, TiersSeeNothingLocal, ParkedIsThere
<1> QED
  BY <1>1, <1>3, <1>4, <1>5, CachesKept DEF IInv

LEMMA WithdrawKeeps ==
  ASSUME IInv, NEW R, R \subseteq Request, Withdraw(R)
  PROVE  IInv'
<1>1. TypeOK /\ pending \cap gone = {}
  BY DEF IInv, ParkedIsThere
<1>2. /\ gone' = gone \cup R /\ Unpark(R \cap pending)
      /\ UNCHANGED <<config, caches, host, running, said>>
  BY DEF Withdraw
<1>3. gone' \subseteq Request /\ gone' \cap (pending \ (R \cap pending)) = {}
  BY <1>1, <1>2 DEF TypeOK
<1>4. running' \in BOOLEAN
  BY <1>1, <1>2 DEF TypeOK
<1> QED
  BY <1>2, <1>3, <1>4, UnparkKeeps

LEMMA ReturnKeeps ==
  ASSUME IInv, NEW r \in Request, Return(r)
  PROVE  IInv'
<1>1. TypeOK /\ pc[r] = "decided" /\ HistoryKept
  BY DEF IInv, Return, HistoryKept
<1>2. UNCHANGED <<config, gone, pending, caches, host, running, said>>
  BY DEF Return
<1>3. /\ pc' \in [Request -> {"idle", "T2", "T1", "user", "decided", "over"}]
      /\ verdict' \in [Request -> Verdict \cup {"unset"}]
      /\ pc'[r] = "over" /\ (verdict'[r] = "approve" => verdict[r] = "approve")
      /\ \A q \in Request \ {r} : pc'[q] = pc[q] /\ verdict'[q] = verdict[q]
      /\ pending = {q \in Request : pc'[q] = "user"}
  BY <1>1 DEF Return, TypeOK, Verdict
<1>4. TypeOK'
  BY <1>1, <1>2, <1>3 DEF TypeOK, config, caches, host
<1>5. verdict'[r] = "approve" => Mandated(r)'
  BY <1>1, <1>3, MandateKept DEF IInv, ApprovalsInHand
<1> QED
  BY <1>1, <1>2, <1>3, <1>4, <1>5, OneMoves

LEMMA StepKeeps == IInv /\ [Next]_vars => IInv'
<1> SUFFICES ASSUME IInv, [Next]_vars PROVE IInv'
  OBVIOUS
<1>1. CASE \E r \in Request : RequestPermission(r)
  BY <1>1, RequestKeeps
<1>2. CASE \E r \in Request : T2Evaluates(r)
  BY <1>2, T2Keeps
<1>3. CASE \E r \in Request : T1Evaluates(r)
  BY <1>3, T1Keeps
<1>4. CASE \E r \in Request : PersonAnswers(r)
  <2>1. PICK r \in Request : PersonAnswers(r)
    BY <1>4
  <2>2. UNCHANGED <<config, pc, verdict, gone, pending, caches, running, said>>
    BY <2>1 DEF PersonAnswers
  <2>3. asked' \subseteq asked
    BY <2>1 DEF PersonAnswers
  <2>4. answers' \subseteq [for : Request, verdict : Verdict, always : BOOLEAN]
    BY <2>1 DEF PersonAnswers, IInv, TypeOK
  <2>5. TypeOK'
    BY <2>2, <2>3, <2>4 DEF IInv, TypeOK, config, caches
  <2>6. HistoryKept /\ \A q : pc'[q] = pc[q] /\ verdict'[q] = verdict[q]
    BY <2>2 DEF HistoryKept
  <2>7. r \in Request /\ (pc[r] = "user" => r \notin gone)
    BY DEF IInv, ParkedIsThere, TypeOK
  <2>8. pc[r] \in {"decided", "over"} /\ verdict[r] = "approve" => Mandated(r)'
    BY <2>6, MandateKept DEF IInv, ApprovalsInHand
  <2> QED
    BY <2>2, <2>5, <2>6, <2>7, <2>8, OneMoves DEF IInv, TiersSeeNothingLocal
<1>5. CASE \E r \in Request : TimeOut(r)
  <2>1. PICK r \in Request : TimeOut(r)
    BY <1>5
  <2>2. /\ {r} \subseteq pending /\ Unpark({r})
        /\ UNCHANGED <<config, gone, caches, host, running, said>>
    BY <2>1 DEF TimeOut
  <2>3. /\ gone' \subseteq Request /\ gone' \cap (pending \ {r}) = {}
        /\ running' \in BOOLEAN
    BY <2>2 DEF IInv, ParkedIsThere, TypeOK
  <2> QED
    BY <2>2, <2>3, UnparkKeeps
<1>6. CASE \E r \in Request : CallerEnds(r)
  <2>1. PICK r \in Request : Withdraw({r})
    BY <1>6 DEF CallerEnds
  <2> QED
    BY <2>1, WithdrawKeeps
<1>7. CASE \E r \in Request : Return(r)
  BY <1>7, ReturnKeeps
<1>8. CASE \E a \in answers : ResolveUserDecision(a)
  BY <1>8, ResolveKeeps
<1>9. CASE CancelRun
  BY <1>9, WithdrawKeeps DEF CancelRun
<1>10. CASE EndRun
  <2>1. /\ Unpark(pending) /\ running' = FALSE
        /\ UNCHANGED <<config, gone, caches, host, said>>
    BY <1>10 DEF EndRun
  <2>2. gone' \subseteq Request /\ gone' \cap (pending \ pending) = {}
    BY <2>1 DEF IInv, TypeOK
  <2> QED
    BY <2>1, <2>2, UnparkKeeps
<1>11. CASE UNCHANGED vars
  <2>1. /\ UNCHANGED <<config, pc, verdict, gone, pending, caches, host,
                       running, said>>
    BY <1>11 DEF vars
  <2>2. TypeOK'
    BY <2>1 DEF IInv, TypeOK, config, caches, host
  <2>3. HistoryKept /\ call' = call
    BY <2>1 DEF HistoryKept, config
  <2>4. ApprovalsInHand' /\ TiersSeeNothingLocal' /\ ParkedIsThere'
    BY <2>1, <2>3, MandateKept
    DEF IInv, ApprovalsInHand, TiersSeeNothingLocal, ParkedIsThere
  <2> QED
    BY <2>1, <2>2, <2>3, <2>4, CachesKept DEF IInv
<1> QED
  BY <1>1, <1>2, <1>3, <1>4, <1>5, <1>6, <1>7, <1>8, <1>9, <1>10, <1>11
  DEF Next, AllOver

-----------------------------------------------------------------------------
(* Answers that come too late *)

\* Only `Return' ends a request.
NoneEnds ==
  \A r \in Request : pc'[r] = "over" => pc[r] = "over"

LEMMA ParkedStayOpen ==
  ASSUME TypeOK, NEW R, R \subseteq pending, Unpark(R)
  PROVE  NoneEnds
BY UnparkType DEF NoneEnds

LEMMA DecidedIsNotOver ==
  ASSUME TypeOK, NEW r \in Request, NEW v, Decide(r, v)
  PROVE  NoneEnds /\ pc'[r] = "decided"
BY DEF NoneEnds, TypeOK, Decide

LEMMA PassedOnIsNotOver ==
  ASSUME NEW r \in Request, PassedOn(r)
  PROVE  NoneEnds
BY DEF NoneEnds, PassedOn

\* What a step does that is not `Return': it ends nobody, and if it changes a
\* cache it decides a request whose caller is there.
HeardInTime ==
  /\ NoneEnds
  /\ caches' # caches =>
       \E r \in Request \ gone : pc[r] # "decided" /\ pc'[r] = "decided"

LEMMA RequestHeard ==
  ASSUME IInv, NEW r \in Request, RequestPermission(r)
  PROVE  HeardInTime
<1>1. TypeOK /\ pc[r] = "idle"
  BY DEF IInv, RequestPermission
<1>2. CASE AlreadyGone(r)
  <2>1. Decide(r, "refuse") /\ caches' = caches
    BY <1>2 DEF AlreadyGone
  <2> QED
    BY <1>1, <2>1, DecidedIsNotOver DEF HeardInTime
<1>3. CASE FromCache(r)
  <2>1. Decide(r, Cached(r)) /\ caches' = caches
    BY <1>3 DEF FromCache
  <2> QED
    BY <1>1, <2>1, DecidedIsNotOver DEF HeardInTime
<1>4. CASE ByRule(r)
  <2>1. Decide(r, "approve") /\ r \notin gone
    BY <1>4 DEF ByRule
  <2> QED
    BY <1>1, <2>1, DecidedIsNotOver DEF HeardInTime
<1>5. CASE ByMode(r)
  <2>1. Decide(r, "approve") /\ caches' = caches
    BY <1>5 DEF ByMode
  <2> QED
    BY <1>1, <2>1, DecidedIsNotOver DEF HeardInTime
<1>6. CASE Escalated(r)
  <2>1. PassedOn(r) /\ caches' = caches
    BY <1>1, <1>6, AskT2PassesOn DEF Escalated
  <2> QED
    BY <2>1, PassedOnIsNotOver DEF HeardInTime
<1> QED
  BY <1>2, <1>3, <1>4, <1>5, <1>6 DEF RequestPermission

LEMMA TierHeard ==
  ASSUME IInv, NEW r \in Request, T2Evaluates(r) \/ T1Evaluates(r)
  PROVE  HeardInTime
<1>1. TypeOK /\ pc[r] \in {"T2", "T1"}
  BY DEF IInv, T2Evaluates, T1Evaluates
<1>2. CASE T2Approves(r)
  <2>1. Decide(r, "approve") /\ r \notin gone
    BY <1>2 DEF T2Approves, StillWaits
  <2> QED
    BY <1>1, <2>1, DecidedIsNotOver DEF HeardInTime
<1>3. CASE T2Passes(r) \/ T1Passes(r)
  <2>1. caches' = caches
    BY <1>3 DEF T2Passes, T1Passes
  <2>2. CASE AskT1(r)
    BY <1>1, <2>1, <2>2, AskT1PassesOn, PassedOnIsNotOver DEF HeardInTime
  <2>3. CASE AskUser(r)
    <3>1. NoneEnds
      BY <1>1, <2>3, AskUserType DEF NoneEnds
    <3> QED
      BY <2>1, <3>1 DEF HeardInTime
  <2> QED
    BY <1>3, <2>2, <2>3 DEF T2Passes, T1Passes
<1>4. CASE TooLate(r)
  <2>1. Decide(r, "refuse") /\ caches' = caches
    BY <1>4 DEF TooLate
  <2> QED
    BY <1>1, <2>1, DecidedIsNotOver DEF HeardInTime
<1> QED
  BY <1>2, <1>3, <1>4 DEF T2Evaluates, T1Evaluates

LEMMA AnswerHeard ==
  ASSUME IInv, NEW a \in answers, ResolveUserDecision(a)
  PROVE  HeardInTime
<1>1. TypeOK /\ pending \cap gone = {} /\ UNCHANGED <<sessionCache, modelDecided>>
  BY DEF IInv, ParkedIsThere, ResolveUserDecision
<1>2. CASE a.for \in pending
  <2>1. /\ Decide(a.for, a.verdict) /\ a.for \in Request \ gone
        /\ pc[a.for] = "user"
    BY <1>1, <1>2 DEF ResolveUserDecision, TypeOK
  <2> QED
    BY <1>1, <2>1, DecidedIsNotOver DEF HeardInTime
<1>3. CASE a.for \notin pending
  <2>1. caches' = caches /\ pc' = pc
    BY <1>1, <1>3 DEF ResolveUserDecision, caches
  <2> QED
    BY <2>1 DEF HeardInTime, NoneEnds
<1> QED
  BY <1>2, <1>3

LEMMA StepHeard ==
  ASSUME IInv, [Next]_vars
  PROVE  HeardInTime \/ \E r \in Request : Return(r)
<1> USE DEF IInv
<1>1. CASE \E r \in Request : RequestPermission(r)
  BY <1>1, RequestHeard
<1>2. CASE \E r \in Request : T2Evaluates(r) \/ T1Evaluates(r)
  BY <1>2, TierHeard
<1>3. CASE \E r \in Request : PersonAnswers(r)
  <2>1. caches' = caches /\ pc' = pc
    BY <1>3 DEF PersonAnswers
  <2> QED
    BY <2>1 DEF HeardInTime, NoneEnds
<1>4. CASE \E R \in SUBSET pending : Unpark(R) /\ caches' = caches
  BY <1>4, ParkedStayOpen DEF HeardInTime
<1>5. CASE \E r \in Request : TimeOut(r)
  <2>1. PICK r \in Request : TimeOut(r)
    BY <1>5
  <2>2. {r} \in SUBSET pending /\ Unpark({r}) /\ caches' = caches
    BY <2>1 DEF TimeOut
  <2> QED
    BY <1>4, <2>2
<1>6. CASE CancelRun \/ \E r \in Request : CallerEnds(r)
  <2>1. PICK R : Withdraw(R)
    BY <1>6 DEF CancelRun, CallerEnds
  <2>2. /\ R \cap pending \in SUBSET pending /\ Unpark(R \cap pending)
        /\ caches' = caches
    BY <2>1 DEF Withdraw
  <2> QED
    BY <1>4, <2>2
<1>7. CASE EndRun
  <2>1. pending \in SUBSET pending /\ Unpark(pending) /\ caches' = caches
    BY <1>7 DEF EndRun
  <2> QED
    BY <1>4, <2>1
<1>8. CASE \E a \in answers : ResolveUserDecision(a)
  BY <1>8, AnswerHeard
<1>9. CASE UNCHANGED vars
  <2>1. caches' = caches /\ pc' = pc
    BY <1>9 DEF vars
  <2> QED
    BY <2>1 DEF HeardInTime, NoneEnds
<1> QED
  BY <1>1, <1>2, <1>3, <1>5, <1>6, <1>7, <1>8, <1>9 DEF Next, AllOver

LEMMA StepGrantsNothingLate ==
  ASSUME IInv, [Next]_vars
  PROVE  /\ \A r \in gone : pc[r] # "over" /\ pc'[r] = "over"
                              => verdict'[r] = "refuse"
         /\ caches' # caches =>
              \E r \in Request \ gone : pc[r] # "decided" /\ pc'[r] = "decided"
<1>1. TypeOK
  BY DEF IInv
<1>2. CASE HeardInTime
  BY <1>1, <1>2 DEF HeardInTime, NoneEnds, TypeOK
<1>3. CASE \E r \in Request : Return(r)
  <2>1. PICK r \in Request : Return(r)
    BY <1>3
  <2>2. caches' = caches
    BY <2>1 DEF Return
  <2>3. \A q \in Request \ {r} : pc'[q] = pc[q]
    BY <1>1, <2>1 DEF Return, TypeOK
  <2>4. r \in gone => verdict'[r] = "refuse"
    BY <1>1, <2>1 DEF Return, TypeOK
  <2> QED
    BY <1>1, <2>2, <2>3, <2>4 DEF TypeOK
<1> QED
  BY <1>2, <1>3, StepHeard

-----------------------------------------------------------------------------
(* Theorems *)

LEMMA AlwaysIInv == Spec => []IInv
BY InitIInv, StepKeeps, PTL DEF Spec

\* Every state is well-typed, and a request waits for the person exactly while
\* the escalator has a resolver for it.
THEOREM TypeCorrect == Spec => []TypeOK
<1>1. IInv => TypeOK
  BY DEF IInv
<1> QED
  BY <1>1, AlwaysIInv, PTL

\* Whatever is granted, by a cache or afresh, somebody who may decided: only a
\* person for what is dangerous, and no model for a local-only caller.
THEOREM MandateHolds == Spec => []GrantHasMandate
<1>1. IInv => GrantHasMandate
  BY DEF IInv, ApprovalsInHand, GrantHasMandate
<1> QED
  BY <1>1, AlwaysIInv, PTL

\* A decision that comes after its caller has gone grants nothing and is not
\* kept for the next one.
THEOREM LateAnswersDecideNothing == Spec => NothingForTheGone
<1>1. IInv /\ [Next]_vars
        => [ /\ \A r \in gone : pc[r] # "over" /\ pc'[r] = "over"
                                  => verdict'[r] = "refuse"
             /\ caches' # caches =>
                  \E r \in Request \ gone :
                    pc[r] # "decided" /\ pc'[r] = "decided" ]_vars
  BY StepGrantsNothingLate
<1> QED
  BY <1>1, AlwaysIInv, PTL DEF Spec, NothingForTheGone
=============================================================================
