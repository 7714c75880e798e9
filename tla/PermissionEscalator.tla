------------------------ MODULE PermissionEscalator ------------------------
(***************************************************************************)
(* How a worker's tool call gets its permission in a run                   *)
(* (src/core/permissions/escalator.ts), with what it asks: the evaluators  *)
(* of T2 (T2Manager.evaluatePermissionAtT2) and T1                         *)
(* (T1Administrator.evaluatePermissionAtT1), and the person, through the   *)
(* facade and its host (Cascade.run, `permission:user-required').          *)
(*                                                                         *)
(* A step is one synchronous stretch: a request up to its first await, the *)
(* continuation of an evaluator, an answer, a timer, an abort.  A decision *)
(* is reached in one step and returned in a later one (`Return'), and an   *)
(* abort can come between.  An answer given at the host travels to the     *)
(* escalator; the question stays there when the escalator has given up,    *)
(* since nothing tells the host, so an answer may come for a request that  *)
(* is over.                                                                *)
(*                                                                         *)
(* T1's evaluator passes on all it is asked, and T2's on all that is       *)
(* dangerous.  So only a person's decisions get into the cache of the      *)
(* task, and the branch that would put T1's there is not modelled.         *)
(***************************************************************************)

CONSTANTS
  Request,     \* tool calls that need a permission
  Tool, Section,
  Dangerous,   \* the tools that say they are
  Safe,        \* SAFE_TOOLS
  Calls        \* what a request may be about

ASSUME CallsAssumption ==
  Calls \subseteq [tool : Tool, section : Section, localOnly : BOOLEAN,
                   forceReprompt : BOOLEAN]

VARIABLES
  autonomous,    \* autonomy: 'auto'
  evaluators,    \* the tiers that have set theirs
  call,          \* what each request is about
  pc, verdict,   \* how far it is, and what was decided
  gone,          \* whose caller's signal has aborted
  pending,       \* pendingUserDecisions
  taskWideCache, sessionCache, modelDecided,
  asked,         \* the questions open at the host
  answers,       \* answers on their way to the escalator
  running,       \* run() has not come to its end
  said           \* history: every decision that was made, and by whom

config == <<autonomous, evaluators, call>>
caches == <<taskWideCache, sessionCache, modelDecided>>
host == <<asked, answers>>
vars == <<config, pc, verdict, gone, pending, caches, host, running, said>>

Verdict == {"approve", "refuse"}
Key(r) == <<call[r].section, call[r].tool>>
IsDangerous(r) == call[r].tool \in Dangerous
IsSafe(r) == ~IsDangerous(r) /\ call[r].tool \in Safe

Init ==
  /\ autonomous \in BOOLEAN
  /\ evaluators \in {{}, {"T2"}, {"T1", "T2"}}  \* by the root tier of the run
  /\ call \in [Request -> Calls]
  /\ pc = [r \in Request |-> "idle"]
  /\ verdict = [r \in Request |-> "unset"]
  /\ gone = {}
  /\ pending = {}
  /\ taskWideCache = [t \in Tool |-> "unset"]
  /\ sessionCache = [k \in Section \X Tool |-> "unset"]
  /\ modelDecided = {}
  /\ asked = {}
  /\ answers = {}
  /\ running = TRUE
  /\ said = {}

----------------------------------------------------------------------------
(* Asking *)

Decide(r, v) ==
  /\ pc' = [pc EXCEPT ![r] = "decided"]
  /\ verdict' = [verdict EXCEPT ![r] = v]

Goes(r, tier) ==
  /\ pc' = [pc EXCEPT ![r] = tier]
  /\ UNCHANGED <<verdict, pending, asked>>

\* A model's approval does not stand for a local-only caller.
Stands(r) ==
  ~ /\ call[r].localOnly
    /\ Key(r) \in modelDecided
    /\ sessionCache[Key(r)] = "approve"

Cached(r) ==
  IF call[r].forceReprompt THEN "unset"
  ELSE IF taskWideCache[call[r].tool] # "unset"
    THEN taskWideCache[call[r].tool]
  ELSE IF Stands(r) THEN sessionCache[Key(r)] ELSE "unset"

\* waitForUserDecision
AskUser(r) ==
  IF r \in gone
  THEN Decide(r, "refuse") /\ UNCHANGED <<pending, asked>>
  ELSE /\ pc' = [pc EXCEPT ![r] = "user"]
       /\ pending' = pending \cup {r}
       /\ asked' = asked \cup {r}
       /\ UNCHANGED verdict

MayEvaluate(r, tier) == tier \in evaluators /\ ~call[r].localOnly

AskT1(r) == IF MayEvaluate(r, "T1") THEN Goes(r, "T1") ELSE AskUser(r)
AskT2(r) == IF MayEvaluate(r, "T2") THEN Goes(r, "T2") ELSE AskT1(r)

\* decide, as far as it goes without waiting.
AlreadyGone(r) ==
  /\ r \in gone
  /\ Decide(r, "refuse")
  /\ UNCHANGED <<pending, caches, asked>>

FromCache(r) ==
  /\ r \notin gone /\ Cached(r) # "unset"
  /\ Decide(r, Cached(r))
  /\ UNCHANGED <<pending, caches, asked>>

ByRule(r) ==
  /\ r \notin gone /\ Cached(r) = "unset" /\ IsSafe(r)
  /\ Decide(r, "approve")
  /\ sessionCache' = [sessionCache EXCEPT ![Key(r)] = "approve"]
  /\ UNCHANGED <<pending, taskWideCache, modelDecided, asked>>

ByMode(r) ==
  /\ r \notin gone /\ Cached(r) = "unset" /\ ~IsSafe(r)
  /\ autonomous /\ ~IsDangerous(r)
  /\ Decide(r, "approve")
  /\ UNCHANGED <<pending, caches, asked>>

Escalated(r) ==
  /\ r \notin gone /\ Cached(r) = "unset" /\ ~IsSafe(r)
  /\ ~(autonomous /\ ~IsDangerous(r))
  /\ AskT2(r)
  /\ UNCHANGED caches

RequestPermission(r) ==
  /\ pc[r] = "idle"
  /\ \/ AlreadyGone(r) \/ FromCache(r) \/ ByRule(r)
     \/ ByMode(r) \/ Escalated(r)
  /\ UNCHANGED <<config, gone, answers, running, said>>

----------------------------------------------------------------------------
(* The tiers answer *)

\* Mutated form: the continuation of an evaluator does not ask whether its
\* caller is still there.
AnswersAnyway(r) == r \in Request

StillWaits(r) == r \notin gone

\* Mutated form: who made a cached decision is not noted.
Unmarked(r) == modelDecided

MarkedByModel(r) == modelDecided \cup {Key(r)}

T2Approves(r) ==
  /\ StillWaits(r) /\ ~IsDangerous(r)
  /\ Decide(r, "approve")
  /\ sessionCache' = [sessionCache EXCEPT ![Key(r)] = "approve"]
  /\ modelDecided' = MarkedByModel(r)
  /\ said' = said \cup {[by |-> "T2", for |-> r, verdict |-> "approve",
                         always |-> TRUE]}
  /\ UNCHANGED <<pending, taskWideCache, asked>>

T2Passes(r) ==
  /\ StillWaits(r) /\ IsDangerous(r)
  /\ AskT1(r)
  /\ UNCHANGED <<caches, said>>

TooLate(r) ==
  /\ ~StillWaits(r)
  /\ Decide(r, "refuse")
  /\ UNCHANGED <<pending, caches, asked, said>>

T2Evaluates(r) ==
  /\ pc[r] = "T2"
  /\ T2Approves(r) \/ T2Passes(r) \/ TooLate(r)
  /\ UNCHANGED <<config, gone, answers, running>>

T1Passes(r) ==
  /\ StillWaits(r)
  /\ AskUser(r)
  /\ UNCHANGED <<caches, said>>

T1Evaluates(r) ==
  /\ pc[r] = "T1"
  /\ T1Passes(r) \/ TooLate(r)
  /\ UNCHANGED <<config, gone, answers, running>>

----------------------------------------------------------------------------
(* The person answers, or nobody does *)

PersonAnswers(r) ==
  /\ r \in asked
  /\ asked' = asked \ {r}
  /\ \E v \in Verdict, always \in BOOLEAN :
       answers' = answers \cup {[for |-> r, verdict |-> v, always |-> always]}
  /\ UNCHANGED <<config, pc, verdict, gone, pending, caches, running, said>>

\* Every one of R that is parked is refused.
Unpark(R) ==
  /\ pc' = [r \in Request |-> IF r \in R THEN "decided" ELSE pc[r]]
  /\ verdict' = [r \in Request |-> IF r \in R THEN "refuse" ELSE verdict[r]]
  /\ pending' = pending \ R

\* resolveUserDecision and the resolver it finds, if it finds one.
ResolveUserDecision(a) ==
  /\ a \in answers
  /\ answers' = answers \ {a}
  /\ IF a.for \in pending
     THEN /\ pending' = pending \ {a.for}
          /\ Decide(a.for, a.verdict)
          /\ taskWideCache' = IF a.always
                              THEN [taskWideCache EXCEPT
                                      ![call[a.for].tool] = a.verdict]
                              ELSE taskWideCache
          /\ said' = said \cup {[by |-> "person", for |-> a.for,
                                 verdict |-> a.verdict, always |-> a.always]}
     ELSE UNCHANGED <<pending, pc, verdict, taskWideCache, said>>
  /\ UNCHANGED <<config, gone, sessionCache, modelDecided, asked, running>>

TimeOut(r) ==
  /\ r \in pending
  /\ Unpark({r})
  /\ UNCHANGED <<config, gone, caches, host, running, said>>

\* The signal of the callers in R aborts: onAbort of those that are parked.
Withdraw(R) ==
  /\ gone' = gone \cup R
  /\ Unpark(R \cap pending)
  /\ UNCHANGED <<config, caches, host, running, said>>

\* A dynamic tool ends with a request of its own open.
CallerEnds(r) ==
  /\ r \notin gone /\ pc[r] # "over"
  /\ Withdraw({r})

CancelRun ==
  /\ running /\ ~(Request \subseteq gone)
  /\ Withdraw(Request)

\* Mutated form: the list is cleared and nobody in it hears of it.
EndRunSilently ==
  /\ running /\ running' = FALSE
  /\ pending' = {}
  /\ UNCHANGED <<config, pc, verdict, gone, caches, host, said>>

\* cancelAllPending, as the run comes to its end; stragglers may still ask.
EndRun ==
  /\ running /\ running' = FALSE
  /\ Unpark(pending)
  /\ UNCHANGED <<config, gone, caches, host, said>>

\* requestPermission goes on: what came too late for its caller grants nothing.
Return(r) ==
  /\ pc[r] = "decided"
  /\ pc' = [pc EXCEPT ![r] = "over"]
  /\ verdict' = [verdict EXCEPT ![r] = IF r \in gone THEN "refuse" ELSE @]
  /\ UNCHANGED <<config, gone, pending, caches, host, running, said>>

----------------------------------------------------------------------------
AllOver ==
  /\ \A r \in Request : pc[r] = "over"
  /\ UNCHANGED vars

Next ==
  \/ \E r \in Request :
       \/ RequestPermission(r) \/ T2Evaluates(r) \/ T1Evaluates(r)
       \/ PersonAnswers(r) \/ TimeOut(r) \/ CallerEnds(r) \/ Return(r)
  \/ \E a \in answers : ResolveUserDecision(a)
  \/ CancelRun \/ EndRun \/ AllOver

\* What a tier is asked it answers, timers fire and continuations run; nobody
\* has to answer a question.
Fairness ==
  \A r \in Request :
    /\ WF_vars(T2Evaluates(r)) /\ WF_vars(T1Evaluates(r))
    /\ WF_vars(TimeOut(r)) /\ WF_vars(Return(r))

Spec == Init /\ [][Next]_vars /\ Fairness

----------------------------------------------------------------------------
(* Properties *)

\* Types; and a request waits for the person exactly while the escalator has
\* a resolver for it (pendingUserDecisions).
TypeOK ==
  /\ autonomous \in BOOLEAN /\ running \in BOOLEAN
  /\ evaluators \subseteq {"T1", "T2"}
  /\ call \in [Request -> Calls]
  /\ pc \in [Request -> {"idle", "T2", "T1", "user", "decided", "over"}]
  /\ verdict \in [Request -> Verdict \cup {"unset"}]
  /\ gone \subseteq Request /\ asked \subseteq Request
  /\ pending = {r \in Request : pc[r] = "user"}
  /\ taskWideCache \in [Tool -> Verdict \cup {"unset"}]
  /\ sessionCache \in [Section \X Tool -> Verdict \cup {"unset"}]
  /\ modelDecided \subseteq Section \X Tool
  /\ answers \subseteq [for : Request, verdict : Verdict, always : BOOLEAN]
  /\ said \subseteq [by : {"person", "T2"}, for : Request, verdict : Verdict,
                     always : BOOLEAN]

\* Decision d speaks for request r: it was made for it, or for good, about the
\* same tool, and r does not ask to be asked.
SpeaksFor(d, r) ==
  /\ d.verdict = "approve"
  /\ \/ d.for = r
     \/ /\ d.always /\ ~call[r].forceReprompt
        /\ call[d.for].tool = call[r].tool

ByPerson(r) == \E d \in said : d.by = "person" /\ SpeaksFor(d, r)
ByModel(r) ==
  /\ ~call[r].localOnly
  /\ \E d \in said : /\ d.by = "T2" /\ SpeaksFor(d, r)
                     /\ call[d.for].section = call[r].section

\* Whatever order requests, answers and aborts come in, what is granted was
\* decided by somebody who may: a person for this call or for good, or, for a
\* tool that is not dangerous, the mode of the run, the rule, or T2 for its own
\* section, which it is never for a local-only caller (README: dangerous tools
\* need the person; a model's "always" does not answer a local-only worker).
Mandated(r) ==
  \/ ByPerson(r)
  \/ ~IsDangerous(r) /\ (autonomous \/ IsSafe(r) \/ ByModel(r))
GrantHasMandate ==
  \A r \in Request :
    pc[r] = "over" /\ verdict[r] = "approve" => Mandated(r)

\* A decision that comes after its caller has gone grants it nothing and is
\* not kept for others: the caches change only by a step of a request whose
\* caller is there (the checks after each await, and onAbort).
NothingForTheGone ==
  [][ /\ \A r \in gone : pc[r] # "over" /\ pc'[r] = "over"
                           => verdict'[r] = "refuse"
      /\ caches' # caches
           => \E r \in Request \ gone : pc[r] # "decided" /\ pc'[r] = "decided"
    ]_vars

\* Nobody is left waiting: not by a person who does not answer, nor by an
\* abort, nor by the end of the run.
EveryRequestAnswered ==
  \A r \in Request : pc[r] # "idle" ~> pc[r] = "over"
=============================================================================
