----------------------------- MODULE LLMGateway -----------------------------
(***************************************************************************)
(* The way to the provider: the limiter that Situation Assessments and     *)
(* semantic profiles share (internal/llm/inference_limit.go) and the       *)
(* durable budget below every client (internal/llm/budget.go,              *)
(* internal/store/llm_budget.go).                                          *)
(*                                                                         *)
(* A call waits for a slot, reserves its allowance and one call of the     *)
(* rolling hour in one transaction, leaves, and settles what the answer    *)
(* says it used.  Tokens are small numbers; every request has the same     *)
(* Allowance.  Time is a tick, Hour ticks long.  The provider is external: *)
(* what it bills is a history variable.                                    *)
(***************************************************************************)
EXTENDS Integers, Sequences, FiniteSets, SequencesExt

CONSTANTS
  Assessments,   \* callers of InferenceAssessment
  Profiles,      \* callers of InferenceProfile
  Capacity,      \* situations.llm_concurrency
  TotalTokens,   \* llm.budget.total_tokens
  CallLimits,    \* values of llm.budget.calls_per_hour, one per configuration
  Allowance,     \* requestAllowance
  Hour,          \* ticks the rolling hour takes
  Usages,        \* what the provider may bill for one request
  MaxFaults      \* bound on failed settlements and restarts

\* NewInferenceLimiter clamps the capacity, a caller has one priority, requestAllowance is
\* positive, responseTokens is not negative, and both limits of the budget are set.
ASSUME GatewayAssumption ==
  /\ Capacity \in Nat \ {0}
  /\ IsFiniteSet(Assessments) /\ IsFiniteSet(Profiles) /\ Assessments \cap Profiles = {}
  /\ TotalTokens \in Nat \ {0} /\ Allowance \in Nat \ {0} /\ Hour \in Nat \ {0}
  /\ CallLimits \subseteq Nat \ {0} /\ Usages \subseteq Nat

VARIABLES
  pc,            \* caller -> where its call is
  answer,        \* caller -> what the provider's answer lets settlementUsage see
  in_use, profile_held, assessment_waiters, profile_waiters,   \* InferenceLimiter
  tokens, unknown,   \* budgetState.Tokens and .Unknown
  recent,        \* budgetState.Calls as ages, oldest first
  calls_per_hour,
  billed,        \* history: tokens the provider billed
  excess,        \* history: what it billed beyond the allowance of a request
  faults

limiter == <<in_use, profile_held, assessment_waiters, profile_waiters>>
ledger == <<tokens, unknown, recent, calls_per_hour>>
provider == <<billed, excess>>
vars == <<pc, answer, limiter, ledger, provider, faults>>

Callers == Assessments \cup Profiles
NoAnswer == [kind |-> "none", used |-> 0]

Init ==
  /\ pc = [c \in Callers |-> "idle"]
  /\ answer = [c \in Callers |-> NoAnswer]
  /\ in_use = 0 /\ profile_held = FALSE
  /\ assessment_waiters = <<>> /\ profile_waiters = <<>>
  /\ tokens = 0 /\ unknown = FALSE /\ recent = <<>>
  /\ calls_per_hour \in CallLimits
  /\ billed = 0 /\ excess = 0
  /\ faults = 0

----------------------------------------------------------------------------
\* InferenceLimiter.

\* tryGrantLocked.
MayEnter(c) == in_use < Capacity /\ (c \in Profiles => ~profile_held)

Acquire(c) ==
  /\ pc[c] = "idle"
  /\ IF MayEnter(c)
     THEN /\ pc' = [pc EXCEPT ![c] = "holding"]
          /\ in_use' = in_use + 1
          /\ profile_held' = (profile_held \/ c \in Profiles)
          /\ UNCHANGED <<assessment_waiters, profile_waiters>>
     ELSE /\ pc' = [pc EXCEPT ![c] = "waiting"]
          /\ IF c \in Assessments
             THEN assessment_waiters' = Append(assessment_waiters, c) /\ UNCHANGED profile_waiters
             ELSE profile_waiters' = Append(profile_waiters, c) /\ UNCHANGED assessment_waiters
          /\ UNCHANGED <<in_use, profile_held>>
  /\ UNCHANGED <<answer, ledger, provider, faults>>

\* Faulty: a released slot is free, and nobody is woken for it.
ReleaseSilently(c, after) ==
  /\ pc' = [pc EXCEPT ![c] = after]
  /\ in_use' = in_use - 1
  /\ profile_held' = (profile_held /\ c \notin Profiles)
  /\ UNCHANGED <<assessment_waiters, profile_waiters>>

\* releaseFunc and wakeNextLocked: the slot goes to an Assessment, else to a
\* profile if none holds one, else it is free.
Release(c, after) ==
  LET held == profile_held /\ c \notin Profiles
  IN  \/ /\ assessment_waiters # <<>>
         /\ pc' = [pc EXCEPT ![c] = after, ![Head(assessment_waiters)] = "granted"]
         /\ assessment_waiters' = Tail(assessment_waiters)
         /\ profile_held' = held
         /\ UNCHANGED <<in_use, profile_waiters>>
      \/ /\ assessment_waiters = <<>> /\ ~held /\ profile_waiters # <<>>
         /\ pc' = [pc EXCEPT ![c] = after, ![Head(profile_waiters)] = "granted"]
         /\ profile_waiters' = Tail(profile_waiters)
         /\ profile_held' = TRUE
         /\ UNCHANGED <<in_use, assessment_waiters>>
      \/ /\ assessment_waiters = <<>> /\ (held \/ profile_waiters = <<>>)
         /\ pc' = [pc EXCEPT ![c] = after]
         /\ in_use' = in_use - 1
         /\ profile_held' = held
         /\ UNCHANGED <<assessment_waiters, profile_waiters>>

\* Acquire returns with the slot a release handed over.
Resume(c) ==
  /\ pc[c] = "granted"
  /\ pc' = [pc EXCEPT ![c] = "holding"]
  /\ UNCHANGED <<answer, limiter, ledger, provider, faults>>

\* Acquire when the caller's context ends first: it leaves the queue.
Cancel(c) ==
  /\ pc[c] = "waiting"
  /\ pc' = [pc EXCEPT ![c] = "idle"]
  /\ \/ /\ \E i \in DOMAIN assessment_waiters :
             assessment_waiters[i] = c /\ assessment_waiters' = RemoveAt(assessment_waiters, i)
        /\ UNCHANGED profile_waiters
     \/ /\ \E i \in DOMAIN profile_waiters :
             profile_waiters[i] = c /\ profile_waiters' = RemoveAt(profile_waiters, i)
        /\ UNCHANGED assessment_waiters
  /\ UNCHANGED <<answer, in_use, profile_held, ledger, provider, faults>>

\* The same after the grant: the slot is handed on.
CancelGranted(c) ==
  /\ pc[c] = "granted"
  /\ Release(c, "idle")
  /\ UNCHANGED <<answer, ledger, provider, faults>>

----------------------------------------------------------------------------
\* Budget.

RateExceeded == Len(recent) >= calls_per_hour

\* The RetryAt of reserve, in ticks from now: calls_per_hour - 1 calls are younger.
RetryAfter == Hour - recent[Len(recent) - calls_per_hour + 1]

\* What the allowance is checked against.
Affordable == TotalTokens - tokens >= Allowance

\* reserve: the charge and the call are committed before anything is sent.
Reserve(c) ==
  /\ pc[c] = "holding"
  /\ ~unknown /\ ~RateExceeded /\ Affordable
  /\ tokens' = tokens + Allowance
  /\ recent' = Append(recent, 0)
  /\ pc' = [pc EXCEPT ![c] = "sent"]
  /\ UNCHANGED <<answer, limiter, unknown, calls_per_hour, provider, faults>>

\* reserve returns BudgetDeferredError: nothing is sent.
Deferred(c) ==
  /\ pc[c] = "holding"
  /\ unknown \/ RateExceeded \/ ~Affordable
  /\ Release(c, "idle")
  /\ UNCHANGED <<answer, ledger, provider, faults>>

\* The provider: it declines for free, bills and says so, or bills something
\* that the answer, if there is one, does not tell.
Answer(c) ==
  /\ pc[c] = "sent"
  /\ pc' = [pc EXCEPT ![c] = "answered"]
  /\ \E kind \in {"declined", "reported", "unreported"}, u \in Usages :
       /\ kind = "declined" => u = 0
       /\ answer' = [answer EXCEPT ![c] = [kind |-> kind, used |-> IF kind = "reported" THEN u ELSE 0]]
       /\ billed' = billed + u
       /\ excess' = excess + (IF u > Allowance THEN u - Allowance ELSE 0)
  /\ UNCHANGED <<limiter, ledger, faults>>

\* Faulty: an answer without usage is taken for one that used nothing.
SettledAsZero(c) ==
  /\ tokens' = tokens - Allowance + answer[c].used
  /\ UNCHANGED unknown

\* The settlement transaction of RoundTrip with settlementUsage.
Settled(c) ==
  IF answer[c].kind = "unreported"
  THEN unknown' = TRUE /\ UNCHANGED tokens
  ELSE tokens' = tokens - Allowance + answer[c].used /\ UNCHANGED unknown

Settle(c) ==
  /\ pc[c] = "answered"
  /\ \/ Settled(c) /\ UNCHANGED faults
     \/ /\ faults < MaxFaults /\ faults' = faults + 1    \* the settlement is not saved
        /\ UNCHANGED <<tokens, unknown>>
  /\ answer' = [answer EXCEPT ![c] = NoAnswer]
  /\ Release(c, "idle")
  /\ UNCHANGED <<recent, calls_per_hour, provider>>

\* The clock; the calls that leave the window, an hour old, are the oldest.
Tick ==
  /\ recent # <<>>
  /\ \E n \in 0..Len(recent) :
       /\ \A i \in DOMAIN recent : i <= n <=> recent[i] + 1 >= Hour
       /\ recent' = [i \in 1..(Len(recent) - n) |-> recent[n + i] + 1]
  /\ UNCHANGED <<pc, answer, limiter, tokens, unknown, calls_per_hour, provider, faults>>

\* A crash or a shutdown at any moment, and the next process under its configuration.
Restart ==
  /\ faults < MaxFaults
  /\ faults' = faults + 1
  /\ pc' = [c \in Callers |-> "idle"]
  /\ answer' = [c \in Callers |-> NoAnswer]
  /\ in_use' = 0 /\ profile_held' = FALSE
  /\ assessment_waiters' = <<>> /\ profile_waiters' = <<>>
  /\ calls_per_hour' \in CallLimits
  /\ UNCHANGED <<tokens, unknown, recent, provider>>

----------------------------------------------------------------------------
Proceed(c) == Resume(c) \/ Reserve(c) \/ Deferred(c) \/ Answer(c) \/ Settle(c)
Step(c) == Acquire(c) \/ Cancel(c) \/ CancelGranted(c) \/ Proceed(c)

Next == (\E c \in Callers : Step(c)) \/ Tick \/ Restart

\* A granted call runs on: every HTTP request has a timeout.
Fairness == \A c \in Callers : WF_vars(Proceed(c))

Spec == Init /\ [][Next]_vars
FairSpec == Spec /\ Fairness

----------------------------------------------------------------------------
Holders == {c \in Callers : pc[c] \in {"granted", "holding", "sent", "answered"}}
Waiting(c) == pc[c] = "waiting"

\* A queue holds every caller of its class that waits, once.
IsQueueOf(q, S) ==
  /\ q \in Seq(S)
  /\ \A i, j \in DOMAIN q : q[i] = q[j] => i = j
  /\ \A c \in S : Waiting(c) <=> \E i \in DOMAIN q : q[i] = c

\* The limiter, the ledger and the callers keep their shapes; the hour holds no more
\* calls than the widest configuration admitted, oldest first.
TypeOK ==
  /\ pc \in [Callers -> {"idle", "waiting", "granted", "holding", "sent", "answered"}]
  /\ in_use \in 0..Capacity /\ profile_held \in BOOLEAN
  /\ IsQueueOf(assessment_waiters, Assessments) /\ IsQueueOf(profile_waiters, Profiles)
  /\ answer \in [Callers -> [kind : {"none", "declined", "reported", "unreported"}, used : Nat]]
  /\ tokens \in Nat /\ unknown \in BOOLEAN
  /\ calls_per_hour \in CallLimits /\ \E n \in CallLimits : Len(recent) <= n
  /\ recent \in Seq(0..(Hour - 1))
  /\ \A i, j \in DOMAIN recent : i <= j => recent[i] >= recent[j]

\* A slot in use has exactly one caller behind it and profiles have at most one of them,
\* also when a grant races the end of its caller's context (Acquire).
SlotsAreHeld ==
  /\ in_use = Cardinality(Holders)
  /\ Cardinality(Holders \cap Profiles) = IF profile_held THEN 1 ELSE 0

\* No wake-up is lost: while a slot is free no Assessment waits, and a profile waits
\* only for another profile (wakeNextLocked).
NoIdleSlot ==
  in_use < Capacity => /\ assessment_waiters = <<>>
                       /\ profile_waiters # <<>> => profile_held

\* Whatever crashes, is lost or stays unsettled, the provider never bills more than
\* total_tokens, save for what it billed beyond a request's own allowance
\* (reserve before dispatch, latchUnknown).
SpendIsBounded == billed <= TotalTokens + excess

\* The retry time of a deferral is the first at which the hour has room again, also
\* when a restart lowered calls_per_hour below what the hour already holds.
RetryAtIsExact ==
  RateExceeded =>
    LET Left(w) == Cardinality({i \in DOMAIN recent : recent[i] + w < Hour})
    IN  Left(RetryAfter) < calls_per_hour /\ Left(RetryAfter - 1) >= calls_per_hour

\* The limiter's counts are its holders and no wake-up is lost.
LimiterIsExact == SlotsAreHeld /\ NoIdleSlot

\* The ledger covers what the provider bills, and says when it has room again.
BudgetIsExact == SpendIsBounded /\ RetryAtIsExact

=============================================================================
