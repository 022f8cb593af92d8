-------------------------- MODULE SemanticProfiles --------------------------
(***************************************************************************)
(* Advisory semantic profiles (internal/store/semantic_profiles.go and     *)
(* semantic_profile_budget.go, internal/semanticprofile/worker.go).        *)
(*                                                                         *)
(* Deliveries under a signature without a profile queue one inference job  *)
(* per frozen input.  Workers claim a job under a lease, reserve a call,   *)
(* ask the provider and commit what it answered; an operator may correct   *)
(* the profile at any time; every new head is announced to the open        *)
(* Situations of its signature, page by page.  A job is named by its       *)
(* frozen input, a Situation by a number that stands for the order of the  *)
(* ids.  Times are left to the scheduler: a retry is due and a lease is    *)
(* over at any later moment.                                               *)
(***************************************************************************)
EXTENDS Integers, FiniteSets, FiniteSetsExt

CONSTANTS
  Inputs,           \* frozen semantic inputs: the (signature, digest) of a job
  SignatureOf(_),   \* the signature key of an input
  Situations,       \* ids of Situations, a set of numbers
  Workers,
  MaxAttempts,      \* situations.semantic_profiles.max_attempts
  BatchSize,        \* Situations in one page of a change
  MaxOutages, MaxCorrections, MaxDeferrals, MaxFaults   \* bounds

VARIABLES
  job,              \* input -> row of semantic_profile_inference_jobs
  head, origin,     \* signature -> version and origin of its head, 0 when it has none
  changes,          \* unacknowledged rows of semantic_profile_changes
  worker,           \* worker -> its round
  health,           \* [healthy, generation] of the LLM health tracker
  situation,        \* id -> lifecycle, deliveries, and the reconciliation it is in
  corrections, deferrals, faults,
  sent              \* history: input -> requests the provider may have seen

jobs == <<job, sent>>
profile == <<head, origin, changes, corrections>>
vars == <<jobs, profile, worker, health, situation, deferrals, faults>>

Signatures == {SignatureOf(i) : i \in Inputs}
NoOwner == "none"
NoJob == [status |-> "absent", attempt |-> 0, budget |-> 0, class |-> "none", rearmed |-> 0,
          owner |-> NoOwner, retry |-> FALSE]
Idle == [at |-> "idle", input |-> "none", outcome |-> "none"]
NoGuidance == [s \in Signatures |-> 0]

Init ==
  /\ job = [i \in Inputs |-> NoJob]
  /\ head = NoGuidance
  /\ origin = [s \in Signatures |-> "none"]
  /\ changes = {}
  /\ worker = [w \in Workers |-> Idle]
  /\ health = [healthy |-> TRUE, generation |-> 0]
  /\ situation = [n \in Situations |->
       [open |-> TRUE, has |-> {}, due |-> FALSE, run |-> "idle", fence |-> FALSE,
        seen |-> NoGuidance, basis |-> NoGuidance]]
  /\ corrections = 0 /\ deferrals = 0 /\ faults = 0
  /\ sent = [i \in Inputs |-> 0]

Live(i) == job[i].status \in {"pending", "running"}
Siblings(i) == {j \in Inputs : SignatureOf(j) = SignatureOf(i)}
Under(n) == {SignatureOf(i) : i \in situation[n].has}

----------------------------------------------------------------------------
\* Situations: an input is applied, the controller reconciles, the episode ends.

\* wakeSituationForSemanticProfileChangeTx: the input version moves on and the
\* controller's lease is cleared.
Woken(n) == [situation[n] EXCEPT !.due = TRUE, !.fence = FALSE]

\* admitSemanticProfileInferenceTx.
Admissible(i) ==
  /\ head[SignatureOf(i)] = 0
  /\ job[i].status = "absent"
  /\ \A j \in Siblings(i) : ~Live(j)

\* ApplySituationInput for a delivery under i: map it, join or open, admit a job.
Attach(n, i) ==
  /\ situation[n].open /\ i \notin situation[n].has
  /\ situation' = [situation EXCEPT ![n] = [Woken(n) EXCEPT !.has = @ \cup {i}]]
  /\ job' = IF Admissible(i)
            THEN [job EXCEPT ![i] = [NoJob EXCEPT !.status = "pending", !.budget = MaxAttempts]]
            ELSE job
  /\ UNCHANGED <<sent, profile, worker, health, deferrals, faults>>

\* The controller claims a due Situation and loads its input.
Load(n) ==
  /\ situation[n].open /\ situation[n].due /\ situation[n].run = "idle"
  /\ situation' = [situation EXCEPT ![n].run = "loaded", ![n].fence = TRUE]
  /\ UNCHANGED <<jobs, profile, worker, health, deferrals, faults>>

\* LoadProfileGuidanceForDeliveries, in the preparation of that run.
Guide(n) ==
  /\ situation[n].run = "loaded"
  /\ situation' = [situation EXCEPT ![n].run = "guided",
       ![n].seen = [s \in Signatures |-> IF s \in Under(n) THEN head[s] ELSE 0]]
  /\ UNCHANGED <<jobs, profile, worker, health, deferrals, faults>>

\* CommitController: refused when the input version has moved.
Commit(n) ==
  /\ situation[n].run = "guided"
  /\ situation' = [situation EXCEPT ![n].run = "idle",
       ![n].due = @ /\ ~situation[n].fence,
       ![n].basis = IF situation[n].fence THEN situation[n].seen ELSE @]
  /\ UNCHANGED <<jobs, profile, worker, health, deferrals, faults>>

Close(n) ==
  /\ situation[n].open /\ situation[n].has # {}
  /\ situation' = [situation EXCEPT ![n].open = FALSE, ![n].run = "idle"]
  /\ UNCHANGED <<jobs, profile, worker, health, deferrals, faults>>

----------------------------------------------------------------------------
\* Heads.

\* commitAcceptedInferenceTx and the same three writes of CorrectSemanticProfile.
AdvanceHead(s, from) ==
  /\ head' = [head EXCEPT ![s] = @ + 1]
  /\ origin' = [origin EXCEPT ![s] = from]
  /\ changes' = changes \cup {[signature |-> s, version |-> head[s] + 1, cursor |-> 0]}

\* CorrectSemanticProfile; the compare-and-set on the operator's expected version
\* fails, and changes nothing, unless it is the current one.
Correct(s) ==
  /\ corrections < MaxCorrections
  /\ corrections' = corrections + 1
  /\ AdvanceHead(s, "correction")
  /\ UNCHANGED <<jobs, worker, health, situation, deferrals, faults>>

\* The Situations of a change beyond its cursor.
Audience(c) == {n \in Situations : situation[n].open /\ c.signature \in Under(n) /\ n > c.cursor}

\* The next BatchSize of them in the order of their ids.
Page(c) == {n \in Audience(c) : Cardinality({k \in Audience(c) : k < n}) < BatchSize}

\* Faulty: a change is acknowledged with its first page.
AcknowledgedFirst(c) == TRUE

\* A page that is not full is the last.
Acknowledged(c) == Cardinality(Page(c)) < BatchSize

\* DeliverSemanticProfileChangesDetailed for the change of lowest id, which is random.
Deliver(c) ==
  /\ situation' = [n \in Situations |-> IF n \in Page(c) THEN Woken(n) ELSE situation[n]]
  /\ changes' = (changes \ {c}) \cup
       (IF Acknowledged(c) THEN {} ELSE {[c EXCEPT !.cursor = Max(Page(c))]})
  /\ UNCHANGED <<jobs, head, origin, corrections, worker, health, deferrals, faults>>

----------------------------------------------------------------------------
\* The worker's round.

\* The row is free again.
Freed(i, status, class, retry) ==
  [job[i] EXCEPT !.status = status, !.class = class, !.retry = retry, !.owner = NoOwner]

Spent(i) == job[i].attempt >= job[i].budget

\* Faulty: only a restart gives the jobs of a dead worker back.
LeaseExpiresNever(i) == FALSE

\* releaseExpiredSemanticInferenceLeasesTx, in a claim or at startup, for a lease that
\* was not renewed.
LeaseExpires(i) ==
  /\ job[i].status = "running"
  /\ \A w \in Workers : job[i].owner = w => worker[w].input # i \/ faults < MaxFaults
  /\ faults' = IF \E w \in Workers : job[i].owner = w /\ worker[w].input = i THEN faults + 1 ELSE faults
  /\ job' = [job EXCEPT ![i] = Freed(i, IF Spent(i) THEN "exhausted" ELSE "pending", job[i].class, FALSE)]
  /\ UNCHANGED <<sent, profile, worker, health, situation, deferrals>>

\* Pending on the budget with no retry time: only an operator's reset frees it.
Held(i) == job[i].status = "pending" /\ job[i].class = "budget_deferred" /\ ~job[i].retry

\* ClaimSemanticInferenceJob.
Claim(w, i) ==
  /\ worker[w].at = "idle"
  /\ job[i].status = "pending" /\ ~Held(i)
  /\ job' = [job EXCEPT ![i] = [job[i] EXCEPT !.status = "running", !.owner = w, !.retry = FALSE,
               !.class = IF job[i].class = "budget_deferred" THEN "none" ELSE job[i].class]]
  /\ worker' = [worker EXCEPT ![w] = [Idle EXCEPT !.at = "claimed", !.input = i]]
  /\ UNCHANGED <<sent, profile, health, situation, deferrals, faults>>

\* The fence of every later step: this worker still holds the live claim.
Holds(w) == LET i == worker[w].input IN job[i].status = "running" /\ job[i].owner = w

\* ReserveSemanticInferenceCall: the attempt is charged before the request.
Reserve(w) ==
  LET i == worker[w].input
  IN  /\ worker[w].at = "claimed" /\ Holds(w)
      /\ IF Spent(i)
         THEN /\ job' = [job EXCEPT ![i] = Freed(i, "exhausted", @.class, @.retry)]
              /\ worker' = [worker EXCEPT ![w] = Idle]
         ELSE /\ job' = [job EXCEPT ![i].attempt = @ + 1]
              /\ worker' = [worker EXCEPT ![w].at = "calling"]
      /\ UNCHANGED <<sent, profile, health, situation, deferrals, faults>>

Parsed == {"accepted", "malformed"}    \* what ParseProfile makes of an answer
Unsent == {"deferred", "held"}         \* the budget's refusals, with and without a RetryAt

\* CompleteOnce and classifyCompletion.  A wait for the limiter that times out is a
\* failure; a budget deferral proves that nothing was sent.
Answer(w) ==
  /\ worker[w].at = "calling"
  /\ \E o \in Parsed \cup Unsent \cup {"failed"} :
       /\ worker' = [worker EXCEPT ![w] = [@ EXCEPT !.at = "answered", !.outcome = o]]
       /\ IF o \in Unsent
          THEN deferrals < MaxDeferrals /\ deferrals' = deferrals + 1 /\ UNCHANGED sent
          ELSE sent' = [sent EXCEPT ![worker[w].input] = @ + 1] /\ UNCHANGED deferrals
  /\ UNCHANGED <<job, profile, health, situation, faults>>

\* completeBudgetDeferredProfileTx: the attempt is refunded with the durable retry.
Refund(w) ==
  LET i == worker[w].input
  IN  job' = [job EXCEPT ![i] = [Freed(i, "pending", "budget_deferred", worker[w].outcome = "deferred")
                EXCEPT !.attempt = job[i].attempt - 1]]

\* An accepted answer becomes the head if there is none yet, and is stale otherwise.
Accept(w) ==
  LET i == worker[w].input
      s == SignatureOf(i)
  IN  /\ job' = [job EXCEPT ![i] = Freed(i, "complete", "none", @.retry)]
      /\ IF head[s] = 0 THEN AdvanceHead(s, "inferred") ELSE UNCHANGED <<head, origin, changes>>

\* Another outcome is retried while the budget lasts; its class says what may re-arm it.
Retry(w) ==
  LET i == worker[w].input
  IN  job' = [job EXCEPT ![i] =
        Freed(i, IF Spent(i) THEN "exhausted" ELSE "pending",
              IF worker[w].outcome = "failed" THEN "dependency" ELSE "content",
              IF Spent(i) THEN @.retry ELSE TRUE)]

\* CompleteSemanticInference.
Complete(w) ==
  /\ worker[w].at = "answered" /\ Holds(w)
  /\ CASE worker[w].outcome = "accepted" -> Accept(w)
       [] worker[w].outcome \in Unsent -> Refund(w) /\ UNCHANGED <<head, origin, changes>>
       [] OTHER -> Retry(w) /\ UNCHANGED <<head, origin, changes>>
  /\ worker' = [worker EXCEPT ![w] = Idle]
  /\ UNCHANGED <<sent, corrections, health, situation, deferrals, faults>>

\* ErrLeaseLost: the round ends and its result is dropped.
LeaseLost(w) ==
  /\ worker[w].at # "idle" /\ ~Holds(w)
  /\ worker' = [worker EXCEPT ![w] = Idle]
  /\ UNCHANGED <<jobs, profile, health, situation, deferrals, faults>>

\* A failed write, a failed heartbeat or the end of the process: the round is gone and
\* its job stays running.  The request it had started may still reach the provider.
Abandon(w) ==
  /\ worker[w].at # "idle" /\ faults < MaxFaults
  /\ faults' = faults + 1
  /\ worker' = [worker EXCEPT ![w] = Idle]
  /\ sent' = IF worker[w].at = "calling" THEN [sent EXCEPT ![worker[w].input] = @ + 1] ELSE sent
  /\ UNCHANGED <<job, profile, health, situation, deferrals>>

----------------------------------------------------------------------------
\* Recovery of the provider.

Outage ==
  /\ health.healthy /\ health.generation < MaxOutages
  /\ health' = [healthy |-> FALSE, generation |-> health.generation + 1]
  /\ UNCHANGED <<jobs, profile, worker, situation, deferrals, faults>>

Recovery ==
  /\ ~health.healthy
  /\ health' = [health EXCEPT !.healthy = TRUE]
  /\ UNCHANGED <<jobs, profile, worker, situation, deferrals, faults>>

\* The rows of the rearm query.
Candidates == {i \in Inputs : /\ job[i].status = "exhausted" /\ job[i].class = "dependency"
                              /\ job[i].rearmed < health.generation}

\* Nothing to infer, or no free slot, when the query ran.
Unrearmable(i) == head[SignatureOf(i)] # 0 \/ \E j \in Siblings(i) : Live(j)

\* Faulty: a job keeps the generation it had, and every poll grants another budget.
RearmedUnstamped(i) == [job[i] EXCEPT !.status = "pending", !.budget = @ + MaxAttempts, !.retry = FALSE]

Rearmed(i) ==
  [job[i] EXCEPT !.status = "pending", !.budget = @ + MaxAttempts, !.retry = FALSE,
                 !.rearmed = health.generation]

\* RearmDependencyExhaustedSemanticJobs, before every claim poll of the controller while
\* the tracker is healthy.  Two candidates of one signature break the index of the one
\* live job, and the transaction rolls back.
Rearm ==
  LET Revived == {i \in Candidates : ~Unrearmable(i)}
  IN  /\ health.healthy /\ Candidates # {}
      /\ \A i, j \in Revived : SignatureOf(i) = SignatureOf(j) => i = j
      /\ job' = [i \in Inputs |->
           CASE i \in Revived -> Rearmed(i)
             [] i \in Candidates \ Revived -> [job[i] EXCEPT !.rearmed = health.generation]
             [] OTHER -> job[i]]
      /\ UNCHANGED <<sent, profile, worker, health, situation, deferrals, faults>>

----------------------------------------------------------------------------
Reconcile(n) == Load(n) \/ Guide(n) \/ Commit(n)
Proceed(w) == Reserve(w) \/ Answer(w) \/ Complete(w) \/ LeaseLost(w)

Next ==
  \/ \E n \in Situations : (\E i \in Inputs : Attach(n, i)) \/ Reconcile(n) \/ Close(n)
  \/ \E s \in Signatures : Correct(s)
  \/ \E c \in changes : Deliver(c)
  \/ \E w \in Workers : (\E i \in Inputs : Claim(w, i)) \/ Proceed(w) \/ Abandon(w)
  \/ \E i \in Inputs : LeaseExpires(i)
  \/ Outage \/ Recovery \/ Rearm

\* Workers poll, every call ends within AttemptWall, a lease that is not renewed runs
\* out, and the controller polls on.
Fairness ==
  /\ \A w \in Workers : WF_vars(Proceed(w))
  /\ WF_vars(\E w \in Workers, i \in Inputs : Claim(w, i))
  /\ \A i \in Inputs : WF_vars(LeaseExpires(i))
  /\ WF_vars(Rearm)

Spec == Init /\ [][Next]_vars
FairSpec == Spec /\ Fairness

----------------------------------------------------------------------------
\* Every row is one the schema admits: a running job has an owner, attempts are never
\* negative, and a signature has at most one live job.
TypeOK ==
  /\ \A i \in Inputs :
       /\ job[i].status \in {"absent", "pending", "running", "complete", "exhausted"}
       /\ job[i].attempt >= 0 /\ (job[i].status = "running" <=> job[i].owner \in Workers)
       /\ Cardinality({j \in Siblings(i) : Live(j)}) <= 1
  /\ \A s \in Signatures : head[s] = 0 <=> origin[s] = "none"
  /\ \A w \in Workers : worker[w].at = "idle" <=> worker[w].input \notin Inputs
  /\ \A c \in changes : c.version \in 1..head[c.signature]

\* Whatever crashes, loses its lease or is refunded, the provider sees at most
\* MaxAttempts requests of a job, and that many more for every recovery it went through
\* (ReserveSemanticInferenceCall, RearmDependencyExhaustedSemanticJobs).
SpendPerRecovery == \A i \in Inputs : sent[i] <= MaxAttempts * (1 + health.generation)

\* The basis of an open Situation's last decision is behind the head only while the
\* Situation is due or the change is still on its way to it, whatever attaches while
\* the pages go out (DeliverSemanticProfileChangesDetailed).
NoSilentChange ==
  \A n \in Situations : \A s \in Under(n) :
    situation[n].open /\ situation[n].basis[s] # head[s]
      => \/ situation[n].due
         \/ \E c \in changes : c.signature = s /\ c.version = head[s] /\ n > c.cursor

\* A queued job is completed or exhausted, or waits for the operator's budget.
EveryJobSettles == \A i \in Inputs : []<>(~Live(i) \/ Held(i))

\* A durable healthy generation re-arms dependency exhaustion, or marks the job as
\* considered (the comment of RearmDependencyExhaustedSemanticJobs).
ExhaustionIsReconsidered == \A i \in Inputs : []<>(i \notin Candidates \/ ~health.healthy)

=============================================================================
