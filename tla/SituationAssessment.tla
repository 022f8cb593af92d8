------------------------ MODULE SituationAssessment ------------------------
(***************************************************************************)
(* What the controller concludes about one Situation, cycle after cycle:   *)
(* the facts it derives from the source (facts.go, reasons.go,             *)
(* snapshot.go), the model's proposal and the policy that accepts, adjusts *)
(* or rejects it (assessment.go), the reuse and the preservation of an     *)
(* older conclusion, the deterministic fallback, and the contract that     *)
(* names who acts next (controller.go).  A cycle is one step here: its     *)
(* claim, its calls and its fences are SituationController's.  Times are   *)
(* minutes of elapsed duration; a retry time is ahead, reached or null.    *)
(***************************************************************************)
EXTENDS Naturals, Sequences, FiniteSets

CONSTANTS
  Alerts,       \* the Alerts of the Situation's Incidents
  Incidents,    \* its Incidents, for their triage phases
  Severities,   \* severities a delivery may carry, "critical" or lower
  Ages,         \* minutes of elapsed duration the instance visits
  Prior,        \* minutes comparable Situations lasted, ascending
  Phases,       \* triage phases the instance visits
  Claims,       \* what a proposal may claim of cause and impact
  MaxAttempts,  \* work attempts per input (MaxWorkAttemptsPerInput)
  MaxChanges    \* bound on what the source and the clock change

VARIABLES
  alerts,       \* every Alert's latest delivery
  degraded,     \* whether a prepared observation came back degraded
  age,          \* elapsed duration
  sit,          \* the Situation row
  row,          \* its current authoritative Assessment
  told,         \* what the last commit projected
  failed,       \* whether an attempt on the current material facts failed
  changes       \* changes of the source so far

vars == <<alerts, degraded, age, sit, row, told, failed, changes>>

Reasons == {"critical_anchor", "duration_outlier"}

-----------------------------------------------------------------------------
(* Facts, reasons and hashes.                                              *)

DurationClass(minutes) ==
  IF minutes < 1 THEN "subminute"
  ELSE IF minutes < 15 THEN "short"
  ELSE IF minutes < 60 THEN "medium"
  ELSE "long"

\* The source's state: firing while the latest delivery of some Alert is.
incidentSymptomStatus(latest) ==
  IF \E a \in Alerts : latest[a].firing THEN "firing" ELSE "resolved"

\* Only an Alert's latest delivery proves a severity active.
criticalAnchorEligible(latest) ==
  \E a \in Alerts : latest[a].firing /\ latest[a].severity = "critical"

\* Twice the median, of durations in ascending order.
twiceMedian(sorted) ==
  LET n == Len(sorted)
  IN IF n % 2 = 1 THEN 2 * sorted[n \div 2 + 1]
     ELSE sorted[n \div 2] + sorted[n \div 2 + 1]

\* The value at rank ceil(0.95 n).
p95NearestRank(sorted) == sorted[(95 * Len(sorted) + 99) \div 100]

durationOutlierEligible(elapsed, sorted) ==
  /\ Len(sorted) >= 5
  /\ elapsed > p95NearestRank(sorted) /\ elapsed > twiceMedian(sorted)

\* novel_symptom and terminal_uncertainty have no reachable predicate.
EligibleReasons(latest, elapsed) ==
  {r \in Reasons : \/ r = "critical_anchor" /\ criticalAnchorEligible(latest)
                   \/ r = "duration_outlier" /\ durationOutlierEligible(elapsed, Prior)}

\* The facts of the store: severity and elapsed minutes are no part of them.
DeriveStoreFacts == <<DurationClass(age), incidentSymptomStatus(alerts)>>

\* They and the limits of the prepared evidence are what is material.
MaterialFactHash == <<DeriveStoreFacts, degraded>>

\* The reasons, and the lifecycle and Attention the cycle starts from, join
\* the basis of a judgment.
AssessmentBasisHash ==
  <<MaterialFactHash, EligibleReasons(alerts, age), sit.life, sit.att>>

\* Limitation codes the prepared evidence produced this cycle.
DynamicLimitationCodes == IF degraded THEN {"observation_degraded"} ELSE {}

\* Static codes are always allowed, dynamic ones while they hold.
allowedLimitationCodes(snap) == {"none", "semantic_assessment_unavailable"} \cup snap.codes

Terminal(life) == life = "recovered"

\* resolveLifecycle, on the source's state alone: a silent source enters
\* recovery, and its grace may have passed.
Lifecycles ==
  IF incidentSymptomStatus(alerts) = "firing" THEN {"active"}
  ELSE IF sit.life = "active" THEN {"recovery_pending"}
  ELSE {"recovery_pending", "recovered"}

\* BuildSnapshot, with the lifecycle the cycle resolved.
Snapshot(life) ==
  [life |-> life, eligible |-> EligibleReasons(alerts, age), codes |-> DynamicLimitationCodes,
   material |-> MaterialFactHash, basis |-> AssessmentBasisHash]

hasDeterministicFloor(snap) == "critical_anchor" \in snap.eligible

-----------------------------------------------------------------------------
(* The Operator contract.                                                  *)

TriageDecisions == {"none", "request", "skip"}

\* A decision moves a row only while it awaits one.
effectiveTriagePhase(phase, decision) ==
  CASE phase = "awaiting_decision" /\ decision = "request" -> "pending"
    [] phase = "awaiting_decision" /\ decision = "skip"    -> "skipped"
    [] OTHER -> phase

\* Running work outranks work to be done, which outranks work that waits.
aggregateTriagePhase(phase, decision) ==
  LET effective == {effectiveTriagePhase(phase[i], decision[i]) : i \in Incidents}
  IN IF "in_flight" \in effective THEN "in_flight"
     ELSE IF effective \cap {"awaiting_decision", "pending"} # {} THEN "awaiting_decision"
     ELSE IF "backoff" \in effective THEN "backoff"
     ELSE "none"

\* The phases of this cycle's Incidents, after this cycle's decisions.
TriagePhases ==
  {aggregateTriagePhase(phase, decision) : phase \in [Incidents -> Phases],
                                           decision \in [Incidents -> TriageDecisions]}

\* Triage outranks the controller's own retries, which outrank recovery.
deriveAlertINTBranch(life, triage, semantic) ==
  LET Branch(action, status, wait) == [action |-> action, status |-> status, wait |-> wait]
  IN IF Terminal(life) THEN Branch("none", "none", "none")
     ELSE IF triage = "awaiting_decision" THEN Branch("run_acute_triage", "planned", "none")
     ELSE IF triage = "in_flight" THEN Branch("run_acute_triage", "running", "none")
     ELSE IF triage = "backoff" THEN Branch("run_acute_triage", "waiting", "acute_triage_backoff")
     ELSE IF semantic = "due" THEN Branch("retry_situation_assessment", "waiting", "assessment_retry")
     ELSE IF semantic = "blocked" THEN Branch("retry_situation_assessment", "blocked", "assessment_parked")
     ELSE IF life = "recovery_pending" THEN Branch("verify_recovery", "waiting", "recovery_grace")
     ELSE Branch("monitor_situation", "waiting", "source_change")

\* Only an accepted reason that is no floor puts a question to the operator.
operatorActionRequired(content, eligible) ==
  /\ content.reason # "none" /\ content.att = "investigate"
  /\ content.reason \in eligible /\ content.reason # "critical_anchor"

actorFor(operator, branch) ==
  IF operator THEN "operator" ELSE IF branch.action # "none" THEN "alertint" ELSE "none"

DeriveCadence(life, att, triage) ==
  IF Terminal(life) THEN "none"
  ELSE IF att = "urgent" \/ life = "recovery_pending" \/ triage = "in_flight" THEN "fast"
  ELSE IF att = "investigate" THEN "normal"
  ELSE "slow"

DeriveActionContract(content, snap, triage, semantic) ==
  LET branch   == deriveAlertINTBranch(snap.life, triage, semantic)
      operator == operatorActionRequired(content, snap.eligible)
  IN [action |-> branch.action, status |-> branch.status, wait |-> branch.wait,
      operator |-> operator, actor |-> actorFor(operator, branch),
      cadence |-> DeriveCadence(snap.life, content.att, triage)]

-----------------------------------------------------------------------------
(* Proposals, reuse and fallback.                                          *)

Contents == [att : {"observe", "investigate", "urgent"}, reason : Reasons \cup {"none"},
             claim : Claims,
             lim : {"none", "semantic_assessment_unavailable", "observation_degraded", "invented"}]

\* What the model may answer; schema and shape errors are "malformed".
Proposals == {p \in Contents : p.lim # "semantic_assessment_unavailable"}

materialClaim(p) == p.claim \in {"supported", "confirmed_impact"}

\* The first rule a proposal breaks decides its outcome.
ProposalOutcome(p, snap) ==
  IF p.claim = "operator_confirmed" THEN "policy_rejected"
  ELSE IF \/ p.lim \notin allowedLimitationCodes(snap)
          \/ p.reason \notin snap.eligible \cup {"none"} THEN "capability_rejected"
  ELSE IF \/ materialClaim(p) /\ p.reason = "none"
          \/ p.claim = "supported" /\ p.reason # "critical_anchor"
          \/ p.att = "urgent" /\ ~hasDeterministicFloor(snap) THEN "policy_rejected"
  ELSE IF p.claim = "contradicted" THEN "contradicted"
  ELSE "accepted"

accepted(outcome) == outcome \in {"accepted", "contradicted"}

\* Faulty: the floor does not raise what is proposed.
ProposedAsIs(p, snap) == [outcome |-> ProposalOutcome(p, snap), content |-> p]
\* An active floor raises whatever is accepted to urgent.
validateProposalContent(p, snap) ==
  [outcome |-> ProposalOutcome(p, snap),
   content |-> IF hasDeterministicFloor(snap) THEN [p EXCEPT !.att = "urgent"] ELSE p]

NoRow == [derivation |-> "none", basis |-> <<>>,
          content |-> [att |-> "observe", reason |-> "none", claim |-> "unknown", lim |-> "none"]]

\* A fallback's unknowns are no judgment to build on.
trustworthy(r) == r.derivation \notin {"none", "deterministic_fallback"}

\* A reason survives while its code is still eligible.
rebindSufficientReason(content, snap) == content.reason \in snap.eligible \cup {"none"}

Revalidated(r, snap) ==
  /\ trustworthy(r) /\ rebindSufficientReason(r.content, snap)
  /\ accepted(validateProposalContent(r.content, snap).outcome)

\* An unchanged basis is judged without a call.
RevalidateReuse(r, snap) == r.basis = snap.basis /\ Revalidated(r, snap)

\* DeterministicFallback: observe, or the floor.
DeterministicFallback(snap) ==
  [att |-> IF hasDeterministicFloor(snap) THEN "urgent" ELSE "observe",
   reason |-> IF hasDeterministicFloor(snap) THEN "critical_anchor" ELSE "none",
   claim |-> "unknown", lim |-> "semantic_assessment_unavailable"]

\* Faulty: a trustworthy conclusion is kept as it stands.
KeptAsIs(r, snap) == [ok |-> trustworthy(r), content |-> r.content]
\* What was concluded on other facts is kept only if it holds on these.
revalidatedPreservedAssessment(r, snap) ==
  [ok |-> Revalidated(r, snap),
   content |-> validateProposalContent(r.content, snap).content]

-----------------------------------------------------------------------------
(* Commits.                                                                *)

\* The projection, the contract and the Situation row; a park the commit
\* does not touch stands.
Commit(snap, content, triage, semantic, park, retry, attempts) ==
  /\ sit' = [life |-> snap.life, att |-> content.att, material |-> snap.material,
             park |-> park, retry |-> retry, attempts |-> attempts]
  /\ told' = [eligible |-> snap.eligible, content |-> content, triage |-> triage,
              contract |-> DeriveActionContract(content, snap, triage, semantic)]
  /\ UNCHANGED <<alerts, degraded, age, changes>>

\* commitResult: a judgment becomes the authoritative row and ends any park.
commitResult(snap, content, derivation, triage, attempts) ==
  /\ Commit(snap, content, triage, "none", "none", "null", attempts)
  /\ row' = [derivation |-> derivation, basis |-> snap.basis, content |-> content]

\* fallbackOrPreserve: a kept conclusion writes no row, a fallback does.
fallbackOrPreserve(snap, triage, semantic, park, retry, attempts) ==
  LET kept == revalidatedPreservedAssessment(row, snap)
      content == IF kept.ok THEN kept.content ELSE DeterministicFallback(snap)
  IN /\ Commit(snap, content, triage, semantic, park, retry, attempts)
     /\ row' = IF kept.ok THEN row
               ELSE [derivation |-> "deterministic_fallback", basis |-> snap.basis,
                     content |-> content]

\* BeginControllerAttempt counts attempts on unchanged material facts.
NextAttempt(snap) == IF sit.material = snap.material THEN sit.attempts + 1 ELSE 1

\* Failures are remembered for as long as the material facts stand.
Failed(snap, fails) == failed' = (fails \/ (failed /\ sit.material = snap.material))

\* A budget deferral is on until its retry time, which may have come.
BudgetDefers == sit.park = "budget_deferred"
BudgetMayBeAsked == BudgetDefers => sit.retry = "set"

\* controllerParkBlocksDispatch: only against the facts it was recorded on.
controllerParkBlocksDispatch(snap) ==
  sit.park \in {"policy_rejected", "capability_rejected"} /\ sit.material = snap.material

Dispatches(snap) ==
  /\ ~RevalidateReuse(row, snap) /\ BudgetMayBeAsked
  /\ ~controllerParkBlocksDispatch(snap)

Reuse(snap, triage) ==
  /\ RevalidateReuse(row, snap)
  /\ commitResult(snap, validateProposalContent(row.content, snap).content,
                  "revalidated_reuse", triage, sit.attempts)
  /\ Failed(snap, FALSE)

\* commitBudgetDeferred, inside a deferral that is still on.
Deferred(snap, triage) ==
  /\ ~RevalidateReuse(row, snap) /\ BudgetDefers
  /\ fallbackOrPreserve(snap, triage, IF sit.retry = "null" THEN "blocked" ELSE "due",
                        sit.park, sit.retry, sit.attempts)
  /\ Failed(snap, FALSE)

\* Faulty: a parked Situation is told that nothing is wrong.
BlockedSilently(snap, triage) ==
  /\ ~RevalidateReuse(row, snap) /\ BudgetMayBeAsked /\ controllerParkBlocksDispatch(snap)
  /\ fallbackOrPreserve(snap, triage, "none", sit.park, "null", sit.attempts)
  /\ Failed(snap, FALSE)
\* commitBlocked, under a permanent park.
Blocked(snap, triage) ==
  /\ ~RevalidateReuse(row, snap) /\ BudgetMayBeAsked /\ controllerParkBlocksDispatch(snap)
  /\ fallbackOrPreserve(snap, triage, "blocked", sit.park, "null", sit.attempts)
  /\ Failed(snap, FALSE)

\* commitBlocked, the attempts being spent; without a park, one is recorded.
Exhausted(snap, triage) ==
  /\ Dispatches(snap) /\ NextAttempt(snap) > MaxAttempts
  /\ fallbackOrPreserve(snap, triage, "blocked",
                        IF sit.park = "none" THEN "dependency_exhausted" ELSE sit.park,
                        "null", sit.attempts)
  /\ Failed(snap, FALSE)

\* ValidateAssessmentProposal: what validation makes of every answer; a
\* rejected proposal is carried no further.
ValidateAssessmentProposal(snap) ==
  {LET v == validateProposalContent(p, snap)
   IN IF accepted(v.outcome) THEN v ELSE [outcome |-> v.outcome, content |-> NoRow.content]
   : p \in Proposals}

\* The model answers, and its answer is validated.
Answered(snap, triage, v) ==
  LET n == NextAttempt(snap)
  IN IF accepted(v.outcome)
       THEN /\ commitResult(snap, v.content, "model_validated", triage, n)
            /\ Failed(snap, FALSE)
       ELSE /\ fallbackOrPreserve(snap, triage, "blocked", v.outcome, "null", n)
            /\ Failed(snap, TRUE)

\* No usable answer: a bounded retry, and then a park.
Unanswered(snap, triage, reason) ==
  LET n == NextAttempt(snap)
  IN /\ IF n = MaxAttempts
          THEN fallbackOrPreserve(snap, triage, "blocked", reason, "null", n)
          ELSE fallbackOrPreserve(snap, triage, "due", IF n = 1 THEN "none" ELSE sit.park, "set", n)
     /\ Failed(snap, TRUE)

\* The budget denies the call; its attempt is given back.
Denied(snap, triage, retry) ==
  LET n == NextAttempt(snap)
  IN /\ fallbackOrPreserve(snap, triage, IF retry = "null" THEN "blocked" ELSE "due",
                           "budget_deferred", retry, n - 1)
     /\ Failed(snap, FALSE)

\* reconcile: lifecycle, triage decisions, then one of the paths above.
Reconcile ==
  /\ ~Terminal(sit.life)
  /\ \E snap \in {Snapshot(life) : life \in Lifecycles}, triage \in TriagePhases :
       \/ Reuse(snap, triage)
       \/ Deferred(snap, triage)
       \/ Blocked(snap, triage)
       \/ Exhausted(snap, triage)
       \/ /\ Dispatches(snap) /\ NextAttempt(snap) <= MaxAttempts
          /\ \/ \E v \in ValidateAssessmentProposal(snap) : Answered(snap, triage, v)
             \/ \E reason \in {"malformed_exhausted", "dependency_exhausted"} :
                  Unanswered(snap, triage, reason)
             \/ \E retry \in {"null", "set"} : Denied(snap, triage, retry)

-----------------------------------------------------------------------------
(* The source.                                                             *)

Change == changes < MaxChanges /\ changes' = changes + 1

\* A delivery, a prepared observation, or time.
Deliver ==
  /\ Change
  /\ \E a \in Alerts, d \in [firing : BOOLEAN, severity : Severities] :
       alerts' = [alerts EXCEPT ![a] = d]
  /\ UNCHANGED <<degraded, age, sit, row, told, failed>>

Observe ==
  /\ Change
  /\ degraded' = ~degraded
  /\ UNCHANGED <<alerts, age, sit, row, told, failed>>

Elapse ==
  /\ Change
  /\ \E t \in Ages : t > age /\ age' = t
  /\ UNCHANGED <<alerts, degraded, sit, row, told, failed>>

\* WakeDependencyRecoveredSituations: a new budget of attempts.
Wake ==
  /\ sit.park = "dependency_exhausted" /\ ~Terminal(sit.life)
  /\ sit' = [sit EXCEPT !.park = "none", !.attempts = 0]
  /\ UNCHANGED <<alerts, degraded, age, row, told, failed, changes>>

Init ==
  /\ alerts \in [Alerts -> [firing : {TRUE}, severity : Severities]]
  /\ degraded = FALSE /\ age \in {t \in Ages : \A u \in Ages : t <= u}
  /\ sit = [life |-> "active", att |-> "observe", material |-> <<>>, park |-> "none",
            retry |-> "null", attempts |-> 0]
  /\ row = NoRow
  /\ told = [eligible |-> {}, content |-> NoRow.content, triage |-> "none",
             contract |-> [action |-> "none", status |-> "none", wait |-> "none",
                           operator |-> FALSE, actor |-> "none", cadence |-> "none"]]
  /\ failed = FALSE /\ changes = 0

Next == Reconcile \/ Deliver \/ Observe \/ Elapse \/ Wake

Spec == Init /\ [][Next]_vars

-----------------------------------------------------------------------------
(* Properties.                                                             *)

Conclusions == [att : {"observe", "investigate", "urgent"}, reason : Reasons \cup {"none"},
                claim : Claims \cup {"unknown"},
                lim : {"none", "semantic_assessment_unavailable", "observation_degraded", "invented"}]

\* The Situation row, its Assessment and the projection keep their types: every path ends
\* with a conclusion in the vocabulary and a park the controller knows.
TypeOK ==
  /\ sit \in [life : {"active", "recovery_pending", "recovered"},
             att : {"observe", "investigate", "urgent"}, material : {sit.material},
             park : {"none", "budget_deferred", "policy_rejected", "capability_rejected",
                     "malformed_exhausted", "dependency_exhausted"},
             retry : {"null", "set"}, attempts : Nat]
  /\ row.derivation \in {"none", "model_validated", "revalidated_reuse", "deterministic_fallback"}
  /\ row.content \in Conclusions /\ told.content \in Conclusions
  /\ told.eligible \subseteq Reasons
  /\ told.triage \in {"in_flight", "awaiting_decision", "backoff", "none"}

\* Whatever path a cycle took (a fresh judgment, a reused one, a kept one or
\* the fallback), what it projects stands on its own facts: it is urgent
\* exactly when a critical anchor is eligible, its reason is eligible, and
\* the operator is asked only about an eligible reason that is no floor.
ConclusionIsGrounded ==
  told.contract.status # "none" =>
    /\ (told.content.att = "urgent") <=> ("critical_anchor" \in told.eligible)
    /\ told.content.reason \in told.eligible \cup {"none"}
    /\ told.contract.operator => "duration_outlier" \in told.eligible

\* The contract tells the truth about the controller's own work: unless
\* triage work hides it, it says "blocked" exactly when a park without a
\* retry time is recorded (a recovered provider may have lifted it since),
\* and "retry" exactly when a retry is scheduled.
ContractIsHonest ==
  told.contract.status # "none" /\ told.triage = "none" =>
    /\ told.contract.status = "blocked" => sit.park # "none" \/ sit.attempts = 0
    /\ sit.park # "none" /\ sit.retry = "null" => told.contract.status = "blocked"
    /\ (told.contract.wait = "assessment_retry") <=> (sit.retry = "set")

\* A park for a failing dependency follows a failure: reconcile parks an
\* exhausted input because "the process died mid-dispatch".
ExhaustionIsFailure == sit.park = "dependency_exhausted" => failed
=============================================================================
