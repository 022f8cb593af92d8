--------------------------- MODULE DecisionsProofs ---------------------------
(***************************************************************************)
(* What is decided about an Incident or a Situation, for every value of    *)
(* the constants: the conclusions and contracts of the controller, the     *)
(* authority an operator lends it and its schedule, what triage may be     *)
(* confident of and remember, what verdict capture does once it is shut    *)
(* down, what the phone is told, and what the audit log vouches for.       *)
(***************************************************************************)
EXTENDS Decisions, FiniteSetTheorems, SequenceTheorems, WellFoundedInduction, TLAPS

-----------------------------------------------------------------------------
(* SituationAssessment. Each of reconcile's paths ends in one Commit; the  *)
(* proof is that all of them hand it a grounded conclusion and a semantic  *)
(* state that matches the park and the retry time they record.             *)

Snapshots(snap) ==
  /\ snap.life \in {"active", "recovery_pending", "recovered"}
  /\ snap.eligible \subseteq Reasons

\* A conclusion that stands on the facts of its snapshot.
Grounded(content, snap) ==
  /\ content \in Conclusions
  /\ (content.att = "urgent") <=> ("critical_anchor" \in snap.eligible)
  /\ content.reason \in snap.eligible \cup {"none"}

\* What a commit says of the controller's own work, and what it records.
Honest(semantic, park, retryAt) ==
  /\ semantic \in {"none", "due", "blocked"}
  /\ park \in {"none", "budget_deferred", "policy_rejected", "capability_rejected",
               "malformed_exhausted", "dependency_exhausted"}
  /\ retryAt \in {"null", "set"}
  /\ semantic = "blocked" => park # "none"
  /\ park # "none" /\ retryAt = "null" => semantic = "blocked"
  /\ (semantic = "due") <=> (retryAt = "set")

\* The inductive invariant.
Inv == TypeOK /\ ConclusionIsGrounded /\ ContractIsHonest

Triage == {"in_flight", "awaiting_decision", "backoff", "none"}

-----------------------------------------------------------------------------
\* Whatever the cycle sees, its snapshot names a lifecycle and eligible reasons.
LEMMA SnapshotType ==
  ASSUME NEW life \in Lifecycles
  PROVE  Snapshots(Snapshot(life))
<1>1. life \in {"active", "recovery_pending", "recovered"}
  BY DEF Lifecycles
<1>2. Snapshot(life).life = life /\ Snapshot(life).eligible = EligibleReasons(alerts, age)
  BY DEF Snapshot
<1>3. EligibleReasons(alerts, age) \subseteq Reasons
  BY DEF EligibleReasons
<1> QED
  BY <1>1, <1>2, <1>3 DEF Snapshots

LEMMA TriageType ==
  ASSUME NEW triage \in TriagePhases
  PROVE  triage \in Triage
<1>1. PICK stage, decision : triage = aggregateTriagePhase(stage, decision)
  BY DEF TriagePhases
<1> QED
  BY <1>1 DEF aggregateTriagePhase, Triage

\* What validation accepts is grounded, whether it was proposed now or concluded before.
LEMMA ValidatedIsGrounded ==
  ASSUME NEW snap, Snapshots(snap), NEW p \in Conclusions,
         accepted(validateProposalContent(p, snap).outcome)
  PROVE  Grounded(validateProposalContent(p, snap).content, snap)
<1>1. validateProposalContent(p, snap).outcome = ProposalOutcome(p, snap)
  BY DEF validateProposalContent
<1>2. ProposalOutcome(p, snap) \notin {"policy_rejected", "capability_rejected"}
  BY <1>1 DEF accepted
<1>3. /\ p.reason \in snap.eligible \cup {"none"}
      /\ ~(p.att = "urgent" /\ ~hasDeterministicFloor(snap))
  BY <1>2 DEF ProposalOutcome
<1>4. CASE hasDeterministicFloor(snap)
  <2>1. validateProposalContent(p, snap).content = [p EXCEPT !.att = "urgent"]
    BY <1>4 DEF validateProposalContent
  <2>2. [p EXCEPT !.att = "urgent"] \in Conclusions
    BY DEF Conclusions
  <2>3. [p EXCEPT !.att = "urgent"].att = "urgent" /\ [p EXCEPT !.att = "urgent"].reason = p.reason
    BY DEF Conclusions
  <2> QED
    BY <1>3, <1>4, <2>1, <2>2, <2>3 DEF Grounded, hasDeterministicFloor
<1>5. CASE ~hasDeterministicFloor(snap)
  <2>1. validateProposalContent(p, snap).content = p
    BY <1>5 DEF validateProposalContent
  <2> QED
    BY <1>3, <1>5, <2>1 DEF Grounded, hasDeterministicFloor
<1> QED
  BY <1>4, <1>5

LEMMA FallbackIsGrounded ==
  ASSUME NEW snap, Snapshots(snap)
  PROVE  Grounded(DeterministicFallback(snap), snap)
<1> DEFINE f == DeterministicFallback(snap)
<1>1. f \in Conclusions
  BY DEF DeterministicFallback, Conclusions, Reasons
<1>2. CASE hasDeterministicFloor(snap)
  <2>1. f.att = "urgent" /\ f.reason = "critical_anchor"
    BY <1>2 DEF DeterministicFallback
  <2> QED
    BY <1>1, <1>2, <2>1 DEF Grounded, hasDeterministicFloor
<1>3. CASE ~hasDeterministicFloor(snap)
  <2>1. f.att = "observe" /\ f.reason = "none"
    BY <1>3 DEF DeterministicFallback
  <2> QED
    BY <1>1, <1>3, <2>1 DEF Grounded, hasDeterministicFloor
<1> QED
  BY <1>2, <1>3

-----------------------------------------------------------------------------
\* One commit.
LEMMA CommitHolds ==
  ASSUME NEW snap, Snapshots(snap), NEW content, Grounded(content, snap),
         NEW triage \in Triage, NEW semantic, NEW park, NEW retryAt, Honest(semantic, park, retryAt),
         NEW attempts \in Nat,
         Commit(snap, content, triage, semantic, park, retryAt, attempts),
         row'.derivation \in {"none", "model_validated", "revalidated_reuse", "deterministic_fallback"},
         row'.content \in Conclusions
  PROVE  Inv'
<1> DEFINE branch == deriveAlertINTBranch(snap.life, triage, semantic)
           operator == operatorActionRequired(content, snap.eligible)
<1>1. /\ sit' = [life |-> snap.life, att |-> content.att, material |-> snap.material,
                 park |-> park, retry |-> retryAt, attempts |-> attempts]
      /\ told' = [eligible |-> snap.eligible, content |-> content, triage |-> triage,
                  contract |-> DeriveActionContract(content, snap, triage, semantic)]
  BY DEF Commit
<1>2. /\ sit'.park = park /\ sit'.retry = retryAt /\ sit'.attempts = attempts
      /\ told'.eligible = snap.eligible /\ told'.content = content /\ told'.triage = triage
      /\ told'.contract = DeriveActionContract(content, snap, triage, semantic)
  BY <1>1
<1>3. /\ told'.contract.status = branch.status /\ told'.contract.wait = branch.wait
      /\ told'.contract.operator = operator
  BY <1>2 DEF DeriveActionContract
<1>4. content.att \in {"observe", "investigate", "urgent"} /\ content.reason \in Reasons \cup {"none"}
  BY DEF Grounded, Conclusions
<1>5. TypeOK'
  <2>1. sit'.material = snap.material
    BY <1>1
  <2>2. sit' \in [life : {"active", "recovery_pending", "recovered"},
             att : {"observe", "investigate", "urgent"}, material : {sit'.material},
             park : {"none", "budget_deferred", "policy_rejected", "capability_rejected",
                     "malformed_exhausted", "dependency_exhausted"},
             retry : {"null", "set"}, attempts : Nat]
    BY <1>1, <1>4, <2>1 DEF Honest, Snapshots
  <2> QED
    BY <1>2, <2>2 DEF TypeOK, Grounded, Snapshots, Triage
<1>6. ConclusionIsGrounded'
  <2>1. operator => content.reason \in snap.eligible /\ content.reason # "critical_anchor"
    BY DEF operatorActionRequired
  <2>2. operator => "duration_outlier" \in snap.eligible
    BY <2>1 DEF Snapshots, Reasons
  <2> QED
    BY <1>2, <1>3, <2>2 DEF ConclusionIsGrounded, Grounded
<1>7. ContractIsHonest'
  <2> SUFFICES ASSUME branch.status # "none", triage = "none"
               PROVE  /\ branch.status = "blocked" => park # "none" \/ attempts = 0
                      /\ park # "none" /\ retryAt = "null" => branch.status = "blocked"
                      /\ (branch.wait = "assessment_retry") <=> (retryAt = "set")
    BY <1>2, <1>3 DEF ContractIsHonest
  <2>1. ~Terminal(snap.life)
    BY DEF deriveAlertINTBranch
  <2>2. CASE semantic = "due"
    <3>1. branch.status = "waiting" /\ branch.wait = "assessment_retry"
      BY <2>1, <2>2 DEF deriveAlertINTBranch
    <3> QED
      BY <2>2, <3>1 DEF Honest
  <2>3. CASE semantic = "blocked"
    <3>1. branch.status = "blocked" /\ branch.wait = "assessment_parked"
      BY <2>1, <2>3 DEF deriveAlertINTBranch
    <3> QED
      BY <2>3, <3>1 DEF Honest
  <2>4. CASE semantic = "none"
    <3>1. branch.status = "waiting" /\ branch.wait \in {"recovery_grace", "source_change"}
      BY <2>1, <2>4 DEF deriveAlertINTBranch
    <3> QED
      BY <2>4, <3>1 DEF Honest
  <2> QED
    BY <2>2, <2>3, <2>4 DEF Honest
<1> QED
  BY <1>5, <1>6, <1>7 DEF Inv

\* A judgment, proposed now or reused.
LEMMA ResultHolds ==
  ASSUME NEW snap, Snapshots(snap), NEW content, Grounded(content, snap),
         NEW triage \in Triage, NEW derivation \in {"model_validated", "revalidated_reuse"},
         NEW attempts \in Nat, commitResult(snap, content, derivation, triage, attempts)
  PROVE  Inv'
<1>1. Commit(snap, content, triage, "none", "none", "null", attempts)
  BY DEF commitResult
<1>2. row' = [derivation |-> derivation, basis |-> snap.basis, content |-> content]
  BY DEF commitResult
<1>3. Honest("none", "none", "null")
  BY DEF Honest
<1>4. row'.derivation = derivation /\ row'.content = content
  BY <1>2
<1> QED
  BY <1>1, <1>3, <1>4, CommitHolds DEF Grounded

\* No judgment: an older one that still holds, or the fallback.
LEMMA FallbackHolds ==
  ASSUME Inv, NEW snap, Snapshots(snap), NEW triage \in Triage,
         NEW semantic, NEW park, NEW retryAt, Honest(semantic, park, retryAt), NEW attempts \in Nat,
         fallbackOrPreserve(snap, triage, semantic, park, retryAt, attempts)
  PROVE  Inv'
<1> DEFINE kept == revalidatedPreservedAssessment(row, snap)
<1>1. row.content \in Conclusions
      /\ row.derivation \in {"none", "model_validated", "revalidated_reuse", "deterministic_fallback"}
  BY DEF Inv, TypeOK
<1>2. CASE kept.ok
  <2>1. Revalidated(row, snap) /\ kept.content = validateProposalContent(row.content, snap).content
    BY <1>2 DEF revalidatedPreservedAssessment
  <2>2. Grounded(kept.content, snap)
    BY <1>1, <2>1, ValidatedIsGrounded DEF Revalidated
  <2>3. Commit(snap, kept.content, triage, semantic, park, retryAt, attempts) /\ row' = row
    BY <1>2 DEF fallbackOrPreserve
  <2> HIDE DEF kept
  <2> QED
    BY <1>1, <2>2, <2>3, CommitHolds
<1>3. CASE ~kept.ok
  <2>1. PICK f : f = DeterministicFallback(snap)
    OBVIOUS
  <2>2. Grounded(f, snap)
    BY <2>1, FallbackIsGrounded
  <2>3. /\ Commit(snap, f, triage, semantic, park, retryAt, attempts)
        /\ row' = [derivation |-> "deterministic_fallback", basis |-> snap.basis, content |-> f]
    BY <1>3, <2>1 DEF fallbackOrPreserve
  <2>4. row'.derivation = "deterministic_fallback" /\ row'.content = f
    BY <2>3
  <2> QED
    BY <2>2, <2>3, <2>4, CommitHolds DEF Grounded
<1> QED
  BY <1>2, <1>3

-----------------------------------------------------------------------------
\* Every path of a cycle.
LEMMA ReconcileHolds ==
  ASSUME Inv, Reconcile
  PROVE  Inv'
<1>1. PICK snap \in {Snapshot(life) : life \in Lifecycles}, triage \in TriagePhases :
       \/ Reuse(snap, triage)
       \/ Deferred(snap, triage)
       \/ Blocked(snap, triage)
       \/ Exhausted(snap, triage)
       \/ /\ Dispatches(snap) /\ NextAttempt(snap) <= MaxAttempts
          /\ \/ \E v \in ValidateAssessmentProposal(snap) : Answered(snap, triage, v)
             \/ \E reason \in {"malformed_exhausted", "dependency_exhausted"} :
                  Unanswered(snap, triage, reason)
             \/ \E retryAt \in {"null", "set"} : Denied(snap, triage, retryAt)
  BY DEF Reconcile
<1>2. Snapshots(snap)
  <2>1. PICK life \in Lifecycles : snap = Snapshot(life)
    BY <1>1
  <2> QED
    BY <2>1, SnapshotType
<1>3. triage \in Triage
  BY TriageType
<1>4. /\ sit.retry \in {"null", "set"} /\ sit.attempts \in Nat
      /\ sit.park \in {"none", "budget_deferred", "policy_rejected", "capability_rejected",
                       "malformed_exhausted", "dependency_exhausted"}
      /\ row.content \in Conclusions
  BY DEF Inv, TypeOK
<1>5. PICK n \in Nat : n = NextAttempt(snap) /\ n >= 1
  BY <1>4 DEF NextAttempt
<1>6. CASE Reuse(snap, triage)
  <2>1. PICK c : c = validateProposalContent(row.content, snap).content
    OBVIOUS
  <2>2. Grounded(c, snap)
    BY <1>2, <1>4, <1>6, <2>1, ValidatedIsGrounded DEF Reuse, RevalidateReuse, Revalidated
  <2>3. commitResult(snap, c, "revalidated_reuse", triage, sit.attempts)
    BY <1>6, <2>1 DEF Reuse
  <2> QED
    BY <1>2, <1>3, <1>4, <2>2, <2>3, ResultHolds
<1>7. CASE Deferred(snap, triage)
  <2>1. PICK s : s = IF sit.retry = "null" THEN "blocked" ELSE "due"
    OBVIOUS
  <2>2. sit.park = "budget_deferred"
        /\ fallbackOrPreserve(snap, triage, s, sit.park, sit.retry, sit.attempts)
    BY <1>7, <2>1 DEF Deferred, BudgetDefers
  <2>3. Honest(s, sit.park, sit.retry)
    BY <1>4, <2>1, <2>2 DEF Honest
  <2> QED
    BY <1>2, <1>3, <1>4, <2>2, <2>3, FallbackHolds
<1>8. CASE Blocked(snap, triage)
  <2>1. sit.park \in {"policy_rejected", "capability_rejected"}
        /\ fallbackOrPreserve(snap, triage, "blocked", sit.park, "null", sit.attempts)
    BY <1>8 DEF Blocked, controllerParkBlocksDispatch
  <2>2. Honest("blocked", sit.park, "null")
    BY <1>4, <2>1 DEF Honest
  <2> QED
    BY <1>2, <1>3, <1>4, <2>1, <2>2, FallbackHolds
<1>9. CASE Exhausted(snap, triage)
  <2>1. PICK p : p = IF sit.park = "none" THEN "dependency_exhausted" ELSE sit.park
    OBVIOUS
  <2>2. fallbackOrPreserve(snap, triage, "blocked", p, "null", sit.attempts)
    BY <1>9, <2>1 DEF Exhausted
  <2>3. Honest("blocked", p, "null")
    BY <1>4, <2>1 DEF Honest
  <2> QED
    BY <1>2, <1>3, <1>4, <2>2, <2>3, FallbackHolds
<1>10. ASSUME NEW v \in ValidateAssessmentProposal(snap), Answered(snap, triage, v)
       PROVE  Inv'
  <2>1. PICK p \in Proposals : v = LET w == validateProposalContent(p, snap)
                                   IN IF accepted(w.outcome) THEN w
                                      ELSE [outcome |-> w.outcome, content |-> NoRow.content]
    BY DEF ValidateAssessmentProposal
  <2>2. p \in Conclusions
    BY DEF Proposals, Contents, Conclusions
  <2>3. PICK w : w = validateProposalContent(p, snap)
    OBVIOUS
  <2>4. v.outcome = w.outcome /\ (accepted(w.outcome) => v = w)
    <3>1. CASE accepted(w.outcome)
      BY <2>1, <2>3, <3>1
    <3>2. CASE ~accepted(w.outcome)
      <4>1. v = [outcome |-> w.outcome, content |-> NoRow.content]
        BY <2>1, <2>3, <3>2
      <4> QED
        BY <3>2, <4>1
    <3> QED
      BY <3>1, <3>2
  <2>5. CASE accepted(v.outcome)
    <3>1. Grounded(v.content, snap)
      BY <1>2, <2>2, <2>3, <2>4, <2>5, ValidatedIsGrounded
    <3>2. commitResult(snap, v.content, "model_validated", triage, n)
      BY <1>5, <1>10, <2>5 DEF Answered
    <3> QED
      BY <1>2, <1>3, <3>1, <3>2, ResultHolds
  <2>6. CASE ~accepted(v.outcome)
    <3>1. fallbackOrPreserve(snap, triage, "blocked", v.outcome, "null", n)
      BY <1>5, <1>10, <2>6 DEF Answered
    <3>2. v.outcome \in {"policy_rejected", "capability_rejected"}
      <4>1. w.outcome = ProposalOutcome(p, snap)
        BY <2>3 DEF validateProposalContent
      <4>2. ProposalOutcome(p, snap) \in {"policy_rejected", "capability_rejected", "contradicted", "accepted"}
        BY DEF ProposalOutcome
      <4> QED
        BY <2>4, <2>6, <4>1, <4>2 DEF accepted
    <3>3. Honest("blocked", v.outcome, "null")
      BY <3>2 DEF Honest
    <3> QED
      BY <1>2, <1>3, <3>1, <3>3, FallbackHolds
  <2> QED
    BY <2>5, <2>6
<1>11. ASSUME NEW reason \in {"malformed_exhausted", "dependency_exhausted"},
              Unanswered(snap, triage, reason)
       PROVE  Inv'
  <2>1. CASE n = MaxAttempts
    <3>1. fallbackOrPreserve(snap, triage, "blocked", reason, "null", n)
      BY <1>5, <1>11, <2>1 DEF Unanswered
    <3>2. Honest("blocked", reason, "null")
      BY DEF Honest
    <3> QED
      BY <1>2, <1>3, <3>1, <3>2, FallbackHolds
  <2>2. CASE n # MaxAttempts
    <3>1. PICK p : p = IF n = 1 THEN "none" ELSE sit.park
      OBVIOUS
    <3>2. fallbackOrPreserve(snap, triage, "due", p, "set", n)
      BY <1>5, <1>11, <2>2, <3>1 DEF Unanswered
    <3>3. Honest("due", p, "set")
      BY <1>4, <3>1 DEF Honest
    <3> QED
      BY <1>2, <1>3, <3>2, <3>3, FallbackHolds
  <2> QED
    BY <2>1, <2>2
<1>12. ASSUME NEW retryAt \in {"null", "set"}, Denied(snap, triage, retryAt)
       PROVE  Inv'
  <2>1. PICK s : s = IF retryAt = "null" THEN "blocked" ELSE "due"
    OBVIOUS
  <2>2. fallbackOrPreserve(snap, triage, s, "budget_deferred", retryAt, n - 1)
    BY <1>5, <1>12, <2>1 DEF Denied
  <2>3. Honest(s, "budget_deferred", retryAt)
    BY <2>1 DEF Honest
  <2>4. n - 1 \in Nat
    BY <1>5
  <2> QED
    BY <1>2, <1>3, <2>2, <2>3, <2>4, FallbackHolds
<1> QED
  BY <1>1, <1>6, <1>7, <1>8, <1>9, <1>10, <1>11, <1>12

LEMMA InitHolds ==
  ASSUME Init
  PROVE  Inv
<1>1. NoRow.content \in Conclusions /\ NoRow.derivation = "none" /\ NoRow.content.reason = "none"
      /\ NoRow.content.att = "observe"
  BY DEF NoRow, Conclusions
<1>2. /\ told.eligible = {} /\ told.content = NoRow.content /\ told.triage = "none"
      /\ told.contract.status = "none"
  BY DEF Init
<1>3. TypeOK
  BY <1>1, <1>2 DEF Init, TypeOK
<1> QED
  BY <1>2, <1>3 DEF Inv, ConclusionIsGrounded, ContractIsHonest

LEMMA StepHolds ==
  ASSUME Inv, [Next]_vars
  PROVE  Inv'
<1>1. CASE Reconcile
  BY <1>1, ReconcileHolds
<1>2. CASE UNCHANGED <<sit, row, told>>
  BY <1>2 DEF Inv, TypeOK, ConclusionIsGrounded, ContractIsHonest
<1>3. CASE Wake
  <2>1. sit' = [sit EXCEPT !.park = "none", !.attempts = 0] /\ UNCHANGED <<row, told>>
    BY <1>3 DEF Wake
  <2>2. sit.park # "none"
    BY <1>3 DEF Wake
  <2>3. sit' \in [life : {"active", "recovery_pending", "recovered"},
             att : {"observe", "investigate", "urgent"}, material : {sit'.material},
             park : {"none", "budget_deferred", "policy_rejected", "capability_rejected",
                     "malformed_exhausted", "dependency_exhausted"},
             retry : {"null", "set"}, attempts : Nat]
        /\ sit'.park = "none" /\ sit'.attempts = 0 /\ sit'.retry = sit.retry
    BY <2>1 DEF Inv, TypeOK
  <2> QED
    BY <2>1, <2>2, <2>3 DEF Inv, TypeOK, ConclusionIsGrounded, ContractIsHonest
<1> QED
  BY <1>1, <1>2, <1>3 DEF Next, Deliver, Observe, Elapse, vars

LEMMA InvHolds == Spec => []Inv
<1>1. Init => Inv
  BY InitHolds
<1>2. Inv /\ [Next]_vars => Inv'
  BY StepHolds
<1> QED
  BY <1>1, <1>2, PTL DEF Spec

\* The rows and the projection keep their types on every path of reconcile.
THEOREM AssessmentTypes == Spec => []TypeOK
BY InvHolds, PTL DEF Inv

\* Whatever the model proposes and whatever path a cycle takes, its conclusion stands on
\* its own facts (validateProposalContent, revalidatedPreservedAssessment,
\* DeterministicFallback).
THEOREM ConclusionsAreGrounded == Spec => []ConclusionIsGrounded
BY InvHolds, PTL DEF Inv

\* The contract of a cycle agrees with the park and the retry time it records, for every
\* number of work attempts (commitBlocked, commitBudgetDeferred, fallbackOrPreserve).
THEOREM ContractsAreHonest == Spec => []ContractIsHonest
BY InvHolds, PTL DEF Inv

-----------------------------------------------------------------------------
(* VerdictCapture. What is joined has no operation in progress, and none   *)
(* begins.                                                                 *)

CapturePcs == {"idle", "entered", "loaded", "widened", "persisted", "captured", "grading",
               "annotating", "noted", "left"}
CaptureAnswers == {"none", "closed", "error", "ungraded", "graded", "noted"}
CaptureKinds == {"none", "correction", "confirmation", "note"}
CaptureVerdicts == [kind : CaptureKinds, exp : Int, widened : SUBSET Queries]
CaptureOps ==
  [pc : CapturePcs, kind : CaptureKinds, exp : Int, widen : SUBSET Queries,
   prior : CaptureVerdicts, answer : CaptureAnswers]

\* Requests and verdicts are what the engine makes them.
CaptureType == ops \in [Requests -> CaptureOps] /\ captured \in Seq(CaptureVerdicts)

\* An engine that was joined has let go of every request, and admits none.
CaptureJoined ==
  joined = TRUE => /\ phase \in {"joined", "sealed", "closed"}
                   /\ \A r \in Requests : ops[r].pc \in {"idle", "left"}

LEMMA CaptureInit == Capture!Init => CaptureType /\ CaptureJoined
<1>1. Capture!NoVerdict \in CaptureVerdicts
  BY DEF Capture!NoVerdict, CaptureVerdicts, CaptureKinds
<1>2. Capture!Idle \in CaptureOps
  BY <1>1 DEF Capture!Idle, CaptureOps, CapturePcs, CaptureAnswers, CaptureKinds
<1> QED
  BY <1>2 DEF Capture!Init, CaptureType, CaptureJoined

LEMMA CaptureMoves ==
  ASSUME CaptureType, NEW r \in Requests, NEW pc \in CapturePcs, Capture!Moves(r, pc)
  PROVE  ops' \in [Requests -> CaptureOps]
BY DEF CaptureType, CaptureOps, Capture!Moves

LEMMA CaptureLeaves ==
  ASSUME CaptureType, NEW r \in Requests, NEW answer \in CaptureAnswers, Capture!Leaves(r, answer)
  PROVE  /\ ops' \in [Requests -> CaptureOps]
         /\ ops'[r].pc = "left"
         /\ \A s \in Requests \ {r} : ops'[s] = ops[s]
<1>1. "left" \in CapturePcs
  BY DEF CapturePcs
<1> QED
  BY <1>1 DEF CaptureType, CaptureOps, Capture!Leaves

LEMMA CaptureEnter ==
  ASSUME CaptureType, CaptureJoined, NEW r \in Requests, Capture!Enter(r)
  PROVE  CaptureType' /\ CaptureJoined' /\ Capture!Quiet
<1>1. "closed" \in CaptureAnswers /\ {"entered", "annotating"} \subseteq CapturePcs
  BY DEF CaptureAnswers, CapturePcs
<1>2. UNCHANGED <<phase, joined, captured, notes, demotion, enqueued, counted>>
  BY DEF Capture!Enter, Capture!Store
<1>3. \A pc \in CapturePcs, kind \in CaptureKinds, exp \in Int, widen \in SUBSET Queries :
        Capture!Begun(pc, kind, exp, widen) \in CaptureOps
  <2>1. Capture!NoVerdict \in CaptureVerdicts /\ "none" \in CaptureAnswers
    BY DEF Capture!NoVerdict, CaptureVerdicts, CaptureKinds, CaptureAnswers
  <2> QED
    BY <2>1 DEF Capture!Idle, Capture!Begun, CaptureOps
<1>4. CASE Capture!Admitted
  <2>1. joined # TRUE
    BY <1>4 DEF CaptureJoined, Capture!Admitted
  <2>2. PICK op \in CaptureOps : ops' = [ops EXCEPT ![r] = op]
    <3>1. Capture!Kinds \subseteq CaptureKinds /\ Capture!Expectations \subseteq Int /\ "note" \in CaptureKinds
      BY DEF Capture!Kinds, Capture!Expectations, CaptureKinds
    <3> QED BY <1>1, <1>3, <1>4, <3>1 DEF Capture!Enter
  <2>3. CaptureType'
    BY <1>2, <2>2 DEF CaptureType
  <2> QED
    BY <1>2, <2>1, <2>3 DEF CaptureJoined, Capture!Quiet
<1>5. CASE ~Capture!Admitted
  <2>1. Capture!Leaves(r, "closed")
    BY <1>5 DEF Capture!Enter
  <2>2. CaptureType'
    BY <1>1, <1>2, <2>1, CaptureLeaves DEF CaptureType
  <2>3. \A s \in Requests : ops[s].pc \in {"idle", "left"} => ops'[s].pc \in {"idle", "left"}
    BY <1>1, <2>1, CaptureLeaves
  <2> QED
    BY <1>2, <2>2, <2>3 DEF CaptureJoined, Capture!Quiet
<1> QED BY <1>4, <1>5

\* What a request that is in progress does.
CaptureBusy(r) ==
  \/ Capture!Load(r) \/ Capture!Widen(r) \/ Capture!Persist(r) \/ Capture!Audit(r) \/ Capture!Grade(r)
  \/ Capture!GradeByDiff(r) \/ Capture!Replay(r) \/ Capture!GradeEnds(r) \/ Capture!Annotate(r) \/ Capture!AuditNote(r)

LEMMA CaptureWorks ==
  ASSUME CaptureType, CaptureJoined, NEW r \in Requests, CaptureBusy(r)
  PROVE  CaptureType' /\ CaptureJoined' /\ Capture!Quiet
<1> USE DEF CaptureBusy
<1>1. ops[r].pc \notin {"idle", "left"} /\ UNCHANGED <<phase, joined>>
  BY DEF Capture!Load, Capture!Widen, Capture!Persist, Capture!Audit, Capture!Grade,
         Capture!GradeByDiff, Capture!Replay, Capture!GradeEnds, Capture!Annotate, Capture!AuditNote
<1>2. joined # TRUE
  BY <1>1 DEF CaptureJoined
<1>3. phase \in {"sealed", "closed"} => UNCHANGED counted
  BY DEF Capture!Load, Capture!Widen, Capture!Persist, Capture!Audit, Capture!Grade, Capture!Store,
         Capture!GradeByDiff, Capture!Replay, Capture!GradeEnds, Capture!Annotate, Capture!AuditNote
<1>4. phase = "closed" => UNCHANGED <<captured, notes, demotion, enqueued>>
  BY DEF Capture!Load, Capture!Widen, Capture!Persist, Capture!Audit, Capture!Grade, Capture!Store,
         Capture!GradeByDiff, Capture!Replay, Capture!GradeEnds, Capture!Annotate, Capture!AuditNote, Capture!StoreOpen
<1>5. CaptureType'
  <2>1. CASE Capture!Load(r)
    <3>1. Capture!Latest \in CaptureVerdicts
      <4>1. Capture!NoVerdict \in CaptureVerdicts
        BY DEF Capture!NoVerdict, CaptureVerdicts, CaptureKinds
      <4> QED BY <4>1 DEF CaptureType, Capture!Latest
    <3>2. captured' = captured
      BY <2>1 DEF Capture!Load, Capture!Store
    <3>3. CASE Capture!StoreOpen
      <4>1. PICK pc \in CapturePcs : ops' = [ops EXCEPT ![r].pc = pc, ![r].prior = Capture!Latest]
        BY <2>1, <3>3 DEF Capture!Load, CapturePcs
      <4> QED BY <3>1, <3>2, <4>1 DEF CaptureType, CaptureOps
    <3>4. CASE ~Capture!StoreOpen
      <4>1. Capture!Leaves(r, "error") /\ "error" \in CaptureAnswers
        BY <2>1, <3>4 DEF Capture!Load, CaptureAnswers
      <4> QED BY <3>2, <4>1, CaptureLeaves DEF CaptureType
    <3> QED BY <3>3, <3>4
  <2>2. CASE ~Capture!Load(r)
    <3>1. \/ \E pc \in CapturePcs : Capture!Moves(r, pc)
          \/ \E answer \in CaptureAnswers : Capture!Leaves(r, answer)
      BY <2>2 DEF Capture!Widen, Capture!Persist, Capture!Audit, Capture!Grade, CapturePcs, CaptureAnswers,
         Capture!GradeByDiff, Capture!Replay, Capture!GradeEnds, Capture!Annotate, Capture!AuditNote
    <3>2. ops' \in [Requests -> CaptureOps]
      BY <3>1, CaptureMoves, CaptureLeaves
    <3>3. CASE Capture!Persist(r)
      <4> DEFINE v == [kind |-> ops[r].kind, exp |-> ops[r].exp, widened |-> ops[r].prior.widened \cup ops[r].widen]
      <4>1. v \in CaptureVerdicts
        <5>1. ops[r] \in CaptureOps
          BY DEF CaptureType
        <5> QED BY <5>1 DEF CaptureOps, CaptureVerdicts
      <4>2. captured' = captured \/ captured' = Append(captured, v)
        BY <3>3 DEF Capture!Persist, Capture!Store
      <4> QED BY <3>2, <4>1, <4>2 DEF CaptureType
    <3>4. CASE ~Capture!Persist(r)
      <4>1. captured' = captured
        BY <2>2, <3>4 DEF Capture!Widen, Capture!Audit, Capture!Grade, Capture!Store,
         Capture!GradeByDiff, Capture!Replay, Capture!GradeEnds, Capture!Annotate, Capture!AuditNote
      <4> QED BY <3>2, <4>1 DEF CaptureType
    <3> QED BY <3>3, <3>4
  <2> QED BY <2>1, <2>2
<1> QED
  BY <1>1, <1>2, <1>3, <1>4, <1>5 DEF CaptureJoined, Capture!Quiet

\* Shutdown itself: Close only counts the engine joined when no request is in progress.
LEMMA CaptureShutsDown ==
  ASSUME CaptureType, CaptureJoined, Capture!Close \/ Capture!Join \/ Capture!Seal \/ Capture!CloseStore
  PROVE  CaptureType' /\ CaptureJoined' /\ Capture!Quiet
<1>1. UNCHANGED <<ops, captured, notes, demotion, enqueued, counted>>
  BY DEF Capture!Close, Capture!Join, Capture!Seal, Capture!CloseStore, Capture!Store
<1>2. joined' = TRUE => phase' \in {"joined", "sealed", "closed"} /\ (joined = TRUE \/ Capture!InProgress = {})
  BY DEF CaptureJoined, Capture!Close, Capture!Join, Capture!Seal, Capture!CloseStore
<1>3. Capture!InProgress = {} => \A r \in Requests : ops[r].pc \in {"idle", "left"}
  BY DEF Capture!InProgress
<1> QED
  BY <1>1, <1>2, <1>3 DEF CaptureType, CaptureJoined, Capture!Quiet

LEMMA CaptureStep ==
  CaptureType /\ CaptureJoined /\ [Capture!Next]_(Capture!vars) =>
    CaptureType' /\ CaptureJoined' /\ [Capture!Quiet]_(Capture!vars)
<1> SUFFICES ASSUME CaptureType, CaptureJoined, [Capture!Next]_(Capture!vars)
             PROVE  CaptureType' /\ CaptureJoined' /\ [Capture!Quiet]_(Capture!vars)
  OBVIOUS
<1>1. CASE UNCHANGED Capture!vars
  BY <1>1 DEF CaptureType, CaptureJoined, Capture!vars
<1>2. CASE \E r \in Requests : Capture!Enter(r)
  BY <1>2, CaptureEnter
<1>3. CASE \E r \in Requests : CaptureBusy(r)
  BY <1>3, CaptureWorks
<1>4. CASE Capture!Close \/ Capture!Join \/ Capture!Seal \/ Capture!CloseStore
  BY <1>4, CaptureShutsDown
<1> QED BY <1>1, <1>2, <1>3, <1>4 DEF Capture!Next, CaptureBusy

\* However many requests are on their way when the engine is closed, once Close has joined
\* them none writes, observes or enqueues anything; after a Close that gave up, nothing is
\* reported past the seal and nothing written past the end of the store (enter, Close).
THEOREM CaptureShutdownIsQuiet == Capture!Spec => ShutdownIsQuiet
BY CaptureInit, CaptureStep, PTL DEF Capture!Spec, ShutdownIsQuiet, Capture!ShutdownIsQuiet

-----------------------------------------------------------------------------
(* TriageSkill. The record of a run keeps the grounds of its confidence:   *)
(* each stage adds what it fetched, judged or capped.                      *)

\* A bounded set of numbers that is not empty has a largest one.
LEMMA Largest ==
  ASSUME NEW n \in Nat, NEW S \in SUBSET (0..n), S # {}
  PROVE  \E x \in S : \A y \in S : y <= x
<1> DEFINE T == {n - y : y \in S}
<1>1. T \subseteq Nat /\ T # {}
  <2>1. \A y \in S : y \in Nat /\ y <= n
    OBVIOUS
  <2>2. \A y \in S : n - y \in Nat
    BY <2>1
  <2>3. PICK y \in S : TRUE
    OBVIOUS
  <2> QED
    BY <2>2, <2>3
<1>2. PICK m \in T : \A k \in T : ~(<<k, m>> \in OpToRel(<, Nat))
  <2> HIDE DEF T
  <2> QED
    BY <1>1, NatLessThanWellFounded, WFMin
<1>3. PICK x \in S : m = n - x
  OBVIOUS
<1>4. ASSUME NEW y \in S PROVE y <= x
  <2>1. n - y \in T /\ n - y \in Nat /\ m \in Nat
    BY <1>1
  <2>2. ~(<<n - y, m>> \in OpToRel(<, Nat))
    BY <1>2, <2>1
  <2>3. ~(n - y < m)
    BY <2>1, <2>2 DEF OpToRel
  <2> QED
    BY <1>3, <2>3
<1> QED
  BY <1>4

SkillPcs == {"idle", "gathered", "recalled", "drafted", "ready", "committed"}
SkillMemory == {"silent", "confirms", "refutes"}
SkillVerdicts == [inc : Triaged, kind : {"correction", "confirmation"}, series : BOOLEAN]
SkillRuns ==
  [pc : SkillPcs, inc : Triaged \cup {0}, rule : BOOLEAN, live : BOOLEAN, seen : {"nothing", "slow", "data"},
   strong : Triaged \cup {0}, governing : Nat, draft : 0 .. 2, confidence : 0 .. 2, memory : SkillMemory,
   rejudged : BOOLEAN, observed : BOOLEAN, gap : BOOLEAN, floor : BOOLEAN, tested : BOOLEAN, verified : BOOLEAN]

SkillType ==
  /\ marks \in [Triaged -> Nat]
  /\ verdicts \in Seq(SkillVerdicts)
  /\ run \in SkillRuns

\* What a triage may rely on at each of its steps.
SkillGrounds ==
  /\ run.governing <= Len(verdicts)
  /\ run.live => run.seen # "nothing"
  /\ run.verified => Verification
  /\ run.pc \in {"idle", "gathered"} => run.strong = 0
  /\ run.pc \in {"gathered", "recalled", "drafted"} => run.gap = FALSE
  /\ run.pc = "drafted" => run.confidence = run.draft
  /\ run.pc = "committed" => run.inc \in judged
  /\ run.pc \in {"ready", "committed"} /\ run.verified /\ run.memory # "silent" => run.rejudged /\ run.floor

SkillInv == SkillType /\ SkillGrounds /\ ConfidenceIsEarned

LEMMA SkillNoRun ==
  Skill!NoRun \in SkillRuns /\ Skill!NoRun.pc = "idle" /\ Skill!NoRun.strong = 0 /\ Skill!NoRun.governing = 0
    /\ Skill!NoRun.live = FALSE /\ Skill!NoRun.verified = FALSE /\ Skill!NoRun.gap = FALSE
BY DEF Skill!NoRun, SkillRuns, SkillPcs, SkillMemory

LEMMA SkillInit == Skill!Init => SkillInv
<1> SUFFICES ASSUME Skill!Init PROVE SkillInv
  OBVIOUS
<1>1. SkillType
  BY SkillNoRun DEF Skill!Init, SkillType
<1>2. SkillGrounds
  BY DEF Skill!Init, SkillGrounds, Skill!NoRun
<1>3. ConfidenceIsEarned
  BY SkillNoRun DEF Skill!Init, ConfidenceIsEarned, Skill!ConfidenceIsEarned
<1> QED BY <1>1, <1>2, <1>3 DEF SkillInv

\* A run that is over, and rows that did not change.
LEMMA SkillRunEnds ==
  ASSUME SkillInv, run' = Skill!NoRun, marks' \in [Triaged -> Nat], UNCHANGED verdicts
  PROVE  SkillInv'
<1>1. SkillType'
  BY SkillNoRun DEF SkillInv, SkillType
<1>2. SkillGrounds'
  BY SkillNoRun, <1>1 DEF SkillGrounds, SkillType
<1>3. ConfidenceIsEarned'
  BY SkillNoRun DEF ConfidenceIsEarned, Skill!ConfidenceIsEarned
<1> QED BY <1>1, <1>2, <1>3 DEF SkillInv

\* The newest of a set of numbers up to n is one of them, or there is none.
LEMMA SkillNewest ==
  ASSUME NEW n \in Nat, NEW S \in SUBSET (1 .. n)
  PROVE  Skill!Newest(S) \in S \cup {0} /\ Skill!Newest(S) \in 0 .. n /\ (S = {} => Skill!Newest(S) = 0)
<1>1. CASE S = {}
  BY <1>1 DEF Skill!Newest
<1>2. CASE S # {}
  <2>1. S \in SUBSET (0 .. n)
    OBVIOUS
  <2>2. PICK x \in S : \A y \in S : y <= x
    BY <1>2, <2>1, Largest
  <2>3. Skill!Newest(S) = CHOOSE j \in S : \A k \in S : k <= j
    BY <1>2 DEF Skill!Newest
  <2>4. Skill!Newest(S) \in S
    BY <2>2, <2>3, Zenon
  <2>5. \A y \in S : y \in 0 .. n
    OBVIOUS
  <2> QED BY <1>2, <2>4, <2>5
<1> QED BY <1>1, <1>2

\* Operators' verdicts only add to the table, so what steers a run goes on steering it.
LEMMA SkillVerdictAdded ==
  ASSUME SkillInv, NEW v \in SkillVerdicts, verdicts' = Append(verdicts, v), UNCHANGED <<run, judged>>,
         marks' \in [Triaged -> Nat]
  PROVE  SkillInv'
<1>1. verdicts' \in Seq(SkillVerdicts) /\ Len(verdicts') = Len(verdicts) + 1 /\ Len(verdicts) \in Nat
  BY DEF SkillInv, SkillType
<1>2. SkillType'
  BY <1>1 DEF SkillInv, SkillType
<1>3. SkillGrounds'
  BY <1>1 DEF SkillInv, SkillType, SkillGrounds, SkillRuns
<1>4. Skill!Steers(run.governing)' = Skill!Steers(run.governing)
  <2>1. run.governing \in Nat /\ run.governing <= Len(verdicts)
    BY DEF SkillInv, SkillType, SkillGrounds, SkillRuns
  <2>2. run.governing # 0 => verdicts'[run.governing] = verdicts[run.governing]
    BY <1>1, <2>1 DEF SkillInv, SkillType
  <2> QED BY <2>2 DEF Skill!Steers
<1>5. ConfidenceIsEarned'
  BY <1>4 DEF SkillInv, ConfidenceIsEarned, Skill!ConfidenceIsEarned
<1> QED BY <1>2, <1>3, <1>5 DEF SkillInv

LEMMA SkillCaptures ==
  ASSUME SkillInv, NEW i \in Triaged, NEW kind \in {"correction", "confirmation"}, NEW series \in BOOLEAN,
         Skill!CaptureVerdict(i, kind, series)
  PROVE  SkillInv' /\ Skill!MarkMove /\ Skill!CorrectedStaysBehind
<1> DEFINE v == [inc |-> i, kind |-> kind, series |-> series]
<1>1. v \in SkillVerdicts
  BY DEF SkillVerdicts
<1>2. verdicts' = Append(verdicts, v) /\ UNCHANGED <<run, judged>>
  BY DEF Skill!CaptureVerdict
<1>3. \/ marks' = marks
      \/ kind = "correction" /\ marks' = [marks EXCEPT ![i] = 2]
  BY DEF Skill!CaptureVerdict, Skill!demotionThreshold
<1>4. marks \in [Triaged -> Nat]
  BY DEF SkillInv, SkillType
<1>5. marks' \in [Triaged -> Nat] /\ \A j \in Triaged : marks'[j] # marks[j] => j = i /\ kind = "correction" /\ marks'[j] = 2
  BY <1>3, <1>4
<1>6. SkillInv'
  BY <1>1, <1>2, <1>5, SkillVerdictAdded
<1>7. Len(verdicts') = Len(verdicts) + 1 /\ verdicts'[Len(verdicts')] = v /\ Len(verdicts) \in Nat
  BY <1>1, <1>2 DEF SkillInv, SkillType
<1>8. Skill!MarkMove
  BY <1>4, <1>5, <1>7 DEF Skill!MarkMove, Skill!demotionThreshold
<1>9. run.pc = "gathered" => run'.strong = 0
  BY <1>2 DEF SkillInv, SkillGrounds
<1> QED BY <1>6, <1>8, <1>9 DEF Skill!CorrectedStaysBehind

\* Steps that touch neither marks nor verdicts.
LEMMA SkillMarksStand ==
  ASSUME UNCHANGED <<marks, verdicts>>
  PROVE  Skill!MarkMove
BY DEF Skill!MarkMove

LEMMA SkillGathers ==
  ASSUME SkillInv, NEW i \in Triaged, Skill!Gather(i)
  PROVE  SkillInv' /\ Skill!MarkMove /\ Skill!CorrectedStaysBehind
<1>1. PICK metrics \in SUBSET Skill!Replies(HasPromQL), zabbix \in SUBSET Skill!Replies(HasZabbix),
           logs \in BOOLEAN, sentry \in BOOLEAN, changed \in SUBSET {"real", "drill"} :
             LET real == \/ "data" \in metrics \/ logs \/ sentry \/ "real" \in changed
                         \/ i \in Drills /\ changed # {}
                         \/ "data" \in zabbix /\ zabbix \cap {"error", "timeout"} = {}
             IN run' = [Skill!NoRun EXCEPT
                    !.pc = "gathered", !.inc = i, !.verified = Verification,
                    !.live = Skill!LiveBasis(Skill!FetchMetrics(metrics), Skill!FetchZabbixContext(zabbix), Skill!FetchOne(logs),
                                       Skill!FetchChanges(i, changed), Skill!FetchOne(sentry)),
                    !.seen = IF real THEN "data"
                             ELSE IF "timeout" \in metrics /\ "error" \notin metrics THEN "slow" ELSE "nothing"]
  BY Zenon DEF Skill!Gather
<1> DEFINE real == \/ "data" \in metrics \/ logs \/ sentry \/ "real" \in changed
                   \/ i \in Drills /\ changed # {}
                   \/ "data" \in zabbix /\ zabbix \cap {"error", "timeout"} = {}
           live == Skill!LiveBasis(Skill!FetchMetrics(metrics), Skill!FetchZabbixContext(zabbix), Skill!FetchOne(logs),
                                       Skill!FetchChanges(i, changed), Skill!FetchOne(sentry))
           seen == IF real THEN "data" ELSE IF "timeout" \in metrics /\ "error" \notin metrics THEN "slow" ELSE "nothing"
<1>2. live => seen # "nothing"
  BY DEF Skill!LiveBasis, Skill!FetchMetrics, Skill!FetchZabbixContext, Skill!FetchOne, Skill!FetchChanges
<1>3. seen \in {"nothing", "slow", "data"} /\ live \in BOOLEAN /\ Verification \in BOOLEAN
  BY TriagedAssumption DEF Skill!LiveBasis
<1>4. run' = [Skill!NoRun EXCEPT !.pc = "gathered", !.inc = i, !.verified = Verification, !.live = live, !.seen = seen]
  BY <1>1, Zenon
<1> HIDE DEF live, seen, real
<1>5. /\ run' \in SkillRuns /\ run'.pc = "gathered" /\ run'.live = live /\ run'.seen = seen /\ run'.strong = 0
      /\ run'.verified = Verification /\ run'.governing = 0 /\ run'.gap = FALSE
  <2>1. ASSUME NEW r \in SkillRuns, NEW n,
               n = [r EXCEPT !.pc = "gathered", !.inc = i, !.verified = Verification, !.live = live, !.seen = seen]
        PROVE  /\ n \in SkillRuns /\ n.pc = "gathered" /\ n.live = live /\ n.seen = seen /\ n.strong = r.strong
               /\ n.verified = Verification /\ n.governing = r.governing /\ n.gap = r.gap
    <3>1. "gathered" \in SkillPcs
      BY DEF SkillPcs
    <3> QED BY <1>3, <2>1, <3>1 DEF SkillRuns
  <2> QED BY <1>4, <2>1, SkillNoRun, Zenon
<1>6. UNCHANGED <<judged, marks, verdicts>> /\ run.pc = "idle"
  BY DEF Skill!Gather
<1>7. SkillType'
  BY <1>5, <1>6 DEF SkillInv, SkillType
<1>8. SkillGrounds'
  BY <1>2, <1>5, <1>6 DEF SkillInv, SkillType, SkillGrounds
<1>9. ConfidenceIsEarned'
  BY <1>5 DEF ConfidenceIsEarned, Skill!ConfidenceIsEarned
<1> QED
  BY <1>6, <1>7, <1>8, <1>9, SkillMarksStand DEF SkillInv, Skill!CorrectedStaysBehind

LEMMA SkillShortCircuits ==
  ASSUME SkillInv, NEW i \in Triaged, Skill!ShortCircuit(i)
  PROVE  SkillInv' /\ Skill!MarkMove /\ Skill!CorrectedStaysBehind
<1>1. UNCHANGED <<judged, marks, verdicts>> /\ run.pc = "idle"
  BY DEF Skill!ShortCircuit
<1>2. run' = [Skill!NoRun EXCEPT !.pc = "ready", !.inc = i, !.rule = TRUE, !.confidence = 2]
  BY Zenon DEF Skill!ShortCircuit
<1>3. /\ run' \in SkillRuns /\ run'.pc = "ready" /\ run'.live = FALSE /\ run'.rule = TRUE
      /\ run'.verified = FALSE /\ run'.governing = 0 /\ run'.gap = FALSE
  <2>1. ASSUME NEW r \in SkillRuns
        PROVE  LET n == [r EXCEPT !.pc = "ready", !.inc = i, !.rule = TRUE, !.confidence = 2]
               IN  /\ n \in SkillRuns /\ n.pc = "ready" /\ n.live = r.live /\ n.rule = TRUE
                   /\ n.verified = r.verified /\ n.governing = r.governing /\ n.gap = r.gap
    <3>1. "ready" \in SkillPcs /\ 2 \in 0 .. 2
      BY DEF SkillPcs
    <3> QED BY <3>1 DEF SkillRuns
  <2> QED BY <1>2, <2>1, SkillNoRun, Zenon
<1>4. SkillType'
  BY <1>1, <1>3 DEF SkillInv, SkillType
<1>5. SkillGrounds'
  BY <1>1, <1>3 DEF SkillInv, SkillType, SkillGrounds
<1>6. ConfidenceIsEarned'
  BY <1>3 DEF ConfidenceIsEarned, Skill!ConfidenceIsEarned
<1> QED
  BY <1>1, <1>4, <1>5, <1>6, SkillMarksStand DEF SkillInv, Skill!CorrectedStaysBehind

\* The recall: the entry that leads is a candidate no operator corrected.
LEMMA SkillRecalls ==
  ASSUME SkillInv, Skill!FetchMemory
  PROVE  SkillInv' /\ Skill!MarkMove /\ Skill!CorrectedStaysBehind
<1>1. UNCHANGED <<judged, marks, verdicts>> /\ run.pc = "gathered"
  BY DEF Skill!FetchMemory
<1>2. PICK view \in BOOLEAN, verdict \in BOOLEAN :
        run' = [run EXCEPT !.pc = "recalled",
                  !.strong = IF view THEN Skill!Newest({j \in Skill!Candidates(run.inc) : Skill!Leads(j)}) ELSE 0,
                  !.governing = IF view /\ verdict THEN Skill!Governing(run.inc) ELSE 0]
  BY Zenon DEF Skill!FetchMemory
<1> DEFINE js == {j \in Skill!Candidates(run.inc) : Skill!Leads(j)}
           strong == IF view THEN Skill!Newest(js) ELSE 0
           governing == IF view /\ verdict THEN Skill!Governing(run.inc) ELSE 0
<1>3. strong \in js \cup {0}
  <2>1. PICK n \in Nat : Triaged = 1 .. n
    BY TriagedAssumption, FS_CardinalityType
  <2>2. js \in SUBSET (1 .. n)
    BY <2>1 DEF Skill!Candidates
  <2> HIDE DEF js
  <2> QED BY <2>2, SkillNewest
<1>4. governing \in 0 .. Len(verdicts)
  <2>1. Len(verdicts) \in Nat /\ DOMAIN verdicts = 1 .. Len(verdicts)
    BY DEF SkillInv, SkillType
  <2> DEFINE ns == {n \in DOMAIN verdicts : Skill!SameSide(run.inc, verdicts[n].inc)}
  <2>2. ns \in SUBSET (1 .. Len(verdicts))
    BY <2>1
  <2>3. Skill!Governing(run.inc) = Skill!Newest(ns)
    BY Zenon DEF Skill!Governing
  <2> HIDE DEF ns
  <2>4. Skill!Governing(run.inc) \in 0 .. Len(verdicts)
    BY <2>1, <2>2, <2>3, SkillNewest
  <2> QED BY <2>1, <2>4
<1>5. strong \in Triaged \cup {0}
  BY <1>3 DEF Skill!Candidates
<1>6. strong # 0 => ~Skill!CorrectedByOperator(strong)
  BY <1>3 DEF Skill!Leads
<1>7. run' = [run EXCEPT !.pc = "recalled", !.strong = strong, !.governing = governing]
  BY <1>2, Zenon
<1> HIDE DEF strong, governing
<1>8. /\ run' \in SkillRuns /\ run'.pc = "recalled" /\ run'.strong = strong /\ run'.governing = governing
      /\ run'.live = run.live /\ run'.seen = run.seen /\ run'.verified = run.verified /\ run'.gap = run.gap
  <2>1. "recalled" \in SkillPcs /\ governing \in Nat /\ run \in SkillRuns
    BY <1>4 DEF SkillPcs, SkillInv, SkillType
  <2> QED BY <1>5, <1>7, <2>1 DEF SkillRuns
<1>9. SkillType'
  BY <1>1, <1>8 DEF SkillInv, SkillType
<1>10. SkillGrounds'
  BY <1>1, <1>4, <1>8 DEF SkillInv, SkillType, SkillGrounds
<1>11. ConfidenceIsEarned'
  BY <1>8 DEF ConfidenceIsEarned, Skill!ConfidenceIsEarned
<1>12. Skill!CorrectedStaysBehind
  BY <1>6, <1>8 DEF Skill!CorrectedStaysBehind
<1> QED
  BY <1>1, <1>9, <1>10, <1>11, <1>12, SkillMarksStand DEF SkillInv

LEMMA SkillClamps ==
  ASSUME NEW c \in Skill!Answers
  PROVE  Skill!clampConfidence(c) \in 0 .. 2
BY DEF Skill!Answers, Skill!Cap, Skill!clampConfidence

LEMMA SkillDrafts ==
  ASSUME SkillInv, Skill!Draft
  PROVE  SkillInv' /\ Skill!MarkMove /\ Skill!CorrectedStaysBehind
<1>1. UNCHANGED <<judged, marks, verdicts>> /\ run.pc = "recalled"
  BY DEF Skill!Draft
<1>2. PICK c \in Skill!Answers, memory \in Skill!MemoryVerdicts :
        run' = [run EXCEPT !.pc = "drafted", !.draft = Skill!clampConfidence(c),
                           !.confidence = Skill!clampConfidence(c), !.memory = memory]
  BY Zenon DEF Skill!Draft
<1>3. Skill!clampConfidence(c) \in 0 .. 2 /\ memory \in SkillMemory
  BY SkillClamps DEF Skill!MemoryVerdicts, SkillMemory
<1>4. run \in SkillRuns /\ "drafted" \in SkillPcs
  BY DEF SkillInv, SkillType, SkillPcs
<1>5. /\ run' \in SkillRuns /\ run'.pc = "drafted" /\ run'.strong = run.strong /\ run'.governing = run.governing
      /\ run'.live = run.live /\ run'.seen = run.seen /\ run'.verified = run.verified /\ run'.gap = run.gap
      /\ run'.confidence = run'.draft
  BY <1>2, <1>3, <1>4 DEF SkillRuns
<1>6. SkillType'
  BY <1>1, <1>5 DEF SkillInv, SkillType
<1>7. SkillGrounds'
  BY <1>1, <1>5 DEF SkillInv, SkillType, SkillGrounds
<1>8. ConfidenceIsEarned'
  BY <1>5 DEF ConfidenceIsEarned, Skill!ConfidenceIsEarned
<1> QED
  BY <1>1, <1>6, <1>7, <1>8, SkillMarksStand DEF SkillInv, Skill!CorrectedStaysBehind

\* The caps never raise a confidence, and let more than the cap through only over a live
\* basis and, while a correction steers, a ruling.
LEMMA SkillCaps ==
  ASSUME NEW c \in 0 .. 2, NEW live \in BOOLEAN, NEW n, NEW ruled \in BOOLEAN
  PROVE  /\ Skill!Capped(c, live, n, ruled) \in 0 .. 2 /\ Skill!Capped(c, live, n, ruled) <= c
         /\ Skill!Capped(c, live, n, ruled) > 1 => live /\ (Skill!Steers(n) => ruled)
BY DEF Skill!Capped, Skill!Cap

\* What makes a run that is about to ship an earned one.
LEMMA SkillShips ==
  ASSUME SkillInv, UNCHANGED <<judged, marks, verdicts>>, run' \in SkillRuns,
         run.pc = "drafted", run'.pc = "ready", run'.strong = run.strong, run'.governing = run.governing,
         run'.live = run.live, run'.seen = run.seen, run'.verified = run.verified, run'.draft = run.draft,
         run'.confidence > 1 => /\ run.live \/ run'.observed
                                /\ Skill!Steers(run.governing) => run'.tested,
         run'.gap => run'.confidence <= run.draft,
         run'.verified /\ run'.memory # "silent" => run'.rejudged /\ run'.floor
  PROVE  SkillInv' /\ Skill!MarkMove /\ Skill!CorrectedStaysBehind
<1>1. SkillType'
  BY DEF SkillInv, SkillType
<1>2. SkillGrounds'
  BY DEF SkillInv, SkillType, SkillGrounds
<1>3. Skill!Steers(run.governing)' <=> Skill!Steers(run.governing)
  BY DEF Skill!Steers
<1>4. ConfidenceIsEarned'
  BY <1>3 DEF SkillInv, SkillGrounds, ConfidenceIsEarned, Skill!ConfidenceIsEarned, Skill!Cap
<1> QED
  BY <1>1, <1>2, <1>4, SkillMarksStand DEF SkillInv, Skill!CorrectedStaysBehind

LEMMA SkillShipsDraft ==
  ASSUME SkillInv, Skill!ShipDraft
  PROVE  SkillInv' /\ Skill!MarkMove /\ Skill!CorrectedStaysBehind
<1> DEFINE c == Skill!Capped(run.confidence, run.live, run.governing, FALSE)
<1>1. /\ UNCHANGED <<judged, marks, verdicts>> /\ run.pc = "drafted" /\ ~Verification
      /\ run' = [run EXCEPT !.pc = "ready", !.confidence = c]
  BY DEF Skill!ShipDraft
<1>2. run \in SkillRuns /\ run.confidence \in 0 .. 2 /\ run.live \in BOOLEAN /\ run.draft \in 0 .. 2
  BY DEF SkillInv, SkillType, SkillRuns
<1>3. c \in 0 .. 2 /\ c <= run.confidence /\ (c > 1 => run.live /\ ~Skill!Steers(run.governing))
  BY <1>2, SkillCaps
<1> HIDE DEF c
<1>4. "ready" \in SkillPcs
  BY DEF SkillPcs
<1>5. /\ run' \in SkillRuns /\ run'.pc = "ready" /\ run'.strong = run.strong /\ run'.governing = run.governing
      /\ run'.live = run.live /\ run'.seen = run.seen /\ run'.verified = run.verified /\ run'.draft = run.draft
      /\ run'.confidence = c /\ run'.gap = run.gap
  BY <1>1, <1>2, <1>3, <1>4 DEF SkillRuns
<1>6. run.confidence = run.draft /\ run.gap = FALSE /\ ~run.verified
  BY <1>1 DEF SkillInv, SkillGrounds
<1> QED BY <1>1, <1>3, <1>5, <1>6, SkillShips

\* What the code asks of a round is what the round held.
LEMMA SkillRound ==
  ASSUME NEW n, NEW r \in Skill!Rounds(n)
  PROVE  /\ Skill!floorFetched(r) <=> {r.prom, r.host} # {"none"} /\ "missing" \notin {r.prom, r.host, r.own}
         /\ Skill!anyUnfetched(r) <=> "missing" \in {r[q] : q \in DOMAIN r} \/ {r.prom, r.host} = {"none"}
         /\ Skill!verificationLive(r) => \E q \in {"prom", "host", "probe", "widen", "model"} : r[q] = "fetched"
<1>1. DOMAIN r = {"prom", "host", "own", "probe", "widen", "model"}
  BY DEF Skill!Rounds
<1>2. r["prom"] = r.prom /\ r["host"] = r.host /\ r["own"] = r.own
  OBVIOUS
<1>3. {r.prom, r.host} = {"none"} <=> r.prom = "none" /\ r.host = "none"
  OBVIOUS
<1>4. Skill!floorFetched(r) <=> {r.prom, r.host} # {"none"} /\ "missing" \notin {r.prom, r.host, r.own}
  BY <1>2, <1>3 DEF Skill!floorFetched, Skill!RealFloor
<1>5. Skill!anyUnfetched(r) <=> "missing" \in {r[q] : q \in DOMAIN r} \/ {r.prom, r.host} = {"none"}
  BY <1>2, <1>3 DEF Skill!anyUnfetched, Skill!RealFloor
<1>6. Skill!verificationLive(r) => \E q \in {"prom", "host", "probe", "widen", "model"} : r[q] = "fetched"
  BY <1>1 DEF Skill!verificationLive
<1> QED BY <1>4, <1>5, <1>6

\* Run n is s after a round: about to ship, with what the round held.
SkillNoted(n, s, held, gap, floor, tested) ==
  /\ n \in SkillRuns /\ n.pc = "ready" /\ n.strong = s.strong /\ n.governing = s.governing
  /\ n.live = s.live /\ n.seen = s.seen /\ n.verified = s.verified /\ n.draft = s.draft
  /\ n.observed = held /\ n.gap = gap /\ n.floor = floor /\ n.tested = tested

LEMMA SkillNotes ==
  ASSUME run \in SkillRuns, NEW r
  PROVE  SkillNoted(Skill!Grounds(r), run,
           \E q \in {"prom", "host", "probe", "widen", "model"} : r[q] = "fetched",
           "missing" \in {r[q] : q \in DOMAIN r} \/ {r.prom, r.host} = {"none"},
           {r.prom, r.host} # {"none"} /\ "missing" \notin {r.prom, r.host, r.own},
           r.probe = "fetched")
<1> DEFINE observedHere == \E q \in {"prom", "host", "probe", "widen", "model"} : r[q] = "fetched"
           gapHere == "missing" \in {r[q] : q \in DOMAIN r} \/ {r.prom, r.host} = {"none"}
           floorHere == {r.prom, r.host} # {"none"} /\ "missing" \notin {r.prom, r.host, r.own}
           testedHere == r.probe = "fetched"
<1>1. Skill!Grounds(r) = [run EXCEPT !.pc = "ready", !.observed = observedHere, !.gap = gapHere,
                                     !.floor = floorHere, !.tested = testedHere]
  BY DEF Skill!Grounds
<1>2. observedHere \in BOOLEAN /\ gapHere \in BOOLEAN /\ floorHere \in BOOLEAN /\ testedHere \in BOOLEAN
  OBVIOUS
<1>3. ASSUME NEW n, NEW s, NEW o, NEW b, NEW f, NEW e, s \in SkillRuns,
             o \in BOOLEAN, b \in BOOLEAN, f \in BOOLEAN, e \in BOOLEAN,
             n = [s EXCEPT !.pc = "ready", !.observed = o, !.gap = b, !.floor = f, !.tested = e]
      PROVE  SkillNoted(n, s, o, b, f, e)
  <2>1. "ready" \in SkillPcs
    BY DEF SkillPcs
  <2>2. n \in SkillRuns
    <3> DEFINE m == [s EXCEPT !.pc = "ready", !.observed = o, !.gap = b]
    <3>1. m \in SkillRuns
      BY <1>3, <2>1 DEF SkillRuns
    <3>2. n = [m EXCEPT !.floor = f, !.tested = e]
      BY <1>3
    <3> HIDE DEF m
    <3> QED BY <1>3, <3>1, <3>2 DEF SkillRuns
  <2>3. /\ n.pc = "ready" /\ n.strong = s.strong /\ n.governing = s.governing
        /\ n.live = s.live /\ n.seen = s.seen /\ n.verified = s.verified /\ n.draft = s.draft
        /\ n.observed = o /\ n.gap = b /\ n.floor = f /\ n.tested = e
    BY <1>3 DEF SkillRuns
  <2> QED BY <2>2, <2>3 DEF SkillNoted
<1> HIDE DEF observedHere, gapHere, floorHere, testedHere
<1>4. SkillNoted(Skill!Grounds(r), run, observedHere, gapHere, floorHere, testedHere)
  BY <1>1, <1>2, <1>3, Zenon
<1> QED BY <1>4, Zenon DEF observedHere, gapHere, floorHere, testedHere

\* Run n is s with the second call's answer.
SkillAnswered(n, s, confidence, tested, memory) ==
  /\ n \in SkillRuns /\ n.pc = "ready" /\ n.strong = s.strong /\ n.governing = s.governing
  /\ n.live = s.live /\ n.seen = s.seen /\ n.verified = s.verified /\ n.draft = s.draft
  /\ n.observed = s.observed /\ n.gap = s.gap /\ n.floor = s.floor
  /\ n.confidence = confidence /\ n.tested = tested /\ n.memory = memory

LEMMA SkillRejudges ==
  ASSUME SkillInv, Skill!Rejudge
  PROVE  SkillInv' /\ Skill!MarkMove /\ Skill!CorrectedStaysBehind
<1>1. UNCHANGED <<judged, marks, verdicts>> /\ run.pc = "drafted"
  BY DEF Skill!Rejudge
<1>2. PICK r \in Skill!Rounds(run.governing), c \in Skill!Answers, memory \in Skill!MemoryVerdicts,
           ruling \in {"ruled", "unruled"} :
        LET held == IF Skill!anyUnfetched(r) /\ Skill!clampConfidence(c) > run.draft
                    THEN run.draft ELSE Skill!clampConfidence(c)
            ruled == ruling = "ruled" /\ Skill!Backed(r)
        IN /\ ruling = "ruled" => Skill!Steers(run.governing)
           /\ run' = [Skill!Grounds(r) EXCEPT
                       !.rejudged = TRUE,
                       !.confidence = Skill!Capped(held, run.live \/ Skill!verificationLive(r), run.governing, ruled),
                       !.tested = @ /\ ruling = "ruled",
                       !.memory = IF Skill!floorFetched(r) THEN memory ELSE "silent"]
  BY Zenon DEF Skill!Rejudge
<1> DEFINE g == Skill!Grounds(r)
           held == IF Skill!anyUnfetched(r) /\ Skill!clampConfidence(c) > run.draft
                   THEN run.draft ELSE Skill!clampConfidence(c)
           ruled == ruling = "ruled" /\ Skill!Backed(r)
           live == run.live \/ Skill!verificationLive(r)
           capped == Skill!Capped(held, live, run.governing, ruled)
           told1 == IF Skill!floorFetched(r) THEN memory ELSE "silent"
           tested == g.tested /\ ruling = "ruled"
<1>3. run \in SkillRuns /\ run.draft \in 0 .. 2 /\ run.live \in BOOLEAN
  BY DEF SkillInv, SkillType, SkillRuns
<1>4. Skill!clampConfidence(c) \in 0 .. 2 /\ memory \in SkillMemory /\ "silent" \in SkillMemory
  BY SkillClamps DEF Skill!MemoryVerdicts, SkillMemory
<1>5. held \in 0 .. 2 /\ (Skill!anyUnfetched(r) => held <= run.draft)
  BY <1>3, <1>4
<1>6. /\ capped \in 0 .. 2 /\ capped <= held
      /\ capped > 1 => live /\ (Skill!Steers(run.governing) => ruled)
  <2>1. live \in BOOLEAN /\ ruled \in BOOLEAN
    BY <1>3
  <2> HIDE DEF held, live, ruled
  <2> QED BY <1>5, <2>1, SkillCaps
<1>7. /\ g \in SkillRuns /\ g.pc = "ready" /\ g.strong = run.strong /\ g.governing = run.governing
      /\ g.live = run.live /\ g.seen = run.seen /\ g.verified = run.verified /\ g.draft = run.draft
      /\ g.observed = (\E q \in {"prom", "host", "probe", "widen", "model"} : r[q] = "fetched")
      /\ g.gap = ("missing" \in {r[q] : q \in DOMAIN r} \/ {r.prom, r.host} = {"none"})
      /\ g.floor = ({r.prom, r.host} # {"none"} /\ "missing" \notin {r.prom, r.host, r.own})
      /\ g.tested = (r.probe = "fetched")
  BY <1>3, SkillNotes DEF SkillNoted
<1>8. told1 \in SkillMemory /\ tested \in BOOLEAN
  BY <1>4
<1>9. run' = [g EXCEPT !.rejudged = TRUE, !.confidence = capped, !.tested = tested, !.memory = told1]
  BY <1>2, Zenon
<1>10. SkillAnswered(run', g, capped, tested, told1) /\ run'.rejudged = TRUE
  <2>1. ASSUME NEW n, NEW s, NEW k, NEW e, NEW m, s \in SkillRuns, k \in 0 .. 2, m \in SkillMemory, e \in BOOLEAN,
               s.pc = "ready", n = [s EXCEPT !.rejudged = TRUE, !.confidence = k, !.tested = e, !.memory = m]
        PROVE  SkillAnswered(n, s, k, e, m) /\ n.rejudged = TRUE
    BY <2>1 DEF SkillRuns, SkillAnswered
  <2>2. g \in SkillRuns /\ g.pc = "ready" /\ capped \in 0 .. 2
    BY <1>6, <1>7
  <2> HIDE DEF g, capped, told1, tested
  <2> QED BY <1>8, <1>9, <2>1, <2>2, Zenon
<1>11. live => run.live \/ run'.observed
  BY <1>7, <1>10, SkillRound DEF SkillAnswered
<1>12. ruled => run'.tested
  BY <1>7, <1>10 DEF Skill!Backed, SkillAnswered
<1>13. run'.gap => run'.confidence <= run.draft
  <2>1. run'.gap => Skill!anyUnfetched(r)
    BY <1>7, <1>10, SkillRound DEF SkillAnswered
  <2> HIDE DEF capped, held
  <2> QED BY <1>3, <1>5, <1>6, <1>10, <2>1 DEF SkillAnswered
<1>14. run'.memory # "silent" => run'.rejudged /\ run'.floor
  BY <1>7, <1>10, SkillRound DEF SkillAnswered
<1> HIDE DEF g, held, ruled, live, capped, told1, tested
<1>15. run'.confidence > 1 => /\ run.live \/ run'.observed
                              /\ Skill!Steers(run.governing) => run'.tested
  BY <1>6, <1>10, <1>11, <1>12 DEF SkillAnswered
<1> QED BY <1>1, <1>7, <1>10, <1>13, <1>14, <1>15, SkillShips DEF SkillAnswered

LEMMA SkillRejudgeFails ==
  ASSUME SkillInv, Skill!RejudgeFails
  PROVE  SkillInv' /\ Skill!MarkMove /\ Skill!CorrectedStaysBehind
<1>1. UNCHANGED <<judged, marks, verdicts>> /\ run.pc = "drafted"
  BY DEF Skill!RejudgeFails
<1>2. PICK r \in Skill!Rounds(run.governing) : run' = Skill!degradedDraft(r)
  BY DEF Skill!RejudgeFails
<1> DEFINE g == Skill!Grounds(r)
           live == run.live \/ Skill!verificationLive(r)
           capped == Skill!Capped(run.draft, live, run.governing, FALSE)
<1>3. run \in SkillRuns /\ run.draft \in 0 .. 2 /\ run.live \in BOOLEAN /\ "silent" \in SkillMemory
  BY DEF SkillInv, SkillType, SkillRuns, SkillMemory
<1>4. capped \in 0 .. 2 /\ capped <= run.draft /\ (capped > 1 => live /\ ~Skill!Steers(run.governing))
  <2>1. live \in BOOLEAN
    BY <1>3
  <2> HIDE DEF live
  <2> QED BY <1>3, <2>1, SkillCaps
<1>5. /\ g \in SkillRuns /\ g.pc = "ready" /\ g.strong = run.strong /\ g.governing = run.governing
      /\ g.live = run.live /\ g.seen = run.seen /\ g.verified = run.verified /\ g.draft = run.draft
      /\ g.observed = (\E q \in {"prom", "host", "probe", "widen", "model"} : r[q] = "fetched")
  BY <1>3, SkillNotes DEF SkillNoted
<1>6. run' = [g EXCEPT !.confidence = capped, !.tested = FALSE, !.memory = "silent"]
  BY <1>2 DEF Skill!degradedDraft
<1>7. SkillAnswered(run', g, capped, FALSE, "silent")
  <2>1. ASSUME NEW n, NEW s, NEW k, s \in SkillRuns, k \in 0 .. 2, s.pc = "ready",
               n = [s EXCEPT !.confidence = k, !.tested = FALSE, !.memory = "silent"]
        PROVE  SkillAnswered(n, s, k, FALSE, "silent")
    BY <1>3, <2>1 DEF SkillRuns, SkillAnswered
  <2>2. g \in SkillRuns /\ g.pc = "ready" /\ capped \in 0 .. 2
    BY <1>4, <1>5
  <2> HIDE DEF g, capped
  <2> QED BY <1>6, <2>1, <2>2, Zenon
<1>8. live => run.live \/ run'.observed
  BY <1>5, <1>7, SkillRound DEF SkillAnswered
<1> HIDE DEF g, live, capped
<1>9. run'.confidence <= run.draft
  BY <1>4, <1>7 DEF SkillAnswered
<1>10. run'.confidence > 1 => /\ run.live \/ run'.observed
                              /\ Skill!Steers(run.governing) => run'.tested
  BY <1>4, <1>7, <1>8 DEF SkillAnswered
<1> QED BY <1>1, <1>5, <1>7, <1>9, <1>10, SkillShips DEF SkillAnswered

LEMMA SkillCommits ==
  ASSUME SkillInv, Skill!Commit
  PROVE  SkillInv' /\ Skill!MarkMove /\ Skill!CorrectedStaysBehind
<1>1. UNCHANGED <<marks, verdicts>> /\ run.pc = "ready" /\ judged' = judged \cup {run.inc}
  BY DEF Skill!Commit
<1>2. run' = [Skill!NoRun EXCEPT !.pc = "committed", !.inc = run.inc, !.strong = run.strong, !.memory = run.memory,
                          !.rejudged = run.rejudged, !.floor = run.floor, !.verified = run.verified]
  BY Zenon DEF Skill!Commit
<1>3. run \in SkillRuns
  BY DEF SkillInv, SkillType
<1>4. /\ run' \in SkillRuns /\ run'.pc = "committed" /\ run'.inc = run.inc /\ run'.memory = run.memory
      /\ run'.rejudged = run.rejudged /\ run'.floor = run.floor /\ run'.verified = run.verified
      /\ run'.live = FALSE /\ run'.governing = 0
  <2> DEFINE Half(s) == [s EXCEPT !.pc = "committed", !.inc = run.inc, !.strong = run.strong]
             Kept(n, s) == /\ n \in SkillRuns /\ n.pc = "committed" /\ n.inc = run.inc /\ n.memory = run.memory
                           /\ n.rejudged = run.rejudged /\ n.floor = run.floor /\ n.verified = run.verified
                           /\ n.live = s.live /\ n.governing = s.governing
  <2>1. ASSUME NEW s, s \in SkillRuns
        PROVE  Half(s) \in SkillRuns /\ Half(s).pc = "committed" /\ Half(s).inc = run.inc
               /\ Half(s).live = s.live /\ Half(s).governing = s.governing
    <3>1. "committed" \in SkillPcs /\ run.inc \in Triaged \cup {0} /\ run.strong \in Triaged \cup {0}
      BY <1>3 DEF SkillRuns, SkillPcs
    <3> HIDE DEF SkillPcs
    <3> QED BY <2>1, <3>1 DEF SkillRuns
  <2>2. ASSUME NEW s, NEW h, NEW n, h \in SkillRuns, h.pc = "committed", h.inc = run.inc,
               h.live = s.live, h.governing = s.governing,
               n = [h EXCEPT !.memory = run.memory, !.rejudged = run.rejudged, !.floor = run.floor,
                             !.verified = run.verified]
        PROVE  Kept(n, s)
    BY <1>3, <2>2 DEF SkillRuns
  <2>3. run' = [Half(Skill!NoRun) EXCEPT !.memory = run.memory, !.rejudged = run.rejudged,
                                         !.floor = run.floor, !.verified = run.verified]
    BY <1>2, Zenon
  <2> HIDE DEF Half, Kept
  <2>4. Kept(run', Skill!NoRun)
    BY <2>1, <2>2, <2>3, SkillNoRun
  <2> QED BY <2>4, SkillNoRun DEF Kept
<1>5. SkillType'
  BY <1>1, <1>4 DEF SkillInv, SkillType
<1>6. SkillGrounds'
  BY <1>1, <1>4, <1>5 DEF SkillInv, SkillType, SkillGrounds
<1>7. ConfidenceIsEarned'
  BY <1>4 DEF ConfidenceIsEarned, Skill!ConfidenceIsEarned
<1> QED
  BY <1>1, <1>5, <1>6, <1>7, SkillMarksStand DEF SkillInv, Skill!CorrectedStaysBehind

\* A run that ends without a commit.
LEMMA SkillDrops ==
  ASSUME SkillInv, run' = Skill!NoRun, UNCHANGED <<marks, verdicts>>
  PROVE  SkillInv' /\ Skill!MarkMove /\ Skill!CorrectedStaysBehind
<1>1. SkillInv'
  BY SkillRunEnds DEF SkillInv, SkillType
<1> QED BY <1>1, SkillMarksStand, SkillNoRun DEF Skill!CorrectedStaysBehind

LEMMA SkillAfterCommit ==
  ASSUME SkillInv, Skill!AfterCommit
  PROVE  SkillInv' /\ Skill!MarkMove /\ Skill!CorrectedStaysBehind
<1>1. run.pc = "committed" /\ run' = Skill!NoRun /\ UNCHANGED verdicts /\ marks' \in {marks, Skill!Marked}
  BY DEF Skill!AfterCommit
<1>2. marks \in [Triaged -> Nat] /\ run \in SkillRuns /\ run.strong \in Triaged \cup {0} /\ run.memory \in SkillMemory
  BY DEF SkillInv, SkillType, SkillRuns
<1>3. /\ marks' \in [Triaged -> Nat]
      /\ \A j \in Triaged : marks'[j] # marks[j] => j = run.strong /\ run.memory # "silent"
  <2>1. CASE marks' = marks
    BY <1>2, <2>1
  <2>2. CASE run.strong # 0 /\ marks' = Skill!Marked
    <3>1. run.memory \in {"silent", "confirms", "refutes"}
      BY <1>2 DEF SkillMemory
    <3>2. CASE run.memory = "refutes"
      <4>1. marks' = [marks EXCEPT ![run.strong] = @ + 1]
        BY <2>2, <3>2 DEF Skill!Marked
      <4> QED BY <1>2, <2>2, <3>2, <4>1
    <3>3. CASE run.memory = "confirms"
      <4>1. marks' = [marks EXCEPT ![run.strong] = 0]
        BY <2>2, <3>3 DEF Skill!Marked
      <4> QED BY <1>2, <2>2, <3>3, <4>1
    <3>4. CASE run.memory = "silent"
      <4>1. marks' = [marks EXCEPT ![run.strong] = @]
        BY <2>2, <3>4 DEF Skill!Marked
      <4> QED BY <1>2, <2>2, <3>4, <4>1
    <3> QED BY <3>1, <3>2, <3>3, <3>4
  <2> QED BY <1>1, <2>1, <2>2 DEF Skill!Marked
<1>4. SkillInv'
  BY <1>1, <1>3, SkillRunEnds
<1>5. run.inc \in judged /\ (run.verified /\ run.memory # "silent" => run.rejudged /\ run.floor)
  BY <1>1 DEF SkillInv, SkillGrounds
<1>6. Skill!MarkMove
  BY <1>1, <1>2, <1>3, <1>5 DEF Skill!MarkMove
<1> QED BY <1>1, <1>4, <1>6 DEF Skill!CorrectedStaysBehind

\* What happens around a run leaves it alone.
LEMMA SkillAside ==
  ASSUME SkillInv, UNCHANGED <<judged, marks, verdicts, run>>
  PROVE  SkillInv' /\ Skill!MarkMove /\ Skill!CorrectedStaysBehind
<1>1. SkillType' /\ SkillGrounds'
  BY DEF SkillInv, SkillType, SkillGrounds
<1>2. Skill!Steers(run.governing)' = Skill!Steers(run.governing)
  BY DEF Skill!Steers
<1>3. ConfidenceIsEarned'
  BY <1>2 DEF SkillInv, ConfidenceIsEarned, Skill!ConfidenceIsEarned
<1>4. run.pc = "gathered" => run.strong = 0
  BY DEF SkillInv, SkillGrounds
<1> QED BY <1>1, <1>3, <1>4, SkillMarksStand DEF SkillInv, Skill!CorrectedStaysBehind

LEMMA SkillStep ==
  SkillInv /\ [Skill!Next]_(Skill!vars) =>
    SkillInv' /\ [Skill!MarkMove]_(Skill!vars) /\ [Skill!CorrectedStaysBehind]_(Skill!vars)
<1> SUFFICES ASSUME SkillInv, [Skill!Next]_(Skill!vars)
             PROVE  SkillInv' /\ [Skill!MarkMove]_(Skill!vars) /\ [Skill!CorrectedStaysBehind]_(Skill!vars)
  OBVIOUS
<1>1. CASE UNCHANGED Skill!vars
  BY <1>1, SkillAside DEF Skill!vars
<1>2. CASE \E i \in Triaged : Skill!Open(i) \/ Skill!Resolve(i) \/ Skill!Reopen(i)
  BY <1>2, SkillAside DEF Skill!Open, Skill!Resolve, Skill!Reopen
<1>3. CASE \E i \in Triaged : Skill!Gather(i)
  BY <1>3, SkillGathers
<1>4. CASE \E i \in Triaged : Skill!ShortCircuit(i)
  BY <1>4, SkillShortCircuits
<1>5. CASE \E i \in Triaged, kind \in {"correction", "confirmation"}, series \in BOOLEAN :
             Skill!CaptureVerdict(i, kind, series)
  BY <1>5, SkillCaptures
<1>6. CASE Skill!FetchMemory
  BY <1>6, SkillRecalls
<1>7. CASE Skill!Draft
  BY <1>7, SkillDrafts
<1>8. CASE Skill!ShipDraft
  BY <1>8, SkillShipsDraft
<1>9. CASE Skill!Rejudge
  BY <1>9, SkillRejudges
<1>10. CASE Skill!RejudgeFails
  BY <1>10, SkillRejudgeFails
<1>11. CASE Skill!Commit
  BY <1>11, SkillCommits
<1>12. CASE Skill!DraftFails \/ Skill!Discard \/ Skill!Crash
  <2>1. run' = Skill!NoRun /\ UNCHANGED <<marks, verdicts>>
    BY <1>12, Zenon DEF Skill!DraftFails, Skill!Discard, Skill!Crash, Skill!Dropped
  <2> QED BY <2>1, SkillDrops
<1>13. CASE Skill!AfterCommit
  BY <1>13, SkillAfterCommit
<1> QED
  BY <1>1, <1>2, <1>3, <1>4, <1>5, <1>6, <1>7, <1>8, <1>9, <1>10, <1>11, <1>12, <1>13 DEF Skill!Next

\* Whatever is fetched, recalled, drafted and judged again, over any number of Incidents, a
\* finding ready to commit is above the cap only by a rule or on data, and on a test of the
\* memory that steers it (applyEvidenceCap, applySteeringCap, anyUnfetched).
THEOREM SkillConfidence == Skill!Spec => []ConfidenceIsEarned
<1>1. Skill!Spec => []SkillInv
  BY SkillInit, SkillStep, PTL DEF Skill!Spec
<1>2. SkillInv => ConfidenceIsEarned
  BY DEF SkillInv
<1> QED BY <1>1, <1>2, PTL

\* No step of any interleaving of triages, corrections, failures and crashes moves the marks
\* of a finding without a correction, or a commit that was judged over a floor that answered
\* where findings are verified (R16, AfterCommit).
THEOREM SkillMarks == Skill!Spec => MarksMoveOnGrounds
BY SkillInit, SkillStep, PTL DEF Skill!Spec, MarksMoveOnGrounds, Skill!MarksMoveOnGrounds

\* A finding that was corrected before a triage recalls never leads the recall, whatever its
\* marks were cleared to since (FetchMemory).
THEOREM SkillCorrected == Skill!Spec => CorrectedNeverLeads
BY SkillInit, SkillStep, PTL DEF Skill!Spec, CorrectedNeverLeads, Skill!CorrectedNeverLeads

-----------------------------------------------------------------------------
(* OperatorAuthority. A quiet Situation is due no later than the end of    *)
(* what keeps it quiet, or it is due, in work or to be retried now; and a  *)
(* judgment seen to be contradicted is marked for good.                    *)

AuthorityImpacts == Impacts \cup {0, 1}
AuthorityDefinitions == Definitions \cup {0, 1}
AuthorityJudgments ==
  [rev : Nat, state : {"none", "expected", "revoked"}, until : Int, symptoms : SUBSET Symptoms,
   impact : AuthorityImpacts, definition : AuthorityDefinitions, invalid : BOOLEAN]
AuthorityEnvelopes ==
  [ver : Nat, state : {"none", "active", "revoked"}, until : Int, definition : AuthorityDefinitions,
   companion : BOOLEAN, symptoms : SUBSET Symptoms, invalid : BOOLEAN]
AuthorityVerdicts == {"none", "lapsed", "applies", "broken"}
AuthorityStatuses == {"none", "inactive", "denied", "changed", "matched"}
AuthorityRuns ==
  [at : {"idle", "claimed", "observed", "loaded"}, version : Nat, next : Nat, heads : BOOLEAN,
   firing : SUBSET Symptoms, definition : AuthorityDefinitions, rev : Nat, verdict : AuthorityVerdicts,
   ver : Nat, status : AuthorityStatuses, until : Int]

AuthorityType ==
  /\ clock \in Nat /\ version \in Nat /\ next \in Nat /\ retry \in Nat
  /\ assessment \in [impact : AuthorityImpacts, urgent : BOOLEAN]
  /\ contract \in [quiet : BOOLEAN, rev : Nat, ver : Nat, until : Int]
  /\ firing \in SUBSET Symptoms
  /\ observed \in [definition : AuthorityDefinitions, companion : BOOLEAN, until : Int]
  /\ judgment \in AuthorityJudgments /\ envelope \in AuthorityEnvelopes
  /\ proc \in AuthorityRuns

AuthorityFlags == ended \in BOOLEAN /\ lease \in BOOLEAN

\* What is in work was due when it was taken up, and stays so until it is handed back.
AuthorityDue == lease = TRUE => next <= clock \/ retry # 0

\* The next look at a quiet Situation is no later than the end of what keeps it quiet.
AuthorityHeld ==
  \/ contract.rev # 0 /\ judgment.rev = contract.rev /\ judgment.invalid = FALSE /\ next <= judgment.until
  \/ contract.ver # 0 /\ envelope.ver = contract.ver /\ envelope.invalid = FALSE /\ next <= contract.until
AuthorityQuiet ==
  contract.quiet = TRUE /\ ended = FALSE /\ lease = FALSE /\ retry = 0 => next <= clock \/ AuthorityHeld

\* A judgment that was contradicted is marked, and its revision is never written again.
AuthorityBroken ==
  /\ broken \subseteq 0 .. judgment.rev
  /\ judgment.rev \in broken => judgment.invalid = TRUE

\* A version of the envelope is written, and a match is a match of one.
AuthorityWritten ==
  /\ envelope.ver # 0 => envelope.state # "none"
  /\ proc.status = "matched" => proc.ver # 0

AuthorityInv == AuthorityType /\ AuthorityFlags /\ AuthorityDue /\ AuthorityQuiet /\ AuthorityBroken /\ AuthorityWritten

LEMMA AuthorityIdle == Authority!Idle \in AuthorityRuns /\ Authority!Idle.status = "none"
BY DEF Authority!Idle, AuthorityRuns, AuthorityDefinitions, AuthorityVerdicts, AuthorityStatuses

LEMMA AuthorityInit == Authority!Init => AuthorityInv
<1> SUFFICES ASSUME Authority!Init PROVE AuthorityInv
  OBVIOUS
<1>1. judgment \in AuthorityJudgments /\ judgment.rev = 0 /\ envelope \in AuthorityEnvelopes /\ envelope.ver = 0
  BY DEF Authority!Init, Authority!NoJudgment, Authority!NoEnvelope, AuthorityJudgments, AuthorityEnvelopes,
         AuthorityImpacts, AuthorityDefinitions
<1>2. contract \in [quiet : BOOLEAN, rev : Nat, ver : Nat, until : Int] /\ contract.quiet = FALSE
  BY DEF Authority!Init, Authority!Loud
<1>3. AuthorityType
  <2>1. assessment \in [impact : AuthorityImpacts, urgent : BOOLEAN]
    BY DEF Authority!Init, AuthorityImpacts
  <2>2. observed \in [definition : AuthorityDefinitions, companion : BOOLEAN, until : Int]
    BY DEF Authority!Init, AuthorityDefinitions
  <2>3. clock \in Nat /\ version \in Nat /\ next \in Nat /\ retry \in Nat /\ firing \in SUBSET Symptoms
    BY DEF Authority!Init
  <2>4. proc \in AuthorityRuns
    BY AuthorityIdle DEF Authority!Init
  <2> QED BY <1>1, <1>2, <2>1, <2>2, <2>3, <2>4 DEF AuthorityType
<1>4. AuthorityDue /\ AuthorityQuiet
  BY <1>2 DEF Authority!Init, AuthorityDue, AuthorityQuiet
<1>5. AuthorityBroken /\ AuthorityWritten
  BY <1>1, AuthorityIdle DEF Authority!Init, AuthorityBroken, AuthorityWritten
<1>6. AuthorityFlags
  BY Zenon DEF Authority!Init, AuthorityFlags
<1> QED BY <1>3, <1>4, <1>5, <1>6 DEF AuthorityInv

\* A step that wakes the Situation makes it due, whatever else it writes.
LEMMA AuthorityWakes ==
  ASSUME AuthorityInv, Authority!Wake, UNCHANGED <<clock, firing, observed>>,
         judgment' \in AuthorityJudgments, envelope' \in AuthorityEnvelopes, proc' \in AuthorityRuns,
         AuthorityBroken', AuthorityWritten'
  PROVE  AuthorityInv' /\ Authority!QuietIsFounded
<1>1. version' = version + 1 /\ next' = clock /\ retry' = 0 /\ lease' = FALSE /\ UNCHANGED <<ended, assessment, contract>>
  BY DEF Authority!Wake
<1>2. AuthorityType'
  BY <1>1 DEF AuthorityInv, AuthorityType
<1>3. AuthorityDue' /\ AuthorityQuiet'
  BY <1>1, <1>2 DEF AuthorityDue, AuthorityQuiet, AuthorityType
<1>4. Authority!QuietIsFounded
  BY <1>1 DEF Authority!QuietIsFounded
<1>5. AuthorityFlags'
  BY <1>1, Zenon DEF AuthorityInv, AuthorityFlags
<1> QED BY <1>2, <1>3, <1>4, <1>5 DEF AuthorityInv

LEMMA AuthorityTicks ==
  ASSUME AuthorityInv, Authority!Tick
  PROVE  AuthorityInv' /\ Authority!QuietIsFounded
<1> USE DEF Authority!Tick, Authority!situation, Authority!schedule, Authority!facts, Authority!authority, Authority!bounds
<1>1. AuthorityType'
  BY DEF AuthorityInv, AuthorityType
<1>2. AuthorityDue' /\ AuthorityQuiet'
  BY DEF AuthorityInv, AuthorityType, AuthorityDue, AuthorityQuiet, AuthorityHeld
<1>3. AuthorityBroken' /\ AuthorityWritten'
  BY DEF AuthorityInv, AuthorityBroken, AuthorityWritten
<1>4. AuthorityFlags'
  BY DEF AuthorityInv, AuthorityFlags
<1> QED BY <1>1, <1>2, <1>3, <1>4 DEF AuthorityInv, Authority!QuietIsFounded

\* What the facts contradict is both marked and noted.
LEMMA AuthorityRetires ==
  ASSUME AuthorityInv, NEW definition,
         judgment' = Authority!Retired(judgment, definition), broken' = Authority!Breaks(definition)
  PROVE  judgment' \in AuthorityJudgments /\ AuthorityBroken'
<1>1. judgment \in AuthorityJudgments
  BY DEF AuthorityInv, AuthorityType
<1>2. CASE Authority!Verdict(judgment, assessment, ended, firing, definition, clock) = "broken"
  <2>1. judgment' = [judgment EXCEPT !.invalid = TRUE] /\ broken' = broken \cup {judgment.rev}
    BY <1>2 DEF Authority!Retired, Authority!Breaks
  <2>2. judgment' \in AuthorityJudgments /\ judgment'.rev = judgment.rev /\ judgment'.invalid = TRUE
    BY <1>1, <2>1 DEF AuthorityJudgments
  <2>3. judgment.rev \in Nat
    BY <1>1 DEF AuthorityJudgments
  <2> QED BY <2>1, <2>2, <2>3 DEF AuthorityInv, AuthorityBroken
<1>3. CASE Authority!Verdict(judgment, assessment, ended, firing, definition, clock) # "broken"
  <2>1. judgment' = judgment /\ broken' = broken
    BY <1>3 DEF Authority!Retired, Authority!Breaks
  <2> QED BY <1>1, <2>1 DEF AuthorityInv, AuthorityBroken
<1> QED BY <1>2, <1>3

\* A step that leaves alone what keeps a Situation quiet and when it is looked at again.
LEMMA AuthorityAside ==
  ASSUME AuthorityInv,
         UNCHANGED <<clock, version, ended, assessment, contract, next, retry, lease, observed,
                     judgment, envelope, broken>>,
         firing' \in SUBSET Symptoms, proc' \in AuthorityRuns, proc'.status = "matched" => proc'.ver # 0
  PROVE  AuthorityInv' /\ Authority!QuietIsFounded
<1>1. AuthorityType'
  BY DEF AuthorityInv, AuthorityType
<1>2. AuthorityDue' /\ AuthorityQuiet'
  BY DEF AuthorityInv, AuthorityDue, AuthorityQuiet, AuthorityHeld
<1>3. AuthorityBroken' /\ AuthorityWritten'
  BY DEF AuthorityInv, AuthorityBroken, AuthorityWritten
<1>4. AuthorityFlags'
  BY DEF AuthorityInv, AuthorityFlags
<1> QED BY <1>1, <1>2, <1>3, <1>4 DEF AuthorityInv, Authority!QuietIsFounded

LEMMA AuthoritySource ==
  ASSUME AuthorityInv, Authority!Source
  PROVE  AuthorityInv' /\ Authority!QuietIsFounded
<1> USE DEF Authority!situation, Authority!schedule, Authority!facts, Authority!authority, Authority!bounds
<1>1. CASE Authority!ApplyInput
  <2>1. CASE ended
    <3>1. UNCHANGED <<clock, version, ended, assessment, contract, next, retry, lease, firing, observed,
                      judgment, envelope, proc, broken>>
      BY <1>1, <2>1 DEF Authority!ApplyInput
    <3> QED BY <3>1, AuthorityAside DEF AuthorityInv, AuthorityType, AuthorityWritten
  <2>2. CASE ~ended
    <3>1. /\ Authority!Wake /\ UNCHANGED <<clock, firing, observed, envelope, proc>>
          /\ judgment' = Authority!Retired(judgment, Authority!Known) /\ broken' = Authority!Breaks(Authority!Known)
      BY <1>1, <2>2 DEF Authority!ApplyInput
    <3>2. judgment' \in AuthorityJudgments /\ AuthorityBroken'
      BY <3>1, AuthorityRetires
    <3>3. envelope' \in AuthorityEnvelopes /\ proc' \in AuthorityRuns /\ AuthorityWritten'
      BY <3>1 DEF AuthorityInv, AuthorityType, AuthorityWritten
    <3> QED BY <3>1, <3>2, <3>3, AuthorityWakes
  <2> QED BY <2>1, <2>2
<1>2. CASE \E seen \in SUBSET Symptoms : Authority!Correlate(seen)
  BY <1>2, AuthorityAside DEF Authority!Correlate, AuthorityInv, AuthorityType, AuthorityWritten
<1> QED BY <1>1, <1>2 DEF Authority!Source

LEMMA AuthorityKnows ==
  ASSUME AuthorityInv
  PROVE  Authority!Known \in AuthorityDefinitions
BY DEF AuthorityInv, AuthorityType, Authority!Known, AuthorityDefinitions

LEMMA AuthorityOperator ==
  ASSUME AuthorityInv, Authority!OperatorWrites
  PROVE  AuthorityInv' /\ Authority!QuietIsFounded
<1> USE DEF Authority!situation, Authority!schedule, Authority!facts, Authority!authority, Authority!bounds
<1>1. judgment \in AuthorityJudgments /\ judgment.rev \in Nat /\ envelope \in AuthorityEnvelopes /\ envelope.ver \in Nat
      /\ proc \in AuthorityRuns /\ clock \in Nat /\ firing \in SUBSET Symptoms
  BY DEF AuthorityInv, AuthorityType, AuthorityJudgments, AuthorityEnvelopes
<1>2. ASSUME NEW j, judgment' = j, j \in AuthorityJudgments, j.rev = judgment.rev + 1, UNCHANGED <<broken>>
      PROVE  AuthorityBroken'
  BY <1>1, <1>2 DEF AuthorityInv, AuthorityBroken
<1>3. CASE \E until \in Authority!Later : Authority!DeclareExpected(until)
  <2>1. PICK until \in Authority!Later : Authority!DeclareExpected(until)
    BY <1>3
  <2>2. until \in Int
    BY <1>1, AuthorityAssumption DEF Authority!Later, Authority!Far
  <2> DEFINE j == [rev |-> judgment.rev + 1, state |-> "expected", until |-> until, symptoms |-> firing,
                   impact |-> assessment.impact, definition |-> Authority!Known, invalid |-> FALSE]
  <2>3. judgment' = j /\ Authority!Wake /\ UNCHANGED <<clock, firing, observed, envelope, proc, broken>>
    BY <2>1, Zenon DEF Authority!DeclareExpected
  <2>4. j \in AuthorityJudgments /\ j.rev = judgment.rev + 1
    <3>1. assessment.impact \in AuthorityImpacts
      BY DEF AuthorityInv, AuthorityType
    <3> QED BY <1>1, <2>2, <3>1, AuthorityKnows DEF AuthorityJudgments
  <2> HIDE DEF j
  <2>5. AuthorityBroken'
    BY <1>2, <2>3, <2>4
  <2>6. AuthorityWritten'
    BY <2>3 DEF AuthorityInv, AuthorityWritten
  <2> QED BY <1>1, <2>3, <2>4, <2>5, <2>6, AuthorityWakes
<1>4. CASE Authority!RevokeExpected
  <2> DEFINE j == [judgment EXCEPT !.rev = @ + 1, !.state = "revoked", !.invalid = FALSE]
  <2>1. judgment' = j /\ Authority!Wake /\ UNCHANGED <<clock, firing, observed, envelope, proc, broken>>
    BY <1>4 DEF Authority!RevokeExpected
  <2>2. j \in AuthorityJudgments /\ j.rev = judgment.rev + 1
    <3>1. ASSUME NEW s \in AuthorityJudgments, NEW k \in Nat
          PROVE  [s EXCEPT !.rev = k, !.state = "revoked", !.invalid = FALSE] \in AuthorityJudgments
      <4> DEFINE h == [s EXCEPT !.rev = k, !.state = "revoked"]
      <4>1. h \in AuthorityJudgments
        BY DEF AuthorityJudgments
      <4>2. [s EXCEPT !.rev = k, !.state = "revoked", !.invalid = FALSE] = [h EXCEPT !.invalid = FALSE]
        BY DEF AuthorityJudgments
      <4> HIDE DEF h
      <4>3. [h EXCEPT !.invalid = FALSE] \in AuthorityJudgments
        BY <4>1 DEF AuthorityJudgments
      <4> QED BY <4>2, <4>3
    <3>2. judgment.rev + 1 \in Nat
      BY <1>1
    <3>3. j \in AuthorityJudgments
      BY <1>1, <3>1, <3>2, Zenon
    <3>4. j.rev = judgment.rev + 1
      BY <1>1 DEF AuthorityJudgments
    <3> QED BY <3>3, <3>4
  <2> HIDE DEF j
  <2>3. AuthorityBroken'
    BY <1>2, <2>1, <2>2
  <2>4. AuthorityWritten'
    BY <2>1 DEF AuthorityInv, AuthorityWritten
  <2> QED BY <1>1, <2>1, <2>2, <2>3, <2>4, AuthorityWakes
<1>5. CASE Authority!PrepareValidation
  <2>1. Authority!Wake /\ UNCHANGED <<clock, firing, observed, judgment, envelope, proc, broken>>
    BY <1>5 DEF Authority!PrepareValidation
  <2>2. AuthorityBroken' /\ AuthorityWritten'
    BY <2>1 DEF AuthorityInv, AuthorityBroken, AuthorityWritten
  <2> QED BY <1>1, <2>1, <2>2, AuthorityWakes
<1>6. CASE \E until \in Authority!Later, companion \in Envelopes : Authority!ConfirmEnvelope(until, companion)
  <2>1. PICK until \in Authority!Later, companion \in Envelopes : Authority!ConfirmEnvelope(until, companion)
    BY <1>6
  <2>2. until \in Int /\ companion \in BOOLEAN
    BY <1>1, AuthorityAssumption DEF Authority!Later, Authority!Far
  <2> DEFINE e == [ver |-> envelope.ver + 1, state |-> "active", until |-> until,
                  definition |-> judgment.definition, companion |-> companion,
                  symptoms |-> judgment.symptoms, invalid |-> FALSE]
  <2>3. envelope' = e /\ Authority!Wake /\ UNCHANGED <<clock, firing, observed, judgment, proc, broken>>
    BY <2>1 DEF Authority!ConfirmEnvelope
  <2>4. e \in AuthorityEnvelopes /\ e.state = "active"
    BY <1>1, <2>2 DEF AuthorityEnvelopes, AuthorityJudgments
  <2> HIDE DEF e
  <2>5. AuthorityBroken' /\ AuthorityWritten'
    BY <2>3, <2>4 DEF AuthorityInv, AuthorityBroken, AuthorityWritten
  <2> QED BY <1>1, <2>3, <2>4, <2>5, AuthorityWakes
<1>7. CASE Authority!RevokeEnvelope
  <2> DEFINE e == [envelope EXCEPT !.ver = @ + 1, !.state = "revoked"]
  <2>1. envelope' = e /\ Authority!Wake /\ UNCHANGED <<clock, firing, observed, judgment, proc, broken>>
    BY <1>7 DEF Authority!RevokeEnvelope
  <2>2. e \in AuthorityEnvelopes /\ e.state = "revoked"
    <3>1. ASSUME NEW s \in AuthorityEnvelopes, NEW k \in Nat
          PROVE  [s EXCEPT !.ver = k, !.state = "revoked"] \in AuthorityEnvelopes
      BY DEF AuthorityEnvelopes
    <3>2. envelope.ver + 1 \in Nat
      BY <1>1
    <3>3. e \in AuthorityEnvelopes
      BY <1>1, <3>1, <3>2, Zenon
    <3>4. e.state = "revoked"
      BY <1>1 DEF AuthorityEnvelopes
    <3> QED BY <3>3, <3>4
  <2> HIDE DEF e
  <2>3. AuthorityBroken' /\ AuthorityWritten'
    BY <2>1, <2>2 DEF AuthorityInv, AuthorityBroken, AuthorityWritten
  <2> QED BY <1>1, <2>1, <2>2, <2>3, AuthorityWakes
<1> QED BY <1>3, <1>4, <1>5, <1>6, <1>7 DEF Authority!OperatorWrites

\* A step of the run that writes nothing but the run itself.
LEMMA AuthorityMoves ==
  ASSUME AuthorityInv, NEW at \in {"idle", "claimed", "observed", "loaded"}
  PROVE  /\ [proc EXCEPT !.at = at] \in AuthorityRuns
         /\ [proc EXCEPT !.at = at].status = proc.status /\ [proc EXCEPT !.at = at].ver = proc.ver
BY DEF AuthorityInv, AuthorityType, AuthorityRuns

LEMMA AuthorityReuse ==
  ASSUME AuthorityInv, Authority!Reuse
  PROVE  AuthorityInv' /\ Authority!QuietIsFounded
<1>1. proc' = [proc EXCEPT !.at = "observed"]
      /\ UNCHANGED <<clock, version, ended, assessment, contract, next, retry, lease, firing, observed,
                     judgment, envelope, broken>>
  BY DEF Authority!Reuse, Authority!situation, Authority!schedule, Authority!facts, Authority!authority
<1>2. proc' \in AuthorityRuns /\ (proc'.status = "matched" => proc'.ver # 0)
  BY <1>1, AuthorityMoves DEF AuthorityInv, AuthorityWritten
<1>3. firing' \in SUBSET Symptoms
  BY <1>1 DEF AuthorityInv, AuthorityType
<1> QED BY <1>1, <1>2, <1>3, AuthorityAside

LEMMA AuthorityValidates ==
  ASSUME AuthorityInv, Authority!CompleteValidation
  PROVE  AuthorityInv' /\ Authority!QuietIsFounded
<1>1. UNCHANGED <<clock, version, ended, assessment, contract, next, retry, lease, firing, observed,
                  judgment, envelope, proc, broken>>
  BY DEF Authority!CompleteValidation, Authority!situation, Authority!schedule, Authority!facts
<1> QED BY <1>1, AuthorityAside DEF AuthorityInv, AuthorityType, AuthorityWritten

LEMMA AuthorityInvalidates ==
  ASSUME AuthorityInv, Authority!InvalidateEnvelope
  PROVE  AuthorityInv' /\ Authority!QuietIsFounded
<1>1. /\ Authority!Wake /\ UNCHANGED <<clock, firing, observed, judgment, broken>>
      /\ proc' = Authority!Idle /\ envelope' = [envelope EXCEPT !.invalid = TRUE]
  BY DEF Authority!InvalidateEnvelope, Authority!facts
<1>2. envelope' \in AuthorityEnvelopes /\ envelope'.ver = envelope.ver /\ envelope'.state = envelope.state
  BY <1>1 DEF AuthorityInv, AuthorityType, AuthorityEnvelopes
<1>3. AuthorityWritten'
  BY <1>1, <1>2, AuthorityIdle DEF AuthorityInv, AuthorityWritten
<1>4. AuthorityBroken' /\ judgment' \in AuthorityJudgments
  BY <1>1 DEF AuthorityInv, AuthorityType, AuthorityBroken
<1>5. proc' \in AuthorityRuns
  BY <1>1, AuthorityIdle
<1> QED BY <1>1, <1>2, <1>3, <1>4, <1>5, AuthorityWakes

LEMMA AuthorityClaims ==
  ASSUME AuthorityInv, Authority!Claim
  PROVE  AuthorityInv' /\ Authority!QuietIsFounded
<1>1. /\ lease' = TRUE /\ UNCHANGED <<clock, version, ended, assessment, contract, next, retry, firing, observed,
                                      judgment, envelope, broken>>
      /\ proc' = [Authority!Idle EXCEPT !.at = "claimed", !.version = version, !.next = next, !.heads = Authority!Heads]
      /\ proc.at = "idle" /\ Authority!Due
  BY DEF Authority!Claim, Authority!situation, Authority!facts, Authority!authority
<1>2. proc' \in AuthorityRuns /\ proc'.status # "matched"
  <2> DEFINE Taken(p) == p \in AuthorityRuns /\ p.status = "none"
             Take(s, v, n, b) == [s EXCEPT !.at = "claimed", !.version = v, !.next = n, !.heads = b]
  <2>1. ASSUME NEW s, Taken(s), NEW v \in Nat, NEW n \in Nat, NEW b \in BOOLEAN
        PROVE  Taken(Take(s, v, n, b))
    <3> DEFINE h == [s EXCEPT !.at = "claimed", !.version = v]
    <3>1. h \in AuthorityRuns /\ h.status = "none"
      BY <2>1 DEF AuthorityRuns
    <3>2. Take(s, v, n, b) = [h EXCEPT !.next = n, !.heads = b]
      BY Zenon
    <3> HIDE DEF h
    <3>3. Taken([h EXCEPT !.next = n, !.heads = b])
      BY <3>1 DEF AuthorityRuns
    <3> QED BY <3>2, <3>3
  <2>2. version \in Nat /\ next \in Nat
    BY DEF AuthorityInv, AuthorityType
  <2>3. Authority!Heads \in BOOLEAN
    BY Zenon DEF Authority!Heads
  <2>4. Taken(Authority!Idle)
    BY AuthorityIdle
  <2>5. proc' = Take(Authority!Idle, version, next, Authority!Heads)
    BY <1>1, Zenon
  <2> HIDE DEF Taken, Take
  <2>6. Taken(Take(Authority!Idle, version, next, Authority!Heads))
    BY <2>1, <2>2, <2>3, <2>4, Zenon
  <2>7. Taken(proc')
    BY <2>5, <2>6, Zenon
  <2> QED BY <2>7 DEF Taken
<1>3. AuthorityType'
  BY <1>1, <1>2 DEF AuthorityInv, AuthorityType
<1>4. AuthorityDue' /\ AuthorityQuiet'
  BY <1>1 DEF AuthorityDue, AuthorityQuiet, Authority!Due
<1>5. AuthorityFlags'
  BY <1>1, Zenon DEF AuthorityInv, AuthorityFlags
<1>6. AuthorityBroken' /\ AuthorityWritten'
  BY <1>1, <1>2 DEF AuthorityInv, AuthorityBroken, AuthorityWritten
<1>7. Authority!QuietIsFounded
  BY <1>1 DEF Authority!QuietIsFounded, Authority!Commits
<1> QED BY <1>3, <1>4, <1>5, <1>6, <1>7 DEF AuthorityInv

LEMMA AuthorityEnds ==
  ASSUME AuthorityInv
  PROVE  Authority!MatchEnds(envelope) \in Int
BY DEF AuthorityInv, AuthorityType, AuthorityEnvelopes, Authority!MatchEnds, Authority!MinOf

LEMMA AuthorityLoads ==
  ASSUME AuthorityInv, Authority!Load
  PROVE  AuthorityInv' /\ Authority!QuietIsFounded
<1> DEFINE verdict == IF judgment.invalid THEN "broken" ELSE Authority!Current
           match == Authority!Status(envelope, assessment, firing, Authority!Known, clock)
<1>1. /\ UNCHANGED <<clock, version, ended, assessment, contract, next, retry, lease, firing, observed,
                     judgment, envelope, broken>>
      /\ proc' = [proc EXCEPT !.at = "loaded", !.firing = firing, !.definition = Authority!Known, !.rev = judgment.rev,
                              !.verdict = verdict, !.ver = envelope.ver, !.status = match,
                              !.until = Authority!MatchEnds(envelope)]
  BY DEF Authority!Load, Authority!situation, Authority!schedule, Authority!facts, Authority!authority
<1>2. verdict \in AuthorityVerdicts
  BY DEF AuthorityVerdicts, Authority!Current, Authority!Verdict
<1>3. match \in AuthorityStatuses /\ (match = "matched" => envelope.ver # 0)
  <2>1. CASE envelope.ver = 0
    <3>1. match = "none"
      BY <2>1 DEF Authority!Status
    <3> QED BY <3>1 DEF AuthorityStatuses
  <2>2. CASE envelope.ver # 0
    BY <2>2 DEF Authority!Status, AuthorityStatuses
  <2> QED BY <2>1, <2>2
<1> HIDE DEF verdict, match
<1> DEFINE Taken(p, m, k) == p \in AuthorityRuns /\ p.status = m /\ p.ver = k
           Take(s, f, d, r, v, k, m, u) ==
             [s EXCEPT !.at = "loaded", !.firing = f, !.definition = d, !.rev = r,
                       !.verdict = v, !.ver = k, !.status = m, !.until = u]
<1>4. ASSUME NEW s \in AuthorityRuns, NEW f \in SUBSET Symptoms, NEW d \in AuthorityDefinitions, NEW r \in Nat,
             NEW v \in AuthorityVerdicts, NEW k \in Nat, NEW m \in AuthorityStatuses, NEW u \in Int
      PROVE  Taken(Take(s, f, d, r, v, k, m, u), m, k)
  <2> DEFINE g == [s EXCEPT !.at = "loaded", !.firing = f, !.definition = d]
             h == [g EXCEPT !.rev = r, !.verdict = v, !.ver = k]
  <2>1. g \in AuthorityRuns
    BY DEF AuthorityRuns
  <2>2. Take(s, f, d, r, v, k, m, u) = [h EXCEPT !.status = m, !.until = u]
    BY Zenon
  <2> HIDE DEF g
  <2>3. h \in AuthorityRuns /\ h.ver = k
    BY <2>1 DEF AuthorityRuns
  <2> HIDE DEF h
  <2>4. Taken([h EXCEPT !.status = m, !.until = u], m, k)
    BY <2>3 DEF AuthorityRuns
  <2> QED BY <2>2, <2>4, Zenon
<1>5. proc \in AuthorityRuns /\ firing \in SUBSET Symptoms /\ judgment.rev \in Nat /\ envelope.ver \in Nat
  BY DEF AuthorityInv, AuthorityType, AuthorityJudgments, AuthorityEnvelopes
<1>6. proc' \in AuthorityRuns /\ proc'.status = match /\ proc'.ver = envelope.ver
  <2> DEFINE ends == Authority!MatchEnds(envelope)
  <2>1. proc' = Take(proc, firing, Authority!Known, judgment.rev, verdict, envelope.ver, match, ends)
    BY <1>1, Zenon
  <2>2. Authority!Known \in AuthorityDefinitions /\ ends \in Int
    BY AuthorityKnows, AuthorityEnds, Zenon
  <2> HIDE DEF Taken, Take, ends
  <2>3. Taken(Take(proc, firing, Authority!Known, judgment.rev, verdict, envelope.ver, match, ends), match, envelope.ver)
    BY <1>2, <1>3, <1>4, <1>5, <2>2, Zenon
  <2>4. Taken(proc', match, envelope.ver)
    BY <2>1, <2>3, Zenon
  <2> QED BY <2>4 DEF Taken
<1>7. proc'.status = "matched" => proc'.ver # 0
  BY <1>3, <1>6
<1> QED BY <1>1, <1>5, <1>6, <1>7, AuthorityAside

LEMMA AuthorityReleases ==
  ASSUME AuthorityInv, Authority!Release \/ Authority!Abandon
  PROVE  AuthorityInv' /\ Authority!QuietIsFounded
<1>1. /\ UNCHANGED <<clock, version, ended, assessment, contract, firing, observed, judgment, envelope, broken>>
      /\ lease' = FALSE /\ proc' = Authority!Idle
      /\ \/ retry' = clock + 1 /\ next' = Authority!Checkpoint(clock + 1)
         \/ UNCHANGED <<next, retry>>
  BY DEF Authority!Release, Authority!Abandon, Authority!situation, Authority!facts, Authority!authority
<1>2. next' \in Nat /\ retry' \in Nat /\ (retry' # 0 \/ UNCHANGED <<next, retry>>)
  BY <1>1 DEF AuthorityInv, AuthorityType, Authority!Checkpoint, Authority!MinOf
<1>3. AuthorityType'
  BY <1>1, <1>2, AuthorityIdle DEF AuthorityInv, AuthorityType
<1>4. AuthorityDue' /\ AuthorityQuiet'
  <2>1. AuthorityDue'
    BY <1>1 DEF AuthorityDue
  <2>2. CASE retry' # 0
    BY <2>1, <2>2 DEF AuthorityQuiet
  <2>3. CASE UNCHANGED <<next, retry>> /\ lease = TRUE
    BY <1>1, <2>1, <2>3 DEF AuthorityInv, AuthorityDue, AuthorityQuiet
  <2>4. CASE UNCHANGED <<next, retry>> /\ lease = FALSE
    BY <1>1, <2>1, <2>4 DEF AuthorityInv, AuthorityQuiet, AuthorityHeld
  <2>5. lease = TRUE \/ lease = FALSE
    BY Zenon DEF AuthorityInv, AuthorityFlags
  <2> QED BY <1>2, <2>1, <2>2, <2>3, <2>4, <2>5
<1>5. AuthorityFlags'
  BY <1>1, Zenon DEF AuthorityInv, AuthorityFlags
<1>6. AuthorityBroken' /\ AuthorityWritten'
  BY <1>1, AuthorityIdle DEF AuthorityInv, AuthorityBroken, AuthorityWritten
<1> QED BY <1>1, <1>3, <1>4, <1>5, <1>6 DEF AuthorityInv, Authority!QuietIsFounded

LEMMA AuthorityObserves ==
  ASSUME AuthorityInv, NEW definition \in Definitions \cup {0}, NEW companion \in Envelopes \cup {FALSE},
         Authority!Observe(definition, companion)
  PROVE  AuthorityInv' /\ Authority!QuietIsFounded
<1>1. /\ UNCHANGED <<clock, version, ended, assessment, contract, retry, lease, firing, envelope>>
      /\ observed' = [definition |-> definition, companion |-> companion, until |-> clock + 1]
      /\ proc' = [proc EXCEPT !.at = "observed"] /\ lease
      /\ \/ /\ judgment' = Authority!Retired(judgment, definition) /\ broken' = Authority!Breaks(definition)
            /\ next' = Authority!MinOf(next, clock)
         \/ UNCHANGED <<judgment, broken, next>>
  BY DEF Authority!Observe, Authority!situation, Authority!Fenced
<1>2. judgment' \in AuthorityJudgments /\ AuthorityBroken'
  <2>1. CASE UNCHANGED <<judgment, broken, next>>
    BY <2>1 DEF AuthorityInv, AuthorityType, AuthorityBroken
  <2> QED BY <1>1, <2>1, AuthorityRetires
<1>3. next' \in Nat /\ next' <= next
  BY <1>1 DEF AuthorityInv, AuthorityType, Authority!MinOf
<1>4. proc' \in AuthorityRuns /\ proc'.status = proc.status /\ proc'.ver = proc.ver
  BY <1>1, AuthorityMoves
<1>5. observed' \in [definition : AuthorityDefinitions, companion : BOOLEAN, until : Int]
  <2>1. companion \in BOOLEAN /\ definition \in AuthorityDefinitions /\ clock + 1 \in Int
    <3>1. companion \in BOOLEAN
      BY AuthorityAssumption, Zenon
    <3>2. definition \in AuthorityDefinitions
      BY DEF AuthorityDefinitions
    <3>3. clock + 1 \in Int
      BY DEF AuthorityInv, AuthorityType
    <3> QED BY <3>1, <3>2, <3>3
  <2> QED BY <1>1, <2>1
<1>6. AuthorityType'
  BY <1>1, <1>2, <1>3, <1>4, <1>5 DEF AuthorityInv, AuthorityType
<1>7. lease = TRUE
  BY <1>1, Zenon DEF AuthorityInv, AuthorityFlags
<1>8. AuthorityDue' /\ AuthorityQuiet'
  BY <1>1, <1>3, <1>7 DEF AuthorityInv, AuthorityType, AuthorityDue, AuthorityQuiet
<1>9. AuthorityFlags'
  BY <1>1, Zenon DEF AuthorityInv, AuthorityFlags
<1>10. AuthorityWritten'
  BY <1>1, <1>4 DEF AuthorityInv, AuthorityWritten
<1> QED BY <1>1, <1>2, <1>6, <1>8, <1>9, <1>10 DEF AuthorityInv, Authority!QuietIsFounded

\* The checkpoint a commit promises is no later than the end of what it rests on.
LEMMA AuthorityBounded ==
  ASSUME AuthorityInv, NEW base \in Authority!Later, NEW verdict, NEW match \in BOOLEAN,
         verdict = "applies" => clock < judgment.until, match => clock < proc.until
  PROVE  LET at == Authority!Checkpoint(Authority!NextUpdateAt(base, verdict, match)) IN
         /\ at \in Nat
         /\ verdict = "applies" => at <= judgment.until
         /\ match => at <= proc.until
<1> DEFINE near == Authority!NextUpdateAt(base, verdict, match)
<1>1. base \in Nat /\ Authority!Far \in Nat /\ clock \in Nat /\ next \in Nat /\ judgment.until \in Int /\ proc.until \in Int
  BY AuthorityAssumption
     DEF AuthorityInv, AuthorityType, AuthorityJudgments, AuthorityRuns, Authority!Later, Authority!Far
<1>2. near \in Nat /\ (verdict = "applies" => near <= judgment.until) /\ (match => near <= proc.until)
  <2>1. CASE match /\ verdict = "applies"
    BY <1>1, <2>1 DEF Authority!NextUpdateAt, Authority!MinOf
  <2>2. CASE match /\ verdict # "applies"
    BY <1>1, <2>2 DEF Authority!NextUpdateAt, Authority!MinOf
  <2>3. CASE ~match /\ verdict = "applies"
    BY <1>1, <2>3 DEF Authority!NextUpdateAt, Authority!MinOf
  <2>4. CASE ~match /\ verdict # "applies"
    BY <1>1, <2>4 DEF Authority!NextUpdateAt, Authority!MinOf
  <2> QED BY <2>1, <2>2, <2>3, <2>4
<1> HIDE DEF near
<1>3. Authority!Checkpoint(near) \in Nat /\ Authority!Checkpoint(near) <= near
  BY <1>1, <1>2 DEF Authority!Checkpoint, Authority!MinOf
<1>4. LET at == Authority!Checkpoint(near) IN
      at \in Nat /\ (verdict = "applies" => at <= judgment.until) /\ (match => at <= proc.until)
  BY <1>1, <1>2, <1>3
<1> QED BY <1>4 DEF near

LEMMA AuthorityCommits ==
  ASSUME AuthorityInv, NEW impact \in Impacts, NEW urgent \in BOOLEAN, NEW ends \in BOOLEAN,
         NEW base \in Authority!Later,
         Authority!Commit([impact |-> impact, urgent |-> urgent], ends, base)
  PROVE  AuthorityInv' /\ Authority!QuietIsFounded
<1> DEFINE a == [impact |-> impact, urgent |-> urgent]
           verdict == Authority!FinalVerdict(a, ends)
           match == Authority!FinalMatch(a, ends)
           quiet == verdict = "applies" \/ match
           rev == IF verdict = "applies" THEN proc.rev ELSE 0
           ver == IF match THEN proc.ver ELSE 0
           until == IF match THEN proc.until ELSE 0
<1>1. /\ UNCHANGED <<clock, version, firing, observed, envelope>>
      /\ Authority!JudgmentFence(verdict) /\ Authority!EnvelopeFence
      /\ judgment' = IF verdict = "broken" THEN [judgment EXCEPT !.invalid = TRUE] ELSE judgment
      /\ broken' = IF verdict = "broken" THEN broken \cup {judgment.rev} ELSE broken
      /\ contract' = [quiet |-> quiet, rev |-> rev, ver |-> ver, until |-> until]
      /\ assessment' = a /\ ended' = ends
      /\ next' = Authority!Checkpoint(Authority!NextUpdateAt(base, verdict, match))
      /\ retry' = 0 /\ lease' = FALSE /\ proc' = Authority!Idle
  BY Zenon DEF Authority!Commit, Authority!facts
<1>2. /\ judgment \in AuthorityJudgments /\ judgment.rev \in Nat /\ judgment.until \in Int
      /\ envelope \in AuthorityEnvelopes /\ proc \in AuthorityRuns /\ proc.rev \in Nat /\ proc.ver \in Nat
      /\ proc.until \in Int /\ clock \in Nat
  BY DEF AuthorityInv, AuthorityType, AuthorityJudgments, AuthorityRuns
<1>3. judgment.invalid \in BOOLEAN /\ envelope.invalid \in BOOLEAN
  BY <1>2 DEF AuthorityJudgments, AuthorityEnvelopes
<1>4. ASSUME verdict = "applies"
      PROVE  /\ proc.rev # 0 /\ judgment.rev = proc.rev /\ judgment.invalid = FALSE /\ clock < judgment.until
             /\ judgment' = judgment /\ broken' = broken
  <2>1. proc.rev # 0
    BY <1>4 DEF Authority!FinalVerdict
  <2>2. judgment.rev = proc.rev /\ ~judgment.invalid /\ clock < judgment.until
    BY <1>1, <1>4 DEF Authority!JudgmentFence
  <2>3. judgment.invalid = FALSE
    BY <1>3, <2>2, Zenon
  <2>4. verdict # "broken"
    BY <1>4
  <2> HIDE DEF verdict
  <2> QED BY <1>1, <2>1, <2>2, <2>3, <2>4
<1>5. ASSUME match
      PROVE  /\ proc.ver # 0 /\ envelope.ver = proc.ver /\ envelope.invalid = FALSE /\ envelope.state = "active"
             /\ clock < proc.until
  <2>1. proc.status = "matched" /\ clock < proc.until
    BY <1>5 DEF Authority!FinalMatch
  <2>2. proc.ver # 0
    BY <2>1 DEF AuthorityInv, AuthorityWritten
  <2>3. envelope.ver = proc.ver /\ ~(envelope.state = "revoked" \/ envelope.invalid)
    BY <1>1, <2>1, <2>2 DEF Authority!EnvelopeFence
  <2>4. envelope.invalid = FALSE
    BY <1>3, <2>3, Zenon
  <2>5. envelope.state \in {"none", "active", "revoked"} /\ envelope.state # "none"
    BY <1>2, <2>2, <2>3 DEF AuthorityInv, AuthorityWritten, AuthorityEnvelopes
  <2> QED BY <2>1, <2>2, <2>3, <2>4, <2>5
<1>6. match \in BOOLEAN /\ quiet \in BOOLEAN
  <2>1. match \in BOOLEAN
    BY Zenon DEF Authority!FinalMatch
  <2> QED BY <2>1, Zenon
<1> HIDE DEF verdict, match
<1>7. next' \in Nat /\ (verdict = "applies" => next' <= judgment.until) /\ (match => next' <= proc.until)
  <2>1. verdict = "applies" => clock < judgment.until
    BY <1>4
  <2>2. match => clock < proc.until
    BY <1>5
  <2> QED BY <1>1, <1>6, <2>1, <2>2, AuthorityBounded
<1>8. /\ contract'.quiet = quiet /\ contract'.rev = rev /\ contract'.ver = ver /\ contract'.until = until
      /\ contract' \in [quiet : BOOLEAN, rev : Nat, ver : Nat, until : Int]
  <2>1. rev \in Nat /\ ver \in Nat /\ until \in Int
    BY <1>2
  <2>2. ASSUME NEW q \in BOOLEAN, NEW r \in Nat, NEW v \in Nat, NEW u \in Int, NEW c,
               c = [quiet |-> q, rev |-> r, ver |-> v, until |-> u]
        PROVE  /\ c.quiet = q /\ c.rev = r /\ c.ver = v /\ c.until = u
               /\ c \in [quiet : BOOLEAN, rev : Nat, ver : Nat, until : Int]
    BY <2>2
  <2> HIDE DEF quiet, rev, ver, until
  <2> QED BY <1>1, <1>6, <2>1, <2>2, Zenon
<1>9. judgment' \in AuthorityJudgments /\ AuthorityBroken'
  <2>1. CASE verdict = "broken"
    <3>1. judgment' = [judgment EXCEPT !.invalid = TRUE] /\ broken' = broken \cup {judgment.rev}
      BY <1>1, <2>1
    <3>2. judgment' \in AuthorityJudgments /\ judgment'.rev = judgment.rev /\ judgment'.invalid = TRUE
      BY <1>2, <3>1 DEF AuthorityJudgments
    <3> QED BY <1>2, <3>1, <3>2 DEF AuthorityInv, AuthorityBroken
  <2>2. CASE verdict # "broken"
    <3>1. judgment' = judgment /\ broken' = broken
      BY <1>1, <2>2
    <3> QED BY <1>2, <3>1 DEF AuthorityInv, AuthorityBroken
  <2> QED BY <2>1, <2>2
<1>10. AuthorityType'
  <2>1. assessment' \in [impact : AuthorityImpacts, urgent : BOOLEAN]
    BY <1>1 DEF AuthorityImpacts
  <2>2. proc' \in AuthorityRuns /\ retry' \in Nat
    BY <1>1, AuthorityIdle
  <2> QED BY <1>1, <1>7, <1>8, <1>9, <2>1, <2>2 DEF AuthorityInv, AuthorityType
<1>11. AuthorityFlags'
  BY <1>1, Zenon DEF AuthorityFlags
<1>12. AuthorityWritten'
  BY <1>1, AuthorityIdle DEF AuthorityInv, AuthorityWritten
<1>13. AuthorityDue' /\ AuthorityQuiet'
  <2>1. AuthorityDue'
    BY <1>1 DEF AuthorityDue
  <2>2. contract'.quiet = TRUE => verdict = "applies" \/ match
    BY <1>8, Zenon
  <2>3. CASE verdict = "applies"
    <3>1. contract'.rev = proc.rev
      BY <1>8, <2>3
    <3>2. AuthorityHeld'
      BY <1>4, <1>7, <2>3, <3>1 DEF AuthorityHeld
    <3> QED BY <2>1, <3>2 DEF AuthorityQuiet
  <2>4. CASE match
    <3>1. contract'.ver = proc.ver /\ contract'.until = proc.until
      BY <1>8, <2>4
    <3>2. AuthorityHeld'
      BY <1>1, <1>5, <1>7, <2>4, <3>1 DEF AuthorityHeld
    <3> QED BY <2>1, <3>2 DEF AuthorityQuiet
  <2>5. CASE contract'.quiet # TRUE
    BY <2>1, <2>5 DEF AuthorityQuiet
  <2> QED BY <2>2, <2>3, <2>4, <2>5
<1>14. Authority!QuietIsFounded
  <2>1. ASSUME contract'.rev # 0
        PROVE  judgment.rev = contract'.rev /\ contract'.rev \notin broken'
    <3>1. verdict = "applies"
      BY <1>8, <2>1
    <3>2. contract'.rev = proc.rev
      BY <1>8, <3>1
    <3> QED BY <1>4, <3>1, <3>2 DEF AuthorityInv, AuthorityBroken
  <2>2. ASSUME contract'.ver # 0
        PROVE  envelope.ver = contract'.ver /\ envelope.state = "active" /\ ~envelope.invalid
    <3>1. match
      BY <1>8, <2>2
    <3>2. contract'.ver = proc.ver
      BY <1>8, <3>1
    <3> QED BY <1>5, <3>1, <3>2
  <2> QED BY <2>1, <2>2 DEF Authority!QuietIsFounded
<1> QED BY <1>9, <1>10, <1>11, <1>12, <1>13, <1>14 DEF AuthorityInv

LEMMA AuthorityStep ==
  AuthorityInv /\ [Authority!Next]_(Authority!vars) =>
    AuthorityInv' /\ (Authority!QuietIsFounded \/ UNCHANGED Authority!vars)
<1> SUFFICES ASSUME AuthorityInv, [Authority!Next]_(Authority!vars)
             PROVE  AuthorityInv' /\ (Authority!QuietIsFounded \/ UNCHANGED Authority!vars)
  OBVIOUS
<1>1. CASE UNCHANGED Authority!vars
  <2>1. UNCHANGED <<clock, version, ended, assessment, contract, next, retry, lease, firing, observed,
                    judgment, envelope, proc, broken>>
    BY <1>1 DEF Authority!vars, Authority!situation, Authority!schedule, Authority!facts, Authority!authority
  <2> QED BY <2>1, AuthorityAside DEF AuthorityInv, AuthorityType, AuthorityWritten
<1>2. CASE Authority!Controller
  BY <1>2, AuthorityClaims, AuthorityReuse, AuthorityValidates, AuthorityInvalidates, AuthorityLoads,
     AuthorityReleases, AuthorityObserves, AuthorityCommits DEF Authority!Controller
<1> QED BY <1>1, <1>2, AuthorityTicks, AuthoritySource, AuthorityOperator DEF Authority!Next

\* However operator writes, inputs, observations, failed and abandoned runs and the clock
\* interleave, a Situation that is quiet by an authority no longer in force is due, in work
\* or to be retried (finalizeCheckpoint, wakeExpectedBehaviorGroupsTx).
THEOREM AuthorityNoSilentQuiet == Authority!Spec => []NoSilentQuiet
<1>1. AuthorityInv => NoSilentQuiet
  <2> SUFFICES ASSUME AuthorityInv, contract.quiet, ~ended, ~Authority!StillHolds, ~lease, retry = 0
               PROVE  next <= clock
    BY DEF NoSilentQuiet, Authority!NoSilentQuiet, Authority!Due
  <2>1. contract.quiet = TRUE /\ ended = FALSE /\ lease = FALSE
    <3>1. contract.quiet \in BOOLEAN
      BY DEF AuthorityInv, AuthorityType
    <3> QED BY <3>1, Zenon DEF AuthorityInv, AuthorityFlags
  <2>2. next <= clock \/ AuthorityHeld
    BY <2>1 DEF AuthorityInv, AuthorityQuiet
  <2>3. CASE AuthorityHeld
    <3>1. clock \in Nat /\ next \in Nat /\ judgment.until \in Int /\ contract.until \in Int
      BY DEF AuthorityInv, AuthorityType, AuthorityJudgments
    <3> QED BY <2>3, <3>1 DEF AuthorityHeld, Authority!StillHolds
  <2> QED BY <2>2, <2>3
<1> QED BY <1>1, AuthorityInit, AuthorityStep, PTL DEF Authority!Spec

\* No commit is quiet under a judgment that was ever seen to be contradicted, nor under an
\* envelope that is revoked or retired at that moment (verifySituationJudgmentFenceTx,
\* commitExpectedBehaviorEvaluationTx).
THEOREM AuthorityLapses == Authority!Spec => LapsedStaysLapsed
BY AuthorityInit, AuthorityStep, PTL DEF Authority!Spec, LapsedStaysLapsed, Authority!LapsedStaysLapsed

-----------------------------------------------------------------------------
(* NtfyPush. Every row is covered by a row of its Situation that was not   *)
(* merged away; the row that is out comes before all that the Situation is *)
(* still owed, so what arrives is never older than what is shown.          *)

PushFields == {"situation", "seq", "dest", "events", "created", "status", "delayed", "due", "held", "token", "claims"}
PushStatuses == {"pending", "delivering", "blocked", "delivered", "retired", "superseded"}
PushLive == {"pending", "delivering", "blocked"}

PushList(q) == \E S : q \in Seq(S)

\* The histories h and the topic x, as far as the rows depend on them.
PushTopic(h, x) ==
  /\ DOMAIN h = Situations /\ DOMAIN x = Situations
  /\ \A s \in Situations :
       /\ PushList(h[s]) /\ \A k \in DOMAIN h[s] : h[s][k].at \in Nat
       /\ DOMAIN x[s] = {"seq", "events"} /\ x[s].seq \in Nat /\ x[s].seq <= Len(h[s])

PushRow(r, h) ==
  /\ DOMAIN r = PushFields /\ r.situation \in Situations /\ r.status \in PushStatuses /\ r.created \in Nat
  /\ r.seq \in Nat \ {0} /\ r.seq <= Len(h[r.situation])

\* Row i is the one to be sent before row j.
PushBefore(q, i, j) == q[i].seq < q[j].seq \/ (q[i].seq = q[j].seq /\ i <= j)

\* Row j keeps the events of row i, and once delivered the topic x has seen them.
PushKeeper(q, x, i, j) ==
  /\ q[j].situation = q[i].situation /\ q[j].dest = q[i].dest
  /\ q[j].seq >= q[i].seq /\ q[i].events \subseteq q[j].events
  /\ q[j].status # "superseded"
  /\ q[j].status = "delivered" => /\ x[q[j].situation].seq >= q[j].seq
                                  /\ q[i].events \subseteq x[q[j].situation].events

\* The rows q under destination d: those still owed go to d and show nothing older than the topic
\* does, the one that is out is before all others of its Situation, and events are kept.
PushBook(d, h, q, x) ==
  /\ PushTopic(h, x) /\ PushList(q)
  /\ \A i \in DOMAIN q : /\ PushRow(q[i], h) /\ d # NoTopic
                         /\ q[i].status \in PushLive => q[i].dest = d /\ q[i].seq >= x[q[i].situation].seq
  /\ \A i, j \in DOMAIN q :
       q[i].situation = q[j].situation /\ q[i].status = "delivering" /\ q[j].status \in PushLive => PushBefore(q, i, j)
  /\ \A i \in DOMAIN q : \E j \in DOMAIN q : PushKeeper(q, x, i, j)

\* The worker w holds a row that is out; what it knows to have been delivered, the topic shows.
PushWork(w, q, x) ==
  /\ DOMAIN w = {"pc", "row", "token", "outcome"}
  /\ w.pc \in {"sending", "acking"} => w.row \in DOMAIN q /\ q[w.row].status = "delivering"
  /\ w.pc = "acking" => w.outcome \in {"delivered", "pending", "blocked"}
  /\ w.pc = "acking" /\ w.outcome = "delivered" =>
       /\ x[q[w.row].situation].seq >= q[w.row].seq
       /\ q[w.row].events \subseteq x[q[w.row].situation].events

PushInv ==
  /\ PushBook(config.dest, history, rows, shown) /\ PushWork(worker, rows, shown)
  /\ config.enabled => config.dest # NoTopic
  /\ committed \in Nat

-----------------------------------------------------------------------------
\* A set of numbers that is not empty has a least one.
LEMMA PushLeast ==
  ASSUME NEW T \in SUBSET Nat, T # {}
  PROVE  \E x \in T : \A y \in T : x <= y
<1>1. PICK x \in T : \A y \in T : ~(<<y, x>> \in OpToRel(<, Nat))
  BY NatLessThanWellFounded, WFMin
<1>2. ASSUME NEW y \in T PROVE x <= y
  <2>1. x \in Nat /\ y \in Nat /\ ~(<<y, x>> \in OpToRel(<, Nat))
    BY <1>1
  <2>2. ~(y < x)
    BY <2>1 DEF OpToRel
  <2>3. x \in Nat /\ y \in Nat
    BY <1>1
  <2> QED BY <2>2, <2>3
<1> QED BY <1>2

LEMMA PushLists ==
  ASSUME NEW q, PushList(q)
  PROVE  /\ Len(q) \in Nat /\ DOMAIN q = 1 .. Len(q)
         /\ \A x : /\ PushList(Append(q, x)) /\ Len(Append(q, x)) = Len(q) + 1
                   /\ DOMAIN Append(q, x) = DOMAIN q \cup {Len(q) + 1} /\ Len(q) + 1 \notin DOMAIN q
                   /\ Append(q, x)[Len(q) + 1] = x /\ \A i \in DOMAIN q : Append(q, x)[i] = q[i]
<1>1. PICK S : q \in Seq(S)
  BY DEF PushList
<1>2. Len(q) \in Nat /\ DOMAIN q = 1 .. Len(q)
  BY <1>1
<1>3. ASSUME NEW x
      PROVE  /\ PushList(Append(q, x)) /\ Len(Append(q, x)) = Len(q) + 1
             /\ DOMAIN Append(q, x) = DOMAIN q \cup {Len(q) + 1} /\ Len(q) + 1 \notin DOMAIN q
             /\ Append(q, x)[Len(q) + 1] = x /\ \A i \in DOMAIN q : Append(q, x)[i] = q[i]
  <2>1. PICK T : T = S \cup {x}
    OBVIOUS
  <2>2. q \in Seq(T) /\ x \in T
    BY <1>1, <2>1
  <2>3. Append(q, x) \in Seq(T) /\ Len(Append(q, x)) = Len(q) + 1
    BY <2>2
  <2>4. DOMAIN Append(q, x) = DOMAIN q \cup {Len(q) + 1} /\ Len(q) + 1 \notin DOMAIN q
    BY <1>2, <2>3
  <2>5. Append(q, x)[Len(q) + 1] = x /\ \A i \in DOMAIN q : Append(q, x)[i] = q[i]
    BY <2>2
  <2> QED BY <2>3, <2>4, <2>5 DEF PushList
<1> QED BY <1>2, <1>3

\* A sequence written by its entries.
LEMMA PushWritten ==
  ASSUME NEW q, PushList(q), NEW t, t = [i \in DOMAIN q |-> t[i]]
  PROVE  PushList(t) /\ DOMAIN t = DOMAIN q /\ Len(t) = Len(q)
<1>1. Len(q) \in Nat /\ DOMAIN q = 1 .. Len(q)
  BY PushLists
<1>2. PICK S : S = {t[i] : i \in 1 .. Len(q)}
  OBVIOUS
<1>3. t \in [1 .. Len(q) -> S]
  BY <1>1, <1>2
<1>4. t \in Seq(S) /\ Len(t) = Len(q)
  BY <1>1, <1>3
<1> QED BY <1>1, <1>4 DEF PushList

LEMMA PushJoined ==
  ASSUME NEW p, NEW q, PushList(p), PushList(q)
  PROVE  /\ PushList(p \o q) /\ Len(p \o q) = Len(p) + Len(q)
         /\ \A i \in DOMAIN (p \o q) : (i \in DOMAIN p /\ (p \o q)[i] = p[i]) \/ \E k \in DOMAIN q : (p \o q)[i] = q[k]
<1>1. PICK S : p \in Seq(S)
  BY DEF PushList
<1>2. PICK R : q \in Seq(R)
  BY DEF PushList
<1>3. PICK T : T = S \cup R
  OBVIOUS
<1>4. p \in Seq(T) /\ q \in Seq(T)
  BY <1>1, <1>2, <1>3
<1>5. /\ p \o q \in Seq(T) /\ Len(p \o q) = Len(p) + Len(q)
      /\ \A i \in 1 .. Len(p) + Len(q) : (p \o q)[i] = IF i <= Len(p) THEN p[i] ELSE q[i - Len(p)]
  BY <1>4, ConcatProperties, Zenon
<1>6. Len(p) \in Nat /\ Len(q) \in Nat /\ DOMAIN p = 1 .. Len(p) /\ DOMAIN q = 1 .. Len(q) /\ DOMAIN (p \o q) = 1 .. Len(p) + Len(q)
  BY <1>4, <1>5
<1>7. ASSUME NEW i \in DOMAIN (p \o q)
      PROVE  (i \in DOMAIN p /\ (p \o q)[i] = p[i]) \/ \E k \in DOMAIN q : (p \o q)[i] = q[k]
  <2>1. CASE i <= Len(p)
    BY <1>5, <1>6, <2>1
  <2>2. CASE ~(i <= Len(p))
    <3>1. i - Len(p) \in DOMAIN q /\ (p \o q)[i] = q[i - Len(p)]
      BY <1>5, <1>6, <2>2
    <3> QED BY <3>1
  <2> QED BY <2>1, <2>2
<1> QED BY <1>5, <1>7 DEF PushList

-----------------------------------------------------------------------------
\* The row r after a write that leaves alone what it shows.
PushSame(r, n) ==
  /\ DOMAIN n = PushFields /\ n.situation = r.situation /\ n.seq = r.seq /\ n.dest = r.dest /\ n.events = r.events
  /\ n.created = r.created

\* How a write may move the rows q to t, the destination to d: nothing comes back to life, what
\* goes out was the first of its Situation, and what was delivered has been seen.
PushMoved(d, q, t, x) ==
  /\ t = [i \in DOMAIN q |-> t[i]]
  /\ DOMAIN q # {} => d # NoTopic
  /\ \A i \in DOMAIN q :
       /\ PushSame(q[i], t[i]) /\ t[i].status \in PushStatuses
       /\ t[i].status \in PushLive => q[i].status \in PushLive /\ q[i].dest = d
       /\ t[i].status = "superseded" => q[i].status = "superseded"
       /\ t[i].status = "delivered" => \/ q[i].status = "delivered"
                                       \/ /\ x[q[i].situation].seq >= q[i].seq
                                          /\ q[i].events \subseteq x[q[i].situation].events
       /\ t[i].status = "delivering" =>
            \/ q[i].status = "delivering"
            \/ \A j \in DOMAIN q : q[j].situation = q[i].situation /\ q[j].status \in PushLive => PushBefore(q, i, j)

LEMMA PushMoves ==
  ASSUME NEW c, NEW d, NEW h, NEW q, NEW t, NEW x, PushBook(c, h, q, x), PushMoved(d, q, t, x)
  PROVE  PushBook(d, h, t, x)
<1>1. PushTopic(h, x) /\ PushList(q) /\ \A i \in DOMAIN q : PushRow(q[i], h)
  BY DEF PushBook
<1>2. PushList(t) /\ DOMAIN t = DOMAIN q
  BY <1>1, PushWritten DEF PushMoved
<1>3. \A i \in DOMAIN q :
        /\ t[i].situation = q[i].situation /\ t[i].seq = q[i].seq /\ t[i].dest = q[i].dest /\ t[i].events = q[i].events
        /\ DOMAIN t[i] = PushFields /\ t[i].created = q[i].created /\ t[i].status \in PushStatuses
  BY DEF PushMoved, PushSame
<1>4. ASSUME NEW i \in DOMAIN t
      PROVE  /\ PushRow(t[i], h) /\ d # NoTopic
             /\ t[i].status \in PushLive => t[i].dest = d /\ t[i].seq >= x[t[i].situation].seq
  <2>1. PushRow(t[i], h)
    BY <1>1, <1>2, <1>3 DEF PushRow
  <2>2. d # NoTopic
    BY <1>2 DEF PushMoved
  <2>3. t[i].status \in PushLive => t[i].dest = d /\ t[i].seq >= x[t[i].situation].seq
    BY <1>2, <1>3 DEF PushMoved, PushBook
  <2> QED BY <2>1, <2>2, <2>3
<1>5. ASSUME NEW i \in DOMAIN t, NEW j \in DOMAIN t, t[i].situation = t[j].situation, t[i].status = "delivering",
             t[j].status \in PushLive
      PROVE  PushBefore(t, i, j)
  <2>1. q[i].situation = q[j].situation /\ q[j].status \in PushLive /\ t[i].seq = q[i].seq /\ t[j].seq = q[j].seq
    BY <1>2, <1>3, <1>5 DEF PushMoved
  <2>2. PushBefore(q, i, j)
    <3>1. CASE q[i].status = "delivering"
      BY <1>2, <2>1, <3>1 DEF PushBook
    <3>2. CASE q[i].status # "delivering"
      BY <1>2, <1>5, <2>1, <3>2 DEF PushMoved
    <3> QED BY <3>1, <3>2
  <2> QED BY <2>1, <2>2 DEF PushBefore
<1>6. ASSUME NEW i \in DOMAIN t PROVE \E j \in DOMAIN t : PushKeeper(t, x, i, j)
  <2>1. PICK j \in DOMAIN q : PushKeeper(q, x, i, j)
    BY <1>2, <1>6 DEF PushBook
  <2>2. t[j].status # "superseded"
    BY <2>1 DEF PushMoved, PushKeeper
  <2>3. t[j].status = "delivered" => /\ x[t[j].situation].seq >= t[j].seq
                                     /\ t[i].events \subseteq x[t[j].situation].events
    <3> SUFFICES ASSUME t[j].status = "delivered"
                 PROVE  /\ x[q[j].situation].seq >= q[j].seq
                        /\ q[i].events \subseteq x[q[j].situation].events
      BY <1>2, <1>3, <2>1
    <3>1. CASE q[j].status = "delivered"
      BY <2>1, <3>1 DEF PushKeeper
    <3>2. CASE q[j].status # "delivered"
      <4>1. x[q[j].situation].seq >= q[j].seq /\ q[j].events \subseteq x[q[j].situation].events
        BY <2>1, <3>2 DEF PushMoved
      <4>2. q[i].events \subseteq q[j].events
        BY <2>1 DEF PushKeeper
      <4> QED BY <4>1, <4>2
    <3> QED BY <3>1, <3>2
  <2>4. PushKeeper(t, x, i, j)
    BY <1>2, <1>3, <1>6, <2>1, <2>2, <2>3 DEF PushKeeper
  <2> QED BY <1>2, <2>4
<1> QED BY <1>1, <1>2, <1>4, <1>5, <1>6 DEF PushBook

\* A commit that pushes nothing: histories only grow.
LEMMA PushGrows ==
  ASSUME NEW d, NEW h, NEW q, NEW x, PushBook(d, h, q, x), NEW k, DOMAIN k = Situations,
         \A s \in Situations : PushList(k[s]) /\ Len(h[s]) <= Len(k[s]) /\ \A i \in DOMAIN k[s] : k[s][i].at \in Nat
  PROVE  PushBook(d, k, q, x)
<1>1. \A s \in Situations : Len(h[s]) \in Nat /\ Len(k[s]) \in Nat
  BY PushLists DEF PushBook, PushTopic
<1>2. PushTopic(k, x)
  BY <1>1 DEF PushBook, PushTopic
<1>3. ASSUME NEW i \in DOMAIN q PROVE PushRow(q[i], k)
  <2>1. PushRow(q[i], h)
    BY DEF PushBook
  <2> QED BY <1>1, <2>1 DEF PushRow
<1> QED BY <1>2, <1>3 DEF PushBook

\* A new row, of the latest state of its Situation.
LEMMA PushAdds ==
  ASSUME NEW d, NEW h, NEW q, NEW x, PushBook(d, h, q, x), NEW r, PushRow(r, h), r.seq = Len(h[r.situation]),
         r.status = "pending", r.dest = d, d # NoTopic
  PROVE  PushBook(d, h, Append(q, r), x)
<1>1. PICK t : t = Append(q, r)
  OBVIOUS
<1>2. PICK k : k = Len(q) + 1
  OBVIOUS
<1>3. PushTopic(h, x) /\ PushList(q)
  BY DEF PushBook
<1>4. /\ PushList(t) /\ DOMAIN t = DOMAIN q \cup {k} /\ k \notin DOMAIN q /\ t[k] = r /\ \A i \in DOMAIN q : t[i] = q[i]
  BY <1>1, <1>2, <1>3, PushLists
<1>5. \A i \in DOMAIN q : i <= k
  BY <1>2, <1>3, PushLists
<1>6. ASSUME NEW i \in DOMAIN t
      PROVE  /\ PushRow(t[i], h) /\ d # NoTopic
             /\ t[i].status \in PushLive => t[i].dest = d /\ t[i].seq >= x[t[i].situation].seq
  <2>1. CASE i = k
    <3>1. x[r.situation].seq <= Len(h[r.situation])
      BY <1>3 DEF PushTopic, PushRow
    <3> QED BY <1>4, <2>1, <3>1
  <2>2. CASE i \in DOMAIN q
    BY <1>4, <2>2 DEF PushBook
  <2> QED BY <1>4, <2>1, <2>2
<1>7. ASSUME NEW i \in DOMAIN t, NEW j \in DOMAIN t, t[i].situation = t[j].situation, t[i].status = "delivering",
             t[j].status \in PushLive
      PROVE  PushBefore(t, i, j)
  <2>1. i \in DOMAIN q
    BY <1>4, <1>7
  <2>2. CASE j = k
    <3>1. t[i].seq <= Len(h[r.situation]) /\ t[i].seq \in Nat /\ t[j].seq = Len(h[r.situation]) /\ t[j].seq \in Nat
      BY <1>4, <1>6, <1>7, <2>2 DEF PushRow
    <3> QED BY <1>5, <2>1, <2>2, <3>1 DEF PushBefore
  <2>3. CASE j \in DOMAIN q
    <3>1. PushBefore(q, i, j)
      BY <1>4, <1>7, <2>1, <2>3 DEF PushBook
    <3> QED BY <1>4, <2>1, <2>3, <3>1 DEF PushBefore
  <2> QED BY <1>4, <2>2, <2>3
<1>8. ASSUME NEW i \in DOMAIN t PROVE \E j \in DOMAIN t : PushKeeper(t, x, i, j)
  <2>1. CASE i = k
    <3>1. r.seq >= r.seq
      BY DEF PushRow
    <3>2. PushKeeper(t, x, k, k)
      BY <1>4, <3>1 DEF PushKeeper
    <3> QED BY <1>4, <2>1, <3>2
  <2>2. CASE i \in DOMAIN q
    <3>1. PICK j \in DOMAIN q : PushKeeper(q, x, i, j)
      BY <2>2 DEF PushBook
    <3>2. PushKeeper(t, x, i, j)
      BY <1>4, <2>2, <3>1 DEF PushKeeper
    <3> QED BY <1>4, <3>2
  <2> QED BY <1>4, <2>1, <2>2
<1>9. PushBook(d, h, t, x)
  BY <1>3, <1>4, <1>6, <1>7, <1>8 DEF PushBook
<1> QED BY <1>1, <1>9

-----------------------------------------------------------------------------
\* Row i is due to be sent before everything its Situation is still owed.
PushFirst(q, i) ==
  /\ i \in DOMAIN q /\ q[i].status = "pending"
  /\ \A j \in DOMAIN q : q[j].situation = q[i].situation /\ q[j].status \in PushLive => PushBefore(q, i, j)

LEMMA PushHead ==
  ASSUME NEW d, NEW h, NEW q, NEW x, PushBook(d, h, q, x), Push!Heads(q) # {}
  PROVE  PushFirst(q, Push!Oldest(q))
<1>1. PICK H : H = Push!Heads(q)
  OBVIOUS
<1>2. H # {} /\ H \subseteq DOMAIN q /\ \A i \in H : PushFirst(q, i)
  BY <1>1 DEF Push!Heads, Push!Live, PushLive, PushFirst, PushBefore
<1>3. DOMAIN q \subseteq Nat /\ \A i \in DOMAIN q : q[i].created \in Nat
  <2>1. PushList(q)
    BY DEF PushBook
  <2>2. DOMAIN q \subseteq Nat
    BY <2>1, PushLists
  <2> QED BY <2>2 DEF PushBook, PushRow
<1>4. PICK C : C = {q[i].created : i \in H}
  OBVIOUS
<1>5. C \in SUBSET Nat /\ C # {}
  BY <1>2, <1>3, <1>4
<1>6. PICK m \in C : \A y \in C : m <= y
  BY <1>5, PushLeast
<1>7. PICK I : I = {i \in H : q[i].created = m}
  OBVIOUS
<1>8. I \in SUBSET Nat /\ I # {}
  BY <1>2, <1>3, <1>4, <1>6, <1>7
<1>9. PICK i \in I : \A y \in I : i <= y
  BY <1>8, PushLeast
<1>10. i \in H /\ \A j \in H : q[i].created < q[j].created \/ (q[i].created = q[j].created /\ i <= j)
  <2>1. i \in H /\ q[i].created = m
    BY <1>7, <1>9
  <2>2. ASSUME NEW j \in H PROVE q[i].created < q[j].created \/ (q[i].created = q[j].created /\ i <= j)
    <3>1. m <= q[j].created /\ m \in Nat /\ q[j].created \in Nat
      BY <1>2, <1>3, <1>4, <1>5, <1>6
    <3>2. q[j].created = m => i <= j
      BY <1>7, <1>9
    <3> QED BY <2>1, <3>1, <3>2
  <2> QED BY <2>1, <2>2
<1>11. Push!Oldest(q) \in H
  <2>1. \E a \in H : \A j \in H : q[a].created < q[j].created \/ (q[a].created = q[j].created /\ a <= j)
    BY <1>10
  <2> QED BY <1>1, <2>1, Zenon DEF Push!Oldest
<1> QED BY <1>2, <1>11

\* compactNTFYTx: one catch-up for everything the Situation is owed.
LEMMA PushMerges ==
  ASSUME NEW d, NEW q, PushBook(d, history, q, shown), NEW i, PushFirst(q, i), NEW t, t = Push!Compacted(q, i)
  PROVE  /\ PushBook(d, history, t, shown) /\ Len(t) = Len(q) + 1 /\ PushFirst(t, Len(t))
         /\ t[Len(t)].seq = Len(history[t[Len(t)].situation])
<1>1. PICK o : o = {j \in DOMAIN q : /\ q[j].situation = q[i].situation /\ q[j].dest = q[i].dest
                                     /\ q[j].status \in {"pending", "blocked"}}
  OBVIOUS
<1>2. PICK s : s = q[i].situation
  OBVIOUS
<1>3. PICK e : e = UNION {q[j].events : j \in o}
  OBVIOUS
<1>4. PICK c : c = [Push!NewRow(s, Len(history[s]), e, Push!Last(history[s]).at) EXCEPT !.dest = q[i].dest]
  OBVIOUS
<1>5. PICK u : u = [j \in DOMAIN q |-> IF j \in o THEN [q[j] EXCEPT !.status = "superseded", !.token = @ + 1] ELSE q[j]]
  OBVIOUS
<1>6. t = Append(u, c)
  BY <1>1, <1>2, <1>3, <1>4, <1>5, Zenon DEF Push!Compacted
<1>7. /\ i \in DOMAIN q /\ q[i].status = "pending" /\ PushTopic(history, shown) /\ PushList(q)
      /\ \A j \in DOMAIN q : PushRow(q[j], history)
  BY DEF PushFirst, PushBook
<1>8. PushRow(q[i], history) /\ s \in Situations /\ q[i].dest = d /\ d # NoTopic
  BY <1>2, <1>7 DEF PushBook, PushRow, PushLive
<1>9. PICK l : l = Len(history[s])
  OBVIOUS
<1>10. /\ l \in Nat \ {0} /\ Push!Last(history[s]).at \in Nat /\ shown[s].seq <= l /\ shown[s].seq \in Nat
  <2>1. PushList(history[s]) /\ q[i].seq \in Nat \ {0} /\ q[i].seq <= Len(history[s])
    BY <1>2, <1>7, <1>8 DEF PushTopic, PushRow
  <2>2. l \in Nat /\ DOMAIN history[s] = 1 .. l
    BY <1>9, <2>1, PushLists
  <2>3. l \in DOMAIN history[s]
    BY <1>9, <2>1, <2>2
  <2> QED BY <1>7, <1>8, <1>9, <2>2, <2>3 DEF PushTopic, Push!Last
<1>11. /\ DOMAIN c = PushFields /\ c.situation = s /\ c.seq = l /\ c.dest = d /\ c.events = e
       /\ c.created = Push!Last(history[s]).at /\ c.status = "pending"
  BY <1>4, <1>8, <1>9 DEF Push!NewRow, PushFields
<1>12. PushRow(c, history)
  BY <1>8, <1>9, <1>10, <1>11 DEF PushRow, PushStatuses
<1>13. PushList(u) /\ DOMAIN u = DOMAIN q /\ Len(u) = Len(q)
  <2>1. u = [j \in DOMAIN q |-> u[j]]
    BY <1>5
  <2> QED BY <1>7, <2>1, PushWritten
<1>14. ASSUME NEW j \in DOMAIN q
       PROVE  PushSame(q[j], u[j]) /\ u[j].status = IF j \in o THEN "superseded" ELSE q[j].status
  <2>1. DOMAIN q[j] = PushFields
    BY <1>7 DEF PushRow
  <2>2. CASE j \in o
    <3>1. u[j] = [q[j] EXCEPT !.status = "superseded", !.token = q[j].token + 1]
      BY <1>5, <2>2
    <3> QED BY <2>1, <2>2, <3>1 DEF PushSame, PushFields
  <2>3. CASE j \notin o
    BY <1>5, <2>1, <2>3 DEF PushSame
  <2> QED BY <2>2, <2>3
<1>15. \A j \in DOMAIN q : u[j].situation = q[j].situation /\ u[j].seq = q[j].seq /\ u[j].dest = q[j].dest /\ u[j].events = q[j].events
  BY <1>14 DEF PushSame
<1>16. ASSUME NEW j \in DOMAIN q, q[j].situation = s, q[j].status \in PushLive PROVE j \in o
  <2>1. q[j].dest = d
    BY <1>16 DEF PushBook
  <2>2. q[j].status # "delivering"
    <3> SUFFICES ASSUME q[j].status = "delivering" PROVE FALSE
      OBVIOUS
    <3>1. PushBefore(q, j, i)
      BY <1>2, <1>7, <1>16 DEF PushBook, PushLive
    <3>2. PushBefore(q, i, j)
      BY <1>2, <1>16 DEF PushFirst
    <3>3. q[i].seq \in Nat /\ q[j].seq \in Nat /\ i \in Nat /\ j \in Nat
      <4>1. DOMAIN q \subseteq Nat
        BY <1>7, PushLists
      <4> QED BY <1>7, <4>1 DEF PushRow
    <3>4. i = j
      BY <3>1, <3>2, <3>3 DEF PushBefore
    <3> QED BY <1>7, <3>4
  <2> QED BY <1>1, <1>2, <1>8, <1>16, <2>1, <2>2 DEF PushLive
<1>17. PICK k : k = Len(q) + 1
  OBVIOUS
<1>18. /\ PushList(t) /\ Len(t) = k /\ DOMAIN t = DOMAIN q \cup {k} /\ k \notin DOMAIN q /\ t[k] = c
       /\ \A j \in DOMAIN q : t[j] = u[j]
  BY <1>6, <1>13, <1>17, PushLists
<1>19. \A j \in DOMAIN q : t[j].status \in PushLive => q[j].status \in PushLive /\ q[j].situation # s /\ t[j].status = q[j].status
  BY <1>14, <1>16, <1>18 DEF PushLive
<1>20. ASSUME NEW j \in DOMAIN t
       PROVE  /\ PushRow(t[j], history) /\ d # NoTopic
              /\ t[j].status \in PushLive => t[j].dest = d /\ t[j].seq >= shown[t[j].situation].seq
  <2>1. CASE j = k
    BY <1>8, <1>9, <1>10, <1>11, <1>12, <1>18, <2>1
  <2>2. CASE j \in DOMAIN q
    <3>1. PushRow(q[j], history) /\ PushSame(q[j], t[j]) /\ t[j].status \in PushStatuses
      BY <1>7, <1>14, <1>18, <2>2 DEF PushRow, PushStatuses
    <3>2. PushRow(t[j], history)
      BY <3>1 DEF PushRow, PushSame
    <3>3. t[j].status \in PushLive => t[j].dest = d /\ t[j].seq >= shown[t[j].situation].seq
      BY <1>19, <2>2, <3>1 DEF PushBook, PushSame
    <3> QED BY <1>8, <3>2, <3>3
  <2> QED BY <1>18, <2>1, <2>2
<1>21. ASSUME NEW a \in DOMAIN t, NEW b \in DOMAIN t, t[a].situation = t[b].situation, t[a].status = "delivering",
              t[b].status \in PushLive
       PROVE  PushBefore(t, a, b)
  <2>1. a \in DOMAIN q /\ q[a].status = "delivering" /\ q[a].situation # s
    BY <1>11, <1>18, <1>19, <1>21 DEF PushLive
  <2>2. b \in DOMAIN q /\ q[b].status \in PushLive
    BY <1>11, <1>15, <1>18, <1>19, <1>21, <2>1
  <2>3. PushBefore(q, a, b)
    BY <1>15, <1>18, <1>21, <2>1, <2>2 DEF PushBook
  <2> QED BY <1>15, <1>18, <2>1, <2>2, <2>3 DEF PushBefore
<1>22. ASSUME NEW a \in DOMAIN t PROVE \E b \in DOMAIN t : PushKeeper(t, shown, a, b)
  <2>1. CASE a = k
    <3>1. l >= l
      BY <1>10
    <3>2. PushKeeper(t, shown, k, k)
      BY <1>11, <1>18, <3>1 DEF PushKeeper
    <3> QED BY <1>18, <2>1, <3>2
  <2>2. CASE a \in DOMAIN q
    <3>1. PICK b \in DOMAIN q : PushKeeper(q, shown, a, b)
      BY <2>2 DEF PushBook
    <3>2. CASE b \in o
      <4>1. q[b].situation = s /\ q[b].dest = d
        BY <1>1, <1>2, <1>8, <3>2
      <4>2. q[b].events \subseteq e
        BY <1>3, <3>2
      <4>3. l >= q[a].seq
        <5>1. q[b].seq <= l /\ q[b].seq \in Nat /\ q[a].seq \in Nat
          BY <1>7, <1>9, <2>2, <4>1 DEF PushRow
        <5> QED BY <1>10, <3>1, <5>1 DEF PushKeeper
      <4>4. PushKeeper(t, shown, a, k)
        BY <1>11, <1>15, <1>18, <2>2, <3>1, <4>1, <4>2, <4>3 DEF PushKeeper
      <4> QED BY <1>18, <4>4
    <3>3. CASE b \notin o
      <4>1. t[b].status = q[b].status
        BY <1>14, <1>18, <3>3
      <4>2. PushKeeper(t, shown, a, b)
        BY <1>15, <1>18, <2>2, <3>1, <4>1 DEF PushKeeper
      <4> QED BY <1>18, <4>2
    <3> QED BY <3>2, <3>3
  <2> QED BY <1>18, <2>1, <2>2
<1>23. PushBook(d, history, t, shown)
  BY <1>7, <1>18, <1>20, <1>21, <1>22 DEF PushBook
<1>24. PushFirst(t, k)
  <2>1. ASSUME NEW j \in DOMAIN t, t[j].situation = s, t[j].status \in PushLive PROVE j = k
    BY <1>15, <1>18, <1>19, <2>1
  <2>2. t[k].seq = l /\ k <= k
    BY <1>7, <1>11, <1>17, <1>18, PushLists
  <2> QED BY <1>11, <1>18, <2>1, <2>2 DEF PushFirst, PushBefore
<1> QED BY <1>9, <1>11, <1>17, <1>18, <1>23, <1>24

-----------------------------------------------------------------------------
LEMMA PushInit == Push!Init => PushInv
<1> SUFFICES ASSUME Push!Init PROVE PushInv
  OBVIOUS
<1>1. /\ config.dest = NoTopic /\ ~config.enabled /\ history = [s \in Situations |-> <<>>] /\ rows = <<>>
      /\ worker = [pc |-> "down", row |-> 0, token |-> 0, outcome |-> "none"]
      /\ shown = [s \in Situations |-> [seq |-> 0, events |-> {}]] /\ committed = 0
  BY DEF Push!Init
<1>2. PushList(<<>>) /\ DOMAIN <<>> = {} /\ Len(<<>>) = 0
  BY DEF PushList
<1>3. PushTopic(history, shown)
  <2>1. \A s \in Situations : history[s] = <<>> /\ shown[s] = [seq |-> 0, events |-> {}]
    BY <1>1
  <2> QED BY <1>1, <1>2, <2>1 DEF PushTopic
<1>4. PushBook(config.dest, history, rows, shown)
  BY <1>1, <1>2, <1>3 DEF PushBook
<1> QED BY <1>1, <1>4 DEF PushInv, PushWork

\* What a start does to one row.
LEMMA PushRestarted ==
  ASSUME NEW h, NEW r, PushRow(r, h), NEW p, NEW n, n = Push!Reconfigured(r, p)
  PROVE  /\ PushSame(r, n) /\ n.status \in PushStatuses /\ n.status # "delivering"
         /\ n.status \in PushLive => /\ r.status \in PushLive
                                     /\ config.dest = NoTopic \/ config.dest = Push!Destination(p)
         /\ n.status = "superseded" => r.status = "superseded"
         /\ n.status = "delivered" => r.status = "delivered"
<1>1. DOMAIN r = PushFields /\ r.status \in PushStatuses
  BY DEF PushRow
<1>2. CASE config.dest # NoTopic /\ config.dest # Push!Destination(p) /\ r.status \in PushLive
  <2>1. n = [r EXCEPT !.status = "retired", !.token = r.token + 1, !.held = FALSE]
    BY <1>2 DEF Push!Reconfigured, Push!Live, PushLive
  <2>2. PushSame(r, n) /\ n.status = "retired"
    BY <1>1, <2>1 DEF PushSame, PushFields
  <2> QED BY <2>2 DEF PushStatuses, PushLive
<1>3. CASE config.dest # NoTopic /\ config.dest # Push!Destination(p) /\ r.status \notin PushLive
  <2>1. n = r
    BY <1>3 DEF Push!Reconfigured, Push!Live, PushLive
  <2> QED BY <1>1, <1>3, <2>1 DEF PushSame, PushLive
<1>4. CASE ~(config.dest # NoTopic /\ config.dest # Push!Destination(p)) /\ r.status = "delivering"
  <2>1. n = [r EXCEPT !.status = "pending", !.token = r.token + 1, !.held = FALSE, !.delayed = TRUE]
    BY <1>4 DEF Push!Reconfigured, Push!Live
  <2>2. PushSame(r, n) /\ n.status = "pending"
    BY <1>1, <2>1 DEF PushSame, PushFields
  <2> QED BY <1>4, <2>2 DEF PushStatuses, PushLive
<1>5. CASE ~(config.dest # NoTopic /\ config.dest # Push!Destination(p)) /\ r.status = "pending"
  <2>1. n = [r EXCEPT !.delayed = r.delayed \/ ~p.enabled]
    BY <1>5 DEF Push!Reconfigured, Push!Live
  <2>2. PushSame(r, n) /\ n.status = "pending"
    BY <1>1, <1>5, <2>1 DEF PushSame, PushFields
  <2> QED BY <1>5, <2>2 DEF PushStatuses, PushLive
<1>6. CASE ~(config.dest # NoTopic /\ config.dest # Push!Destination(p)) /\ r.status = "blocked"
  <2>1. \/ n = [r EXCEPT !.status = "pending", !.due = TRUE, !.delayed = TRUE]
        \/ n = [r EXCEPT !.delayed = TRUE]
    BY <1>6 DEF Push!Reconfigured, Push!Live
  <2>2. CASE n = [r EXCEPT !.status = "pending", !.due = TRUE, !.delayed = TRUE]
    <3>1. PushSame(r, n) /\ n.status = "pending"
      BY <1>1, <2>2 DEF PushSame, PushFields
    <3> QED BY <1>6, <3>1 DEF PushStatuses, PushLive
  <2>3. CASE n = [r EXCEPT !.delayed = TRUE]
    <3>1. PushSame(r, n) /\ n.status = "blocked"
      BY <1>1, <1>6, <2>3 DEF PushSame, PushFields
    <3> QED BY <1>6, <3>1 DEF PushStatuses, PushLive
  <2> QED BY <2>1, <2>2, <2>3
<1>7. CASE ~(config.dest # NoTopic /\ config.dest # Push!Destination(p)) /\ r.status \notin PushLive
  <2>1. n = r
    BY <1>7 DEF Push!Reconfigured, Push!Live, PushLive
  <2> QED BY <1>1, <1>7, <2>1 DEF PushSame, PushLive
<1> QED BY <1>2, <1>3, <1>4, <1>5, <1>6, <1>7 DEF PushLive

LEMMA PushStarts == ASSUME PushInv, NEW p \in Policies, Push!Start(p) PROVE PushInv'
<1>1. /\ config' = [enabled |-> p.enabled, dest |-> Push!Destination(p), events |-> Push!Events \ p.muted]
      /\ rows' = [i \in DOMAIN rows |-> Push!Reconfigured(rows[i], p)]
      /\ worker' = [worker EXCEPT !.pc = IF p.enabled THEN "idle" ELSE "off"]
      /\ UNCHANGED <<history, shown, committed>>
  BY DEF Push!Start
<1>2. PushBook(config.dest, history, rows, shown) /\ \A i \in DOMAIN rows : PushRow(rows[i], history)
  BY DEF PushInv, PushBook
<1>3. config'.dest = Push!Destination(p) /\ config'.enabled = p.enabled
  BY <1>1
<1>4. /\ DOMAIN rows # {} => Push!Destination(p) # NoTopic
      /\ p.enabled => Push!Destination(p) # NoTopic
  <2>1. DOMAIN rows # {} => config.dest # NoTopic
    BY DEF PushInv, PushBook
  <2> QED BY <2>1, PushAssumption DEF Push!Destination
<1>5. ASSUME NEW i \in DOMAIN rows
      PROVE  /\ PushSame(rows[i], rows'[i]) /\ rows'[i].status \in PushStatuses /\ rows'[i].status # "delivering"
             /\ rows'[i].status \in PushLive => rows[i].status \in PushLive /\ rows[i].dest = Push!Destination(p)
             /\ rows'[i].status = "superseded" => rows[i].status = "superseded"
             /\ rows'[i].status = "delivered" => rows[i].status = "delivered"
  <2>1. rows'[i] = Push!Reconfigured(rows[i], p)
    BY <1>1
  <2>2. /\ PushSame(rows[i], rows'[i]) /\ rows'[i].status \in PushStatuses /\ rows'[i].status # "delivering"
        /\ rows'[i].status \in PushLive => /\ rows[i].status \in PushLive
                                           /\ config.dest = NoTopic \/ config.dest = Push!Destination(p)
        /\ rows'[i].status = "superseded" => rows[i].status = "superseded"
        /\ rows'[i].status = "delivered" => rows[i].status = "delivered"
    BY <1>2, <2>1, PushRestarted
  <2>3. config.dest # NoTopic /\ (rows[i].status \in PushLive => rows[i].dest = config.dest)
    BY <1>2 DEF PushBook
  <2> QED BY <2>2, <2>3
<1>6. PushMoved(Push!Destination(p), rows, rows', shown)
  BY <1>1, <1>4, <1>5 DEF PushMoved
<1>7. PushBook(config'.dest, history', rows', shown')
  BY <1>1, <1>2, <1>3, <1>6, PushMoves
<1>8. PushWork(worker', rows', shown')
  <2>1. DOMAIN worker = {"pc", "row", "token", "outcome"}
    BY DEF PushInv, PushWork
  <2>2. DOMAIN worker' = {"pc", "row", "token", "outcome"} /\ worker'.pc \in {"idle", "off"}
    BY <1>1, <2>1
  <2> QED BY <2>2 DEF PushWork
<1> QED BY <1>1, <1>3, <1>4, <1>7, <1>8 DEF PushInv

LEMMA PushCommits == ASSUME PushInv, NEW s \in Situations, NEW b \in Batches, Push!Commit(s, b) PROVE PushInv'
<1>1. PICK m : m = [i \in DOMAIN b |-> [b[i] EXCEPT !.at = committed]]
  OBVIOUS
<1>2. PICK after : after = history[s] \o m
  OBVIOUS
<1>3. PICK e : e = Push!Selected(history[s], b)
  OBVIOUS
<1>4. /\ history' = [history EXCEPT ![s] = after]
      /\ rows' = IF config.enabled /\ e # {} THEN Append(rows, Push!NewRow(s, Len(after), e, committed)) ELSE rows
      /\ committed' = committed + 1 /\ UNCHANGED <<config, worker, shown>>
  BY <1>1, <1>2, <1>3, Zenon DEF Push!Commit
<1>5. /\ PushBook(config.dest, history, rows, shown) /\ PushTopic(history, shown) /\ PushList(rows) /\ committed \in Nat
      /\ PushWork(worker, rows, shown)
  BY DEF PushInv, PushBook
<1>6. PushList(b) /\ \A i \in DOMAIN b : "at" \in DOMAIN b[i]
  BY PushAssumption DEF PushList
<1>7. PushList(m) /\ DOMAIN m = DOMAIN b /\ \A i \in DOMAIN b : m[i].at \in Nat
  <2>1. m = [i \in DOMAIN b |-> m[i]]
    BY <1>1
  <2>2. PushList(m) /\ DOMAIN m = DOMAIN b
    BY <1>6, <2>1, PushWritten
  <2>3. ASSUME NEW i \in DOMAIN b PROVE m[i].at = committed
    <3>1. m[i] = [b[i] EXCEPT !.at = committed]
      BY <1>1
    <3> QED BY <1>6, <3>1
  <2> QED BY <1>5, <2>2, <2>3
<1>8. PushList(history[s]) /\ \A k \in DOMAIN history[s] : history[s][k].at \in Nat
  BY <1>5 DEF PushTopic
<1>9. /\ PushList(after) /\ Len(after) = Len(history[s]) + Len(m)
      /\ \A i \in DOMAIN after : (i \in DOMAIN history[s] /\ after[i] = history[s][i]) \/ \E k \in DOMAIN m : after[i] = m[k]
  BY <1>2, <1>7, <1>8, PushJoined
<1>10. \A i \in DOMAIN after : after[i].at \in Nat
  BY <1>7, <1>8, <1>9
<1>11. Len(history[s]) \in Nat /\ Len(m) \in Nat /\ DOMAIN m = 1 .. Len(m)
  BY <1>7, <1>8, PushLists
<1>12. PICK l : l = Len(after)
  OBVIOUS
<1>13. Len(history[s]) <= l /\ l \in Nat /\ (DOMAIN b # {} => l # 0)
  BY <1>7, <1>9, <1>11, <1>12
<1>14. \A z \in Situations : history'[z] = IF z = s THEN after ELSE history[z]
  BY <1>4, <1>5 DEF PushTopic
<1>15. DOMAIN history' = Situations
  BY <1>4, <1>5 DEF PushTopic
<1>16. PushBook(config.dest, history', rows, shown)
  <2>1. ASSUME NEW z \in Situations
        PROVE  /\ PushList(history'[z]) /\ Len(history[z]) <= Len(history'[z])
               /\ \A i \in DOMAIN history'[z] : history'[z][i].at \in Nat
    <3>1. CASE z = s
      BY <1>9, <1>10, <1>12, <1>13, <1>14, <3>1
    <3>2. CASE z # s
      <4>1. PushList(history[z]) /\ \A k \in DOMAIN history[z] : history[z][k].at \in Nat
        BY <1>5 DEF PushTopic
      <4>2. Len(history[z]) \in Nat
        BY <4>1, PushLists
      <4> QED BY <1>14, <3>2, <4>1, <4>2
    <3> QED BY <3>1, <3>2
  <2> QED BY <1>5, <1>15, <2>1, PushGrows
<1>17. CASE config.enabled /\ e # {}
  <2>1. PICK r : r = Push!NewRow(s, l, e, committed)
    OBVIOUS
  <2>2. /\ DOMAIN r = PushFields /\ r.situation = s /\ r.seq = l /\ r.dest = config.dest /\ r.status = "pending"
        /\ r.created = committed
    BY <2>1 DEF Push!NewRow, PushFields
  <2>3. DOMAIN b # {}
    BY <1>3, <1>17 DEF Push!Selected
  <2>4. PushRow(r, history') /\ r.seq = Len(history'[r.situation])
    BY <1>5, <1>12, <1>13, <1>14, <2>2, <2>3 DEF PushRow, PushStatuses
  <2>5. config.dest # NoTopic
    BY <1>17 DEF PushInv
  <2>6. rows' = Append(rows, r)
    BY <1>4, <1>12, <1>17, <2>1
  <2>7. PushBook(config.dest, history', rows', shown)
    BY <1>16, <2>2, <2>4, <2>5, <2>6, PushAdds
  <2>8. DOMAIN rows \subseteq DOMAIN rows' /\ \A i \in DOMAIN rows : rows'[i] = rows[i]
    BY <1>5, <2>6, PushLists
  <2>9. PushWork(worker, rows', shown)
    BY <1>5, <2>8 DEF PushWork
  <2> QED BY <1>4, <1>5, <2>7, <2>9 DEF PushInv
<1>18. CASE ~(config.enabled /\ e # {})
  BY <1>4, <1>5, <1>16, <1>18 DEF PushInv
<1> QED BY <1>17, <1>18

-----------------------------------------------------------------------------
\* How a write may turn row i of q into n.
PushTurn(q, x, i, n) ==
  /\ PushSame(q[i], n)
  /\ \/ n.status = q[i].status
     \/ q[i].status \in PushLive /\ n.status \in {"pending", "blocked"}
     \/ n.status = "delivered" /\ x[q[i].situation].seq >= q[i].seq /\ q[i].events \subseteq x[q[i].situation].events
     \/ n.status = "delivering" /\ PushFirst(q, i)

LEMMA PushTurns ==
  ASSUME NEW d, NEW h, NEW q, NEW x, PushBook(d, h, q, x), NEW t, t = [i \in DOMAIN q |-> t[i]],
         \A i \in DOMAIN q : PushTurn(q, x, i, t[i])
  PROVE  PushBook(d, h, t, x)
<1>1. ASSUME NEW i \in DOMAIN q
      PROVE  /\ PushSame(q[i], t[i]) /\ t[i].status \in PushStatuses
             /\ t[i].status \in PushLive => q[i].status \in PushLive /\ q[i].dest = d
             /\ t[i].status = "superseded" => q[i].status = "superseded"
             /\ t[i].status = "delivered" => \/ q[i].status = "delivered"
                                             \/ /\ x[q[i].situation].seq >= q[i].seq
                                                /\ q[i].events \subseteq x[q[i].situation].events
             /\ t[i].status = "delivering" =>
                  \/ q[i].status = "delivering"
                  \/ \A j \in DOMAIN q : q[j].situation = q[i].situation /\ q[j].status \in PushLive => PushBefore(q, i, j)
  <2>1. q[i].status \in PushStatuses /\ (q[i].status \in PushLive => q[i].dest = d)
    BY DEF PushBook, PushRow
  <2>2. PushTurn(q, x, i, t[i])
    OBVIOUS
  <2>3. CASE t[i].status = q[i].status
    BY <2>1, <2>2, <2>3 DEF PushTurn
  <2>4. CASE q[i].status \in PushLive /\ t[i].status \in {"pending", "blocked"}
    BY <2>1, <2>2, <2>4 DEF PushTurn, PushStatuses, PushLive
  <2>5. CASE t[i].status = "delivered" /\ x[q[i].situation].seq >= q[i].seq /\ q[i].events \subseteq x[q[i].situation].events
    BY <2>1, <2>2, <2>5 DEF PushTurn, PushStatuses, PushLive
  <2>6. CASE t[i].status = "delivering" /\ PushFirst(q, i)
    BY <2>1, <2>2, <2>6 DEF PushTurn, PushStatuses, PushLive, PushFirst
  <2> QED BY <2>2, <2>3, <2>4, <2>5, <2>6 DEF PushTurn
<1>2. DOMAIN q # {} => d # NoTopic
  BY DEF PushBook
<1>3. PushMoved(d, q, t, x)
  BY <1>1, <1>2 DEF PushMoved
<1> QED BY <1>3, PushMoves

\* One row is written, the others stay.
LEMMA PushOne ==
  ASSUME NEW d, NEW h, NEW q, NEW x, PushBook(d, h, q, x), NEW t, t = [i \in DOMAIN q |-> t[i]],
         NEW k \in DOMAIN q, \A i \in DOMAIN q : i # k => t[i] = q[i], PushTurn(q, x, k, t[k])
  PROVE  PushBook(d, h, t, x)
<1>1. ASSUME NEW i \in DOMAIN q PROVE PushTurn(q, x, i, t[i])
  <2>1. DOMAIN q[i] = PushFields
    BY DEF PushBook, PushRow
  <2>2. CASE i = k
    BY <2>2
  <2>3. CASE i # k
    <3>1. t[i] = q[i]
      BY <2>3
    <3> QED BY <2>1, <3>1 DEF PushTurn, PushSame
  <2> QED BY <2>2, <2>3
<1> QED BY <1>1, PushTurns

-----------------------------------------------------------------------------
\* What row r shows is not over, and asks the operator for nothing that was withdrawn.
PushFresh(r) ==
  LET original == history[r.situation][r.seq]
      latest   == Push!Last(history[r.situation])
  IN  /\ latest.terminal => original.terminal
      /\ original.action # 0 => latest.action = original.action

LEMMA PushSweeps ==
  ASSUME NEW d, NEW h, NEW q, NEW x, PushBook(d, h, q, x), NEW t, t = [i \in DOMAIN q |-> Push!Swept(q[i])]
  PROVE  PushBook(d, h, t, x)
<1>1. t = [i \in DOMAIN q |-> t[i]]
  OBVIOUS
<1>2. ASSUME NEW i \in DOMAIN q PROVE PushTurn(q, x, i, t[i])
  <2>1. DOMAIN q[i] = PushFields
    BY DEF PushBook, PushRow
  <2>2. t[i] = Push!Swept(q[i])
    OBVIOUS
  <2>3. CASE q[i].status = "delivering" /\ ~q[i].held
    <3>1. t[i] = [q[i] EXCEPT !.status = "pending", !.delayed = TRUE]
      BY <2>2, <2>3 DEF Push!Swept
    <3>2. PushSame(q[i], t[i]) /\ t[i].status = "pending"
      BY <2>1, <3>1 DEF PushSame, PushFields
    <3> QED BY <2>3, <3>2 DEF PushTurn, PushLive
  <2>4. CASE ~(q[i].status = "delivering" /\ ~q[i].held)
    <3>1. t[i] = q[i]
      BY <2>2, <2>4 DEF Push!Swept
    <3> QED BY <2>1, <3>1 DEF PushTurn, PushSame
  <2> QED BY <2>3, <2>4
<1> QED BY <1>1, <1>2, PushTurns

LEMMA PushClaims == ASSUME PushInv, Push!Claim PROVE PushInv' /\ Push!Timely
<1>1. PICK q : q = [i \in DOMAIN rows |-> Push!Swept(rows[i])]
  OBVIOUS
<1>2. PICK head : head = Push!Oldest(q)
  OBVIOUS
<1>3. PICK t : t = IF Push!NeedsCatchup(q[head]) THEN Push!Compacted(q, head) ELSE q
  OBVIOUS
<1>4. PICK k : k = IF Push!NeedsCatchup(q[head]) THEN Len(t) ELSE head
  OBVIOUS
<1>5. /\ Push!Heads(q) # {}
      /\ rows' = [t EXCEPT ![k].status = "delivering", ![k].held = TRUE, ![k].token = @ + 1, ![k].claims = @ + 1]
      /\ worker' = [pc |-> "sending", row |-> k, token |-> rows'[k].token, outcome |-> "none"]
      /\ UNCHANGED <<config, history, shown, committed>>
  BY <1>1, <1>2, <1>3, <1>4, Zenon DEF Push!Claim
<1>6. PushBook(config.dest, history, rows, shown)
  BY DEF PushInv
<1>7. PushBook(config.dest, history, q, shown)
  BY <1>1, <1>6, PushSweeps
<1>8. PushFirst(q, head)
  BY <1>2, <1>5, <1>7, PushHead
<1>9. /\ PushBook(config.dest, history, t, shown) /\ PushFirst(t, k)
      /\ t[k].seq = Len(history[t[k].situation]) \/ ~Push!Obsolete(t[k])
  <2>1. CASE Push!NeedsCatchup(q[head])
    <3>1. t = Push!Compacted(q, head) /\ k = Len(t)
      BY <1>3, <1>4, <2>1
    <3>2. /\ PushBook(config.dest, history, t, shown) /\ PushFirst(t, Len(t))
          /\ t[Len(t)].seq = Len(history[t[Len(t)].situation])
      BY <1>7, <1>8, <3>1, PushMerges
    <3> QED BY <3>1, <3>2
  <2>2. CASE ~Push!NeedsCatchup(q[head])
    <3>1. t = q /\ k = head
      BY <1>3, <1>4, <2>2
    <3>2. q[head].seq = Len(history[q[head].situation]) \/ ~Push!Obsolete(q[head])
      BY <2>2 DEF Push!NeedsCatchup
    <3> QED BY <1>7, <1>8, <3>1, <3>2
  <2> QED BY <2>1, <2>2
<1>10. k \in DOMAIN t /\ PushRow(t[k], history) /\ DOMAIN t[k] = PushFields
  BY <1>9 DEF PushFirst, PushBook, PushRow
<1>11. /\ rows' = [i \in DOMAIN t |-> rows'[i]] /\ \A i \in DOMAIN t : i # k => rows'[i] = t[i]
       /\ PushSame(t[k], rows'[k]) /\ rows'[k].status = "delivering"
  <2>1. rows' = [i \in DOMAIN t |-> rows'[i]] /\ \A i \in DOMAIN t : i # k => rows'[i] = t[i]
    BY <1>5, <1>10
  <2>2. PushSame(t[k], rows'[k]) /\ rows'[k].status = "delivering"
    BY <1>5, <1>10 DEF PushSame, PushFields
  <2> QED BY <2>1, <2>2
<1>12. PushTurn(t, shown, k, rows'[k])
  BY <1>9, <1>11 DEF PushTurn
<1>13. PushBook(config.dest, history, rows', shown)
  BY <1>9, <1>10, <1>11, <1>12, PushOne
<1>14. worker'.pc = "sending" /\ worker'.row = k /\ DOMAIN worker' = {"pc", "row", "token", "outcome"}
  BY <1>5
<1>15. k \in DOMAIN rows'
  BY <1>10, <1>11
<1>16. PushWork(worker', rows', shown)
  BY <1>11, <1>14, <1>15 DEF PushWork
<1>17. PushInv'
  BY <1>5, <1>13, <1>16 DEF PushInv
<1>18. PushFresh(t[k])
  <2>1. CASE t[k].seq = Len(history[t[k].situation])
    <3>1. history[t[k].situation][t[k].seq] = Push!Last(history[t[k].situation])
      BY <2>1 DEF Push!Last
    <3> QED BY <3>1, Zenon DEF PushFresh
  <2>2. CASE ~Push!Obsolete(t[k])
    BY <2>2, Zenon DEF Push!Obsolete, PushFresh
  <2> QED BY <1>9, <2>1, <2>2
<1>19. PushFresh(rows'[k])
  <2>1. rows'[k].situation = t[k].situation /\ rows'[k].seq = t[k].seq
    BY <1>11 DEF PushSame
  <2> QED BY <1>18, <2>1, Zenon DEF PushFresh
<1>20. \A s \in Situations : shown'[s].seq >= shown[s].seq
  BY <1>5, <1>6 DEF PushBook, PushTopic
<1>21. LET r        == rows'[worker'.row]
           original == history[r.situation][r.seq]
           latest   == Push!Last(history[r.situation])
       IN  /\ latest.terminal => original.terminal
           /\ original.action # 0 => latest.action = original.action
  BY <1>14, <1>19, Zenon DEF PushFresh
<1> QED BY <1>17, <1>20, <1>21, Zenon DEF Push!Timely

\* Where no push is taken up, timeliness is a matter of what the topic shows.
LEMMA PushQuiet ==
  ASSUME PushInv, shown' = shown, worker' = worker \/ worker.pc # "idle" \/ worker'.pc # "sending"
  PROVE  Push!Timely
<1>1. \A s \in Situations : shown'[s].seq >= shown[s].seq
  BY DEF PushInv, PushBook, PushTopic
<1>2. ~(worker.pc = "idle" /\ worker'.pc = "sending")
  OBVIOUS
<1> QED BY <1>1, <1>2, Zenon DEF Push!Timely

-----------------------------------------------------------------------------
\* What the topic x shows once the message of row k has reached it.
PushSeen(q, x, k, y) ==
  y = [x EXCEPT ![q[k].situation].seq = q[k].seq, ![q[k].situation].events = @ \cup q[k].events]

PushReached(d, h, q, x, k, y) ==
  /\ PushBook(d, h, q, y) /\ \A s \in Situations : y[s].seq >= x[s].seq
  /\ y[q[k].situation].seq = q[k].seq /\ q[k].events \subseteq y[q[k].situation].events

\* The message of row k, which is out, reaches the topic: it now shows y.
LEMMA PushReaches ==
  ASSUME NEW d, NEW h, NEW q, NEW x, PushBook(d, h, q, x), NEW k \in DOMAIN q, q[k].status = "delivering", NEW y,
         PushSeen(q, x, k, y)
  PROVE  PushReached(d, h, q, x, k, y)
<1>1. PICK s : s = q[k].situation
  OBVIOUS
<1>2. /\ PushTopic(h, x) /\ PushList(q) /\ PushRow(q[k], h) /\ \A i \in DOMAIN q : PushRow(q[i], h)
      /\ q[k].seq >= x[s].seq
  BY <1>1 DEF PushBook, PushLive
<1>3. /\ s \in Situations /\ q[k].seq \in Nat /\ q[k].seq <= Len(h[s]) /\ DOMAIN x = Situations
      /\ DOMAIN x[s] = {"seq", "events"}
  BY <1>1, <1>2 DEF PushRow, PushTopic
<1>4. /\ DOMAIN y = Situations /\ DOMAIN y[s] = {"seq", "events"} /\ y[s].seq = q[k].seq
      /\ y[s].events = x[s].events \cup q[k].events /\ \A z \in Situations : z # s => y[z] = x[z]
  BY <1>1, <1>3 DEF PushSeen
<1>5. PushTopic(h, y)
  <2>1. ASSUME NEW z \in Situations
        PROVE  /\ PushList(h[z]) /\ \A i \in DOMAIN h[z] : h[z][i].at \in Nat
               /\ DOMAIN y[z] = {"seq", "events"} /\ y[z].seq \in Nat /\ y[z].seq <= Len(h[z])
    <3>1. CASE z = s
      BY <1>2, <1>3, <1>4, <3>1 DEF PushTopic
    <3>2. CASE z # s
      BY <1>2, <1>4, <3>2 DEF PushTopic
    <3> QED BY <3>1, <3>2
  <2> QED BY <1>2, <1>4, <2>1 DEF PushTopic
<1>6. ASSUME NEW z \in Situations PROVE y[z].seq >= x[z].seq /\ x[z].events \subseteq y[z].events /\ x[z].seq \in Nat /\ y[z].seq \in Nat
  <2>0. x[z].seq \in Nat /\ y[z].seq \in Nat
    BY <1>2, <1>5 DEF PushTopic
  <2>1. CASE z = s
    BY <1>2, <1>4, <2>0, <2>1
  <2>2. CASE z # s
    BY <1>4, <2>0, <2>2
  <2> QED BY <2>0, <2>1, <2>2
<1>7. ASSUME NEW i \in DOMAIN q
      PROVE  /\ PushRow(q[i], h) /\ d # NoTopic
             /\ q[i].status \in PushLive => q[i].dest = d /\ q[i].seq >= y[q[i].situation].seq
  <2>1. /\ PushRow(q[i], h) /\ d # NoTopic
        /\ q[i].status \in PushLive => q[i].dest = d /\ q[i].seq >= x[q[i].situation].seq
    BY DEF PushBook
  <2>2. q[i].situation \in Situations /\ q[i].seq \in Nat
    BY <2>1 DEF PushRow
  <2>3. CASE q[i].situation # s
    BY <1>4, <2>1, <2>2, <2>3
  <2>4. CASE q[i].situation = s
    <3>1. q[i].status \in PushLive => PushBefore(q, k, i)
      BY <1>1, <2>4 DEF PushBook
    <3>2. q[i].status \in PushLive => q[i].seq >= q[k].seq
      BY <1>3, <2>2, <3>1 DEF PushBefore
    <3> QED BY <1>4, <2>1, <2>4, <3>2
  <2> QED BY <2>3, <2>4
<1>8. ASSUME NEW i \in DOMAIN q PROVE \E j \in DOMAIN q : PushKeeper(q, y, i, j)
  <2>1. PICK j \in DOMAIN q : PushKeeper(q, x, i, j)
    BY DEF PushBook
  <2>2. q[j].situation \in Situations /\ q[j].seq \in Nat
    BY <1>2 DEF PushRow
  <2>3. PushKeeper(q, y, i, j)
    <3>1. PICK z : z = q[j].situation
      OBVIOUS
    <3>2. /\ y[z].seq >= x[z].seq /\ x[z].events \subseteq y[z].events /\ x[z].seq \in Nat /\ y[z].seq \in Nat
      BY <1>6, <2>2, <3>1
    <3>3. q[j].status = "delivered" => y[z].seq >= q[j].seq /\ q[i].events \subseteq y[z].events
      BY <2>1, <2>2, <3>1, <3>2 DEF PushKeeper
    <3> QED BY <2>1, <3>1, <3>3 DEF PushKeeper
  <2> QED BY <2>3
<1>9. PushBook(d, h, q, y)
  BY <1>2, <1>5, <1>7, <1>8 DEF PushBook
<1> QED BY <1>1, <1>4, <1>6, <1>9 DEF PushReached

\* The request ends, and its message arrived or did not.
LEMMA PushEnds ==
  ASSUME PushInv, NEW o \in {"delivered", "pending", "blocked"}, Push!Ends(o),
         Push!Arrives \/ (o # "delivered" /\ UNCHANGED shown)
  PROVE  PushInv' /\ Push!Timely
<1>1. /\ worker.pc = "sending" /\ worker' = [worker EXCEPT !.pc = "acking", !.outcome = o]
      /\ UNCHANGED <<config, history, rows, committed>>
  BY DEF Push!Ends
<1>2. /\ PushBook(config.dest, history, rows, shown) /\ PushTopic(history, shown)
      /\ DOMAIN worker = {"pc", "row", "token", "outcome"} /\ worker.row \in DOMAIN rows
      /\ rows[worker.row].status = "delivering"
  BY <1>1 DEF PushInv, PushBook, PushWork
<1>3. PICK k : k = worker.row
  OBVIOUS
<1>4. DOMAIN worker' = {"pc", "row", "token", "outcome"} /\ worker'.pc = "acking" /\ worker'.row = k /\ worker'.outcome = o
  BY <1>1, <1>2, <1>3
<1>5. CASE Push!Arrives
  <2>1. PushSeen(rows, shown, k, shown')
    BY <1>3, <1>5, Zenon DEF Push!Arrives, PushSeen
  <2>2. /\ PushBook(config.dest, history, rows, shown') /\ \A s \in Situations : shown'[s].seq >= shown[s].seq
        /\ shown'[rows[k].situation].seq = rows[k].seq /\ rows[k].events \subseteq shown'[rows[k].situation].events
    <3>1. PushReached(config.dest, history, rows, shown, k, shown')
      BY <1>2, <1>3, <2>1, PushReaches, Zenon
    <3> QED BY <3>1, Zenon DEF PushReached
  <2>3. rows[k].seq \in Nat
    BY <1>2, <1>3 DEF PushBook, PushRow
  <2>4. PushWork(worker', rows, shown')
    BY <1>2, <1>3, <1>4, <2>2, <2>3 DEF PushWork
  <2>5. PushInv'
    BY <1>1, <2>2, <2>4 DEF PushInv
  <2>6. Push!Timely
    <3>1. ~(worker.pc = "idle" /\ worker'.pc = "sending")
      BY <1>1
    <3> QED BY <2>2, <3>1, Zenon DEF Push!Timely
  <2> QED BY <2>5, <2>6
<1>6. CASE o # "delivered" /\ UNCHANGED shown
  <2>1. PushWork(worker', rows, shown)
    BY <1>2, <1>3, <1>4, <1>6 DEF PushWork
  <2>2. PushInv'
    BY <1>1, <1>2, <1>6, <2>1 DEF PushInv
  <2>3. worker.pc # "idle"
    BY <1>1
  <2> QED BY <1>6, <2>2, <2>3, PushQuiet
<1> QED BY <1>5, <1>6

LEMMA PushFinishes == ASSUME PushInv, Push!Finish PROVE PushInv' /\ Push!Timely
<1>1. PICK k : k = worker.row
  OBVIOUS
<1>2. /\ worker.pc = "acking"
      /\ rows' = IF rows[k].status = "delivering" /\ rows[k].token = worker.token /\ rows[k].held
                 THEN [rows EXCEPT ![k].status = worker.outcome, ![k].held = FALSE,
                                   ![k].due = (worker.outcome # "pending"),
                                   ![k].delayed = @ \/ worker.outcome # "delivered"]
                 ELSE rows
      /\ worker' = [pc |-> "idle", row |-> 0, token |-> 0, outcome |-> "none"]
      /\ UNCHANGED <<config, history, shown, committed>>
  BY <1>1, Zenon DEF Push!Finish
<1>3. /\ PushBook(config.dest, history, rows, shown)
      /\ k \in DOMAIN rows /\ rows[k].status = "delivering" /\ worker.outcome \in {"delivered", "pending", "blocked"}
      /\ worker.outcome = "delivered" => /\ shown[rows[k].situation].seq >= rows[k].seq
                                         /\ rows[k].events \subseteq shown[rows[k].situation].events
  BY <1>1, <1>2 DEF PushInv, PushWork
<1>4. PushBook(config.dest, history, rows', shown)
  <2>1. CASE rows' = rows
    BY <1>3, <2>1
  <2>2. CASE rows' # rows
    <3>1. rows' = [rows EXCEPT ![k].status = worker.outcome, ![k].held = FALSE,
                               ![k].due = (worker.outcome # "pending"),
                               ![k].delayed = @ \/ worker.outcome # "delivered"]
      BY <1>2, <2>2
    <3>2. DOMAIN rows[k] = PushFields
      BY <1>3 DEF PushBook, PushRow
    <3>3. rows' = [i \in DOMAIN rows |-> rows'[i]] /\ \A i \in DOMAIN rows : i # k => rows'[i] = rows[i]
      BY <1>3, <3>1
    <3>4. PushSame(rows[k], rows'[k]) /\ rows'[k].status = worker.outcome
      BY <1>3, <3>1, <3>2 DEF PushSame, PushFields
    <3>5. PushTurn(rows, shown, k, rows'[k])
      BY <1>3, <3>4 DEF PushTurn, PushLive
    <3> QED BY <1>3, <3>3, <3>5, PushOne
  <2> QED BY <2>1, <2>2
<1>5. DOMAIN worker' = {"pc", "row", "token", "outcome"} /\ worker'.pc = "idle"
  BY <1>2
<1>6. PushInv'
  BY <1>2, <1>4, <1>5 DEF PushInv, PushWork
<1> QED BY <1>2, <1>5, <1>6, PushQuiet

\* The worker lets go of its row, or the process stops.
LEMMA PushDrops ==
  ASSUME PushInv, Push!Down \/ Push!FinishFails
  PROVE  PushInv' /\ Push!Timely
<1>1. /\ worker'.pc \in {"down", "idle"} /\ DOMAIN worker' = {"pc", "row", "token", "outcome"}
      /\ UNCHANGED <<config, history, rows, shown, committed>>
  BY DEF Push!Down, Push!FinishFails
<1>2. PushInv'
  BY <1>1 DEF PushInv, PushWork
<1> QED BY <1>1, <1>2, PushQuiet

\* Time passes over one row.
LEMMA PushWaits ==
  ASSUME PushInv, NEW k \in DOMAIN rows, Push!LeaseExpires(k) \/ Push!RetryDue(k)
  PROVE  PushInv' /\ Push!Timely
<1>1. /\ rows' = [rows EXCEPT ![k].held = FALSE] \/ rows' = [rows EXCEPT ![k].due = TRUE]
      /\ UNCHANGED <<config, history, worker, shown, committed>>
  BY DEF Push!LeaseExpires, Push!RetryDue
<1>2. PushBook(config.dest, history, rows, shown) /\ DOMAIN rows[k] = PushFields /\ PushWork(worker, rows, shown)
  BY DEF PushInv, PushBook, PushRow
<1>3. /\ rows' = [i \in DOMAIN rows |-> rows'[i]] /\ \A i \in DOMAIN rows : i # k => rows'[i] = rows[i]
      /\ PushSame(rows[k], rows'[k]) /\ rows'[k].status = rows[k].status
  <2>1. CASE rows' = [rows EXCEPT ![k].held = FALSE]
    BY <1>2, <2>1 DEF PushSame, PushFields
  <2>2. CASE rows' = [rows EXCEPT ![k].due = TRUE]
    BY <1>2, <2>2 DEF PushSame, PushFields
  <2> QED BY <1>1, <2>1, <2>2
<1>4. PushTurn(rows, shown, k, rows'[k])
  BY <1>3 DEF PushTurn
<1>5. PushBook(config.dest, history, rows', shown)
  BY <1>2, <1>3, <1>4, PushOne
<1>6. PushWork(worker, rows', shown)
  <2>1. /\ DOMAIN rows' = DOMAIN rows
        /\ \A i \in DOMAIN rows : /\ rows'[i].status = rows[i].status /\ rows'[i].situation = rows[i].situation
                                  /\ rows'[i].seq = rows[i].seq /\ rows'[i].events = rows[i].events
    BY <1>3 DEF PushSame
  <2> QED BY <1>2, <2>1 DEF PushWork
<1>7. PushInv'
  BY <1>1, <1>5, <1>6 DEF PushInv
<1> QED BY <1>1, <1>7, PushQuiet

-----------------------------------------------------------------------------
LEMMA PushStep == ASSUME PushInv, [Push!Next]_pushVars PROVE PushInv' /\ [Push!Timely]_pushVars
<1>1. CASE UNCHANGED pushVars
  BY <1>1 DEF PushInv, pushVars
<1>2. ASSUME NEW p \in Policies, Push!Start(p) PROVE PushInv' /\ Push!Timely
  <2>1. worker.pc = "down" /\ shown' = shown
    BY <1>2 DEF Push!Start
  <2> QED BY <1>2, <2>1, PushStarts, PushQuiet
<1>3. ASSUME NEW s \in Situations, NEW b \in Batches, Push!Commit(s, b) PROVE PushInv' /\ Push!Timely
  <2>1. worker' = worker /\ shown' = shown
    BY <1>3, Zenon DEF Push!Commit
  <2> QED BY <1>3, <2>1, PushCommits, PushQuiet
<1>4. ASSUME Push!SendAccepted \/ Push!SendUnanswered \/ Push!SendRefused PROVE PushInv' /\ Push!Timely
  <2>1. PICK o \in {"delivered", "pending", "blocked"} :
          Push!Ends(o) /\ (Push!Arrives \/ (o # "delivered" /\ UNCHANGED shown))
    BY <1>4 DEF Push!SendAccepted, Push!SendUnanswered, Push!SendRefused
  <2> QED BY <2>1, PushEnds
<1>5. CASE Push!Next
  BY <1>2, <1>3, <1>4, <1>5, PushDrops, PushClaims, PushFinishes, PushWaits DEF Push!Next
<1> QED BY <1>1, <1>5

\* The phone hears of everything that was selected for it (compactNTFYTx, FinishNTFY): whatever the
\* policies, batches and Situations, through merges, retries, lost answers, restarts and changes of
\* topic, the events of every row live on in a row at least as recent, and once that is delivered
\* the topic has shown them.
THEOREM PushKeeps == Push!Spec => []EventsAreKept
<1>1. Push!Init => PushInv
  BY PushInit
<1>2. PushInv /\ [Push!Next]_Push!vars => PushInv'
  BY PushStep DEF Push!vars, pushVars
<1>3. PushInv => EventsAreKept
  BY DEF PushInv, PushBook, PushKeeper, EventsAreKept, Push!EventsAreKept
<1> QED BY <1>1, <1>2, <1>3, PTL DEF Push!Spec

\* The phone never goes back to an older state of a Situation, and no push that is taken up is about
\* a state that is over or a request that was withdrawn or revised (ClaimNTFY, compactNTFYTx).
THEOREM PushTimes == Push!Spec => PushIsTimely
<1>1. Push!Init => PushInv
  BY PushInit
<1>2. PushInv /\ [Push!Next]_Push!vars => PushInv' /\ [Push!Timely]_pushVars
  BY PushStep DEF Push!vars, pushVars
<1> QED BY <1>1, <1>2, PTL DEF Push!Spec, PushIsTimely

-----------------------------------------------------------------------------
(* AuditLog. Behind the rows is the chain of all hashes ever taken, which  *)
(* are distinct; the rows kept are those after the last one pruned, less   *)
(* what was taken out.                                                     *)

AuditContent == {"kind", "ts", "seq", "hash"}

\* H[k] is the hash of the k-th entry ever appended, C[k] what it was appended with.
AuditChain(H, C, n) ==
  /\ DOMAIN H = Nat /\ DOMAIN C = Nat /\ H[0] = <<>>
  /\ \A k \in 1 .. n - 1 :
       H[k] = <<C[k], H[k - 1]>> /\ DOMAIN C[k] = AuditContent /\ C[k].kind \in {"event", "audit_pruned"}

\* The anchors name entries up to b.
AuditAnchors(H, C, n, b) ==
  \A k \in 1 .. n - 1 : C[k].kind = "audit_pruned" => \E m \in 1 .. b : C[k].seq = m /\ C[k].hash = H[m]

\* The entry k is an anchor of everything through t.
AuditAnchor(H, C, k, t) == C[k].kind = "audit_pruned" /\ C[k].seq = t /\ C[k].hash = H[t]

AuditMarked(w, kind, k) == \E h \in w : h.kind = kind /\ h.seq = k

\* A row is as it was appended, or marked as changed and no longer what was hashed.
AuditRow(H, C, r, w) ==
  /\ DOMAIN r = {"seq", "content", "prev", "hash"} /\ DOMAIN r.content = AuditContent /\ r.hash = H[r.seq]
  /\ (r.content = C[r.seq] /\ r.prev = H[r.seq - 1]) \/ AuditMarked(w, "change", r.seq)
  /\ AuditMarked(w, "change", r.seq) => r.hash # <<r.content, r.prev>>

AuditOrder(q) == \A i, j \in DOMAIN q : i < j => q[i].seq < q[j].seq

\* The rows q are the entries after t and before n, in order, less the gaps marked in w.
AuditRows(H, C, q, n, t, w) ==
  /\ PushList(q) /\ AuditOrder(q)
  /\ \A i \in DOMAIN q : /\ q[i].seq \in t + 1 .. n - 1 /\ AuditRow(H, C, q[i], w)
                         /\ ~AuditMarked(w, "gap", q[i].seq)
  /\ \A k \in t + 1 .. n - 1 : (\E i \in DOMAIN q : q[i].seq = k) \/ AuditMarked(w, "gap", k)
  /\ \A h \in w : h.kind \in {"change", "gap"} /\ h.seq \in 1 .. n - 1

AuditBook(H, C, q, n, t, w) ==
  /\ AuditChain(H, C, n) /\ AuditAnchors(H, C, n, t) /\ AuditRows(H, C, q, n, t, w)
  /\ t > 0 => \E a \in t + 1 .. n - 1 : AuditAnchor(H, C, a, t)

AuditInv ==
  /\ seqno \in Nat \ {0} /\ through \in Nat /\ through < seqno
  /\ log # <<>> => log[Len(log)].seq = seqno - 1
  /\ log = <<>> => seqno = 1
  /\ \E H, C : AuditBook(H, C, log, seqno, through, harm)

-----------------------------------------------------------------------------
\* Two entries never have the same hash.
LEMMA AuditDistinct ==
  ASSUME NEW H, NEW C, NEW n \in Nat \ {0}, AuditChain(H, C, n), NEW a \in 0 .. n - 1, NEW b \in 0 .. n - 1, H[a] = H[b]
  PROVE  a = b
<1>1. PICK T : T = {m \in 0 .. n - 1 : \E k \in 0 .. n - 1 : m < k /\ H[m] = H[k]}
  OBVIOUS
<1>2. SUFFICES ASSUME T # {} PROVE FALSE
  BY <1>1
<1>3. T \in SUBSET Nat
  BY <1>1
<1>4. PICK m \in T : \A y \in T : m <= y
  BY <1>2, <1>3, PushLeast
<1>5. PICK k \in 0 .. n - 1 : m < k /\ H[m] = H[k]
  BY <1>1, <1>4
<1>6. m \in 0 .. n - 1 /\ k \in 1 .. n - 1
  BY <1>1, <1>4, <1>5
<1>7. H[k] = <<C[k], H[k - 1]>> /\ H[0] = <<>>
  BY <1>6 DEF AuditChain
<1>8. m # 0
  <2> SUFFICES ASSUME m = 0 PROVE FALSE
    OBVIOUS
  <2>1. <<C[k], H[k - 1]>> = <<>>
    BY <1>5, <1>7
  <2>2. Len(<<C[k], H[k - 1]>>) = 2 /\ Len(<<>>) = 0
    OBVIOUS
  <2> QED BY <2>1, <2>2
<1>9. H[m] = <<C[m], H[m - 1]>>
  BY <1>6, <1>8 DEF AuditChain
<1>10. H[m - 1] = H[k - 1]
  BY <1>5, <1>7, <1>9
<1>11. m - 1 \in 0 .. n - 1 /\ k - 1 \in 0 .. n - 1 /\ m - 1 < k - 1
  BY <1>5, <1>6, <1>8
<1>12. m - 1 \in T
  BY <1>1, <1>10, <1>11
<1>13. m <= m - 1
  BY <1>4, <1>12
<1> QED BY <1>6, <1>13

\* What may be appended: an anchor names an entry up to b.
AuditFits(H, c, b) ==
  /\ DOMAIN c = AuditContent /\ c.kind \in {"event", "audit_pruned"}
  /\ c.kind = "audit_pruned" => \E m \in 1 .. b : c.seq = m /\ c.hash = H[m]

AuditEntry(H, c, n, e) == e = [seq |-> n, content |-> c, prev |-> H[n - 1], hash |-> <<c, H[n - 1]>>]

\* The chain with c as its entry n.
AuditGrown(H, C, I, D, c, u, n, z, t, b, w) ==
  /\ AuditChain(I, D, z) /\ AuditAnchors(I, D, z, b) /\ AuditRows(I, D, u, z, t, w)
  /\ D[n] = c /\ \A k \in 0 .. n - 1 : I[k] = H[k] /\ D[k] = C[k]

\* What is appended is chained to the last entry.
LEMMA AuditAdds ==
  ASSUME NEW H, NEW C, NEW q, NEW n \in Nat \ {0}, NEW t \in Nat, NEW b \in Nat, NEW w, t < n,
         AuditChain(H, C, n), AuditAnchors(H, C, n, b), AuditRows(H, C, q, n, t, w), b < n,
         NEW c, AuditFits(H, c, b), NEW e, AuditEntry(H, c, n, e), NEW z, z = n + 1, NEW u, u = Append(q, e)
  PROVE  \E I, D : AuditGrown(H, C, I, D, c, u, n, z, t, b, w)
<1>0. /\ DOMAIN c = AuditContent /\ c.kind \in {"event", "audit_pruned"}
      /\ c.kind = "audit_pruned" => \E m \in 1 .. b : c.seq = m /\ c.hash = H[m]
  BY DEF AuditFits
<1>1. PICK I : I = [H EXCEPT ![n] = <<c, H[n - 1]>>]
  OBVIOUS
<1>2. PICK D : D = [C EXCEPT ![n] = c]
  OBVIOUS
<1>3. DOMAIN H = Nat /\ DOMAIN C = Nat
  BY DEF AuditChain
<1>4. /\ DOMAIN I = Nat /\ DOMAIN D = Nat /\ I[n] = <<c, H[n - 1]>> /\ D[n] = c
      /\ \A k \in 0 .. n - 1 : I[k] = H[k] /\ D[k] = C[k]
  BY <1>1, <1>2, <1>3
<1>5. AuditChain(I, D, n + 1)
  <2>1. I[0] = <<>>
    BY <1>4 DEF AuditChain
  <2>2. ASSUME NEW k \in 1 .. n + 1 - 1
        PROVE  I[k] = <<D[k], I[k - 1]>> /\ DOMAIN D[k] = AuditContent /\ D[k].kind \in {"event", "audit_pruned"}
    <3>1. CASE k = n
      <4>1. I[n - 1] = H[n - 1]
        BY <1>4
      <4> QED BY <1>0, <1>4, <3>1, <4>1
    <3>2. CASE k # n
      <4>1. k \in 1 .. n - 1 /\ k - 1 \in 0 .. n - 1 /\ k \in 0 .. n - 1
        BY <3>2
      <4>2. H[k] = <<C[k], H[k - 1]>> /\ DOMAIN C[k] = AuditContent /\ C[k].kind \in {"event", "audit_pruned"}
        BY <4>1 DEF AuditChain
      <4> QED BY <1>4, <4>1, <4>2
    <3> QED BY <3>1, <3>2
  <2> QED BY <1>4, <2>1, <2>2 DEF AuditChain
<1>6. AuditAnchors(I, D, n + 1, b)
  <2>1. ASSUME NEW k \in 1 .. n + 1 - 1, D[k].kind = "audit_pruned"
        PROVE  \E m \in 1 .. b : D[k].seq = m /\ D[k].hash = I[m]
    <3>1. \A m \in 1 .. b : m \in 0 .. n - 1
      OBVIOUS
    <3>2. CASE k = n
      BY <1>0, <1>4, <2>1, <3>1, <3>2
    <3>3. CASE k # n
      <4>1. k \in 1 .. n - 1 /\ k \in 0 .. n - 1
        BY <3>3
      <4>2. PICK m \in 1 .. b : C[k].seq = m /\ C[k].hash = H[m]
        BY <1>4, <2>1, <4>1 DEF AuditAnchors
      <4> QED BY <1>4, <3>1, <4>1, <4>2
    <3> QED BY <3>2, <3>3
  <2> QED BY <2>1 DEF AuditAnchors
<1>7. AuditRows(I, D, u, n + 1, t, w)
  <2>2. PICK l : l = Len(q) + 1
    OBVIOUS
  <2>3. /\ PushList(q) /\ AuditOrder(q)
        /\ \A i \in DOMAIN q : /\ q[i].seq \in t + 1 .. n - 1 /\ AuditRow(H, C, q[i], w)
                               /\ ~AuditMarked(w, "gap", q[i].seq)
        /\ \A k \in t + 1 .. n - 1 : (\E i \in DOMAIN q : q[i].seq = k) \/ AuditMarked(w, "gap", k)
        /\ \A h \in w : h.kind \in {"change", "gap"} /\ h.seq \in 1 .. n - 1
    BY DEF AuditRows
  <2>4. /\ PushList(u) /\ DOMAIN u = DOMAIN q \cup {l} /\ l \notin DOMAIN q /\ u[l] = e /\ \A i \in DOMAIN q : u[i] = q[i]
    BY <2>2, <2>3, PushLists
  <2>5. \A i \in DOMAIN q : i < l /\ i \in Nat
    BY <2>2, <2>3, PushLists
  <2>6. l \in Nat
    BY <2>2, <2>3, PushLists
  <2>7. e.seq = n /\ e.content = c /\ e.prev = H[n - 1] /\ e.hash = <<c, H[n - 1]>> /\ DOMAIN e = {"seq", "content", "prev", "hash"}
    BY DEF AuditEntry
  <2>8. \A kind : ~AuditMarked(w, kind, n)
    BY <2>3 DEF AuditMarked
  <2>9. AuditOrder(u)
    <3>1. ASSUME NEW i \in DOMAIN u, NEW j \in DOMAIN u, i < j PROVE u[i].seq < u[j].seq
      <4>1. i \in DOMAIN q
        BY <2>4, <2>5, <2>6, <3>1
      <4>2. CASE j = l
        <5>1. q[i].seq \in t + 1 .. n - 1
          BY <2>3, <4>1
        <5> QED BY <2>4, <2>7, <4>1, <4>2, <5>1
      <4>3. CASE j \in DOMAIN q
        BY <2>3, <2>4, <3>1, <4>1, <4>3 DEF AuditOrder
      <4> QED BY <2>4, <4>2, <4>3
    <3> QED BY <3>1 DEF AuditOrder
  <2>10. ASSUME NEW i \in DOMAIN u
         PROVE  u[i].seq \in t + 1 .. n + 1 - 1 /\ AuditRow(I, D, u[i], w) /\ ~AuditMarked(w, "gap", u[i].seq)
    <3>1. CASE i = l
      <4>1. I[n - 1] = H[n - 1]
        BY <1>4
      <4>2. AuditRow(I, D, e, w)
        BY <1>0, <1>4, <2>7, <2>8, <4>1 DEF AuditRow
      <4> QED BY <2>4, <2>7, <2>8, <3>1, <4>2
    <3>2. CASE i \in DOMAIN q
      <4>1. q[i].seq \in t + 1 .. n - 1 /\ AuditRow(H, C, q[i], w) /\ ~AuditMarked(w, "gap", q[i].seq)
        BY <2>3, <3>2
      <4>2. PICK k : k = q[i].seq
        OBVIOUS
      <4>3. k \in 0 .. n - 1 /\ k - 1 \in 0 .. n - 1 /\ k \in t + 1 .. n + 1 - 1
        BY <4>1, <4>2
      <4>4. I[k] = H[k] /\ D[k] = C[k] /\ I[k - 1] = H[k - 1]
        BY <1>4, <4>3
      <4>5. AuditRow(I, D, q[i], w)
        BY <4>1, <4>2, <4>4 DEF AuditRow
      <4> QED BY <2>4, <3>2, <4>1, <4>2, <4>3, <4>5
    <3> QED BY <2>4, <3>1, <3>2
  <2>11. ASSUME NEW k \in t + 1 .. n + 1 - 1 PROVE (\E i \in DOMAIN u : u[i].seq = k) \/ AuditMarked(w, "gap", k)
    <3>1. CASE k = n
      BY <2>4, <2>7, <3>1
    <3>2. CASE k # n
      <4>1. k \in t + 1 .. n - 1
        BY <3>2
      <4> QED BY <2>3, <2>4, <4>1
    <3> QED BY <3>1, <3>2
  <2>12. \A h \in w : h.kind \in {"change", "gap"} /\ h.seq \in 1 .. n + 1 - 1
    BY <2>3
  <2> QED BY <2>4, <2>9, <2>10, <2>11, <2>12 DEF AuditRows
<1>8. AuditGrown(H, C, I, D, c, u, n, z, t, b, w)
  BY <1>4, <1>5, <1>6, <1>7 DEF AuditGrown
<1> QED BY <1>8

LEMMA AuditFull ==
  ASSUME NEW q, PushList(q)
  PROVE  /\ Len(q) \in Nat /\ DOMAIN q = 1 .. Len(q) /\ (q # <<>> <=> Len(q) # 0)
         /\ q # <<>> => Len(q) \in DOMAIN q /\ 1 \in DOMAIN q
<1>1. PICK S : q \in Seq(S)
  BY DEF PushList
<1>2. Len(q) \in Nat /\ DOMAIN q = 1 .. Len(q) /\ (q # <<>> <=> Len(q) # 0)
  BY <1>1
<1> QED BY <1>2

\* The rows u are those of q after s, less what is marked as taken out in v and not in w.
AuditThin(q, u, n, s, w, v) ==
  /\ \A j \in DOMAIN u : \E i \in DOMAIN q : u[j] = q[i] /\ q[i].seq > s
  /\ \A i \in DOMAIN q : q[i].seq > s => (\E j \in DOMAIN u : u[j] = q[i]) \/ AuditMarked(v, "gap", q[i].seq)
  /\ \A h \in v : h \in w \/ (h.kind = "gap" /\ h.seq \in 1 .. n - 1 /\ \A j \in DOMAIN u : u[j].seq # h.seq)

\* Rows are removed: those through s, or one that is marked as taken out.
LEMMA AuditThins ==
  ASSUME NEW H, NEW C, NEW q, NEW n \in Nat \ {0}, NEW t \in Nat, NEW w, AuditRows(H, C, q, n, t, w),
         NEW u, PushList(u), AuditOrder(u), NEW s \in Nat, t <= s, NEW v, w \subseteq v, AuditThin(q, u, n, s, w, v)
  PROVE  AuditRows(H, C, u, n, s, v)
<1>1. /\ \A i \in DOMAIN q : /\ q[i].seq \in t + 1 .. n - 1 /\ AuditRow(H, C, q[i], w)
                             /\ ~AuditMarked(w, "gap", q[i].seq)
      /\ \A k \in t + 1 .. n - 1 : (\E i \in DOMAIN q : q[i].seq = k) \/ AuditMarked(w, "gap", k)
      /\ \A h \in w : h.kind \in {"change", "gap"} /\ h.seq \in 1 .. n - 1
  BY DEF AuditRows
<1>2. ASSUME NEW k, AuditMarked(v, "change", k) PROVE AuditMarked(w, "change", k)
  <2>1. PICK h \in v : h.kind = "change" /\ h.seq = k
    BY <1>2 DEF AuditMarked
  <2>2. h \in w
    BY <2>1 DEF AuditThin
  <2> QED BY <2>1, <2>2 DEF AuditMarked
<1>3. ASSUME NEW k, NEW kind, AuditMarked(w, kind, k) PROVE AuditMarked(v, kind, k)
  BY <1>3 DEF AuditMarked
<1>4. ASSUME NEW j \in DOMAIN u
      PROVE  /\ u[j].seq \in s + 1 .. n - 1 /\ AuditRow(H, C, u[j], v)
             /\ ~AuditMarked(v, "gap", u[j].seq)
  <2>1. PICK i \in DOMAIN q : u[j] = q[i] /\ q[i].seq > s
    BY DEF AuditThin
  <2>2. q[i].seq \in t + 1 .. n - 1 /\ AuditRow(H, C, q[i], w) /\ ~AuditMarked(w, "gap", q[i].seq)
    BY <1>1
  <2>3. AuditRow(H, C, q[i], v)
    BY <1>2, <1>3, <2>2 DEF AuditRow
  <2>4. ~AuditMarked(v, "gap", u[j].seq)
    <3> SUFFICES ASSUME AuditMarked(v, "gap", u[j].seq) PROVE FALSE
      OBVIOUS
    <3>1. PICK h \in v : h.kind = "gap" /\ h.seq = u[j].seq
      BY DEF AuditMarked
    <3>2. h \in w
      BY <3>1 DEF AuditThin
    <3> QED BY <2>1, <2>2, <3>1, <3>2 DEF AuditMarked
  <2>5. u[j].seq \in s + 1 .. n - 1
    BY <2>1, <2>2
  <2> QED BY <2>1, <2>3, <2>4, <2>5
<1>5. ASSUME NEW k \in s + 1 .. n - 1 PROVE (\E j \in DOMAIN u : u[j].seq = k) \/ AuditMarked(v, "gap", k)
  <2>1. k \in t + 1 .. n - 1 /\ k > s
    OBVIOUS
  <2>2. CASE AuditMarked(w, "gap", k)
    BY <1>3, <2>2
  <2>3. CASE \E i \in DOMAIN q : q[i].seq = k
    <3>1. PICK i \in DOMAIN q : q[i].seq = k
      BY <2>3
    <3>2. (\E j \in DOMAIN u : u[j] = q[i]) \/ AuditMarked(v, "gap", q[i].seq)
      BY <2>1, <3>1 DEF AuditThin
    <3> QED BY <3>1, <3>2
  <2> QED BY <1>1, <2>1, <2>2, <2>3
<1>6. \A h \in v : h.kind \in {"change", "gap"} /\ h.seq \in 1 .. n - 1
  BY <1>1 DEF AuditThin
<1> QED BY <1>4, <1>5, <1>6 DEF AuditRows

\* The sequence t is q from a through b.
AuditCut(q, a, b, t) ==
  PushList(t) /\ Len(t) = b - a + 1 /\ \A i \in 1 .. b - a + 1 : t[i] = q[a + i - 1]

LEMMA AuditSub ==
  ASSUME NEW q, PushList(q), NEW a \in Nat \ {0}, NEW b \in Nat, b <= Len(q), a <= b + 1
  PROVE  AuditCut(q, a, b, SubSeq(q, a, b))
<1>1. PICK S : q \in Seq(S)
  BY DEF PushList
<1>2. Len(q) \in Nat /\ a \in Int /\ b \in Int
  BY <1>1
<1>3. \A i \in a .. b : q[i] \in S
  BY <1>1, <1>2
<1>4. /\ SubSeq(q, a, b) \in Seq(S) /\ Len(SubSeq(q, a, b)) = IF a <= b THEN b - a + 1 ELSE 0
      /\ \A i \in 1 .. b - a + 1 : SubSeq(q, a, b)[i] = q[a + i - 1]
  BY <1>2, <1>3, SubSeqProperties
<1>5. (IF a <= b THEN b - a + 1 ELSE 0) = b - a + 1
  OBVIOUS
<1>6. PushList(SubSeq(q, a, b))
  BY <1>4 DEF PushList
<1> QED BY <1>4, <1>5, <1>6, Zenon DEF AuditCut

LEMMA AuditPrunable == ASSUME PushList(log) PROVE Audit!Prunable \in 0 .. Len(log)
<1>1. PICK n : n = Len(log)
  OBVIOUS
<1>2. n \in Nat
  BY <1>1, PushLists
<1>3. PICK covered : covered = {m \in 1 .. Len(log) : m <= PruneStep /\ log[m].seq <= pass.last}
  OBVIOUS
<1>4. PICK S : S = {m \in 0 .. Len(log) : \A i \in 1 .. m : i \in covered /\ log[i].content.ts < pass.cutoff}
  OBVIOUS
<1>5. Audit!Prunable = Audit!Max(S)
  BY <1>3, <1>4, Zenon DEF Audit!Prunable
<1>6. S \in SUBSET (0 .. n)
  BY <1>1, <1>4
<1>7. 0 \in S
  BY <1>1, <1>2, <1>4
<1>8. PICK x \in S : \A y \in S : y <= x
  BY <1>2, <1>6, <1>7, Largest
<1>9. \A y \in S : x >= y
  BY <1>2, <1>6, <1>8
<1>10. Audit!Max(S) \in S
  BY <1>8, <1>9, Zenon DEF Audit!Max
<1> QED BY <1>1, <1>5, <1>6, <1>10

\* The last hash kept is the last hash taken.
LEMMA AuditLast ==
  ASSUME AuditInv, NEW H, NEW C, AuditBook(H, C, log, seqno, through, harm)
  PROVE  Audit!LastHash(log) = H[seqno - 1]
<1>1. CASE log = <<>>
  <2>1. seqno - 1 = 0
    BY <1>1 DEF AuditInv
  <2> QED BY <1>1, <2>1 DEF Audit!LastHash, Audit!NoHash, AuditBook, AuditChain
<1>2. CASE log # <<>>
  <2>1. PushList(log) /\ \A i \in DOMAIN log : log[i].hash = H[log[i].seq]
    BY DEF AuditBook, AuditRows, AuditRow
  <2>2. Len(log) \in DOMAIN log
    BY <1>2, <2>1, AuditFull
  <2> QED BY <1>2, <2>1, <2>2 DEF AuditInv, Audit!LastHash
<1> QED BY <1>1, <1>2

-----------------------------------------------------------------------------
LEMMA AuditInit == Audit!Init => AuditInv
<1> SUFFICES ASSUME Audit!Init PROVE AuditInv
  OBVIOUS
<1>1. log = <<>> /\ seqno = 1 /\ through = 0 /\ harm = {}
  BY DEF Audit!Init
<1>2. PICK H : H = [k \in Nat |-> <<>>]
  OBVIOUS
<1>3. DOMAIN H = Nat /\ H[0] = <<>>
  BY <1>2
<1>4. PushList(<<>>) /\ DOMAIN <<>> = {}
  BY DEF PushList
<1>5. AuditChain(H, H, 1) /\ AuditAnchors(H, H, 1, 0)
  <2>1. \A k \in 1 .. 1 - 1 : FALSE
    OBVIOUS
  <2> QED BY <1>3, <2>1 DEF AuditChain, AuditAnchors
<1>6. AuditRows(H, H, <<>>, 1, 0, {})
  <2>1. \A k \in 0 + 1 .. 1 - 1 : FALSE
    OBVIOUS
  <2> QED BY <1>4, <2>1 DEF AuditRows, AuditOrder
<1>7. AuditBook(H, H, log, seqno, through, harm)
  BY <1>1, <1>5, <1>6 DEF AuditBook
<1> QED BY <1>1, <1>7 DEF AuditInv

LEMMA AuditAppends == ASSUME AuditInv, NEW at \in Times, Audit!AppendAt(at) PROVE AuditInv'
<1>1. PICK c : c = [kind |-> "event", ts |-> at, seq |-> 0, hash |-> <<>>]
  OBVIOUS
<1>2. PICK H, C : AuditBook(H, C, log, seqno, through, harm)
  BY DEF AuditInv
<1>3. PICK e : AuditEntry(H, c, seqno, e)
  BY DEF AuditEntry
<1>4. Audit!Entry(log, c) = e
  BY <1>2, <1>3, AuditLast DEF Audit!Entry, Audit!Hash, AuditEntry
<1>5. log' = Append(log, e) /\ seqno' = seqno + 1 /\ through' = through /\ harm' = harm
  BY <1>1, <1>4 DEF Audit!AppendAt, Audit!NoHash
<1>6. /\ seqno \in Nat \ {0} /\ through \in Nat /\ through < seqno
      /\ AuditChain(H, C, seqno) /\ AuditAnchors(H, C, seqno, through) /\ AuditRows(H, C, log, seqno, through, harm)
      /\ through > 0 => \E a \in through + 1 .. seqno - 1 : AuditAnchor(H, C, a, through)
      /\ PushList(log)
  BY <1>2 DEF AuditInv, AuditBook, AuditRows
<1>7. DOMAIN c = AuditContent /\ c.kind = "event"
  BY <1>1 DEF AuditContent
<1>8. PICK I, D : AuditGrown(H, C, I, D, c, log', seqno, seqno', through, through, harm)
  <2>1. AuditFits(H, c, through)
    BY <1>7 DEF AuditFits
  <2> QED BY <1>3, <1>5, <1>6, <2>1, AuditAdds, Zenon
<1>9. through > 0 => \E a \in through + 1 .. seqno' - 1 : AuditAnchor(I, D, a, through)
  <2> SUFFICES ASSUME through > 0 PROVE \E a \in through + 1 .. seqno' - 1 : AuditAnchor(I, D, a, through)
    OBVIOUS
  <2>1. PICK a \in through + 1 .. seqno - 1 : AuditAnchor(H, C, a, through)
    BY <1>6
  <2>2. a \in 0 .. seqno - 1 /\ through \in 0 .. seqno - 1 /\ a \in through + 1 .. seqno' - 1
    BY <1>5, <1>6
  <2>3. AuditAnchor(I, D, a, through)
    BY <1>8, <2>1, <2>2 DEF AuditAnchor, AuditGrown
  <2> QED BY <2>2, <2>3
<1>10. AuditBook(I, D, log', seqno', through', harm')
  <2>1. AuditChain(I, D, seqno') /\ AuditAnchors(I, D, seqno', through) /\ AuditRows(I, D, log', seqno', through, harm)
    BY <1>8 DEF AuditGrown
  <2> QED BY <1>5, <1>9, <2>1, Zenon DEF AuditBook
<1>11. log' # <<>> /\ log'[Len(log')].seq = seqno' - 1
  <2>1. Len(log) \in Nat /\ Len(log') = Len(log) + 1 /\ log'[Len(log) + 1] = e /\ PushList(log')
    BY <1>5, <1>6, PushLists
  <2>2. log' # <<>>
    BY <2>1, AuditFull
  <2>3. e.seq = seqno
    BY <1>3 DEF AuditEntry
  <2> QED BY <1>5, <1>6, <2>1, <2>2, <2>3
<1> QED BY <1>5, <1>6, <1>10, <1>11 DEF AuditInv

LEMMA AuditPrunes == ASSUME AuditInv, NEW at \in Times, Audit!PruneStepAt(at) PROVE AuditInv'
<1>1. PICK H, C : AuditBook(H, C, log, seqno, through, harm)
  BY DEF AuditInv
<1>2. PICK p : p = Audit!Prunable
  OBVIOUS
<1>3. PICK m : m = log[p].seq
  OBVIOUS
<1>4. PICK c : c = [kind |-> "audit_pruned", ts |-> at, seq |-> m, hash |-> log[p].hash]
  OBVIOUS
<1>5. PICK e : AuditEntry(H, c, seqno, e)
  BY DEF AuditEntry
<1>6. Audit!Entry(log, c) = e
  BY <1>1, <1>5, AuditLast DEF Audit!Entry, Audit!Hash, AuditEntry
<1>7. PICK u : u = Append(log, e)
  OBVIOUS
<1>8. /\ p > 0 /\ log' = SubSeq(u, p + 1, Len(log) + 1) /\ seqno' = seqno + 1 /\ through' = m /\ harm' = harm
  BY <1>2, <1>3, <1>4, <1>6, <1>7, Zenon DEF Audit!PruneStepAt, Audit!Anchor
<1>9. /\ seqno \in Nat \ {0} /\ through \in Nat /\ through < seqno
      /\ AuditChain(H, C, seqno) /\ AuditAnchors(H, C, seqno, through) /\ AuditRows(H, C, log, seqno, through, harm)
      /\ PushList(log)
  BY <1>1 DEF AuditInv, AuditBook, AuditRows
<1>10. PICK l : l = Len(log)
  OBVIOUS
<1>11. l \in Nat /\ DOMAIN log = 1 .. l /\ p \in 1 .. l /\ p \in DOMAIN log
  <2>1. l \in Nat /\ DOMAIN log = 1 .. l
    BY <1>9, <1>10, PushLists
  <2>2. p \in 0 .. l
    BY <1>2, <1>9, <1>10, AuditPrunable
  <2> QED BY <1>8, <2>1, <2>2
<1>12. m \in through + 1 .. seqno - 1 /\ log[p].hash = H[m]
  BY <1>3, <1>9, <1>11 DEF AuditRows, AuditRow
<1>13. m \in Nat /\ m < seqno /\ through < m /\ m \in 1 .. m
  BY <1>9, <1>12
<1>14. DOMAIN c = AuditContent /\ c.kind = "audit_pruned" /\ c.seq = m /\ c.hash = H[m]
  BY <1>4, <1>12 DEF AuditContent
<1>15. AuditAnchors(H, C, seqno, m)
  <2>1. \A k \in 1 .. through : k \in 1 .. m
    BY <1>9, <1>13
  <2> QED BY <1>9, <2>1 DEF AuditAnchors
<1>16. PICK I, D : AuditGrown(H, C, I, D, c, u, seqno, seqno', through, m, harm)
  <2>1. AuditFits(H, c, m)
    BY <1>13, <1>14 DEF AuditFits
  <2> QED BY <1>5, <1>7, <1>8, <1>9, <1>13, <1>15, <2>1, AuditAdds, Zenon
<1>17. AuditAnchor(I, D, seqno, m) /\ seqno \in m + 1 .. seqno + 1 - 1
  <2>1. m \in 0 .. seqno - 1
    BY <1>9, <1>13
  <2>2. I[m] = H[m] /\ D[seqno] = c
    BY <1>16, <2>1 DEF AuditGrown
  <2> QED BY <1>9, <1>13, <1>14, <2>2 DEF AuditAnchor
<1>18. /\ PushList(u) /\ Len(u) = l + 1 /\ DOMAIN u = 1 .. l + 1 /\ u[l + 1] = e /\ \A i \in 1 .. l : u[i] = log[i]
  <2>1. /\ PushList(u) /\ Len(u) = l + 1 /\ u[l + 1] = e /\ \A i \in 1 .. l : u[i] = log[i]
    BY <1>7, <1>9, <1>10, <1>11, PushLists
  <2> QED BY <2>1, PushLists
<1>19. PICK r : r = l + 1 - p
  OBVIOUS
<1>20. r \in Nat \ {0} /\ l + 1 = r + p /\ p \in Nat \ {0}
  BY <1>11, <1>19
<1>21. PushList(log') /\ Len(log') = r /\ DOMAIN log' = 1 .. r /\ \A j \in 1 .. r : log'[j] = u[j + p]
  <2>1. p + 1 \in Nat \ {0} /\ l + 1 \in Nat /\ l + 1 <= Len(u) /\ p + 1 <= l + 1 + 1 /\ (l + 1) - (p + 1) + 1 = r
    BY <1>11, <1>18, <1>19
  <2>2. log' = SubSeq(u, p + 1, l + 1)
    BY <1>8, <1>10
  <2>3. /\ PushList(log') /\ Len(log') = r /\ \A j \in 1 .. r : log'[j] = u[p + 1 + j - 1]
    <3>1. AuditCut(u, p + 1, l + 1, log')
      BY <1>18, <2>1, <2>2, AuditSub, Zenon
    <3> QED BY <2>1, <3>1 DEF AuditCut
  <2>4. \A j \in 1 .. r : p + 1 + j - 1 = j + p
    BY <1>20
  <2>5. DOMAIN log' = 1 .. r
    BY <2>3, PushLists
  <2> QED BY <2>3, <2>4, <2>5
<1>22. AuditOrder(u) /\ u[p].seq = m /\ \A i \in DOMAIN u : u[i].seq \in Nat
  <2>1. AuditRows(I, D, u, seqno', through, harm)
    BY <1>16 DEF AuditGrown
  <2>2. AuditOrder(u) /\ \A i \in DOMAIN u : u[i].seq \in through + 1 .. seqno' - 1
    BY <2>1, Zenon DEF AuditRows
  <2>3. \A i \in through + 1 .. seqno' - 1 : i \in Nat
    BY <1>8, <1>9
  <2> QED BY <2>2, <2>3, <1>3, <1>9, <1>11, <1>18, <2>1
<1>23. \A i \in DOMAIN u : u[i].seq > m <=> i > p
  BY <1>11, <1>13, <1>18, <1>22 DEF AuditOrder
<1>24. AuditRows(I, D, log', seqno', m, harm)
  <2>1. AuditOrder(log')
    <3>1. ASSUME NEW i \in DOMAIN log', NEW j \in DOMAIN log', i < j PROVE log'[i].seq < log'[j].seq
      <4>1. i + p \in DOMAIN u /\ j + p \in DOMAIN u /\ i + p < j + p
        BY <1>18, <1>20, <1>21, <3>1
      <4> QED BY <1>21, <1>22, <4>1 DEF AuditOrder
    <3> QED BY <3>1 DEF AuditOrder
  <2>2. ASSUME NEW j \in DOMAIN log' PROVE \E i \in DOMAIN u : log'[j] = u[i] /\ u[i].seq > m
    <3>1. j + p \in DOMAIN u /\ j + p > p
      BY <1>18, <1>20, <1>21
    <3> QED BY <1>21, <1>23, <3>1
  <2>3. ASSUME NEW i \in DOMAIN u, u[i].seq > m PROVE \E j \in DOMAIN log' : log'[j] = u[i]
    <3>1. i > p
      BY <1>23, <2>3
    <3>2. i - p \in 1 .. r /\ (i - p) + p = i
      BY <1>18, <1>20, <3>1
    <3> QED BY <1>21, <3>2
  <2>4. AuditRows(I, D, u, seqno', through, harm) /\ seqno' \in Nat \ {0} /\ through <= m
    BY <1>8, <1>9, <1>13, <1>16 DEF AuditGrown
  <2>5. AuditThin(u, log', seqno', m, harm, harm)
    BY <2>2, <2>3 DEF AuditThin
  <2>6. harm \subseteq harm
    OBVIOUS
  <2> QED BY <1>9, <1>13, <1>21, <2>1, <2>4, <2>5, <2>6, AuditThins, Zenon
<1>25. AuditBook(I, D, log', seqno', through', harm')
  <2>1. AuditChain(I, D, seqno') /\ AuditAnchors(I, D, seqno', m)
    BY <1>16 DEF AuditGrown
  <2>2. \E a \in m + 1 .. seqno' - 1 : AuditAnchor(I, D, a, m)
    BY <1>8, <1>17
  <2> QED BY <1>8, <1>24, <2>1, <2>2, Zenon DEF AuditBook
<1>26. log' # <<>> /\ log'[Len(log')].seq = seqno' - 1
  <2>1. log'[r] = e /\ r # 0
    BY <1>18, <1>20, <1>21
  <2>2. log' # <<>>
    BY <1>20, <1>21, AuditFull
  <2>3. e.seq = seqno
    BY <1>5 DEF AuditEntry
  <2>4. seqno' - 1 = seqno
    BY <1>8, <1>9
  <2>5. log'[Len(log')].seq = seqno
    BY <1>21, <2>1, <2>3, Zenon
  <2> QED BY <2>2, <2>4, <2>5, Zenon
<1>27. seqno' \in Nat \ {0} /\ through' \in Nat /\ through' < seqno'
  BY <1>8, <1>9, <1>13
<1> QED BY <1>25, <1>26, <1>27 DEF AuditInv

LEMMA AuditChanges == ASSUME AuditInv, NEW i \in DOMAIN log, Audit!Change(i) PROVE AuditInv'
<1>1. /\ \/ log' = [log EXCEPT ![i].content.kind = "changed"]
         \/ log' = [log EXCEPT ![i].prev = <<"changed">>]
      /\ harm' = harm \cup {[kind |-> "change", seq |-> log[i].seq]}
      /\ seqno' = seqno /\ through' = through
  BY DEF Audit!Change
<1>2. PICK H, C : AuditBook(H, C, log, seqno, through, harm)
  BY DEF AuditInv
<1>3. /\ seqno \in Nat \ {0} /\ through \in Nat /\ through < seqno
      /\ AuditChain(H, C, seqno) /\ AuditAnchors(H, C, seqno, through) /\ AuditRows(H, C, log, seqno, through, harm)
      /\ through > 0 => \E a \in through + 1 .. seqno - 1 : AuditAnchor(H, C, a, through)
      /\ PushList(log)
  BY <1>2 DEF AuditInv, AuditBook, AuditRows
<1>4. PICK k : k = log[i].seq
  OBVIOUS
<1>5. /\ AuditRow(H, C, log[i], harm) /\ k \in through + 1 .. seqno - 1
      /\ DOMAIN log[i] = {"seq", "content", "prev", "hash"} /\ DOMAIN log[i].content = AuditContent /\ log[i].hash = H[k]
  BY <1>3, <1>4 DEF AuditRows, AuditRow
<1>6. k \in 1 .. seqno - 1 /\ k \in Nat /\ k - 1 \in 0 .. seqno - 1
  BY <1>3, <1>5
<1>7. H[k] = <<C[k], H[k - 1]>> /\ C[k].kind \in {"event", "audit_pruned"}
  BY <1>3, <1>6 DEF AuditChain
<1>8. H[k - 1] # <<"changed">>
  <2>1. CASE k = 1
    <3>1. H[k - 1] = <<>>
      BY <1>3, <2>1 DEF AuditChain
    <3> QED BY <3>1
  <2>2. CASE k # 1
    <3>1. k - 1 \in 1 .. seqno - 1
      BY <1>6, <2>2
    <3>2. H[k - 1] = <<C[k - 1], H[k - 1 - 1]>>
      BY <1>3, <3>1 DEF AuditChain
    <3>3. Len(<<C[k - 1], H[k - 1 - 1]>>) = 2 /\ Len(<<"changed">>) = 1
      OBVIOUS
    <3> QED BY <3>2, <3>3
  <2> QED BY <2>1, <2>2
<1>9. /\ log' = [j \in DOMAIN log |-> log'[j]] /\ \A j \in DOMAIN log : j # i => log'[j] = log[j]
  BY <1>1
<1>10. /\ DOMAIN log'[i] = {"seq", "content", "prev", "hash"} /\ DOMAIN log'[i].content = AuditContent
       /\ log'[i].seq = k /\ log'[i].hash = H[k]
       /\ log'[i].content.kind = "changed" \/ log'[i].prev = <<"changed">>
  <2>1. CASE log' = [log EXCEPT ![i].content.kind = "changed"]
    BY <1>4, <1>5, <2>1 DEF AuditContent
  <2>2. CASE log' = [log EXCEPT ![i].prev = <<"changed">>]
    BY <1>4, <1>5, <2>2
  <2> QED BY <1>1, <2>1, <2>2
<1>11. H[k] # <<log'[i].content, log'[i].prev>>
  BY <1>7, <1>8, <1>10
<1>12. PushList(log') /\ DOMAIN log' = DOMAIN log /\ Len(log') = Len(log)
  BY <1>3, <1>9, PushWritten
<1>13. \A j \in DOMAIN log : log'[j].seq = log[j].seq
  BY <1>4, <1>9, <1>10
<1>14. PICK x : x = [kind |-> "change", seq |-> k]
  OBVIOUS
<1>15. harm' = harm \cup {x} /\ x.kind = "change" /\ x.seq = k
  BY <1>1, <1>4, <1>14
<1>16. AuditMarked(harm', "change", k)
  BY <1>15 DEF AuditMarked
<1>17. ASSUME NEW m PROVE /\ AuditMarked(harm', "gap", m) <=> AuditMarked(harm, "gap", m)
                          /\ m # k => (AuditMarked(harm', "change", m) <=> AuditMarked(harm, "change", m))
  BY <1>15 DEF AuditMarked
<1>18. AuditRows(H, C, log', seqno, through, harm')
  <2>1. AuditOrder(log')
    BY <1>3, <1>12, <1>13 DEF AuditRows, AuditOrder
  <2>2. ASSUME NEW j \in DOMAIN log'
        PROVE  /\ log'[j].seq \in through + 1 .. seqno - 1 /\ AuditRow(H, C, log'[j], harm')
               /\ ~AuditMarked(harm', "gap", log'[j].seq)
    <3>1. /\ log[j].seq \in through + 1 .. seqno - 1 /\ AuditRow(H, C, log[j], harm) /\ j \in DOMAIN log
          /\ ~AuditMarked(harm, "gap", log[j].seq)
      BY <1>3, <1>12 DEF AuditRows
    <3>2. ~AuditMarked(harm', "gap", log'[j].seq)
      BY <1>13, <1>17, <3>1
    <3>3. CASE j = i
      <4>1. AuditRow(H, C, log'[i], harm')
        BY <1>10, <1>11, <1>16 DEF AuditRow
      <4> QED BY <1>13, <3>1, <3>2, <3>3, <4>1
    <3>4. CASE j # i
      <4>1. log[j].seq # k
        <5>1. AuditOrder(log) /\ i \in Nat /\ j \in Nat
          BY <1>3, <3>1, PushLists DEF AuditRows
        <5>2. log[j].seq \in Nat
          BY <1>3, <3>1
        <5> QED BY <1>4, <1>6, <3>1, <3>4, <5>1, <5>2 DEF AuditOrder
      <4>2. AuditMarked(harm', "change", log[j].seq) <=> AuditMarked(harm, "change", log[j].seq)
        BY <1>17, <4>1
      <4>3. AuditRow(H, C, log[j], harm')
        BY <3>1, <4>2 DEF AuditRow
      <4> QED BY <1>9, <3>1, <3>2, <3>4, <4>3
    <3> QED BY <3>3, <3>4
  <2>3. ASSUME NEW m \in through + 1 .. seqno - 1
        PROVE  (\E j \in DOMAIN log' : log'[j].seq = m) \/ AuditMarked(harm', "gap", m)
    <3>1. (\E j \in DOMAIN log : log[j].seq = m) \/ AuditMarked(harm, "gap", m)
      BY <1>3 DEF AuditRows
    <3> QED BY <1>12, <1>13, <1>17, <3>1
  <2>4. \A h \in harm' : h.kind \in {"change", "gap"} /\ h.seq \in 1 .. seqno - 1
    <3>1. \A h \in harm : h.kind \in {"change", "gap"} /\ h.seq \in 1 .. seqno - 1
      BY <1>3 DEF AuditRows
    <3> QED BY <1>6, <1>15, <3>1
  <2> QED BY <1>12, <2>1, <2>2, <2>3, <2>4 DEF AuditRows
<1>19. AuditBook(H, C, log', seqno', through', harm')
  BY <1>1, <1>3, <1>18 DEF AuditBook
<1>20. log' # <<>> /\ log'[Len(log')].seq = seqno' - 1
  <2>1. log # <<>>
    BY <1>3, AuditFull
  <2>2. log' # <<>> /\ Len(log) \in DOMAIN log
    BY <1>3, <1>12, <2>1, AuditFull
  <2> QED BY <1>1, <1>12, <1>13, <2>1, <2>2 DEF AuditInv
<1> QED BY <1>1, <1>3, <1>19, <1>20 DEF AuditInv

\* The sequence t is q without its entry i.
AuditLess(q, i, t) ==
  /\ PushList(t) /\ Len(t) = Len(q) - 1
  /\ \A j \in 1 .. Len(q) - 1 : t[j] = IF j < i THEN q[j] ELSE q[j + 1]

LEMMA AuditWithout ==
  ASSUME NEW q, PushList(q), NEW i \in DOMAIN q, NEW t, t = SubSeq(q, 1, i - 1) \o SubSeq(q, i + 1, Len(q))
  PROVE  AuditLess(q, i, t)
<1>1. PICK l : l = Len(q)
  OBVIOUS
<1>2. l \in Nat /\ i \in 1 .. l
  BY <1>1, PushLists
<1>3. PICK a, b : a = SubSeq(q, 1, i - 1) /\ b = SubSeq(q, i + 1, l)
  OBVIOUS
<1>4. AuditCut(q, 1, i - 1, a)
  <2>1. 1 \in Nat \ {0} /\ i - 1 \in Nat /\ i - 1 <= Len(q) /\ 1 <= (i - 1) + 1
    BY <1>1, <1>2
  <2> QED BY <1>3, <2>1, AuditSub, Zenon
<1>5. AuditCut(q, i + 1, l, b)
  <2>1. i + 1 \in Nat \ {0} /\ l \in Nat /\ l <= Len(q) /\ i + 1 <= l + 1
    BY <1>1, <1>2
  <2> QED BY <1>3, <2>1, AuditSub, Zenon
<1>6. t = a \o b
  BY <1>1, <1>3, Zenon
<1>7. PushList(a) /\ Len(a) = i - 1 /\ \A j \in 1 .. i - 1 : a[j] = q[j]
  <2>1. (i - 1) - 1 + 1 = i - 1 /\ \A j \in 1 .. i - 1 : 1 + j - 1 = j
    BY <1>2
  <2>2. PushList(a) /\ Len(a) = (i - 1) - 1 + 1 /\ \A j \in 1 .. (i - 1) - 1 + 1 : a[j] = q[1 + j - 1]
    BY <1>4, Zenon DEF AuditCut
  <2> QED BY <2>1, <2>2
<1>8. PushList(b) /\ Len(b) = l - i /\ \A j \in 1 .. l - i : b[j] = q[i + j]
  <2>1. l - (i + 1) + 1 = l - i /\ \A j \in 1 .. l - i : (i + 1) + j - 1 = i + j
    BY <1>2
  <2>2. PushList(b) /\ Len(b) = l - (i + 1) + 1 /\ \A j \in 1 .. l - (i + 1) + 1 : b[j] = q[(i + 1) + j - 1]
    BY <1>5, Zenon DEF AuditCut
  <2> QED BY <2>1, <2>2
<1>9. /\ PushList(t) /\ Len(t) = Len(a) + Len(b)
      /\ \A j \in 1 .. Len(a) + Len(b) : t[j] = IF j <= Len(a) THEN a[j] ELSE b[j - Len(a)]
  <2>1. PICK S : a \in Seq(S)
    BY <1>7 DEF PushList
  <2>2. PICK R : b \in Seq(R)
    BY <1>8 DEF PushList
  <2>3. PICK T : T = S \cup R
    OBVIOUS
  <2>4. a \in Seq(T) /\ b \in Seq(T)
    BY <2>1, <2>2, <2>3
  <2>5. /\ a \o b \in Seq(T) /\ Len(a \o b) = Len(a) + Len(b)
        /\ \A j \in 1 .. Len(a) + Len(b) : (a \o b)[j] = IF j <= Len(a) THEN a[j] ELSE b[j - Len(a)]
    BY <2>4, ConcatProperties, Zenon
  <2>6. PushList(a \o b)
    BY <2>5 DEF PushList
  <2> QED BY <1>6, <2>5, <2>6, Zenon
<1>10. Len(t) = l - 1
  <2>1. (i - 1) + (l - i) = l - 1
    BY <1>2
  <2>2. Len(t) = Len(a) + Len(b) /\ Len(a) = i - 1 /\ Len(b) = l - i
    BY <1>7, <1>8, <1>9, Zenon
  <2> QED BY <2>1, <2>2, Zenon
<1>11. ASSUME NEW j \in 1 .. l - 1 PROVE t[j] = IF j < i THEN q[j] ELSE q[j + 1]
  <2>1. j \in 1 .. Len(a) + Len(b)
    BY <1>2, <1>7, <1>8
  <2>2. t[j] = IF j <= Len(a) THEN a[j] ELSE b[j - Len(a)]
    BY <1>9, <2>1, Zenon
  <2>3. CASE j < i
    <3>1. j <= Len(a) /\ j \in 1 .. i - 1
      BY <1>2, <1>7, <2>3
    <3> QED BY <1>7, <2>2, <2>3, <3>1
  <2>4. CASE ~(j < i)
    <3>1. ~(j <= Len(a)) /\ j - Len(a) \in 1 .. l - i /\ i + (j - Len(a)) = j + 1
      BY <1>2, <1>7, <2>4
    <3>2. b[j - Len(a)] = q[i + (j - Len(a))]
      BY <1>8, <3>1, Zenon
    <3> QED BY <2>2, <2>4, <3>1, <3>2, Zenon
  <2> QED BY <2>3, <2>4
<1> QED BY <1>1, <1>9, <1>10, <1>11, Zenon DEF AuditLess

LEMMA AuditTakesOut == ASSUME AuditInv, NEW i \in DOMAIN log, Audit!TakeOut(i) PROVE AuditInv'
<1>1. PICK H, C : AuditBook(H, C, log, seqno, through, harm)
  BY DEF AuditInv
<1>2. /\ seqno \in Nat \ {0} /\ through \in Nat /\ through < seqno
      /\ AuditChain(H, C, seqno) /\ AuditAnchors(H, C, seqno, through) /\ AuditRows(H, C, log, seqno, through, harm)
      /\ through > 0 => \E a \in through + 1 .. seqno - 1 : AuditAnchor(H, C, a, through)
      /\ PushList(log)
  BY <1>1 DEF AuditInv, AuditBook, AuditRows
<1>3. PICK l : l = Len(log)
  OBVIOUS
<1>4. PICK k : k = log[i].seq
  OBVIOUS
<1>5. PICK x : x = [kind |-> "gap", seq |-> k]
  OBVIOUS
<1>6. /\ i < l /\ harm' = harm \cup {x} /\ seqno' = seqno /\ through' = through
  BY <1>3, <1>4, <1>5 DEF Audit!TakeOut
<1>7. AuditLess(log, i, log')
  <2>1. log' = SubSeq(log, 1, i - 1) \o SubSeq(log, i + 1, Len(log))
    BY Zenon DEF Audit!TakeOut
  <2> QED BY <1>2, <2>1, AuditWithout, Zenon
<1>8. l \in Nat /\ DOMAIN log = 1 .. l /\ i \in 1 .. l
  BY <1>2, <1>3, PushLists
<1>9. PushList(log') /\ Len(log') = l - 1 /\ \A j \in 1 .. l - 1 : log'[j] = IF j < i THEN log[j] ELSE log[j + 1]
  BY <1>3, <1>7, Zenon DEF AuditLess
<1>10. DOMAIN log' = 1 .. l - 1
  BY <1>9, PushLists
<1>11. x.kind = "gap" /\ x.seq = k /\ harm \subseteq harm'
  BY <1>5, <1>6
<1>12. AuditOrder(log) /\ \A j \in DOMAIN log : log[j].seq \in through + 1 .. seqno - 1
  BY <1>2, Zenon DEF AuditRows
<1>13. \A j \in DOMAIN log : log[j].seq \in Nat /\ log[j].seq > through /\ (j # i => log[j].seq # k)
  <2>1. ASSUME NEW j \in DOMAIN log PROVE log[j].seq \in Nat /\ log[j].seq > through /\ (j # i => log[j].seq # k)
    <3>1. log[j].seq \in Nat /\ log[j].seq > through /\ k \in Nat
      BY <1>2, <1>4, <1>12
    <3>2. CASE j < i
      <4>1. log[j].seq < log[i].seq
        BY <1>12, <3>2 DEF AuditOrder
      <4> QED BY <1>4, <3>1, <4>1
    <3>3. CASE i < j
      <4>1. log[i].seq < log[j].seq
        BY <1>12, <3>3 DEF AuditOrder
      <4> QED BY <1>4, <3>1, <4>1
    <3> QED BY <1>8, <3>1, <3>2, <3>3
  <2> QED BY <2>1
<1>14. ASSUME NEW j \in DOMAIN log'
       PROVE  \E m \in DOMAIN log : m # i /\ log'[j] = log[m] /\ m = IF j < i THEN j ELSE j + 1
  <2>1. CASE j < i
    <3>1. j \in DOMAIN log /\ j # i /\ log'[j] = log[j]
      BY <1>8, <1>9, <1>10, <2>1
    <3> QED BY <2>1, <3>1
  <2>2. CASE ~(j < i)
    <3>1. j + 1 \in DOMAIN log /\ j + 1 # i /\ log'[j] = log[j + 1]
      BY <1>8, <1>9, <1>10, <2>2
    <3> QED BY <2>2, <3>1
  <2> QED BY <2>1, <2>2
<1>15. ASSUME NEW m \in DOMAIN log, m # i PROVE \E j \in DOMAIN log' : log'[j] = log[m]
  <2>1. CASE m < i
    <3>1. m \in 1 .. l - 1
      BY <1>8, <2>1
    <3>2. log'[m] = log[m]
      BY <1>9, <2>1, <3>1
    <3> QED BY <1>10, <3>1, <3>2
  <2>2. CASE ~(m < i)
    <3>1. m - 1 \in 1 .. l - 1 /\ ~(m - 1 < i) /\ (m - 1) + 1 = m
      BY <1>8, <1>15, <2>2
    <3>2. log'[m - 1] = log[m]
      BY <1>9, <3>1
    <3> QED BY <1>10, <3>1, <3>2
  <2> QED BY <2>1, <2>2
<1>16. AuditOrder(log')
  <2>1. ASSUME NEW a \in DOMAIN log', NEW b \in DOMAIN log', a < b PROVE log'[a].seq < log'[b].seq
    <3>1. PICK m \in DOMAIN log : log'[a] = log[m] /\ m = IF a < i THEN a ELSE a + 1
      BY <1>14
    <3>2. PICK n \in DOMAIN log : log'[b] = log[n] /\ n = IF b < i THEN b ELSE b + 1
      BY <1>14
    <3>3. m < n
      BY <1>8, <1>10, <2>1, <3>1, <3>2
    <3> QED BY <1>12, <3>1, <3>2, <3>3 DEF AuditOrder
  <2> QED BY <2>1 DEF AuditOrder
<1>17. AuditThin(log, log', seqno, through, harm, harm')
  <2>1. ASSUME NEW j \in DOMAIN log' PROVE (\E m \in DOMAIN log : log'[j] = log[m] /\ log[m].seq > through) /\ log'[j].seq # k
    BY <1>13, <1>14
  <2>2. ASSUME NEW m \in DOMAIN log PROVE (\E j \in DOMAIN log' : log'[j] = log[m]) \/ AuditMarked(harm', "gap", log[m].seq)
    <3>1. CASE m = i
      BY <1>4, <1>6, <1>11, <3>1 DEF AuditMarked
    <3>2. CASE m # i
      BY <1>15, <3>2
    <3> QED BY <3>1, <3>2
  <2>3. k \in 1 .. seqno - 1
    BY <1>2, <1>4, <1>12
  <2>4. ASSUME NEW h \in harm'
        PROVE  h \in harm \/ (h.kind = "gap" /\ h.seq \in 1 .. seqno - 1 /\ \A j \in DOMAIN log' : log'[j].seq # h.seq)
    BY <1>6, <1>11, <2>1, <2>3
  <2> QED BY <2>1, <2>2, <2>4 DEF AuditThin
<1>18. AuditRows(H, C, log', seqno, through, harm')
  <2>1. through <= through
    BY <1>2
  <2> QED BY <1>2, <1>9, <1>11, <1>16, <1>17, <2>1, AuditThins, Zenon
<1>19. AuditBook(H, C, log', seqno', through', harm')
  BY <1>2, <1>6, <1>18, Zenon DEF AuditBook
<1>20. log' # <<>> /\ log'[Len(log')].seq = seqno' - 1
  <2>1. l - 1 \in 1 .. l - 1 /\ ~(l - 1 < i) /\ (l - 1) + 1 = l /\ l - 1 # 0
    BY <1>6, <1>8
  <2>2. log' # <<>>
    BY <1>9, <2>1, AuditFull
  <2>3. log'[l - 1] = log[l]
    BY <1>9, <2>1
  <2>4. log # <<>>
    BY <1>2, <1>8, AuditFull
  <2>5. log[l].seq = seqno - 1
    BY <1>3, <2>4 DEF AuditInv
  <2> QED BY <1>6, <1>9, <2>2, <2>3, <2>5, Zenon
<1> QED BY <1>2, <1>6, <1>19, <1>20 DEF AuditInv

-----------------------------------------------------------------------------
LEMMA AuditSound ==
  ASSUME AuditInv, NEW H, NEW C, AuditBook(H, C, log, seqno, through, harm), log # <<>>, Audit!Verify, NEW h \in harm
  PROVE  /\ h.kind = "change" => \A i \in DOMAIN log : log[i].seq # h.seq
         /\ h.kind = "gap" => h.seq <= through
<1>1. /\ seqno \in Nat \ {0} /\ through \in Nat /\ through < seqno
      /\ AuditChain(H, C, seqno) /\ AuditAnchors(H, C, seqno, through) /\ AuditRows(H, C, log, seqno, through, harm)
      /\ PushList(log) /\ log[Len(log)].seq = seqno - 1
  BY DEF AuditInv, AuditBook, AuditRows
<1>2. /\ log[1].prev = <<>> \/ Audit!Anchored(log[1])
      /\ \A i \in DOMAIN log : /\ i > 1 => log[i].prev = log[i - 1].hash
                               /\ log[i].hash = <<log[i].content, log[i].prev>>
  BY DEF Audit!Verify, Audit!NoHash, Audit!Hash
<1>3. PICK l : l = Len(log)
  OBVIOUS
<1>4. l \in Nat /\ DOMAIN log = 1 .. l /\ l \in DOMAIN log /\ 1 \in DOMAIN log
  BY <1>1, <1>3, AuditFull
<1>5. \A i \in DOMAIN log : /\ log[i].seq \in through + 1 .. seqno - 1 /\ log[i].hash = H[log[i].seq]
                            /\ log[i].content = C[log[i].seq] /\ log[i].prev = H[log[i].seq - 1]
                            /\ ~AuditMarked(harm, "change", log[i].seq) /\ ~AuditMarked(harm, "gap", log[i].seq)
  BY <1>1, <1>2 DEF AuditRows, AuditRow
<1>6. h.kind = "change" => \A i \in DOMAIN log : log[i].seq # h.seq
  BY <1>5 DEF AuditMarked
<1>7. ASSUME h.kind = "gap", ~(h.seq <= through) PROVE FALSE
  <2>1. PICK g : g = h.seq
    OBVIOUS
  <2>2. g \in 1 .. seqno - 1 /\ through < g
    <3>1. h.seq \in 1 .. seqno - 1
      BY <1>1 DEF AuditRows
    <3> QED BY <1>1, <1>7, <2>1, <3>1
  <2>3. \A i \in DOMAIN log : log[i].seq # g
    BY <1>5, <1>7, <2>1 DEF AuditMarked
  <2>4. PICK T : T = {i \in DOMAIN log : log[i].seq > g}
    OBVIOUS
  <2>5. l \in T
    <3>1. log[l].seq = seqno - 1 /\ log[l].seq # g
      BY <1>1, <1>3, <1>4, <2>3
    <3> QED BY <1>1, <1>4, <2>2, <2>4, <3>1
  <2>6. T \in SUBSET Nat
    BY <1>4, <2>4
  <2>7. PICK i \in T : \A y \in T : i <= y
    BY <2>5, <2>6, PushLeast
  <2>8. i \in DOMAIN log /\ log[i].seq > g
    BY <2>4, <2>7
  <2>9. PICK f : f = log[i].seq
    OBVIOUS
  <2>10. f \in through + 1 .. seqno - 1 /\ f > g /\ log[i].prev = H[f - 1]
    BY <1>5, <2>8, <2>9
  <2>11. f - 1 \in 0 .. seqno - 1 /\ f - 1 >= g /\ f - 1 # 0
    BY <1>1, <2>2, <2>10
  <2>12. CASE i > 1
    <3>1. i - 1 \in DOMAIN log /\ ~(i <= i - 1)
      BY <1>4, <2>8, <2>12
    <3>2. i - 1 \notin T
      BY <2>7, <3>1
    <3>3. PICK e : e = log[i - 1].seq
      OBVIOUS
    <3>4. e \in through + 1 .. seqno - 1 /\ log[i - 1].hash = H[e]
      BY <1>5, <3>1, <3>3
    <3>5. e < g
      <4>1. ~(e > g) /\ e # g
        BY <2>3, <2>4, <3>1, <3>2, <3>3
      <4> QED BY <1>1, <2>2, <3>4, <4>1
    <3>6. H[f - 1] = H[e]
      BY <1>2, <2>8, <2>10, <2>12, <3>4
    <3>7. e \in 0 .. seqno - 1
      BY <1>1, <3>4
    <3>8. f - 1 = e
      BY <1>1, <2>11, <3>6, <3>7, AuditDistinct
    <3> QED BY <1>1, <2>2, <2>11, <3>4, <3>5, <3>8
  <2>13. CASE i = 1
    <3>1. CASE log[1].prev = <<>>
      <4>1. H[f - 1] = H[0] /\ 0 \in 0 .. seqno - 1
        BY <1>1, <2>10, <2>13, <3>1 DEF AuditChain
      <4>2. f - 1 = 0
        BY <1>1, <2>11, <4>1, AuditDistinct
      <4> QED BY <2>11, <4>2
    <3>2. CASE Audit!Anchored(log[1])
      <4>1. PICK j \in DOMAIN log : log[j].content.kind = "audit_pruned" /\ log[j].content.hash = log[1].prev
        BY <3>2 DEF Audit!Anchored
      <4>2. PICK e : e = log[j].seq
        OBVIOUS
      <4>3. e \in 1 .. seqno - 1 /\ log[j].content = C[e]
        BY <1>1, <1>5, <4>2
      <4>4. PICK m \in 1 .. through : C[e].seq = m /\ C[e].hash = H[m]
        BY <1>1, <4>1, <4>3 DEF AuditAnchors
      <4>5. H[f - 1] = H[m] /\ m \in 0 .. seqno - 1
        BY <1>1, <2>10, <2>13, <4>1, <4>3, <4>4
      <4>6. f - 1 = m
        BY <1>1, <2>11, <4>5, AuditDistinct
      <4> QED BY <1>1, <2>2, <2>11, <4>4, <4>6
    <3> QED BY <1>2, <3>1, <3>2
  <2> QED BY <1>4, <2>8, <2>12, <2>13
<1> QED BY <1>6, <1>7

LEMMA AuditComplete ==
  ASSUME AuditInv, NEW H, NEW C, AuditBook(H, C, log, seqno, through, harm), log # <<>>,
         \A h \in harm : /\ h.kind = "change" => \A i \in DOMAIN log : log[i].seq # h.seq
                         /\ h.kind = "gap" => h.seq <= through
  PROVE  Audit!Verify
<1>1. /\ seqno \in Nat \ {0} /\ through \in Nat /\ through < seqno
      /\ AuditChain(H, C, seqno) /\ AuditAnchors(H, C, seqno, through) /\ AuditRows(H, C, log, seqno, through, harm)
      /\ through > 0 => \E a \in through + 1 .. seqno - 1 : AuditAnchor(H, C, a, through)
      /\ PushList(log)
  BY DEF AuditInv, AuditBook, AuditRows
<1>2. PICK l : l = Len(log)
  OBVIOUS
<1>3. l \in Nat /\ DOMAIN log = 1 .. l /\ 1 \in DOMAIN log
  BY <1>1, <1>2, AuditFull
<1>4. \A i \in DOMAIN log : ~AuditMarked(harm, "change", log[i].seq)
  BY DEF AuditMarked
<1>5. \A i \in DOMAIN log : /\ log[i].seq \in through + 1 .. seqno - 1 /\ log[i].hash = H[log[i].seq]
                            /\ log[i].content = C[log[i].seq] /\ log[i].prev = H[log[i].seq - 1]
  BY <1>1, <1>4 DEF AuditRows, AuditRow
<1>6. ASSUME NEW k \in through + 1 .. seqno - 1 PROVE \E i \in DOMAIN log : log[i].seq = k
  <2>1. ~AuditMarked(harm, "gap", k)
    <3>1. ~(k <= through)
      BY <1>1
    <3> QED BY <3>1 DEF AuditMarked
  <2> QED BY <1>1, <2>1 DEF AuditRows
<1>7. ASSUME NEW i \in DOMAIN log
      PROVE  /\ i > 1 => log[i].prev = log[i - 1].hash
             /\ log[i].hash = <<log[i].content, log[i].prev>>
  <2>1. PICK k : k = log[i].seq
    OBVIOUS
  <2>2. k \in through + 1 .. seqno - 1 /\ k \in 1 .. seqno - 1
    BY <1>1, <1>5, <2>1
  <2>3. H[k] = <<C[k], H[k - 1]>>
    BY <1>1, <2>2 DEF AuditChain
  <2>4. ASSUME i > 1 PROVE log[i].prev = log[i - 1].hash
    <3>1. i - 1 \in DOMAIN log /\ i - 1 < i
      BY <1>3, <2>4
    <3>2. PICK e : e = log[i - 1].seq
      OBVIOUS
    <3>3. e \in through + 1 .. seqno - 1 /\ e < k /\ log[i - 1].hash = H[e]
      <4>1. log[i - 1].seq < log[i].seq
        BY <1>1, <3>1 DEF AuditRows, AuditOrder
      <4> QED BY <1>5, <2>1, <3>1, <3>2, <4>1
    <3>4. k - 1 \in through + 1 .. seqno - 1
      BY <1>1, <2>2, <3>3
    <3>5. PICK j \in DOMAIN log : log[j].seq = k - 1
      BY <1>6, <3>4
    <3>6. ~(j > i - 1) /\ ~(j < i - 1)
      <4>1. j > i - 1 => j = i \/ i < j
        BY <1>3
      <4>2. AuditOrder(log)
        BY <1>1 DEF AuditRows
      <4>3. ~(i < j) /\ j # i
        BY <1>1, <2>1, <2>2, <3>5, <4>2 DEF AuditOrder
      <4>4. ~(j < i - 1)
        <5> SUFFICES ASSUME j < i - 1 PROVE FALSE
          OBVIOUS
        <5>1. log[j].seq < log[i - 1].seq
          BY <3>1, <4>2 DEF AuditOrder
        <5> QED BY <1>1, <2>2, <3>2, <3>3, <3>5, <5>1
      <4> QED BY <4>1, <4>3, <4>4
    <3>7. j = i - 1
      BY <1>3, <3>6
    <3> QED BY <1>5, <2>1, <3>5, <3>7
  <2> QED BY <1>5, <2>1, <2>3, <2>4
<1>8. log[1].seq = through + 1
  <2>1. PICK f : f = log[1].seq
    OBVIOUS
  <2>2. f \in through + 1 .. seqno - 1
    BY <1>3, <1>5, <2>1
  <2>3. through + 1 \in through + 1 .. seqno - 1
    BY <1>1, <2>2
  <2>4. PICK i \in DOMAIN log : log[i].seq = through + 1
    BY <1>6, <2>3
  <2>5. i = 1 \/ 1 < i
    BY <1>3
  <2>6. 1 < i => f < through + 1
    BY <1>1, <1>3, <2>1, <2>4 DEF AuditRows, AuditOrder
  <2> QED BY <1>1, <2>1, <2>2, <2>4, <2>5, <2>6
<1>9. log[1].prev = H[through]
  <2>1. (through + 1) - 1 = through
    BY <1>1
  <2> QED BY <1>3, <1>5, <1>8, <2>1
<1>10. log[1].prev = <<>> \/ Audit!Anchored(log[1])
  <2>1. CASE through = 0
    BY <1>1, <1>9, <2>1 DEF AuditChain
  <2>2. CASE through # 0
    <3>1. PICK a \in through + 1 .. seqno - 1 : AuditAnchor(H, C, a, through)
      BY <1>1, <2>2
    <3>2. PICK i \in DOMAIN log : log[i].seq = a
      BY <1>6
    <3>3. log[i].content = C[a]
      BY <1>5, <3>2
    <3>4. through < log[1].seq
      BY <1>1, <1>8
    <3> QED BY <1>9, <3>1, <3>3, <3>4 DEF AuditAnchor, Audit!Anchored
  <2> QED BY <2>1, <2>2
<1> QED BY <1>7, <1>10 DEF Audit!Verify, Audit!NoHash, Audit!Hash

LEMMA AuditExact == AuditInv => VerifyIsExact
<1> SUFFICES ASSUME AuditInv PROVE VerifyIsExact
  OBVIOUS
<1>1. PICK H, C : AuditBook(H, C, log, seqno, through, harm)
  BY DEF AuditInv
<1>2. CASE log = <<>>
  <2>1. \A h \in harm : FALSE
    <3>1. \A h \in harm : h.seq \in 1 .. seqno - 1
      BY <1>1 DEF AuditBook, AuditRows
    <3>2. seqno = 1
      BY <1>2 DEF AuditInv
    <3> QED BY <3>1, <3>2
  <2>2. Audit!Verify
    BY <1>2 DEF Audit!Verify
  <2> QED BY <2>1, <2>2 DEF VerifyIsExact, Audit!VerifyIsExact
<1>3. CASE log # <<>>
  BY <1>1, <1>3, AuditSound, AuditComplete, Zenon DEF VerifyIsExact, Audit!VerifyIsExact
<1> QED BY <1>2, <1>3

\* Retention and Verify agree, for any clock, step size and number of entries: the chain verifies
\* exactly when no entry still kept was changed and none was taken out that retention has not
\* gone past (PruneBefore, pruneAnchorFor, Verify).
THEOREM AuditVerifies == Audit!Spec => []VerifyIsExact
<1>1. Audit!Init => AuditInv
  BY AuditInit
<1>2. AuditInv /\ [Audit!Next]_Audit!vars => AuditInv'
  <2> SUFFICES ASSUME AuditInv, [Audit!Next]_Audit!vars PROVE AuditInv'
    OBVIOUS
  <2>1. CASE UNCHANGED <<log, seqno, through, harm>>
    BY <2>1 DEF AuditInv
  <2>2. CASE Audit!Next
    <3>1. ASSUME NEW at \in Times, Audit!BeginPrune(at) PROVE AuditInv'
      BY <2>1, <3>1 DEF Audit!BeginPrune
    <3>2. ASSUME Audit!EndPrune PROVE AuditInv'
      BY <2>1, <3>2 DEF Audit!EndPrune
    <3> QED BY <2>2, <3>1, <3>2, AuditAppends, AuditPrunes, AuditChanges, AuditTakesOut DEF Audit!Next
  <2> QED BY <2>1, <2>2 DEF Audit!vars
<1>3. AuditInv => VerifyIsExact
  BY AuditExact
<1> QED BY <1>1, <1>2, <1>3, PTL DEF Audit!Spec

-----------------------------------------------------------------------------
(* ExpectedSchedule. The first and the last instant a local time resolves  *)
(* to separate the instants before it from the others, whichever way the   *)
(* clock is changed.                                                       *)

\* A zone, a schedule and an alert as Init chooses them.
ZoneOK == zone.at \in Int /\ zone.by \in (-Reach)..Reach /\ zone.at \in Schedule!Instants
ScheduleOK ==
  /\ schedule.days \subseteq 0..LastDate /\ schedule.start \in 0..(DayLength - 1)
  /\ schedule.end \in 0..(DayLength - 1) /\ schedule.duration \in Int /\ started \in Int

\* Local times of dates that are looked at.
Locals == 0..((LastDate + 2) * DayLength)

\* The first and the last instant of a local time separate the instants before it from those
\* that are not, and are off by no more than the clock was changed.
Back == IF zone.by < 0 THEN -zone.by ELSE 0
Forth == IF zone.by > 0 THEN zone.by ELSE 0
FirstOf(l, s) ==
  s \in Int /\ s >= l - Forth /\ \A u \in Schedule!Instants : Schedule!Local(u) >= l => u >= s
LastOf(l, e) ==
  e \in Int /\ e <= l + Back /\ \A u \in Schedule!Instants : Schedule!Local(u) < l => u < e

LEMMA ScheduleNumbers ==
  /\ DayLength \in Nat /\ DayLength > 0 /\ LastDate \in Nat /\ Advance \in Nat /\ Reach \in Nat
  /\ LastDate * DayLength \in Nat /\ (LastDate + 1) * DayLength \in Nat /\ (LastDate + 2) * DayLength \in Nat
  /\ (LastDate + 1) * DayLength <= (LastDate + 2) * DayLength
<1>1. DayLength \in Nat /\ DayLength > 0 /\ LastDate \in Nat /\ Advance \in Nat /\ Reach \in Nat
  BY ScheduleAssumption
<1>2. PICK p : p = LastDate * DayLength
  OBVIOUS
<1>3. p \in Nat
  BY <1>1, <1>2
<1>4. (LastDate + 1) * DayLength = p + DayLength /\ (LastDate + 2) * DayLength = p + DayLength + DayLength
  BY <1>1, <1>2
<1> QED BY <1>1, <1>2, <1>3, <1>4

LEMMA InstantsAre ==
  \A u : u \in Schedule!Instants <=> u \in Int /\ -DayLength <= u /\ u <= (LastDate + 2) * DayLength + Reach
<1>1. PICK p : p = (LastDate + 2) * DayLength
  OBVIOUS
<1>2. p \in Nat /\ DayLength \in Nat /\ Reach \in Nat
  BY <1>1, ScheduleNumbers
<1>3. Schedule!Instants = (-DayLength)..(p + Reach)
  BY <1>1, Zenon DEF Schedule!Instants
<1>4. \A u : u \in Schedule!Instants <=> u \in Int /\ -DayLength <= u /\ u <= p + Reach
  BY <1>2, <1>3
<1> QED BY <1>1, <1>4

\* Where the clock shows l.
LEMMA CopiesAre ==
  ASSUME ZoneOK, NEW l \in Int, NEW u
  PROVE  u \in Schedule!Copies(l) <=>
           /\ u \in Schedule!Instants
           /\ (u < zone.at /\ u = l) \/ (u >= zone.at /\ u = l - zone.by)
<1>1. PICK a, b : a = zone.at /\ b = zone.by
  OBVIOUS
<1>2. a \in Int /\ b \in Int /\ -Reach <= b /\ b <= Reach /\ Reach \in Nat
  BY <1>1, ScheduleNumbers DEF ZoneOK
<1>3. PICK m : m = Schedule!Nominal(l)
  OBVIOUS
<1>4. m = IF l < a THEN l ELSE l - b
  BY <1>1, <1>3 DEF Schedule!Nominal
<1>5. u \in Schedule!Copies(l) <=> u \in Schedule!Instants /\ Schedule!Local(u) = l /\ u \in (m - Reach)..(m + Reach)
  BY <1>3 DEF Schedule!Copies
<1>6. Schedule!Local(u) = IF u < a THEN u ELSE u + b
  BY <1>1 DEF Schedule!Local
<1>7. u \in Schedule!Instants => u \in Int
  BY InstantsAre
<1>8. CASE u \in Schedule!Instants
  <2>1. u \in Int
    BY <1>7, <1>8
  <2>2. (Schedule!Local(u) = l /\ u \in (m - Reach)..(m + Reach)) <=> (u < a /\ u = l) \/ (u >= a /\ u = l - b)
    BY <1>2, <1>4, <1>6, <2>1
  <2> QED BY <1>1, <1>5, <1>8, <2>2
<1>9. CASE u \notin Schedule!Instants
  BY <1>5, <1>9
<1> QED BY <1>8, <1>9

\* Min of a set of numbers is one.
LEMMA ScheduleLeast ==
  ASSUME NEW T \in SUBSET Nat, T # {}
  PROVE  Schedule!Min(T) \in T /\ \A y \in T : Schedule!Min(T) <= y
<1>1. \E z \in T : \A y \in T : z <= y
  BY PushLeast
<1> QED BY <1>1, Zenon DEF Schedule!Min

\* What a local time may stand for is an instant of the model.
LEMMA LocalIsInstant ==
  ASSUME NEW l \in Int, l \in Locals
  PROVE  l \in Schedule!Instants
<1>1. PICK p : p = (LastDate + 2) * DayLength
  OBVIOUS
<1>2. p \in Nat /\ Reach \in Nat /\ DayLength \in Nat /\ l \in 0..p
  BY <1>1, ScheduleNumbers DEF Locals
<1>3. -DayLength <= l /\ l <= p + Reach
  BY <1>2
<1> QED BY <1>1, <1>3, InstantsAre

LEMMA ShiftedIsInstant ==
  ASSUME ZoneOK, NEW l \in Int, l \in Locals, l - zone.by >= zone.at
  PROVE  l - zone.by \in Schedule!Instants
<1>1. PICK a, b, p : a = zone.at /\ b = zone.by /\ p = (LastDate + 2) * DayLength
  OBVIOUS
<1>2. a \in Int /\ b \in Int /\ -Reach <= b /\ b <= Reach /\ l - b >= a /\ -DayLength <= a
  BY <1>1, ScheduleNumbers, InstantsAre DEF ZoneOK
<1>3. p \in Nat /\ Reach \in Nat /\ DayLength \in Nat /\ l \in 0..p
  BY <1>1, ScheduleNumbers DEF Locals
<1>4. l - b \in Int /\ -DayLength <= l - b /\ l - b <= p + Reach
  BY <1>2, <1>3
<1> QED BY <1>1, <1>4, InstantsAre

\* A local time is found where it is; one that was left out, at the change.
LEMMA ResolvedAre ==
  ASSUME ZoneOK, NEW l \in Int, l \in Locals, Schedule!ResolveLocal(l) # {}
  PROVE  \/ Schedule!Copies(l) # {} /\ Schedule!ResolveLocal(l) = Schedule!Copies(l)
         \/ /\ zone.by > 0 /\ zone.at <= l /\ l < zone.at + zone.by
            /\ Schedule!ResolveLocal(l) = {zone.at}
<1>1. PICK a, b : a = zone.at /\ b = zone.by
  OBVIOUS
<1>2. a \in Int /\ b \in Int /\ -Reach <= b /\ b <= Reach /\ Reach \in Nat /\ a \in Schedule!Instants
  BY <1>1, ScheduleNumbers DEF ZoneOK
<1>3. PICK K : K = {k \in 0..Advance : Schedule!Copies(l + k) # {}}
  OBVIOUS
<1>4. Schedule!ResolveLocal(l) = IF K = {} THEN {} ELSE Schedule!Copies(l + Schedule!Min(K))
  BY <1>3, Zenon DEF Schedule!ResolveLocal
<1>5. K # {} /\ K \in SUBSET Nat
  BY <1>3, <1>4, ScheduleNumbers
<1>6. PICK k : k = Schedule!Min(K)
  OBVIOUS
<1>7. k \in K /\ \A y \in K : k <= y
  BY <1>5, <1>6, ScheduleLeast
<1>8. k \in Nat /\ k <= Advance /\ Schedule!Copies(l + k) # {} /\ Schedule!ResolveLocal(l) = Schedule!Copies(l + k)
  <2>1. k \in 0..Advance /\ Schedule!Copies(l + k) # {}
    BY <1>3, <1>7
  <2>2. Schedule!ResolveLocal(l) = Schedule!Copies(l + k)
    BY <1>4, <1>5, <1>6
  <2>3. Advance \in Nat
    BY ScheduleNumbers
  <2>4. k \in Nat /\ k <= Advance
    BY <2>1, <2>3
  <2> QED BY <2>1, <2>2, <2>4
<1>9. CASE Schedule!Copies(l) # {}
  <2>1. 0 \in K
    <3>1. l + 0 = l /\ 0 \in 0..Advance
      BY ScheduleNumbers
    <3> QED BY <1>3, <1>9, <3>1
  <2>2. k = 0
    BY <1>7, <1>8, <2>1
  <2>3. l + k = l
    BY <2>2
  <2> QED BY <1>8, <1>9, <2>3
<1>10. CASE Schedule!Copies(l) = {}
  <2>1. ~(l < a)
    <3>1. l \in Schedule!Instants
      BY LocalIsInstant
    <3> QED BY <1>1, <1>10, <3>1, CopiesAre
  <2>2. ~(l - b >= a)
    <3>1. SUFFICES ASSUME l - b >= a PROVE FALSE
      OBVIOUS
    <3>2. l - b \in Schedule!Instants
      BY <1>1, <3>1, ShiftedIsInstant
    <3>3. l - b \in Schedule!Copies(l)
      BY <1>1, <3>1, <3>2, CopiesAre
    <3> QED BY <1>10, <3>3
  <2>3. b > 0 /\ a <= l /\ l < a + b
    BY <1>2, <2>1, <2>2
  <2>4. k > 0
    <3>1. k # 0
      <4>1. l + 0 = l
        OBVIOUS
      <4> QED BY <1>8, <1>10, <4>1
    <3> QED BY <1>8, <3>1
  <2>5. l + k \in Int
    BY <1>8
  <2>6. PICK v : v \in Schedule!Copies(l + k)
    BY <1>8
  <2>7. v \in Int /\ ((v < a /\ v = l + k) \/ (v >= a /\ v = (l + k) - b))
    BY <1>1, <2>5, <2>6, CopiesAre, InstantsAre
  <2>8. l + k >= a + b
    BY <1>2, <1>8, <2>3, <2>4, <2>7
  <2>9. l + k = a + b
    <3>1. PICK j : j = (a + b) - l
      OBVIOUS
    <3>2. j \in Nat /\ j <= Advance /\ l + j = a + b
      BY <1>2, <1>8, <2>3, <2>8, <3>1, ScheduleNumbers
    <3>3. a \in Schedule!Copies(l + j)
      <4>1. l + j \in Int /\ a = (l + j) - b /\ a >= a
        BY <1>2, <3>2
      <4> QED BY <1>1, <1>2, <4>1, CopiesAre
    <3>4. j \in K
      BY <1>3, <3>2, <3>3, ScheduleNumbers
    <3>5. k <= j
      BY <1>7, <3>4
    <3> QED BY <1>2, <1>8, <2>8, <3>2, <3>5
  <2>10. ASSUME NEW u PROVE u \in Schedule!Copies(l + k) <=> u = a
    <3>1. u \in Schedule!Copies(l + k) <=>
            u \in Schedule!Instants /\ ((u < a /\ u = l + k) \/ (u >= a /\ u = (l + k) - b))
      BY <1>1, <2>5, CopiesAre
    <3>2. u \in Schedule!Instants => u \in Int
      BY InstantsAre
    <3>3. (l + k) - b = a /\ ~(l + k < a) /\ a >= a
      BY <1>2, <2>3, <2>9
    <3> QED BY <1>2, <3>1, <3>2, <3>3
  <2>11. Schedule!ResolveLocal(l) = {a}
    BY <1>8, <2>10
  <2> QED BY <1>1, <2>3, <2>11
<1> QED BY <1>9, <1>10

\* The least and the greatest of what a local time resolves to.
LEMMA EdgesAre ==
  ASSUME ZoneOK, NEW l \in Int, l \in Locals, Schedule!ResolveLocal(l) # {}
  PROVE  FirstOf(l, Schedule!Min(Schedule!ResolveLocal(l))) /\ LastOf(l, Schedule!Max(Schedule!ResolveLocal(l)))
<1>1. PICK a, b : a = zone.at /\ b = zone.by
  OBVIOUS
<1>2. a \in Int /\ b \in Int
  BY <1>1 DEF ZoneOK
<1>3. PICK R : R = Schedule!ResolveLocal(l)
  OBVIOUS
<1>4. /\ Forth \in Int /\ Forth >= 0 /\ Forth >= b
      /\ Back \in Int /\ Back >= 0 /\ Back >= -b
  BY <1>1, <1>2 DEF Forth, Back
<1>5. ASSUME NEW u \in Schedule!Instants PROVE u \in Int /\ Schedule!Local(u) = IF u < a THEN u ELSE u + b
  BY <1>1, InstantsAre DEF Schedule!Local
<1>6. CASE b > 0 /\ a <= l /\ l < a + b /\ R = {a}
  <2>1. Schedule!Min(R) = a /\ Schedule!Max(R) = a
    <3>1. \E x \in R : \A y \in R : x <= y
      BY <1>2, <1>6
    <3>2. \E x \in R : \A y \in R : x >= y
      BY <1>2, <1>6
    <3>3. Schedule!Min(R) \in R /\ Schedule!Max(R) \in R
      BY <3>1, <3>2, Zenon DEF Schedule!Min, Schedule!Max
    <3> QED BY <1>6, <3>3
  <2>2. FirstOf(l, a)
    <3>1. a >= l - Forth
      BY <1>2, <1>4, <1>6
    <3>2. ASSUME NEW u \in Schedule!Instants, Schedule!Local(u) >= l PROVE u >= a
      BY <1>2, <1>5, <1>6, <3>2
    <3> QED BY <1>2, <3>1, <3>2 DEF FirstOf
  <2>3. LastOf(l, a)
    <3>1. a <= l + Back
      BY <1>2, <1>4, <1>6
    <3>2. ASSUME NEW u \in Schedule!Instants, Schedule!Local(u) < l PROVE u < a
      BY <1>2, <1>5, <1>6, <3>2
    <3> QED BY <1>2, <3>1, <3>2 DEF LastOf
  <2> QED BY <1>3, <2>1, <2>2, <2>3
<1>7. CASE R = Schedule!Copies(l)
  <2>1. ASSUME NEW u \in R PROVE u \in Int /\ ((u < a /\ u = l) \/ (u >= a /\ u = l - b))
    BY <1>1, <1>7, CopiesAre, InstantsAre
  <2>2. \E x \in R : \A y \in R : x <= y
    <3>1. PICK x \in R : TRUE
      BY <1>3
    <3>2. CASE \A y \in R : x <= y
      BY <3>2
    <3>3. CASE \E y \in R : ~(x <= y)
      <4>1. PICK y \in R : ~(x <= y)
        BY <3>3
      <4>2. \A z \in R : y <= z
        BY <1>2, <2>1, <4>1
      <4> QED BY <4>2
    <3> QED BY <3>2, <3>3
  <2>3. \E x \in R : \A y \in R : x >= y
    <3>1. PICK x \in R : TRUE
      BY <1>3
    <3>2. CASE \A y \in R : x >= y
      BY <3>2
    <3>3. CASE \E y \in R : ~(x >= y)
      <4>1. PICK y \in R : ~(x >= y)
        BY <3>3
      <4>2. \A z \in R : y >= z
        BY <1>2, <2>1, <4>1
      <4> QED BY <4>2
    <3> QED BY <3>2, <3>3
  <2>4. PICK s, e : s = Schedule!Min(R) /\ e = Schedule!Max(R)
    OBVIOUS
  <2>5. s \in R /\ \A y \in R : s <= y
    BY <2>2, <2>4, Zenon DEF Schedule!Min
  <2>6. e \in R /\ \A y \in R : e >= y
    BY <2>3, <2>4, Zenon DEF Schedule!Max
  <2>7. /\ s \in Int /\ ((s < a /\ s = l) \/ (s >= a /\ s = l - b))
        /\ e \in Int /\ ((e < a /\ e = l) \/ (e >= a /\ e = l - b))
    BY <2>1, <2>5, <2>6
  <2>8. l < a => l \in R
    <3>1. SUFFICES ASSUME l < a PROVE l \in R
      OBVIOUS
    <3> QED BY <1>1, <1>7, <3>1, LocalIsInstant, CopiesAre
  <2>9. l - b >= a => l - b \in R
    <3>1. SUFFICES ASSUME l - b >= a PROVE l - b \in R
      OBVIOUS
    <3>2. l - b \in Schedule!Instants
      BY <1>1, <3>1, ShiftedIsInstant
    <3> QED BY <1>1, <1>7, <3>1, <3>2, CopiesAre
  <2>10. (l < a => s <= l) /\ (l - b >= a => e >= l - b)
    BY <2>5, <2>6, <2>8, <2>9
  <2>11. FirstOf(l, s)
    <3>1. s >= l - Forth
      BY <1>2, <1>4, <2>7
    <3>2. ASSUME NEW u \in Schedule!Instants, Schedule!Local(u) >= l PROVE u >= s
      BY <1>2, <1>5, <2>7, <2>10, <3>2
    <3> QED BY <2>7, <3>1, <3>2 DEF FirstOf
  <2>12. LastOf(l, e)
    <3>1. e <= l + Back
      BY <1>2, <1>4, <2>7
    <3>2. ASSUME NEW u \in Schedule!Instants, Schedule!Local(u) < l PROVE u < e
      BY <1>2, <1>5, <2>7, <2>10, <3>2
    <3> QED BY <2>7, <3>1, <3>2 DEF LastOf
  <2> QED BY <1>3, <2>4, <2>11, <2>12
<1> QED BY <1>1, <1>3, <1>6, <1>7, ResolvedAre

\* The window of a date of the schedule lies within the local times looked at.
LEMMA BordersAreLocal ==
  ASSUME ScheduleOK, NEW d \in 0..LastDate
  PROVE  /\ Schedule!LocalStart(d) \in Int /\ Schedule!LocalStart(d) \in Locals
         /\ Schedule!LocalEnd(d) \in Int /\ Schedule!LocalEnd(d) \in Locals
<1>1. /\ DayLength \in Nat /\ DayLength > 0 /\ LastDate \in Nat /\ d \in Nat /\ d <= LastDate
      /\ schedule.start \in 0..(DayLength - 1) /\ schedule.end \in 0..(DayLength - 1)
  BY ScheduleNumbers DEF ScheduleOK
<1>2. PICK n \in Nat : LastDate = d + n
  <2>1. LastDate - d \in Nat /\ LastDate = d + (LastDate - d)
    BY <1>1
  <2> QED BY <2>1
<1>3. PICK p, q, t : p = d * DayLength /\ q = n * DayLength /\ t = (LastDate + 2) * DayLength
  OBVIOUS
<1>4. p \in Nat /\ q \in Nat
  BY <1>1, <1>2, <1>3
<1>5. t = p + q + DayLength + DayLength /\ (d + 1) * DayLength = p + DayLength /\ (d + 0) * DayLength = p
  BY <1>1, <1>2, <1>3
<1>6. Schedule!LocalStart(d) = p + schedule.start
  BY <1>3 DEF Schedule!LocalStart
<1>7. Schedule!LocalEnd(d) = p + schedule.end \/ Schedule!LocalEnd(d) = (p + DayLength) + schedule.end
  <2>1. CASE schedule.end < schedule.start
    BY <1>5, <2>1 DEF Schedule!LocalEnd, Schedule!Overnight
  <2>2. CASE ~(schedule.end < schedule.start)
    BY <1>5, <2>2 DEF Schedule!LocalEnd, Schedule!Overnight
  <2> QED BY <2>1, <2>2
<1>8. PICK x, y : x = Schedule!LocalStart(d) /\ y = Schedule!LocalEnd(d)
  OBVIOUS
<1>9. x \in 0..t /\ y \in 0..t
  BY <1>1, <1>4, <1>5, <1>6, <1>7, <1>8
<1>10. x \in Int /\ y \in Int
  BY <1>1, <1>4, <1>6, <1>7, <1>8
<1>11. Locals = 0..t
  BY <1>3, Zenon DEF Locals
<1> QED BY <1>8, <1>9, <1>10, <1>11

\* A date that resolves, from its first instant to its last.
LEMMA DateResolves ==
  ASSUME ZoneOK, ScheduleOK, NEW d \in 0..LastDate, Schedule!Resolvable(d)
  PROVE  /\ FirstOf(Schedule!LocalStart(d), Schedule!StartOf(d))
         /\ LastOf(Schedule!LocalEnd(d), Schedule!EndOf(d))
BY BordersAreLocal, EdgesAre DEF Schedule!Resolvable, Schedule!StartOf, Schedule!EndOf

\* The alert's date and the one before: if any fits, there is one that starts last.
LEMMA DateIsChosen ==
  ASSUME ZoneOK, ScheduleOK, \A e \in Schedule!Dates : Schedule!Resolvable(e), Schedule!Candidates # {}
  PROVE  \E c \in Schedule!Candidates : \A e \in Schedule!Candidates : Schedule!StartOf(e) <= Schedule!StartOf(c)
<1>1. PICK c \in Schedule!Candidates : TRUE
  OBVIOUS
<1>2. ASSUME NEW e \in Schedule!Candidates PROVE Schedule!StartOf(e) \in Int
  <2>1. e \in 0..LastDate /\ Schedule!Resolvable(e)
    BY DEF Schedule!Candidates, Schedule!Dates, ScheduleOK
  <2> QED BY <2>1, DateResolves DEF FirstOf
<1>3. PICK x, y : Schedule!Candidates \subseteq {x, y}
  <2>1. PICK x, y : x = Schedule!Local(started) \div DayLength /\ y = Schedule!Local(started) \div DayLength - 1
    OBVIOUS
  <2>2. Schedule!Candidates \subseteq {x, y}
    BY <2>1, Zenon DEF Schedule!Candidates, Schedule!Dates
  <2> QED BY <2>2
<1>4. CASE \A e \in Schedule!Candidates : Schedule!StartOf(e) <= Schedule!StartOf(c)
  BY <1>4
<1>5. CASE \E e \in Schedule!Candidates : ~(Schedule!StartOf(e) <= Schedule!StartOf(c))
  <2>1. PICK e \in Schedule!Candidates : ~(Schedule!StartOf(e) <= Schedule!StartOf(c))
    BY <1>5
  <2>2. Schedule!StartOf(e) \in Int /\ Schedule!StartOf(c) \in Int
    BY <1>2
  <2>3. Schedule!StartOf(c) <= Schedule!StartOf(e) /\ Schedule!StartOf(e) <= Schedule!StartOf(e) /\ e # c
    BY <2>1, <2>2
  <2>4. Schedule!Candidates \subseteq {c, e}
    BY <1>3, <2>3
  <2> QED BY <2>3, <2>4
<1> QED BY <1>4, <1>5

ScheduleInv == ZoneOK /\ ScheduleOK /\ OccurrenceCovers

LEMMA ScheduleInit == Schedule!Init => ScheduleInv
<1> SUFFICES ASSUME Schedule!Init PROVE ScheduleInv
  OBVIOUS
<1>1. PICK by \in Shifts, at \in 1..((LastDate + 1) * DayLength) : zone = [at |-> at, by |-> by]
  BY DEF Schedule!Init
<1>2. ZoneOK
  <2>1. zone.at = at /\ zone.by = by /\ by \in (-Reach)..Reach
    BY <1>1, ScheduleAssumption
  <2>2. PICK p, q : p = (LastDate + 1) * DayLength /\ q = (LastDate + 2) * DayLength
    OBVIOUS
  <2>3. p \in Nat /\ q \in Nat /\ p <= q /\ Reach \in Nat /\ DayLength \in Nat /\ at \in 1..p
    BY <1>1, <2>2, ScheduleNumbers
  <2>4. at \in Int /\ -DayLength <= at /\ at <= q + Reach
    BY <2>3
  <2>5. at \in Schedule!Instants
    BY <2>2, <2>4, InstantsAre
  <2> QED BY <2>1, <2>4, <2>5 DEF ZoneOK
<1>3. ScheduleOK
  <2>1. /\ schedule.days \subseteq 0..LastDate /\ schedule.start \in 0..(DayLength - 1)
        /\ schedule.end \in 0..(DayLength - 1) /\ schedule.duration \in 1..MaxDuration
    BY DEF Schedule!Init, Schedule!Schedules
  <2>2. started \in Int /\ schedule.duration \in Int
    BY <2>1 DEF Schedule!Init
  <2> QED BY <2>1, <2>2 DEF ScheduleOK
<1>4. OccurrenceCovers
  BY DEF Schedule!Init, Schedule!NotResolved, OccurrenceCovers, Schedule!OccurrenceCovers
<1> QED BY <1>2, <1>3, <1>4 DEF ScheduleInv

LEMMA ScheduleResolve == ASSUME ScheduleInv, Schedule!Resolve PROVE ScheduleInv'
<1>1. zone' = zone /\ schedule' = schedule /\ started' = started /\ ZoneOK /\ ScheduleOK
  BY DEF Schedule!Resolve, ScheduleInv
<1>2. ZoneOK' /\ ScheduleOK'
  BY <1>1 DEF ZoneOK, ScheduleOK, Schedule!Instants
<1>3. CASE (\E d \in Schedule!Dates : ~Schedule!Resolvable(d)) \/ Schedule!Candidates = {}
  <2>1. occurrence' = [Schedule!NotResolved EXCEPT !.known = TRUE]
    BY <1>3, Zenon DEF Schedule!Resolve
  <2>2. occurrence'.ok = FALSE
    BY <2>1 DEF Schedule!NotResolved
  <2>3. OccurrenceCovers'
    BY <2>2 DEF OccurrenceCovers, Schedule!OccurrenceCovers
  <2> QED BY <1>2, <2>3 DEF ScheduleInv
<1>4. CASE ~((\E d \in Schedule!Dates : ~Schedule!Resolvable(d)) \/ Schedule!Candidates = {})
  <2>1. PICK d : d = CHOOSE c \in Schedule!Candidates : \A e \in Schedule!Candidates : Schedule!StartOf(e) <= Schedule!StartOf(c)
    OBVIOUS
  <2>2. occurrence' = [known |-> TRUE, ok |-> TRUE, date |-> d, start |-> Schedule!StartOf(d), end |-> Schedule!EndOf(d),
                       boundary |-> Schedule!Min({started + schedule.duration, Schedule!EndOf(d)})]
    BY <1>4, <2>1, Zenon DEF Schedule!Resolve
  <2>3. d \in Schedule!Candidates
    <3>1. \E c \in Schedule!Candidates : \A e \in Schedule!Candidates : Schedule!StartOf(e) <= Schedule!StartOf(c)
      BY <1>1, <1>4, DateIsChosen
    <3> QED BY <2>1, <3>1, Zenon
  <2>4. d \in 0..LastDate /\ Schedule!Resolvable(d)
    BY <1>1, <1>4, <2>3 DEF Schedule!Candidates, Schedule!Dates, ScheduleOK
  <2>5. PICK x, y, s, e : /\ x = Schedule!LocalStart(d) /\ y = Schedule!LocalEnd(d)
                          /\ s = Schedule!StartOf(d) /\ e = Schedule!EndOf(d)
    OBVIOUS
  <2>6. FirstOf(x, s) /\ LastOf(y, e) /\ x \in Int /\ y \in Int
    BY <1>1, <2>4, <2>5, DateResolves, BordersAreLocal
  <2>7. /\ Schedule!LocalStart(occurrence.date)' = x /\ Schedule!LocalEnd(occurrence.date)' = y
        /\ occurrence'.start = s /\ occurrence'.end = e
        /\ occurrence'.boundary = Schedule!Min({started + schedule.duration, e})
    BY <1>1, <2>2, <2>5 DEF Schedule!LocalStart, Schedule!LocalEnd, Schedule!Overnight
  <2>8. ASSUME NEW u \in Schedule!Window' PROVE u \in s..(e - 1)
    <3>1. u \in Schedule!Instants /\ x <= Schedule!Local(u) /\ Schedule!Local(u) < y
      BY <1>1, <2>7 DEF Schedule!Window, Schedule!Local, Schedule!Instants
    <3>2. u \in Int /\ Schedule!Local(u) \in Int
      BY <1>1, <3>1, InstantsAre DEF ZoneOK, Schedule!Local
    <3>3. Schedule!Local(u) >= x
      BY <2>6, <3>1, <3>2
    <3>4. u >= s /\ u < e /\ s \in Int /\ e \in Int
      BY <2>6, <3>1, <3>3 DEF FirstOf, LastOf
    <3> QED BY <3>2, <3>4
  <2>9. e - s <= (y - x) + Schedule!Size(zone.by)
    <3>1. zone.by \in Int /\ s \in Int /\ e \in Int /\ s >= x - Forth /\ e <= y + Back
      BY <1>1, <2>6 DEF ZoneOK, FirstOf, LastOf
    <3> QED BY <2>6, <3>1 DEF Forth, Back, Schedule!Size
  <2>10. Schedule!Min({started + schedule.duration, e}) <= e
    <3>1. PICK z : z = started + schedule.duration
      OBVIOUS
    <3>2. z \in Int /\ e \in Int
      BY <1>1, <2>6, <3>1 DEF ScheduleOK, LastOf
    <3>3. \E v \in {z, e} : \A w \in {z, e} : v <= w
      BY <3>2
    <3>4. \A w \in {z, e} : Schedule!Min({z, e}) <= w
      BY <3>3, Zenon DEF Schedule!Min
    <3> QED BY <3>1, <3>4
  <2>11. Schedule!Length' = y - x
    BY <2>7, Zenon DEF Schedule!Length
  <2>12. OccurrenceCovers'
    <3>1. Schedule!Window' \subseteq s..(e - 1)
      BY <2>8
    <3>2. Schedule!Size(zone.by)' = Schedule!Size(zone.by)
      BY <1>1 DEF Schedule!Size
    <3>3. Schedule!Window' \subseteq occurrence'.start..(occurrence'.end - 1)
      BY <2>7, <3>1, Zenon
    <3>4. occurrence'.end - occurrence'.start <= Schedule!Length' + Schedule!Size(zone.by)'
      BY <2>7, <2>9, <2>11, <3>2, Zenon
    <3>5. occurrence'.boundary <= occurrence'.end
      BY <2>7, <2>10, Zenon
    <3> QED BY <3>3, <3>4, <3>5, Zenon DEF OccurrenceCovers, Schedule!OccurrenceCovers
  <2> QED BY <1>2, <2>12 DEF ScheduleInv
<1> QED BY <1>3, <1>4

LEMMA ScheduleNext == ScheduleInv /\ [Schedule!Next]_Schedule!vars => ScheduleInv'
<1>1. ASSUME ScheduleInv, UNCHANGED Schedule!vars PROVE ScheduleInv'
  BY <1>1 DEF Schedule!vars, ScheduleInv, ZoneOK, ScheduleOK, Schedule!Instants, OccurrenceCovers,
     Schedule!OccurrenceCovers, Schedule!Window, Schedule!Length, Schedule!Size, Schedule!Local,
     Schedule!LocalStart, Schedule!LocalEnd, Schedule!Overnight
<1> QED BY <1>1, ScheduleResolve DEF Schedule!Next

\* For every length of day, every schedule, alert and change of the clock the search covers: a
\* resolved occurrence holds every instant of the window the operator wrote, both copies of a
\* repeated time included, is longer than it reads by no more than the change, and its
\* authority ends with it (resolveExpectedBehaviorRange, ResolveExpectedBehaviorOccurrence).
THEOREM ScheduleCovers == Schedule!Spec => []OccurrenceCovers
<1>1. ScheduleInv => OccurrenceCovers
  BY DEF ScheduleInv
<1> QED BY <1>1, ScheduleInit, ScheduleNext, PTL DEF Schedule!Spec
=============================================================================
