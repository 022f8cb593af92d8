-------------------------- MODULE OperatorAuthority --------------------------
(***************************************************************************)
(* What an operator may declare about one open Situation, and how long the *)
(* controller may stay quiet because of it: the judgment that the current  *)
(* condition is expected, the reusable expected-behaviour envelope derived *)
(* from it, the validation of the envelope's companion signal, and the     *)
(* controller commit that hides the human request under either             *)
(* (internal/store/situation_judgments.go, expected_behavior.go,           *)
(* expected_behavior_validation.go; internal/situation/judgment.go,        *)
(* expected_behavior.go; cmd/alertint/situation_preparation.go).           *)
(*                                                                         *)
(* One group, one Situation, one envelope, one controller run at a time.   *)
(* An envelope has at most one binding, a companion that must be present.  *)
(* A source definition is a number, 0 when it is unavailable; an impact is *)
(* a number, 0 before the first Assessment.  An idempotent replay of a     *)
(* request answers from the stored row and is left out.                    *)
(***************************************************************************)
EXTENDS Integers, FiniteSets

CONSTANTS
  Symptoms,          \* alerts that may fire
  Critical,          \* those of critical severity
  Impacts,           \* what an Assessment may conclude
  Definitions,       \* versions of the source's definition
  Envelopes,         \* subset of BOOLEAN: envelopes without and with a companion
  MaxTime,           \* bound on the clock
  MaxWrites,         \* bound on operator writes
  MaxInputs,         \* bound on changes of the firing alerts
  MaxCycles          \* bound on controller runs

VARIABLES
  clock,
  version,           \* situations.input_version
  ended,             \* situations.terminal_at is set
  assessment,        \* committed impact and Attention
  next, retry,       \* next_assessment_at; retry_at, 0 when NULL
  lease,             \* lease_owner is set
  contract,          \* committed action contract: what keeps it quiet
  firing,            \* the firing alerts, as correlated
  queue,             \* correlated changes whose input is not applied yet
  observed,          \* zabbix_source_observation_heads: definition and companion
  judgment,          \* situation_judgment_heads
  envelope,          \* expected_behavior_envelope_heads
  validation,        \* the newest expected_behavior_validation_requests row
  proc,              \* the controller run in progress
  broken,            \* judgments whose facts were seen to change
  writes, inputs, cycles

situation == <<version, ended, assessment, contract>>
schedule == <<next, retry, lease>>
facts == <<firing, queue, observed>>
authority == <<judgment, envelope, validation>>
bounds == <<writes, inputs, cycles>>
vars == <<clock, situation, schedule, facts, authority, proc, broken, bounds>>

Far == MaxTime + 1
Later == (clock + 1)..Far
MinOf(a, b) == IF a < b THEN a ELSE b

Idle == [at |-> "idle", version |-> 0, next |-> 0, heads |-> FALSE, firing |-> {}, definition |-> 0,
         rev |-> 0, verdict |-> "none", ver |-> 0, status |-> "none", until |-> 0]
NoJudgment == [rev |-> 0, state |-> "none", until |-> 0, symptoms |-> {}, impact |-> 0,
               definition |-> 0, invalid |-> FALSE]
NoEnvelope == [ver |-> 0, state |-> "none", until |-> 0, definition |-> 0, companion |-> FALSE,
               symptoms |-> {}, invalid |-> FALSE]
NoValidation == [version |-> 0, status |-> "none", until |-> 0]
Loud == [quiet |-> FALSE, rev |-> 0, ver |-> 0, until |-> 0]

Init ==
  /\ clock = 0 /\ version = 1 /\ ended = FALSE
  /\ assessment = [impact |-> 1, urgent |-> FALSE]
  /\ next = 0 /\ retry = 0 /\ lease = FALSE /\ contract = Loud
  /\ \E s \in Symptoms \ Critical : firing = {s}
  /\ queue = 0
  /\ observed = [definition |-> 1, companion |-> FALSE, until |-> 1]
  /\ judgment = NoJudgment /\ envelope = NoEnvelope /\ validation = NoValidation
  /\ proc = Idle /\ broken = {} /\ writes = 0 /\ inputs = 0 /\ cycles = 0

Tick == clock < MaxTime /\ clock' = clock + 1 /\ UNCHANGED <<situation, schedule, facts, authority, proc, broken, bounds>>
-----------------------------------------------------------------------------
\* Evaluation.

\* loadCurrentZabbixSourceObservationsTx: a head past its end is unavailable.
Known == IF clock < observed.until THEN observed.definition ELSE 0

\* hasCriticalFiring, and DeriveExpectedJudgmentCoverage: there is an Assessment and
\* something fires.
Urgent(a, alerts) == a.urgent \/ alerts \cap Critical # {}
Derivable(a, alerts) == a.impact # 0 /\ alerts # {}

\* The facts a judgment covers are the facts now.
FactsHold(j, a, alerts, definition) ==
  /\ ~Urgent(a, alerts) /\ Derivable(a, alerts)
  /\ a.impact = j.impact /\ alerts = j.symptoms /\ definition = j.definition

\* EvaluateExpectedJudgment: revoked, over, or of an ended Situation is "lapsed"; a
\* change of the facts is "broken", which alone is stored.
Verdict(j, a, ends, alerts, definition, now) ==
  CASE j.rev = 0 -> "none"
    [] j.rev # 0 /\ (j.state # "expected" \/ now >= j.until \/ ends) -> "lapsed"
    [] OTHER -> IF FactsHold(j, a, alerts, definition) THEN "applies" ELSE "broken"

Current == Verdict(judgment, assessment, ended, firing, Known, clock)

\* evaluateExpectedBehaviorCandidate: the ordered gates.  A definition that changed
\* is told apart, for it retires the envelope; the others only deny a match.
Status(e, a, alerts, definition, now) ==
  CASE e.ver = 0 -> "none"
    [] e.ver # 0 /\ (e.state = "revoked" \/ e.invalid) -> "inactive"
    [] OTHER ->
         IF Urgent(a, alerts) \/ e.symptoms \cap alerts = {} \/ definition = 0 THEN "denied"
         ELSE IF definition # e.definition THEN "changed"
         ELSE IF \/ now >= e.until
                 \/ e.companion /\ (now >= observed.until \/ ~observed.companion)
                 \/ ~(alerts \subseteq e.symptoms) THEN "denied"
         ELSE "matched"

\* The end of what a match rests on: the occurrence, and the companion's observation.
MatchEnds(e) == IF e.companion THEN MinOf(e.until, observed.until) ELSE e.until

\* Faulty: the change is left for the next controller run to see.
LeftToController(j, definition) == j

\* persistObservedSituationJudgmentInvalidationTx.
Retired(j, definition) ==
  IF Verdict(j, assessment, ended, firing, definition, clock) = "broken" THEN [j EXCEPT !.invalid = TRUE] ELSE j

\* What the facts seen in this step break.
Breaks(definition) ==
  IF Verdict(judgment, assessment, ended, firing, definition, clock) = "broken"
  THEN broken \cup {judgment.rev} ELSE broken

\* wakeExpectedBehaviorGroupsTx, and the updates of the same shape in
\* WriteSituationJudgment and PrepareExpectedBehaviorValidation.
Wake ==
  /\ version' = version + 1 /\ next' = clock /\ retry' = 0 /\ lease' = FALSE
  /\ UNCHANGED <<ended, assessment, contract>>
-----------------------------------------------------------------------------
\* The source.

\* The correlator attaches a delivery: the change shows at once, its input waits.
Correlate(alerts) ==
  /\ inputs < MaxInputs /\ alerts # firing
  /\ firing' = alerts /\ queue' = queue + 1 /\ inputs' = inputs + 1
  /\ UNCHANGED <<clock, situation, schedule, observed, authority, proc, broken, writes, cycles>>

\* ApplySituationInputResult; after the end the input is only marked.
ApplyInput ==
  /\ queue > 0 /\ queue' = queue - 1
  /\ \/ ended /\ UNCHANGED <<situation, schedule, judgment, broken>>
     \/ /\ ~ended /\ Wake
        /\ judgment' = Retired(judgment, Known)
        /\ broken' = Breaks(Known)
  /\ UNCHANGED <<clock, firing, observed, envelope, validation, proc, bounds>>
-----------------------------------------------------------------------------
\* The operator (mcp/server_expected_behavior.go and the judgment tools).

Operator == ~ended /\ writes < MaxWrites /\ writes' = writes + 1

\* WriteSituationJudgment with record, replace or restore: the condition of this very
\* moment is covered.
DeclareExpected(until) ==
  LET j == [rev |-> judgment.rev + 1, state |-> "expected", until |-> until, symptoms |-> firing,
            impact |-> assessment.impact, definition |-> Known, invalid |-> FALSE]
  IN
  /\ Operator
  /\ Verdict(j, assessment, ended, firing, Known, clock) = "applies"
  /\ judgment' = j /\ Wake
  /\ UNCHANGED <<clock, facts, envelope, validation, proc, broken, inputs, cycles>>

\* WriteSituationJudgment with revoke; an invalidated judgment can still be revoked.
RevokeExpected ==
  /\ Operator /\ judgment.state = "expected"
  /\ judgment' = [judgment EXCEPT !.rev = @ + 1, !.state = "revoked", !.invalid = FALSE]
  /\ Wake
  /\ UNCHANGED <<clock, facts, envelope, validation, proc, broken, inputs, cycles>>

\* PrepareExpectedBehaviorValidation: an unexpired request for this input is returned,
\* a new one wakes the Situation and names the version after the wake.
PrepareValidation ==
  /\ Operator /\ TRUE \in Envelopes
  /\ ~(validation.version \in {version, version + 1} /\ clock < validation.until)
  /\ validation' = [version |-> version + 1, status |-> "pending", until |-> clock + 1]
  /\ Wake
  /\ UNCHANGED <<clock, facts, judgment, envelope, proc, broken, inputs, cycles>>

\* verifyExpectedBehaviorSourceTx and verifyExpectedBehaviorValidationTx.
Proven(companion) ==
  /\ ~judgment.invalid /\ Current = "applies" /\ judgment.definition # 0
  /\ companion => /\ validation.version = version /\ validation.status = "ready"
                  /\ clock < validation.until

\* WriteExpectedBehavior with confirm, replace or restore.
ConfirmEnvelope(until, companion) ==
  /\ Operator /\ Proven(companion)
  /\ envelope' = [ver |-> envelope.ver + 1, state |-> "active", until |-> until,
                  definition |-> judgment.definition, companion |-> companion,
                  symptoms |-> judgment.symptoms, invalid |-> FALSE]
  /\ Wake
  /\ UNCHANGED <<clock, facts, judgment, validation, proc, broken, inputs, cycles>>

\* WriteExpectedBehavior with revoke.
RevokeEnvelope ==
  /\ Operator /\ envelope.state = "active" /\ ~envelope.invalid
  /\ envelope' = [envelope EXCEPT !.ver = @ + 1, !.state = "revoked"]
  /\ Wake
  /\ UNCHANGED <<clock, facts, judgment, validation, proc, broken, inputs, cycles>>
-----------------------------------------------------------------------------
\* The controller run.

Due == next <= clock \/ (retry # 0 /\ retry <= clock)
Fenced == lease /\ proc.version = version

\* listExpectedBehaviorHeads: the group has an envelope, in force or not.
Heads == envelope.ver # 0

\* ClaimDueSituations and the first LoadReconciliationInput.
Claim ==
  /\ proc.at = "idle" /\ ~ended /\ ~lease /\ Due /\ cycles < MaxCycles
  /\ lease' = TRUE /\ cycles' = cycles + 1
  /\ proc' = [Idle EXCEPT !.at = "claimed", !.version = version, !.next = next,
                          !.heads = Heads]
  /\ UNCHANGED <<clock, situation, next, retry, facts, authority, broken, writes, inputs>>

\* Prepare, assessment phase: the source is read anew (CommitObservationRun,
\* insertZabbixSourceObservationTx; a changed head retires the judgment and makes the
\* Situation due), or nothing is due for a read.
Observe(definition, companion) ==
  /\ proc.at = "claimed" /\ Fenced
  /\ observed' = [definition |-> definition, companion |-> companion, until |-> clock + 1]
  /\ IF definition # observed.definition
     THEN /\ judgment' = Retired(judgment, definition) /\ broken' = Breaks(definition)
          /\ next' = MinOf(next, clock)
     ELSE UNCHANGED <<judgment, broken, next>>
  /\ proc' = [proc EXCEPT !.at = "observed"]
  /\ UNCHANGED <<clock, situation, retry, lease, firing, queue, envelope, validation, bounds>>

\* None of the plans the envelopes and a pending validation add is due for a read.
Reuse ==
  /\ proc.at = "claimed"
  /\ proc' = [proc EXCEPT !.at = "observed"]
  /\ UNCHANGED <<clock, situation, schedule, facts, authority, broken, bounds>>

Pending == validation.version = proc.version /\ validation.status = "pending" /\ clock < validation.until

\* CompleteExpectedBehaviorValidationsFromCycle.
CompleteValidation ==
  /\ proc.at = "observed" /\ Fenced /\ Pending
  /\ validation' = [validation EXCEPT !.status = IF clock < observed.until THEN "ready" ELSE "unavailable"]
  /\ UNCHANGED <<clock, situation, schedule, facts, judgment, envelope, proc, broken, bounds>>

Changed == Status(envelope, assessment, firing, Known, clock) = "changed"

\* invalidateChangedExpectedBehaviors: fenced by the envelope's version alone; the run
\* then ends as superseded.
InvalidateEnvelope ==
  /\ proc.at = "observed" /\ ~(Fenced /\ Pending) /\ proc.heads /\ Changed /\ ~ended
  /\ envelope' = [envelope EXCEPT !.invalid = TRUE]
  /\ Wake
  /\ proc' = Idle
  /\ UNCHANGED <<clock, facts, judgment, validation, broken, bounds>>

\* LoadReconciliationInput after preparation: one unfenced read.
Load ==
  /\ proc.at = "observed" /\ ~(Fenced /\ Pending) /\ ~(proc.heads /\ Changed)
  /\ proc' = [proc EXCEPT !.at = "loaded", !.firing = firing, !.definition = Known, !.rev = judgment.rev,
                          !.verdict = IF judgment.invalid THEN "broken" ELSE Current,
                          !.ver = envelope.ver,
                          !.status = Status(envelope, assessment, firing, Known, clock),
                          !.until = MatchEnds(envelope)]
  /\ UNCHANGED <<clock, situation, schedule, facts, authority, broken, bounds>>

\* applyExpectedJudgment: what applied when loaded is evaluated again with what this run
\* concluded; urgency overrules everything.
FinalVerdict(a, ends) ==
  IF proc.rev = 0 THEN "none" ELSE IF a.urgent THEN "broken"
  ELSE IF proc.verdict # "applies" THEN proc.verdict
  ELSE Verdict(judgment, a, ends, proc.firing, proc.definition, clock)

\* RefreshExpectedBehaviorEvaluationForCommit and ApplyExpectedBehaviorAuthority.
FinalMatch(a, ends) == proc.status = "matched" /\ ~a.urgent /\ ~ends /\ clock < proc.until

\* verifySituationJudgmentFenceTx; commitExpectedBehaviorEvaluationTx.
JudgmentFence(verdict) ==
  /\ judgment.rev = proc.rev
  /\ verdict = "applies" => ~judgment.invalid /\ judgment.state = "expected" /\ clock < judgment.until
EnvelopeFence ==
  /\ envelope.ver = proc.ver
  /\ proc.ver # 0 => (proc.status = "inactive") = (envelope.state = "revoked" \/ envelope.invalid)

\* Faulty: the promise is not bounded by what it rests on.
Unbounded(base, verdict, match) == base

\* finalizeCheckpoint: the next update is no later than the end of what keeps the
\* Situation quiet.
NextUpdateAt(base, verdict, match) ==
  MinOf(IF verdict = "applies" THEN MinOf(base, judgment.until) ELSE base,
        IF match THEN proc.until ELSE Far)

\* CommitController: a checkpoint someone else brought forward since the claim stays.
Checkpoint(at) == IF next # proc.next THEN MinOf(next, at) ELSE at

Commit(a, ends, base) ==
  LET verdict == FinalVerdict(a, ends)
      match == FinalMatch(a, ends)
  IN
  /\ proc.at = "loaded" /\ Fenced /\ ~ended
  /\ JudgmentFence(verdict) /\ EnvelopeFence
  /\ judgment' = IF verdict = "broken" THEN [judgment EXCEPT !.invalid = TRUE] ELSE judgment
  /\ broken' = IF verdict = "broken" THEN broken \cup {judgment.rev} ELSE broken
  /\ contract' = [quiet |-> verdict = "applies" \/ match,
                  rev |-> IF verdict = "applies" THEN proc.rev ELSE 0,
                  ver |-> IF match THEN proc.ver ELSE 0,
                  until |-> IF match THEN proc.until ELSE 0]
  /\ assessment' = a /\ ended' = ends
  /\ next' = Checkpoint(NextUpdateAt(base, verdict, match))
  /\ retry' = 0 /\ lease' = FALSE
  /\ proc' = Idle
  /\ UNCHANGED <<clock, version, facts, envelope, validation, bounds>>

\* ReleaseControllerWork after a failed or refused run, while its lease stands.
Release ==
  /\ proc.at # "idle" /\ lease
  /\ retry' = clock + 1 /\ next' = Checkpoint(clock + 1) /\ lease' = FALSE
  /\ proc' = Idle
  /\ UNCHANGED <<clock, situation, facts, authority, broken, bounds>>

\* The run ends without its lease: it was superseded, or the process stopped and the
\* lease ran out.
Abandon ==
  /\ proc.at # "idle"
  /\ lease' = FALSE /\ proc' = Idle
  /\ UNCHANGED <<clock, situation, next, retry, facts, authority, broken, bounds>>
-----------------------------------------------------------------------------
Source == ApplyInput \/ \E alerts \in SUBSET Symptoms : Correlate(alerts)

OperatorWrites ==
  \/ RevokeExpected \/ PrepareValidation \/ RevokeEnvelope
  \/ \E until \in Later : \/ DeclareExpected(until)
                          \/ \E companion \in Envelopes : ConfirmEnvelope(until, companion)

Controller ==
  \/ Claim \/ Reuse \/ CompleteValidation \/ InvalidateEnvelope \/ Load \/ Release \/ Abandon
  \/ \E definition \in Definitions \cup {0}, companion \in Envelopes \cup {FALSE} : Observe(definition, companion)
  \/ \E impact \in Impacts, urgent, ends \in BOOLEAN, base \in Later :
       Commit([impact |-> impact, urgent |-> urgent], ends, base)

Next == Tick \/ Source \/ OperatorWrites \/ Controller

Spec == Init /\ [][Next]_vars
-----------------------------------------------------------------------------
\* Properties.

\* Counters stay in their bounds and an invalidated head is a written one.
TypeOK ==
  /\ clock \in 0..MaxTime /\ queue \in 0..MaxInputs /\ next \in 0..Far /\ retry \in 0..Far
  /\ judgment.rev \in 0..MaxWrites /\ envelope.ver \in 0..MaxWrites
  /\ broken \subseteq 1..MaxWrites

\* The commit of a controller run.
Commits == proc.at = "loaded" /\ proc' = Idle /\ assessment'.impact # 0 /\ lease /\ ~lease'

QuietIsFounded ==
  Commits /\ contract' # contract =>
    /\ contract'.rev # 0 => judgment.rev = contract'.rev /\ contract'.rev \notin broken'
    /\ contract'.ver # 0 => envelope.ver = contract'.ver /\ envelope.state = "active" /\ ~envelope.invalid

\* Once an applied input, an observed definition or a conclusion of the controller
\* contradicted a judgment, no later commit is quiet under that judgment, even when the
\* facts are as they were again; and none is quiet under an envelope that was revoked or
\* retired (persistObservedSituationJudgmentInvalidationTx, verifySituationJudgmentFenceTx).
LapsedStaysLapsed == [][QuietIsFounded]_vars

\* What keeps the contract quiet is still in force.
StillHolds ==
  \/ contract.rev # 0 /\ judgment.rev = contract.rev /\ ~judgment.invalid /\ clock < judgment.until
  \/ contract.ver # 0 /\ envelope.ver = contract.ver /\ ~envelope.invalid /\ clock < contract.until

\* A Situation that is quiet by an authority that was revoked, retired or ran out is
\* looked at again: it is due, in work, or its retry is set (WriteSituationJudgment,
\* wakeExpectedBehaviorGroupsTx, finalizeCheckpoint).
NoSilentQuiet == contract.quiet /\ ~ended /\ ~StillHolds => Due \/ lease \/ retry # 0
=============================================================================
