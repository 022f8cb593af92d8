------------------------------ MODULE Decisions ------------------------------
(***************************************************************************)
(* What operators, triage and the controller decide, put side by side: the *)
(* conclusions of the controller (SituationAssessment), the authority an   *)
(* operator lends it (OperatorAuthority) and its schedule                  *)
(* (ExpectedSchedule), the triage skill (TriageSkill), the capture of      *)
(* verdicts (VerdictCapture), what the phone is told (NtfyPush) and what   *)
(* the audit log vouches for (AuditLog). The parts share no state: each is *)
(* an instance over variables of its own, with constants of its own, and   *)
(* its properties are restated here under the names the runs check and the *)
(* theorems prove.                                                         *)
(***************************************************************************)
EXTENDS SituationAssessment, Integers

CONSTANTS
  \* OperatorAuthority
  Symptoms, Critical, Impacts, Definitions, Envelopes, MaxTime, MaxWrites, MaxInputs, MaxCycles,
  \* ExpectedSchedule
  DayLength, LastDate, Shifts, Advance, Reach, MaxTolerance, MaxDuration,
  \* TriageSkill; its Incidents are Triaged
  Triaged, Drills, Verification, HasPromQL, HasZabbix, MaxVerdicts,
  \* VerdictCapture
  Requests, Queries,
  \* NtfyPush
  Situations, Batches, Policies, NoTopic, MaxCommits, MaxClaims, MaxStarts,
  \* AuditLog
  Times, PruneStep, MaxEntries, MaxHarm

VARIABLES
  clock, version, ended, assessment, next, retry, lease, contract, firing, queue, observed,
  judgment, envelope, validation, proc, broken, writes, inputs, cycles,
  zone, schedule, started, occurrence,
  status, judged, marks, verdicts, run,
  phase, joined, ops, captured, notes, demotion, enqueued, counted,
  config, history, rows, worker, shown, committed, starts,
  log, seqno, pass, through, harm

authorityVars == <<clock, version, ended, assessment, next, retry, lease, contract, firing, queue,
                   observed, judgment, envelope, validation, proc, broken, writes, inputs, cycles>>
scheduleVars == <<zone, schedule, started, occurrence>>
skillVars == <<status, judged, marks, verdicts, run>>
captureVars == <<phase, joined, ops, captured, notes, demotion, enqueued, counted>>
pushVars == <<config, history, rows, worker, shown, committed, starts>>
auditVars == <<log, seqno, pass, through, harm>>

Authority == INSTANCE OperatorAuthority
Schedule == INSTANCE ExpectedSchedule
Skill == INSTANCE TriageSkill WITH Incidents <- Triaged
Capture == INSTANCE VerdictCapture WITH
  verdicts <- captured, marks <- demotion, inputs <- enqueued, observed <- counted
Push == INSTANCE NtfyPush WITH commits <- committed
Audit == INSTANCE AuditLog WITH next <- seqno

\* Time is counted; an envelope is confirmed with a companion or without one.
ASSUME AuthorityAssumption == MaxTime \in Nat /\ Envelopes \subseteq BOOLEAN

\* Days have a length, and no clock is put forward or back by more than the search for copies
\* of a time covers.
ASSUME ScheduleAssumption ==
  DayLength \in Nat \ {0} /\ {LastDate, Advance, Reach} \subseteq Nat /\ Shifts \subseteq (-Reach)..Reach

\* A commit appends Transitions that carry their time, and a sink that is enabled has a topic.
ASSUME PushAssumption ==
  /\ \A b \in Batches : b \in Seq({b[i] : i \in DOMAIN b}) /\ \A i \in DOMAIN b : "at" \in DOMAIN b[i]
  /\ \A p \in Policies : p.enabled => p.topic # NoTopic

\* Incidents are numbered in the order they open; what is configured is or is not.
ASSUME TriagedAssumption == /\ IsFiniteSet(Triaged) /\ Triaged = 1 .. Cardinality(Triaged)
                            /\ {Verification, HasPromQL, HasZabbix} \subseteq BOOLEAN
-----------------------------------------------------------------------------
\* OperatorAuthority: no commit is quiet under a judgment that was contradicted, or under
\* an envelope that was retired (persistObservedSituationJudgmentInvalidationTx).
LapsedStaysLapsed == Authority!LapsedStaysLapsed

\* OperatorAuthority: a Situation that is quiet by an authority that is over is looked at
\* again (finalizeCheckpoint, wakeExpectedBehaviorGroupsTx).
NoSilentQuiet == Authority!NoSilentQuiet

\* ExpectedSchedule: a resolved occurrence covers the window the operator wrote
\* (resolveExpectedBehaviorRange).
OccurrenceCovers == Schedule!OccurrenceCovers

\* TriageSkill: a finding is more confident than the cap only on grounds (applyEvidenceCap,
\* applySteeringCap, anyUnfetched).
ConfidenceIsEarned == Skill!ConfidenceIsEarned

\* TriageSkill: marks move by a correction, or by a finding that was judged over a floor that
\* answered (R16, AfterCommit); where nothing is verified, by any committed finding.
MarksMoveOnGrounds == Skill!MarksMoveOnGrounds

\* TriageSkill: a corrected finding never leads a recall (FetchMemory).
CorrectedNeverLeads == Skill!CorrectedNeverLeads

\* VerdictCapture: once shutdown has joined the engine, nothing of it moves (Close).
ShutdownIsQuiet == Capture!ShutdownIsQuiet

\* NtfyPush: nothing selected for the phone is lost when rows are merged, retried or handed
\* back (compactNTFYTx, FinishNTFY).
EventsAreKept == Push!EventsAreKept

\* NtfyPush: the phone never goes back to an older state, and is never interrupted for one
\* that is over (ClaimNTFY, compactNTFYTx).
PushIsTimely == [][Push!Timely]_pushVars

\* AuditLog: the chain verifies exactly when nothing still kept was changed or taken out,
\* through any interleaving of appends and prune steps (PruneBefore, Verify).
VerifyIsExact == Audit!VerifyIsExact
=============================================================================
