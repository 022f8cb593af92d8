----------------------------- MODULE LLMServices -----------------------------
(***************************************************************************)
(* The components around the LLM, put side by side: the way to the         *)
(* provider (LLMGateway), the tracker of its health (LLMHealth) and the    *)
(* profiles inferred with it (SemanticProfiles).  They share no state but  *)
(* the count of faults that bounds them: each is an instance over          *)
(* variables of its own, and its properties are restated here under the    *)
(* names the runs check and the theorems prove.                            *)
(***************************************************************************)
EXTENDS LLMGateway

CONSTANTS
  \* LLMHealth
  Critical, Advisory, Subjects, MaxOutages, MaxCalls, MaxCrashes,
  \* SemanticProfiles; MaxRecoveries bounds its outages
  Inputs, SignatureOf(_), Situations, Workers, MaxAttempts, BatchSize, MaxRecoveries,
  MaxCorrections, MaxDeferrals

VARIABLES
  rec, caps, saved, sustained, calls, raced, runner, plan, sealed, slack, overlap, lost,
  overtaken, crashes,
  job, head, origin, changes, worker, health, situation, corrections, deferrals, sent

healthVars == <<rec, caps, saved, sustained, calls, raced, runner, plan, sealed, slack, overlap,
                lost, overtaken, crashes>>
profileVars == <<job, head, origin, changes, worker, health, situation, corrections, deferrals, sent>>

Health == INSTANCE LLMHealth
Semantic == INSTANCE SemanticProfiles WITH MaxOutages <- MaxRecoveries

\* The attempts of a job are counted, and so are the workers of a process.
ASSUME SemanticAssumption == MaxAttempts \in Nat /\ IsFiniteSet(Workers)
-----------------------------------------------------------------------------
\* LLMHealth: the outage on Slack is the outage on record (planDelivery,
\* applyDeliveryResult, adoptStaleRoot).
OutagesAreReported == Health!OutagesAreReported

\* LLMHealth: Slack catches up with the tracker (Runner.Step).
SlackCatchesUp == Health!SlackCatchesUp

\* SemanticProfiles: requests of a job are bounded by its attempts and the recoveries
\* it went through (ReserveSemanticInferenceCall).
SpendPerRecovery == Semantic!SpendPerRecovery

\* SemanticProfiles: every queued job settles (ClaimSemanticInferenceJob).
EveryJobSettles == Semantic!EveryJobSettles
=============================================================================
