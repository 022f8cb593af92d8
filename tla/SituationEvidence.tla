-------------------------- MODULE SituationEvidence --------------------------
(***************************************************************************)
(* What a decision about a Situation rests on, put side by side: the       *)
(* evidence prepared for it (Preparation) and the semantic profiles it is  *)
(* guided by, on their way to the open Situations (SemanticProfiles).      *)
(* They share no state: the profiles are an instance over variables of     *)
(* their own, and what is promised about them is restated here under the   *)
(* name the run checks and the theorem proves.                             *)
(***************************************************************************)
EXTENDS Preparation

CONSTANTS
  Inputs, SignatureOf(_), Situations, Workers, MaxAttempts, BatchSize, MaxOutages,
  MaxCorrections, MaxDeferrals, MaxFaults

VARIABLES
  job, head, origin, changes, worker, health, profiled, corrections, deferrals, faults, sent

profileVars == <<job, head, origin, changes, worker, health, profiled, corrections, deferrals,
                 sent>>

FanOut == INSTANCE SemanticProfiles WITH situation <- profiled

\* Ids of Situations are numbers above the cursor a change starts with, and a page has room.
ASSUME FanOutAssumption ==
  IsFiniteSet(Situations) /\ Situations \subseteq Nat \ {0} /\ BatchSize \in Nat \ {0}
-----------------------------------------------------------------------------
\* SemanticProfiles: a Situation decided on an older profile is due, or the change is on
\* its way (DeliverSemanticProfileChangesDetailed).
NoSilentChange == FanOut!NoSilentChange
=============================================================================
