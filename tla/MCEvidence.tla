----------------------------- MODULE MCEvidence -----------------------------
(***************************************************************************)
(* What a Situation is fed, shown and remembered, each component on its    *)
(* own small instance: the evidence of one Situation twice (two slots that *)
(* compete for one request, the constants of the configuration; one slot   *)
(* through a disturbance, the other never asked for), the queue of inputs  *)
(* under fairness, and a profile change on its way to two Situations.      *)
(* They share no state here: a behaviour is one of the component Init      *)
(* chose, and the others stand still.                                      *)
(***************************************************************************)
EXTENDS SituationEvidence

VARIABLES
  part,
  inputs, situations, owner, alert, age, batch, pc, runs, burned

inputVars == <<inputs, situations, owner, alert, age, batch, pc, runs, burned>>
iv == <<inputVars, faults>>
all == <<part, vars, inputVars, profileVars, faults>>

\* "m" is a probe of the lifecycle phase, "q" an optional query for the Assessment.
Phase(s) == IF s = "m" THEN "lifecycle" ELSE "assessment"
Tier(s) == IF s = "m" THEN "routine" ELSE "optional"
QueryTier(s) == IF s = "m" THEN None ELSE "optional"

Deep == INSTANCE Preparation WITH TierOf <- QueryTier, MaxDisturbances <- 1

Queue == INSTANCE SituationInputs WITH
  Loop <- "loop", Drain <- "drain",
  MaxAttempts <- 2, Batch <- 2, GuardAfter <- 1, Grace <- 1, Horizon <- 1, Window <- 1,
  MaxInputs <- 2, MaxIncidents <- 1, MaxClaims <- 1, MaxFaults <- 2

\* The profiles: one input, one worker, two Situations and pages of one.
OneSignature(i) == "A"

AllInit ==
  /\ part \in {"deep", "wide", "queue", "profiles"}
  /\ Init
  /\ Queue!Init
  /\ FanOut!Init

AllNext ==
  /\ \/ part = "deep" /\ Deep!Next /\ UNCHANGED <<inputVars, profileVars, faults>>
     \/ part = "wide" /\ Next /\ UNCHANGED <<inputVars, profileVars, faults>>
     \/ part = "queue" /\ Queue!Next /\ UNCHANGED <<vars, profileVars>>
     \/ part = "profiles" /\ FanOut!Next /\ UNCHANGED <<vars, inputVars>>
  /\ UNCHANGED part

AllSpec == AllInit /\ [][AllNext]_all

\* The fairness of each component, for the behaviours that are its own.
FairAllSpec ==
  /\ AllSpec
  /\ WF_vars(part = "deep" /\ Deep!Retention)
  /\ SF_vars(part = "deep" /\ Deep!Age /\ UNCHANGED <<maintenance, abandons>>)
  /\ WF_iv(part = "queue" /\ Queue!ClaimInputs("loop"))
  /\ \A e \in {"loop", "drain"} : WF_iv(part = "queue" /\ Queue!Work(e))
  /\ \A k \in 1..2 : WF_iv(part = "queue" /\ Queue!InputLeaseExpires(k))
  /\ WF_iv(part = "queue" /\ Queue!LeaseExpires(1))
  /\ \A t \in 1..1 :
       WF_iv(part = "queue" /\ \E r \in runs : r.situation = 1 /\ r.token = t /\ Queue!Release(r))
-----------------------------------------------------------------------------
\* Preparation: the evidence of an ended Situation shrinks to what its last decisions
\* need (pruneStaleRefreshCursors, trimObservationCycles); a Situation that has ended stays
\* so, and this is (ended ~> Reclaimed).
DeepIsReclaimed == []<>(part = "deep" /\ ended => Reclaimed)

\* SituationInputs: again and again the queue is empty, also behind a protected
\* controller run (ClaimSituationInputs, DeferSituationInput).
EveryInputSettles == []<>Queue!QueueSettled

=============================================================================
