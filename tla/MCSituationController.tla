----------------------- MODULE MCSituationController -----------------------
(***************************************************************************)
(* SituationController on two instances, which Init chooses between: the   *)
(* configuration's, with two bases and two attempts, and a storm of inputs *)
(* and an outage over one basis.                                           *)
(***************************************************************************)
EXTENDS SituationController, TLC

CONSTANT StormHash

VARIABLE part

Storm == INSTANCE SituationController WITH
  Hashes <- {StormHash}, MaxAttempts <- 1, GuardAfter <- 1, MaxInputs <- 3, MaxClaims <- 2,
  MaxOutages <- 1, MaxFaults <- 1

Symmetric == Permutations(Hashes)

MCInit == part \in {"budget", "storm"} /\ Init

MCNext ==
  /\ \/ part = "budget" /\ Next
     \/ part = "storm" /\ Storm!Next
  /\ UNCHANGED part

MCSpec == MCInit /\ [][MCNext]_<<part, vars>>
=============================================================================
