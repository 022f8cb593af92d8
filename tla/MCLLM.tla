-------------------------------- MODULE MCLLM --------------------------------
(***************************************************************************)
(* The three components around the LLM, each on its own small instance:    *)
(* one advisory capability, two subjects and two outages for the tracker;  *)
(* two frozen inputs of one signature before two workers, with an outage,  *)
(* a deferral and a fault, for the profiles.                               *)
(* They share no state here: a behaviour is one of the component Init      *)
(* chose, and the others stand still.                                      *)
(***************************************************************************)
EXTENDS LLMServices

VARIABLE part

gatewayVars == <<pc, answer, limiter, ledger, provider>>
hv == <<healthVars, faults>>
pv == <<profileVars, faults>>
all == <<part, healthVars, gatewayVars, profileVars, faults>>

\* Both frozen inputs are of one signature.
SameSignature(i) == "A"

AllInit ==
  /\ part \in {"health", "gateway", "profiles"}
  /\ Health!Init
  /\ Init /\ (part # "gateway" => calls_per_hour = 1)
  /\ Semantic!Init

AllNext ==
  /\ \/ part = "health" /\ Health!Next /\ UNCHANGED <<gatewayVars, profileVars>>
     \/ part = "gateway" /\ Next /\ UNCHANGED <<healthVars, profileVars>>
     \/ part = "profiles" /\ Semantic!Next /\ UNCHANGED <<healthVars, gatewayVars>>
  /\ UNCHANGED part

AllSpec == AllInit /\ [][AllNext]_all

\* The fairness of each component, for the behaviours that are its own.
FairAllSpec ==
  /\ AllSpec
  /\ WF_hv(part = "health" /\ Health!Runner)
  /\ WF_hv(part = "health" /\ Health!SlackAnswers)
  /\ WF_hv(part = "health" /\ Health!Restart /\ runner = "done")
  /\ SF_hv(part = "health" /\ Health!EditsLand)
  /\ \A w \in Workers : WF_pv(part = "profiles" /\ Semantic!Proceed(w))
  /\ WF_pv(part = "profiles" /\ \E w \in Workers, i \in Inputs : Semantic!Claim(w, i))
  /\ \A i \in Inputs : WF_pv(part = "profiles" /\ Semantic!LeaseExpires(i))
  /\ WF_pv(part = "profiles" /\ Semantic!Rearm)

=============================================================================
