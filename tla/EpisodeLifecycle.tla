-------------------------- MODULE EpisodeLifecycle --------------------------
(***************************************************************************)
(* What the lifecycle of one Situation promises: the table of              *)
(* AdvanceLifecycle (internal/situation/lifecycle.go).  An episode opens   *)
(* active, may go back and forth between active and recovery_pending, and  *)
(* ends for good as recovered, which only follows a recovery that was      *)
(* pending, or as closed_unknown.                                          *)
(***************************************************************************)
VARIABLE life

Events == {"recovery_observed", "refired", "grace_expired", "unobservable"}

\* AdvanceLifecycle: the lifecycle after event e, or "error".
Advance(from, e) ==
  CASE from = "active" /\ e = "recovery_observed"           -> "recovery_pending"
    [] from = "active" /\ e = "refired"                     -> "active"
    [] from = "active" /\ e = "unobservable"                -> "closed_unknown"
    [] from = "recovery_pending" /\ e = "recovery_observed" -> "recovery_pending"
    [] from = "recovery_pending" /\ e = "refired"           -> "active"
    [] from = "recovery_pending" /\ e = "grace_expired"     -> "recovered"
    [] from = "recovery_pending" /\ e = "unobservable"      -> "closed_unknown"
    [] OTHER                                                -> "error"

Init == life = "none"

Open == life = "none" /\ life' = "active"

Step == \E e \in Events : Advance(life, e) # "error" /\ life' = Advance(life, e)

Next == Open \/ Step
Spec == Init /\ [][Next]_life
=============================================================================
