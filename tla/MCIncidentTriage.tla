-------------------------- MODULE MCIncidentTriage --------------------------
(* IncidentTriage for TLC.  Incidents are ordered by creation and the Alerts *)
(* of the liveness run must be told apart, so no symmetry is used.           *)
EXTENDS IncidentTriage
=============================================================================
