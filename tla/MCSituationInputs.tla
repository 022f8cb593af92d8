------------------------ MODULE MCSituationInputs ------------------------
(* SituationInputs for TLC.  The two executors are interchangeable: only   *)
(* Fairness, which this run does not use, tells them apart.                *)
EXTENDS SituationInputs, TLC

Symmetry == Permutations(Executors)
=============================================================================
