------------------------- MODULE MCSemanticProfiles -------------------------
(***************************************************************************)
(* SemanticProfiles with every input under one signature, which is how     *)
(* two frozen inputs that differ in their label keys come out when         *)
(* signatures are built from signal ids (BuildSignature).                  *)
(***************************************************************************)
EXTENDS SemanticProfiles

OneSignature(i) == "A"

=============================================================================
