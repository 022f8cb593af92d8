--------------------------- MODULE MCNotifications ---------------------------
(* Notifications on small sets of Situations.                              *)
EXTENDS Notifications
=============================================================================
