-------------------------- MODULE DataOpsBindingsMC --------------------------
(* One place, a timer of two samples and a queue of one, given in the .cfg. *)
EXTENDS DataOpsBindings
=============================================================================
