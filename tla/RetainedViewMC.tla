---------------------------- MODULE RetainedViewMC ----------------------------
(* Values for the constants of RetainedView that a .cfg cannot write. *)
EXTENDS RetainedView

CONSTANTS s1, a

OneTopic == [t \in {a} |-> s1]
=============================================================================
