----------------------------- MODULE BackfillMC -----------------------------
(* Values for the constants of Backfill that a .cfg cannot write. *)
EXTENDS Backfill

HoldThenIndependent == [v \in 0 .. 1 |-> IF v = 0 THEN "hold" ELSE "independent"]
NoneThenHold        == [v \in 0 .. 1 |-> IF v = 0 THEN "none" ELSE "hold"]
=============================================================================
