------------------------------ MODULE IngestMC ------------------------------
(* Values for the constants of Ingest that a .cfg cannot write. *)
EXTENDS Ingest

\* Records of a signal two checkpointed producers read, of one a third, plain
\* producer reads as well, and of one nobody handles, which the rebind adds.
ThreeRecords == <<"a", "ab", "c">>
Bindings == [a |-> <<"A">>, ab |-> <<"A", "B">>, c |-> <<"C">>]
TwoKept == {"A", "B"}
Widened == [v \in 0 .. 1 |-> IF v = 0 THEN {"a", "ab"} ELSE {"a", "ab", "c"}]
=============================================================================
