--------------------------- MODULE StreamConsumerMC ---------------------------
(* Values for the constants of StreamConsumer that a .cfg cannot write. *)
EXTENDS StreamConsumer

AllOfThem == 1 .. MaxRecords
=============================================================================
