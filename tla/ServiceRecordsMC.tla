-------------------------- MODULE ServiceRecordsMC --------------------------
(* Instances of ServiceRecords for TLC. *)
EXTENDS ServiceRecords
=============================================================================
