------------------------ MODULE ConnectorJournalMC -------------------------
(* One signal of the source and the heartbeat. *)
EXTENDS ConnectorJournal
=============================================================================
