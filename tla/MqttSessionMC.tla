---------------------------- MODULE MqttSessionMC ----------------------------
(* Two wake-ups and one topic, given in the .cfg. *)
EXTENDS MqttSession
=============================================================================
