----------------------------- MODULE MCMqttLink -----------------------------
(* MqttLink for TLC. *)
EXTENDS MqttLink

CONSTANT devices
=============================================================================
