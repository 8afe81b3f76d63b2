----------------------------- MODULE MCEventBus -----------------------------
(* EventBus for TLC: two kinds of event, a consumer of everything (Backend),  *)
(* one of a single kind (MqttConnector) and one of a kind and Idle            *)
(* (IODeviceManager).                                                         *)
EXTENDS EventBus

CONSTANTS PublishMqtt, ValueChanged

MCFilters == {{}, {PublishMqtt}, {ValueChanged, Idle}}
=============================================================================
