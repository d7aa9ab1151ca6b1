------------------------------- MODULE MCMqtt -------------------------------
(* Small instance of Mqtt.                                                 *)
EXTENDS Mqtt
=============================================================================
