---------------------------- MODULE MCMqttRelay -----------------------------
(***************************************************************************)
(* Instances of MqttRelay for TLC.                                         *)
(***************************************************************************)
EXTENDS MqttRelay, TLC

CONSTANTS b0, b1, b2, btest, none

NoMqtt == [mqtt |-> FALSE, instant |-> FALSE, broker |-> none]
Instant(b) == [mqtt |-> TRUE, instant |-> TRUE, broker |-> b]
Periodic(b) == [mqtt |-> TRUE, instant |-> FALSE, broker |-> b]

(* MQTT off, and two brokers.                                              *)
TwoBrokers == {NoMqtt, Instant(b1), Instant(b2)}

(* Instant publishing, and periodic publishing without a server name.      *)
ModeCfg == {Instant(b1), Periodic(none)}

(* The two configured brokers are interchangeable.                         *)
Brokers == Permutations({b1, b2})
=============================================================================
