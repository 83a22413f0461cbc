----------------------------- MODULE MCAdvPost ------------------------------
(***************************************************************************)
(* Instances of AdvPost for TLC: the configurations users can switch       *)
(* between.                                                                *)
(***************************************************************************)
EXTENDS AdvPost

Off == [advs1 |-> FALSE, advs2 |-> FALSE, stats |-> FALSE, mqtt |-> FALSE,
        periodic |-> FALSE, ssl |-> FALSE, ntp |-> FALSE]

(* The Ruuvi cloud and periodic MQTT with time from NTP, or statistics: a  *)
(* change of the configuration switches every target on or off.            *)
SwitchCfg ==
    {[Off EXCEPT !.advs1 = TRUE, !.mqtt = TRUE, !.periodic = TRUE, !.ntp = TRUE],
     [Off EXCEPT !.stats = TRUE]}

(* Ruuvi cloud and periodic MQTT over TLS: the HTTP server has to use the  *)
(* mutex.                                                                  *)
MqttsCfg ==
    {[Off EXCEPT !.advs1 = TRUE, !.mqtt = TRUE, !.periodic = TRUE, !.ssl = TRUE]}

(* Ruuvi cloud only.                                                       *)
CloudCfg == {[Off EXCEPT !.advs1 = TRUE]}

(* Both HTTP targets.                                                      *)
BothCfg == {[Off EXCEPT !.advs1 = TRUE, !.advs2 = TRUE]}

(* Bounds: a connection is announced again only after a disconnection, and *)
(* at most two changes of the network are on their way at a time.          *)
NetworkSig == {"NETWORK_CONNECTED", "NETWORK_DISCONNECTED"}

AnnouncedOnce ==
    /\ flag_network_connected /\ "NETWORK_CONNECTED" \in sig =>
          "NETWORK_DISCONNECTED" \in sig \cup cur
    /\ NetworkSig \cap sig = {} \/ NetworkSig \cap cur = {}

(* What the task was sending is dead once nothing is in progress: every    *)
(* start sets it before it is read.  An aborted batch, which is never      *)
(* freed, and the kind of the last transfer do not make a new state.       *)
LiveState ==
    <<task, flags, IF flag_async_comm_in_progress THEN comm ELSE <<>>, clocks, env, http,
      status, fault>>
=============================================================================
