----------------------------- MODULE MCServices -----------------------------
(***************************************************************************)
(* The configuration with the tasks that follow it, and the network        *)
(* watchdog, on small instances.  The watchdog shares no state with the    *)
(* rest: a behaviour is one of either, chosen by part, not a product.      *)
(***************************************************************************)
EXTENDS TimeSync, NetTimeout

Settings(use, dhcp, other) ==
    [ntp_use |-> use, ntp_use_dhcp |-> dhcp, other |-> other]

DefaultCfg == Settings(TRUE, FALSE, 0)
NtpOff     == Settings(FALSE, FALSE, 0)

\* The default, one configuration that differs from it in each NTP setting,
\* and one that differs in another setting.
Cfgs == {DefaultCfg, Settings(TRUE, TRUE, 0), NtpOff, Settings(TRUE, FALSE, 1)}

VARIABLE part

allVars == <<tsVars, wdVars, part>>

\* A behaviour starts without a configuration, with an old one in the BLOB, or
\* with one that an update has to change; updates reach the others.  The last
\* start is also made on the fallback Ethernet, with NTP to be switched on.
Init ==
    /\ TsInit
    /\ nvs \in {NtpOff, Empty, NoCfg}
    /\ fallback => nvs = NtpOff
    /\ WdInit
    /\ part \in {"services", "watchdog"}
    /\ part = "watchdog" => nvs = Empty

Next ==
    \/ part = "services" /\ TsNext /\ UNCHANGED <<wdVars, part>>
    \/ part = "watchdog" /\ WdNext /\ UNCHANGED <<tsVars, part>>

Spec == Init /\ [][Next]_allVars
=============================================================================
