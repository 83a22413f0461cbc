------------------------------ MODULE TimeSync ------------------------------
(***************************************************************************)
(* What the configuration's NTP settings drive: time_task (time_task.c),   *)
(* which runs SNTP while the network is up; adv_post (the configuration    *)
(* and time signals of adv_post_signals.c), which keeps a copy of the      *)
(* settings in a cache (adv_post_cfg_cache.c); and the reception of an     *)
(* advertisement (adv_post_send_report in adv_post.c), which stamps the    *)
(* report with the time or with a counter.  Composed with the storage of   *)
(* the configuration, whose events and mutex they use.                     *)
(*                                                                         *)
(* adv_post's other signals are in AdvPost, the contents of the table in   *)
(* AdvTable; here the table is the set of the kinds of timestamp in it.    *)
(*                                                                         *)
(* The network is one link: Ethernet or Wi-Fi as the configuration says,   *)
(* or Ethernet as the fallback of a configuration that says Wi-Fi and has  *)
(* no Wi-Fi network.  It comes back as soon as it likes: before time_task  *)
(* has handled its loss, too.                                              *)
(***************************************************************************)
EXTENDS GwCfgStore

VARIABLES
    cur,        \* signals a task has taken and not handled yet
    ntp,        \* g_time_task_ntp_use, g_time_task_ntp_use_dhcp
    sntp,       \* the SNTP client is running
    synced,     \* g_time_is_synchronized
    link,       \* the network is connected
    fallback,   \* it is Ethernet, though the configuration says Wi-Fi
    missed,     \* history, of the model only: SNTP was stopped, or will be,
                \* and the connection that is to start it is not made or is
                \* handled before
    reconnect,  \* MAIN_TASK_SIG_RECONNECT_NETWORK is pending
    useTs,      \* adv_post's flag_use_timestamps
    primary,    \* adv_post's flag_primary_time_sync_is_done
    advPc,      \* what adv_post does next in adv_post_on_gw_cfg_change
    cacheNtp,   \* p_cfg_cache->flag_use_ntp
    holder,     \* who holds the cache's mutex
    rx,         \* adv_post_send_report: whether it is running, and what it
                \* has read: use of NTP, whether the time is synchronized
    table       \* kinds of timestamps of the reports in the table

timeVars == <<ntp, sntp, synced, reconnect>>
postVars == <<useTs, primary, advPc>>
rxVars   == <<cacheNtp, holder, rx, table>>
netVars  == <<link, fallback, missed>>
tsVars   == <<storeVars, cur, timeVars, netVars, postVars, rxVars>>

NtpOf(c) == <<c.ntp_use, c.ntp_use_dhcp>>

Kind(ntp_use, sync) ==
    CASE ntp_use /\ sync  -> "time"
      [] ntp_use /\ ~sync -> "zero"
      [] ~ntp_use         -> "count"

NoRx == [active |-> FALSE, ntp |-> FALSE, sync |-> FALSE]

TimeInit ==
    /\ cur = [t \in Tasks |-> {}]
    /\ ntp = <<FALSE, FALSE>> /\ sntp = FALSE /\ synced = FALSE
    /\ reconnect = FALSE
    /\ link = FALSE /\ fallback \in BOOLEAN /\ missed = FALSE
    /\ useTs = FALSE /\ primary = FALSE /\ advPc = "idle"
    /\ cacheNtp = FALSE /\ holder = "none"
    /\ rx = NoRx
    /\ table = {}

TsInit == StoreInit /\ TimeInit

(***************************************************************************)
(* Signals: a task takes all that are pending (os_signal_wait) and handles *)
(* them in the order of their numbers (os_signal_num_get_next).            *)
(***************************************************************************)
SigNum(s) ==
    CASE s = "CONNECTED"         -> 0
      [] s = "DISCONNECTED"      -> 1
      [] s = "TIME_SYNCHRONIZED" -> 3
      [] s = "CFG_CHANGED"       -> 13
      [] s = "CFG_READY"         -> 12

TakeSignals(t) ==
    /\ cur[t] = {} /\ sig[t] # {}
    /\ t = "adv" => advPc = "idle"
    /\ cur' = [cur EXCEPT ![t] = sig[t]]
    /\ sig' = [sig EXCEPT ![t] = {}]
    /\ UNCHANGED <<nvsVars, gwCfg, boot, writer, storeHist, timeVars, netVars,
                   postVars, rxVars>>

\* s is the signal task t handles now.
Handles(t, s) ==
    /\ s \in cur[t]
    /\ \A other \in cur[t] : SigNum(s) <= SigNum(other)
    /\ cur' = [cur EXCEPT ![t] = @ \ {s}]

(***************************************************************************)
(* time_task.  Stopping SNTP clears the flag first: a synchronization that *)
(* completes in between (its answer may have arrived just before the       *)
(* network was lost) sets it again.                                        *)
(***************************************************************************)
SntpStart ==
    /\ synced' = FALSE
    /\ sntp' = TRUE

SntpStop ==
    /\ sntp' = FALSE
    /\ \/ synced' = FALSE /\ UNCHANGED sig
       \/ sntp /\ synced' = TRUE /\ Notify({"TIME_SYNCHRONIZED"})

\* time_task_init, after the configuration is ready; the network subsystem is
\* initialized right after it.
TimeTaskInit ==
    /\ boot = "services" /\ GwCfgLockRo
    /\ ntp' = NtpOf(ram)
    /\ boot' = "up"
    /\ UNCHANGED <<nvsVars, gwCfg, writer, sig, storeHist, cur, sntp, synced,
                   reconnect, netVars, postVars, rxVars>>

TimeOnConnected ==
    /\ Handles("time", "CONNECTED")
    /\ IF ntp[1] THEN SntpStart ELSE UNCHANGED <<sntp, synced>>
    /\ UNCHANGED <<storeVars, ntp, reconnect, netVars, postVars, rxVars>>

TimeOnDisconnected ==
    /\ Handles("time", "DISCONNECTED")
    /\ SntpStop
    /\ UNCHANGED <<nvsVars, gwCfg, boot, writer, storeHist, ntp, reconnect,
                   netVars, postVars, rxVars>>

\* Mutant: SNTP is started again only by a reconnection.
SntpRestartMissing(changed) ==
    /\ SntpStop
    /\ reconnect' = (reconnect \/ changed)

\* time_task_on_cfg_changed, after the settings are read: SNTP was stopped;
\* with new settings the network is reconnected, which starts it.
SntpRestart(changed) ==
    IF changed \/ ~ram.ntp_use
    THEN /\ SntpStop
         /\ reconnect' = (reconnect \/ changed)
    ELSE /\ SntpStart
         /\ UNCHANGED reconnect
         /\ \/ UNCHANGED sig
            \/ sntp /\ Notify({"TIME_SYNCHRONIZED"})

\* time_task_on_cfg_changed.
TimeOnCfgChanged ==
    /\ Handles("time", "CFG_CHANGED")
    /\ GwCfgLockRo
    /\ ntp' = NtpOf(ram)
    /\ SntpRestart(ntp # NtpOf(ram))
    /\ UNCHANGED <<nvsVars, gwCfg, boot, writer, storeHist, netVars, postVars, rxVars>>

\* time_task_cb_notification_on_sync, in the TCP/IP thread.
SntpSynchronized ==
    /\ sntp /\ link
    /\ synced' = TRUE
    /\ Notify({"TIME_SYNCHRONIZED"})
    /\ UNCHANGED <<nvsVars, gwCfg, boot, writer, storeHist, cur, ntp, sntp,
                   reconnect, netVars, postVars, rxVars>>

\* The server's time is before 2021.
SntpBadTimestamp ==
    /\ sntp /\ link /\ synced
    /\ synced' = FALSE
    /\ UNCHANGED <<storeVars, cur, ntp, sntp, reconnect, netVars, postVars, rxVars>>

(***************************************************************************)
(* The network.                                                            *)
(***************************************************************************)
\* The loss that is handled after it stops SNTP.
LinkUp ==
    /\ boot = "up" /\ ~link
    /\ link' = TRUE
    /\ missed' = ("DISCONNECTED" \in sig["time"])
    /\ Notify({"CONNECTED"})
    /\ UNCHANGED <<nvsVars, gwCfg, boot, writer, storeHist, cur, timeVars,
                   fallback, postVars, rxVars>>

LinkDown ==
    /\ link
    /\ Event
    /\ link' = FALSE
    /\ Notify({"DISCONNECTED"})
    /\ UNCHANGED <<nvsVars, gwCfg, boot, writer, kept, lost, failed, cur, timeVars,
                   fallback, missed, postVars, rxVars>>

\* main_task_handle_sig_network_reconnect: Ethernet or Wi-Fi, whichever the
\* configuration says, is stopped and started; the fallback is left as it is.
MainReconnect ==
    /\ reconnect
    /\ GwCfgLockRo
    /\ reconnect' = FALSE
    /\ \/ /\ ~fallback
          /\ link' = FALSE
          /\ Notify({"DISCONNECTED"})
          /\ UNCHANGED missed
       \/ /\ fallback
          /\ missed' = (missed \/ (link /\ ~sntp))
          /\ UNCHANGED <<link, sig>>
    /\ UNCHANGED <<nvsVars, gwCfg, boot, writer, storeHist, cur, ntp, sntp, synced,
                   fallback, postVars, rxVars>>

(***************************************************************************)
(* adv_post.  adv_post_on_gw_cfg_change reads the setting, takes the cache *)
(* (during which receptions are dropped), reads the rest of the            *)
(* configuration, releases the cache and then clears the table.            *)
(***************************************************************************)
AdvOnTimeSynchronized ==
    /\ advPc = "idle"
    /\ Handles("adv", "TIME_SYNCHRONIZED")
    /\ primary' = TRUE
    /\ table' = IF primary THEN table ELSE {}
    /\ UNCHANGED <<storeVars, timeVars, netVars, useTs, advPc, cacheNtp, holder, rx>>

AdvOnCfg ==
    /\ advPc = "idle"
    /\ \E s \in {"CFG_READY", "CFG_CHANGED"} : Handles("adv", s)
    /\ GwCfgLockRo
    /\ useTs' = ram.ntp_use
    /\ advPc' = "cache"
    /\ UNCHANGED <<storeVars, timeVars, netVars, primary, rxVars>>

AdvTakesCache ==
    /\ advPc = "cache"
    /\ holder = "none" /\ holder' = "adv"
    /\ cacheNtp' = useTs
    /\ advPc' = "release"
    /\ UNCHANGED <<storeVars, cur, timeVars, netVars, useTs, primary, rx, table>>

AdvReleasesCache ==
    /\ advPc = "release"
    /\ GwCfgLockRo
    /\ holder' = "none"
    /\ advPc' = "clear"
    /\ UNCHANGED <<storeVars, cur, timeVars, netVars, useTs, primary, cacheNtp, rx, table>>

AdvClearsTable ==
    /\ advPc = "clear"
    /\ table' = {}
    /\ advPc' = "idle"
    /\ UNCHANGED <<storeVars, cur, timeVars, netVars, useTs, primary, cacheNtp, holder, rx>>

(***************************************************************************)
(* adv_post_send_report, in the thread that serves the nRF52: everything   *)
(* up to its last step holds the cache's mutex, which it does not wait     *)
(* for.                                                                    *)
(***************************************************************************)
\* Mutant: the mutex is held only while the cache is read.
ReceiveReportUnlocksEarly ==
    /\ ready /\ ~rx.active
    /\ holder = "none" /\ UNCHANGED holder
    /\ rx' = [active |-> TRUE, ntp |-> cacheNtp, sync |-> synced]
    /\ UNCHANGED <<storeVars, cur, timeVars, netVars, postVars, cacheNtp, table>>

ReceiveReport ==
    /\ ready /\ ~rx.active
    /\ holder = "none" /\ holder' = "rx"
    /\ rx' = [active |-> TRUE, ntp |-> cacheNtp, sync |-> synced]
    /\ UNCHANGED <<storeVars, cur, timeVars, netVars, postVars, cacheNtp, table>>

\* The report, by the kind of its timestamp, or none if it is dropped because
\* the time was not synchronized.
Stamped == IF rx.ntp /\ ~rx.sync THEN {} ELSE {Kind(rx.ntp, rx.sync)}

PutReport ==
    /\ rx.active
    /\ holder' = "none"
    /\ table' = table \cup Stamped
    /\ rx' = NoRx
    /\ UNCHANGED <<storeVars, cur, timeVars, netVars, postVars, cacheNtp>>

Reset ==
    /\ StoreReset
    /\ cur' = [t \in Tasks |-> {}]
    /\ ntp' = <<FALSE, FALSE>> /\ sntp' = FALSE /\ synced' = FALSE
    /\ reconnect' = FALSE
    /\ link' = FALSE /\ missed' = FALSE /\ UNCHANGED fallback
    /\ useTs' = FALSE /\ primary' = FALSE /\ advPc' = "idle"
    /\ cacheNtp' = FALSE /\ holder' = "none"
    /\ rx' = NoRx
    /\ table' = {}

StoreNext == StoreStep /\ UNCHANGED <<cur, timeVars, netVars, postVars, rxVars>>

TimeTask == TakeSignals("time") \/ TimeOnConnected \/ TimeOnDisconnected \/ TimeOnCfgChanged

AdvTask ==
    \/ TakeSignals("adv") \/ AdvOnTimeSynchronized \/ AdvOnCfg
    \/ AdvTakesCache \/ AdvReleasesCache \/ AdvClearsTable

TsNext ==
    \/ StoreNext
    \/ TimeTaskInit \/ TimeTask
    \/ SntpSynchronized \/ SntpBadTimestamp
    \/ LinkUp \/ LinkDown \/ MainReconnect
    \/ AdvTask
    \/ ReceiveReport \/ PutReport
    \/ Reset

TsSpec == TsInit /\ [][TsNext]_tsVars

(***************************************************************************)
(* Properties.                                                             *)
(***************************************************************************)
TimeFlags ==
    /\ sntp \in BOOLEAN /\ synced \in BOOLEAN
    /\ link \in BOOLEAN /\ reconnect \in BOOLEAN
    /\ fallback \in BOOLEAN /\ missed \in BOOLEAN
    /\ useTs \in BOOLEAN /\ primary \in BOOLEAN
    /\ cacheNtp \in BOOLEAN
    /\ ntp \in BOOLEAN \X BOOLEAN
    /\ rx \in [active : BOOLEAN, ntp : BOOLEAN, sync : BOOLEAN]

TimeTypeOK ==
    /\ StoreTypeOK
    /\ TimeFlags
    /\ cur \in [Tasks -> SUBSET (Subscribed("time") \cup Subscribed("adv"))]
    /\ \A t \in Tasks : cur[t] \subseteq Subscribed(t)
    /\ advPc \in {"idle", "cache", "release", "clear"}
    /\ holder \in {"none", "rx", "adv"}
    /\ table \subseteq {"time", "zero", "count"}

Idle(t) == sig[t] = {} /\ cur[t] = {}

(* When the tasks have nothing left to handle, each has the configuration  *)
(* that is in RAM: no update is missed, though its event is sent before    *)
(* the new values are assigned and one signal may stand for several        *)
(* updates.                                                                *)
CfgReachesTasks ==
    boot = "up" /\ GwCfgUnlocked =>
        /\ Idle("time") => ntp = NtpOf(ram)
        /\ Idle("adv") /\ advPc = "idle" =>
              useTs = ram.ntp_use /\ cacheNtp = ram.ntp_use

(* No report with a zero timestamp gets into the table, though the flag    *)
(* time_is_synchronized may change while a report is being received; and   *)
(* outside a change of configuration every report is stamped the way       *)
(* adv_post will interpret it: the table never mixes times and counters,   *)
(* though the thread that receives reports is not stopped.                 *)
TableKind ==
    /\ "zero" \notin table
    /\ advPc = "idle" => table \subseteq {IF useTs THEN "time" ELSE "count"}

(* With the network up, a configuration that asks for NTP and no signal    *)
(* left to handle, SNTP runs: a change of the settings or a loss of the    *)
(* network, each of which stops it, leaves it stopped in two cases only,   *)
(* which last until the next loss or change.  One is the fallback: no      *)
(* reconnection follows new settings, and with it no start (time_task.c's  *)
(* comment says that there will be one).  The other is a network that is   *)
(* back before time_task takes the signal of its loss.                     *)
SntpNotForgotten ==
    /\ boot = "up" /\ GwCfgUnlocked /\ ram.ntp_use
    /\ link /\ ~reconnect /\ ~missed
    /\ Idle("time")
    => sntp

(***************************************************************************)
(* Why they hold: the parts of an inductive invariant.                     *)
(***************************************************************************)
\* Set for task t, or taken by it, and not handled yet.
Unhandled(t) == sig[t] \cup cur[t]

SignalsSubscribed == \A t \in Tasks : Unhandled(t) \subseteq Subscribed(t)

\* A task that has not read the configuration since it was last announced has
\* the signal still to handle: it can handle it only once the mutex is free.
Announced == writer.stage = "assign" => writer.cfg = ram

TimeHasCfg ==
    boot = "up" =>
        \/ "CFG_CHANGED" \in Unhandled("time")
        \/ Announced /\ ntp = NtpOf(ram)

AdvHasCfg ==
    ready =>
        \/ {"CFG_READY", "CFG_CHANGED"} \cap Unhandled("adv") # {}
        \/ Announced /\ useTs = ram.ntp_use

\* The mutex of the cache: adv_post changes the setting in it, and a report is
\* stamped by the setting it was received under.
CacheInv ==
    /\ holder = "adv" <=> advPc = "release"
    /\ holder = "rx" <=> rx.active
    /\ advPc # "cache" => cacheNtp = useTs
    /\ rx.active => rx.ntp = cacheNtp

\* While the network is up SNTP runs, or is still to be started: by the signal
\* of the connection, which is handled after that of a loss, or, after a change
\* of the settings, by a reconnection.
SntpInv ==
    /\ link => boot = "up"
    /\ link /\ ~missed =>
          /\ "DISCONNECTED" \notin sig["time"]
          /\ "DISCONNECTED" \in cur["time"] => "CONNECTED" \in sig["time"]
    /\ link /\ ~missed /\ ~reconnect /\ ntp[1] => sntp \/ "CONNECTED" \in Unhandled("time")

TsInv ==
    /\ TimeTypeOK
    /\ StoreInv
    /\ SignalsSubscribed
    /\ TimeHasCfg
    /\ AdvHasCfg
    /\ CacheInv
    /\ TableKind
    /\ SntpInv
=============================================================================
