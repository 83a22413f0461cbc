---------------------------- MODULE GwCfgStore ----------------------------
(***************************************************************************)
(* The gateway configuration: the copy in RAM and the mutex around it      *)
(* (gw_cfg.c), the copy in the NVS (settings.c, ruuvi_nvs.c), its loading  *)
(* at start-up (ruuvi_init_gw_cfg in ruuvi_gateway_main.c), and the events *)
(* it sends to the other tasks (event_mgr.c).                              *)
(*                                                                         *)
(* A configuration is a record: the two NTP settings the consumers act on, *)
(* and one field for the rest of the ruuvi section.  Its JSON text in the  *)
(* NVS is the record itself: the code compares and stores the text as a    *)
(* whole.  The Ethernet and Wi-Fi sections, which are set and saved in the *)
(* same way and send events of their own, are left out.                    *)
(*                                                                         *)
(* External: nvs_set_str replaces a value atomically, and leaves the old   *)
(* one when it fails.  Not modelled: an NVS that cannot be opened, no      *)
(* memory for the gw_cfg_t itself, the BLOB of the Wi-Fi component, the    *)
(* read of the NVS with updating forbidden early in main_task_init (it     *)
(* changes nothing here).                                                  *)
(***************************************************************************)
EXTENDS Naturals

CONSTANTS
    Cfg,            \* configurations
    Default,        \* gw_cfg_default_get
    Empty,          \* the empty string in the NVS: not configured yet
    NoCfg,          \* the NVS has no such key
    MaxEvents       \* bound on updates of the configuration, resets, faults
                    \* and losses of the network in a behaviour

ASSUME StoreAssumption ==
    /\ Default \in Cfg
    /\ Empty \notin Cfg
    /\ NoCfg \notin Cfg \cup {Empty}
    /\ MaxEvents \in Nat
    /\ \A c \in Cfg :
         /\ c = [ntp_use |-> c.ntp_use, ntp_use_dhcp |-> c.ntp_use_dhcp,
                 other |-> c.other]
         /\ c.ntp_use \in BOOLEAN /\ c.ntp_use_dhcp \in BOOLEAN

VARIABLES
    nvs,        \* the value of ruuvi_cfg_json in the NVS
    blob,       \* the value of the deprecated ruuvi_config in the NVS
    ram,        \* g_gateway_config
    isEmpty,    \* g_gw_cfg_is_empty
    ready,      \* g_gw_cfg_ready
    boot,       \* progress of main_task_init
    writer,     \* the call that holds g_gw_cfg_mutex to update it: what it
                \* does next, and the configuration it sets
    sig,        \* signals the event manager has set, by task
    \* history, of the model only
    kept,       \* the configuration the user set last and that was stored
    lost,       \* it was destroyed by a fault the code does not survive
    failed,     \* the last save failed, which the code does not report
    events      \* updates, resets and faults so far

nvsVars   == <<nvs, blob>>
gwCfg     == <<ram, isEmpty, ready>>
storeHist == <<kept, lost, failed, events>>
storeVars == <<nvsVars, gwCfg, boot, writer, sig, storeHist>>

(***************************************************************************)
(* The event manager.  A signal is a flag: sending it twice before the     *)
(* task takes it is the same as sending it once.                           *)
(***************************************************************************)
Tasks == {"time", "adv"}

Subscribed(t) ==
    IF t = "time" THEN {"CONNECTED", "DISCONNECTED", "CFG_CHANGED"}
                  ELSE {"TIME_SYNCHRONIZED", "CFG_READY", "CFG_CHANGED"}

\* Mutant: the queue of the event is not looked at.
NotifiedAll(evs) == [t \in Tasks |-> sig[t] \cup evs]

Notified(evs) == [t \in Tasks |-> sig[t] \cup (evs \cap Subscribed(t))]

\* event_mgr_notify.
Notify(evs) == sig' = Notified(evs)

Reserved(stage, c) == [stage |-> stage, cfg |-> c]

\* g_gw_cfg_mutex is free.
GwCfgUnlocked == writer.stage = "idle"

\* Mutant: readers do not take the mutex.
GwCfgReadUnlocked == TRUE

\* gw_cfg_lock_ro, the read and gw_cfg_unlock_ro: one step when the mutex is free.
GwCfgLockRo == GwCfgUnlocked

StoreInit ==
    /\ nvs \in Cfg \cup {Empty, NoCfg}
    /\ blob \in {Default, NoCfg}
    /\ nvs # NoCfg => blob = NoCfg
    /\ ram = Default /\ isEmpty = TRUE /\ ready = FALSE
    /\ boot = "load"
    /\ writer = Reserved("idle", Empty)
    /\ sig = [t \in Tasks |-> {}]
    /\ kept = IF nvs # NoCfg THEN nvs ELSE IF blob # NoCfg THEN blob ELSE Empty
    /\ lost = FALSE /\ failed = FALSE
    /\ events = 0

\* An update or a fault is possible and happens.
Event == events < MaxEvents /\ events' = events + 1

(***************************************************************************)
(* settings_get_from_flash.  A configuration that cannot be read (no       *)
(* memory for the text or for parsing it) is treated as one that does not  *)
(* exist.  The BLOB is never erased: settings_erase_gw_cfg_blob_if_exist   *)
(* is called with a handle that is already closed.                         *)
(***************************************************************************)
\* Mutant: writes an empty configuration without looking for the BLOB.
LoadFromNvsOnly(v) ==
    IF v # NoCfg
    THEN /\ writer' = Reserved("idle", v)
         /\ boot' = "update"
    ELSE /\ writer' = Reserved("save", Empty)
         /\ boot' = boot

LoadFrom(v) ==
    IF v # NoCfg
    THEN /\ writer' = Reserved("idle", v)
         /\ boot' = "update"
    ELSE /\ writer' = Reserved("save", IF blob # NoCfg THEN blob ELSE Empty)
         /\ boot' = boot

SettingsGetFromFlash ==
    /\ boot = "load" /\ GwCfgUnlocked
    /\ LoadFrom(nvs)
    /\ UNCHANGED <<nvsVars, gwCfg, sig, storeHist>>

SettingsUnreadable ==
    /\ boot = "load" /\ GwCfgUnlocked
    /\ nvs \in Cfg
    /\ Event
    /\ LoadFrom(NoCfg)
    /\ lost' = TRUE
    /\ UNCHANGED <<nvsVars, gwCfg, sig, kept, failed>>

(***************************************************************************)
(* gw_cfg_set.  The change is announced before it is made, with the mutex  *)
(* held.  At start-up the first call makes the configuration ready; with   *)
(* no configuration in the NVS it is called with NULLs.                    *)
(***************************************************************************)
GwCfgSet(c) ==
    /\ GwCfgUnlocked
    /\ isEmpty' = (c = Empty)
    /\ Notify(IF ready /\ c # Empty /\ c # ram
              THEN {"CFG_CHANGED"} ELSE {})
    /\ writer' = Reserved("assign", c)
    /\ UNCHANGED <<nvsVars, ram, ready, boot, kept, lost, failed>>

GwCfgUpdateAtBoot ==
    /\ boot = "update"
    /\ GwCfgSet(writer.cfg)
    /\ UNCHANGED events

GwCfgUpdate ==
    /\ boot = "up"
    /\ Event
    /\ \E c \in Cfg : GwCfgSet(c)

\* Mutant: saves only what differs from the copy in RAM.
GwCfgAssignSavesChanges ==
    /\ writer.stage = "assign"
    /\ ram' = IF writer.cfg = Empty THEN ram ELSE writer.cfg
    /\ writer' = Reserved(IF writer.cfg = ram THEN "finish" ELSE "save", writer.cfg)
    /\ UNCHANGED <<nvsVars, isEmpty, ready, boot, sig, storeHist>>

\* The new values are assigned, then ruuvi_cb_on_change_cfg saves them.
GwCfgAssign ==
    /\ writer.stage = "assign"
    /\ ram' = IF writer.cfg = Empty THEN ram ELSE writer.cfg
    /\ writer' = Reserved("save", writer.cfg)
    /\ UNCHANGED <<nvsVars, isEmpty, ready, boot, sig, storeHist>>

\* gw_cfg_update_fw_update_url: no event, and is_empty stays as it is.
GwCfgUpdateFwUpdateUrl ==
    /\ boot = "up" /\ GwCfgUnlocked
    /\ Event
    /\ \E c \in Cfg :
        /\ c = [ram EXCEPT !.other = c.other]
        /\ ram' = c
        /\ writer' = Reserved("save", c)
    /\ UNCHANGED <<nvsVars, isEmpty, ready, boot, sig, kept, lost, failed>>

(***************************************************************************)
(* settings_save_to_flash.  What is stored already is not written again;   *)
(* when the NVS is full all of it is erased and the write is repeated; any *)
(* other failure is ignored.                                               *)
(***************************************************************************)
Written ==
    /\ nvs' = writer.cfg
    /\ kept' = IF boot = "up" THEN writer.cfg ELSE kept
    /\ failed' = FALSE
    /\ writer' = [writer EXCEPT !.stage = "finish"]

SettingsSave ==
    /\ writer.stage = "save"
    /\ Written
    /\ UNCHANGED <<blob, gwCfg, boot, sig, lost, events>>

SettingsSaveFails ==
    /\ writer.stage = "save"
    /\ nvs # writer.cfg
    /\ Event
    /\ failed' = TRUE
    /\ writer' = [writer EXCEPT !.stage = "finish"]
    /\ UNCHANGED <<nvsVars, gwCfg, boot, sig, kept, lost>>

NvsErase ==
    /\ writer.stage = "save"
    /\ nvs # writer.cfg
    /\ Event
    /\ nvs' = NoCfg /\ blob' = NoCfg
    /\ writer' = [writer EXCEPT !.stage = "rewrite"]
    /\ UNCHANGED <<gwCfg, boot, sig, kept, lost, failed>>

SettingsRewrite ==
    /\ writer.stage = "rewrite"
    /\ Written
    /\ UNCHANGED <<blob, gwCfg, boot, sig, lost, events>>

SettingsRewriteFails ==
    /\ writer.stage = "rewrite"
    /\ Event
    /\ lost' = TRUE /\ failed' = TRUE
    /\ writer' = [writer EXCEPT !.stage = "finish"]
    /\ UNCHANGED <<nvsVars, gwCfg, boot, sig, kept>>

\* The end of settings_get_from_flash, or of gw_cfg_set, which makes the
\* configuration ready the first time and unlocks the mutex.
FinishSave ==
    /\ writer.stage = "finish"
    /\ IF boot = "load"
       THEN /\ boot' = "update"
            /\ UNCHANGED <<ready, sig>>
       ELSE /\ boot' = IF boot = "update" THEN "services" ELSE boot
            /\ ready' = TRUE
            /\ Notify(IF ready THEN {} ELSE {"CFG_READY"})
    /\ writer' = [writer EXCEPT !.stage = "idle"]
    /\ UNCHANGED <<nvsVars, ram, isEmpty, storeHist>>

\* A reset at any point: everything but the NVS is lost.
StoreReset ==
    /\ Event
    /\ ram' = Default /\ isEmpty' = TRUE /\ ready' = FALSE
    /\ boot' = "load"
    /\ writer' = Reserved("idle", Empty)
    /\ sig' = [t \in Tasks |-> {}]
    /\ lost' = (lost \/ writer.stage = "rewrite")
    /\ failed' = FALSE
    /\ UNCHANGED <<nvsVars, kept>>

StoreStep ==
    \/ SettingsGetFromFlash
    \/ SettingsUnreadable
    \/ GwCfgUpdateAtBoot
    \/ GwCfgUpdate
    \/ GwCfgAssign
    \/ GwCfgUpdateFwUpdateUrl
    \/ SettingsSave
    \/ SettingsSaveFails
    \/ NvsErase
    \/ SettingsRewrite
    \/ SettingsRewriteFails
    \/ FinishSave

(***************************************************************************)
(* Properties.                                                             *)
(***************************************************************************)
StoreFlags ==
    /\ isEmpty \in BOOLEAN /\ ready \in BOOLEAN
    /\ lost \in BOOLEAN /\ failed \in BOOLEAN

StoreTypeOK ==
    /\ StoreFlags
    /\ nvs \in Cfg \cup {Empty, NoCfg}
    /\ blob \in Cfg \cup {NoCfg}
    /\ ram \in Cfg
    /\ boot \in {"load", "update", "services", "up"}
    /\ writer \in [stage : {"idle", "assign", "save", "rewrite", "finish"},
                   cfg : Cfg \cup {Empty}]
    /\ sig \in [Tasks -> SUBSET (Subscribed("time") \cup Subscribed("adv"))]
    /\ kept \in Cfg \cup {Empty}
    /\ events \in 0 .. MaxEvents

\* What the next start-up will load.
Stored == IF nvs # NoCfg THEN nvs ELSE IF blob # NoCfg THEN blob ELSE Empty

(* The configuration the user saved last is what the next start-up loads,  *)
(* whatever resets and failed writes came in between: settings_save_to_    *)
(* flash replaces it by the new one or leaves it, and start-up (conversion *)
(* of the BLOB, writing an empty configuration, gw_cfg_update) never       *)
(* overwrites it.  Exceptions, recorded in lost: a fault between erasing a *)
(* full NVS and writing it again, and a configuration that could not be    *)
(* read at start-up.                                                       *)
ConfigDurable ==
    ~lost /\ writer.stage # "rewrite" => Stored = kept

(* Outside an update, the configuration in RAM is the stored one, unless   *)
(* the last save failed; a gateway that is not configured runs with the    *)
(* default one and says so (gw_cfg_is_empty).  In particular setting the   *)
(* default configuration on an empty gateway stores it: "update_status can *)
(* show that updating is not needed, but it is required" (gw_cfg_set).     *)
RunningConfigStored ==
    boot = "up" /\ GwCfgUnlocked /\ ~failed =>
        \/ Stored = ram
        \/ Stored = Empty /\ isEmpty /\ ram = Default

(***************************************************************************)
(* Why they hold: the parts of an inductive invariant.                     *)
(***************************************************************************)
\* start-up makes the configuration ready before anything uses it.
StartUpOrder ==
    /\ ready <=> boot \in {"services", "up"}
    /\ boot = "load" => writer.stage # "assign"
    /\ boot = "services" => writer.stage = "idle"

\* Until the gateway is up, what is written is what was stored.
DurableInv ==
    ~lost =>
        /\ writer.stage # "rewrite" => Stored = kept
        /\ boot # "up" /\ (boot = "update" \/ writer.stage # "idle") => writer.cfg = kept

\* ram keeps the default until the first assignment, then what was set last;
\* a save that did not fail has stored it.
RunningInv ==
    /\ boot = "load" \/ (boot = "update" /\ writer.stage \in {"idle", "assign"})
         => ram = Default
    /\ boot = "up" /\ writer.stage # "idle" => writer.cfg # Empty
    /\ writer.stage = "assign" /\ writer.cfg = Empty => isEmpty
    /\ boot # "load" /\ writer.stage \in {"save", "rewrite", "finish"} =>
         IF writer.cfg = Empty THEN isEmpty /\ ram = Default ELSE ram = writer.cfg
    /\ writer.stage = "finish" /\ ~failed => nvs = writer.cfg
    /\ boot \in {"services", "up"} /\ GwCfgUnlocked /\ ~failed =>
         Stored = ram \/ (Stored = Empty /\ isEmpty /\ ram = Default)

StoreInv == StoreTypeOK /\ StartUpOrder /\ DurableInv /\ RunningInv

=============================================================================
