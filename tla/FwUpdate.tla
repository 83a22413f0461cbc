------------------------------ MODULE FwUpdate ------------------------------
(***************************************************************************)
(* Firmware update, start-up and rollback: fw_update.c,                    *)
(* esp_ota_ops_patched.c, nrf52fw.c, main_task_init / app_main of          *)
(* ruuvi_gateway_main.c, and the LED state machine (leds.c, leds_ctrl.c)   *)
(* that follows them and asserts that its events come in a legal order.    *)
(*                                                                         *)
(* The flash holds two slots, each with an application image (ota_0,       *)
(* ota_1), a web-interface file system (fatfs_gwui, fatfs_gwui_2) and a    *)
(* file system with the nRF52 firmware (fatfs_nrf52, fatfs_nrf52_2).  The  *)
(* contents of a partition are the release it was written from, or Bad     *)
(* while it is erased or partly written.  Power may be lost between any    *)
(* two steps: the flash, the otadata and the nRF52's own flash survive.    *)
(*                                                                         *)
(* External, modelled from how the code uses them: the ESP-IDF boot loader *)
(* and otadata with CONFIG_BOOTLOADER_APP_ROLLBACK_ENABLE=y (sdkconfig),   *)
(* and the nRF52 behind SWD.  ESP_OTA_IMG_UNDEFINED, the state of an image *)
(* flashed in the factory, is treated as VALID, as IDF does.               *)
(*                                                                         *)
(* fw_update_run does not check that no update is running.  A second       *)
(* request is modelled up to the assertion it trips in leds_task, which    *)
(* has the higher priority; with the LEDs in NRF52_FAILURE nothing trips   *)
(* and two tasks would run, which is outside this module.                  *)
(***************************************************************************)
EXTENDS Naturals, FiniteSets

CONSTANTS
    Releases,       \* the releases that can be downloaded or installed
    Bad,            \* contents of an erased or partly written partition
    MaxUpdates,     \* bound on the updates started in a behaviour
    MaxPowerLoss    \* bound on the power losses of a behaviour

ASSUME FwAssumption ==
    /\ Bad \notin Releases
    /\ MaxUpdates \in Nat
    /\ MaxPowerLoss \in Nat

Slot == {0, 1}

\* The slot that is not s, as is_ota0_active is flipped.
Other(s) == 1 - s

VARIABLES
    \* survive a reset
    app, gwui, nrfFs,   \* contents of the partitions of each slot
    nrf2,               \* the partition table has fatfs_nrf52_2
    ota,                \* otadata: the state of each slot's image
    bootSlot,           \* otadata: the slot with the highest sequence number
    autoFlag,           \* flag_rebooting_after_auto_update
    nrfImg, nrfVer,     \* the nRF52: program flash, version register in UICR
    \* lost at a reset
    pc,                 \* what the main task, or fw_update_task, does next
    running,            \* p_running_partition
    active,             \* is_ota0_active, as the slot it names
    cached,             \* running_partition_state, as read at start-up
    reason,             \* g_fw_updating_reason
    release,            \* what g_fw_update_cfg.binaries_url points to
    nrfReady,           \* the nRF52 status last set in gw_status
    leds,               \* leds_sm_state
    ledSigs,            \* the signals pending for leds_task
    second,             \* a second update was requested during an update
    \* history, of the model only
    updates, losses,    \* updates and power losses so far
    forcedRollback,     \* a failure at start-up has discarded an image
    unconfirmed         \* slots installed by an auto-update whose image has
                        \* not communicated with a server yet

flash   == <<app, gwui, nrfFs, nrf2>>
otadata == <<ota, bootSlot>>
nrf52   == <<nrfImg, nrfVer>>
ledVars == <<leds, ledSigs, second>>
ram     == <<running, active, cached, reason, release, nrfReady>>
history == <<updates, losses, forcedRollback, unconfirmed>>
fwVars  == <<flash, otadata, autoFlag, nrf52, pc, ram, ledVars, history>>

\* MANUAL stands for MANUAL_VIA_HOTSPOT and MANUAL_VIA_LAN.
Reasons   == {"NONE", "AUTO", "MANUAL"}
OtaStates == {"NONE", "NEW", "PENDING_VERIFY", "VALID", "INVALID", "ABORTED"}
NrfSteps  == {"nrf_check", "nrf_erase", "nrf_write", "nrf_version"}
BootSteps == {"init", "app_main"}
UpdateSteps == {"ota_begin", "ota_write", "gwui_erase", "gwui_write",
                "nrffs_erase", "nrffs_write", "set_boot", "finish"}
PCs == {"reset", "cfg_erase", "cfg_erased", "run", "hung", "dead", "panic"} \cup BootSteps \cup UpdateSteps
         \cup NrfSteps

Images == Releases \cup {Bad}

-----------------------------------------------------------------------------
(* leds_ctrl.c.  REBOOT is left out: it is accepted in every state and the *)
(* gateway restarts.                                                       *)

LedStates == {"AFTER_REBOOT", "CHECKING_NRF52_FW", "FLASHING_NRF52_FW",
              "NRF52_FAILURE", "CFG_ERASING", "CFG_ERASED",
              "WAITING_CFG_READY", "SUBSTATE"}

\* Mutant: the configuration's signal comes before those of the nRF52.
LedSignalCfgFirst ==
    [NRF52_FW_CHECK |-> 2, CFG_READY |-> 3, NRF52_FW_UPDATING |-> 4,
     NRF52_READY |-> 5, NRF52_FAILURE |-> 6, CFG_ERASED |-> 8]

\* leds_task_sig_e: leds_task handles what is pending in this order.
LedSignal == [NRF52_FW_CHECK |-> 2, NRF52_FW_UPDATING |-> 3, NRF52_READY |-> 4,
              NRF52_FAILURE |-> 5, CFG_READY |-> 6, CFG_ERASED |-> 8]

\* The leds_ctrl_handle_event_in_state_* functions: the next state for each
\* event they accept.  Any other event is assert(0).
LedsCtrl ==
  [AFTER_REBOOT      |-> [NRF52_FW_CHECK |-> "CHECKING_NRF52_FW"],
   CHECKING_NRF52_FW |-> [NRF52_FW_UPDATING |-> "FLASHING_NRF52_FW",
                          NRF52_READY |-> "WAITING_CFG_READY",
                          NRF52_FAILURE |-> "NRF52_FAILURE"],
   FLASHING_NRF52_FW |-> [NRF52_READY |-> "WAITING_CFG_READY",
                          NRF52_FAILURE |-> "NRF52_FAILURE",
                          CFG_READY |-> "FLASHING_NRF52_FW"],
   WAITING_CFG_READY |-> [CFG_READY |-> "SUBSTATE"],
   SUBSTATE          |-> [NRF52_FW_UPDATING |-> "FLASHING_NRF52_FW",
                          NRF52_READY |-> "SUBSTATE",
                          NRF52_FAILURE |-> "SUBSTATE"],
   CFG_ERASING       |-> [CFG_ERASED |-> "CFG_ERASED"]]

\* NRF52_FAILURE and CFG_ERASED ignore every event.
LedsAccept(s, e) == s \in DOMAIN LedsCtrl => e \in DOMAIN LedsCtrl[s]

\* Mutant: an event that is ignored is taken for the new state.
LedsNextIsEvent(s, e) == IF s \in DOMAIN LedsCtrl THEN LedsCtrl[s][e] ELSE e

LedsNext(s, e) == IF s \in DOMAIN LedsCtrl THEN LedsCtrl[s][e] ELSE s

FwFlags ==
    /\ nrf2 \in BOOLEAN
    /\ autoFlag \in BOOLEAN
    /\ nrfReady \in BOOLEAN
    /\ second \in BOOLEAN
    /\ forcedRollback \in BOOLEAN

FwTypeOK ==
    /\ FwFlags
    /\ app \in [Slot -> Images]
    /\ gwui \in [Slot -> Images]
    /\ nrfFs \in [Slot -> Images]
    /\ ota \in [Slot -> OtaStates]
    /\ bootSlot \in Slot
    /\ nrfImg \in Images
    /\ nrfVer \in Images
    /\ pc \in PCs
    /\ running \in Slot
    /\ active \in Slot
    /\ cached \in OtaStates
    /\ reason \in Reasons
    /\ release \in Images
    /\ leds \in LedStates
    /\ ledSigs \in SUBSET (DOMAIN LedSignal)
    /\ updates \in 0..MaxUpdates
    /\ losses \in 0..MaxPowerLoss
    /\ unconfirmed \in SUBSET Slot

-----------------------------------------------------------------------------
(* otadata (external) *)

\* bootloader_common_ota_select_valid.
Selectable(s) == ota[s] \notin {"NONE", "INVALID", "ABORTED"}

\* The otadata entry the IDF functions call active.
ActiveEntry == IF Selectable(bootSlot) THEN bootSlot ELSE Other(bootSlot)

\* esp_ota_check_rollback_is_possible: the other entry may be selected and
\* the image behind it verifies.  The data partitions are not looked at.
RollbackPossible ==
    LET s == Other(ActiveEntry) IN Selectable(s) /\ app[s] # Bad

-----------------------------------------------------------------------------
(* Partitions by name: fw_update_read_flash_info_internal *)

\* esp_ota_get_next_update_partition.
NextUpdateSlot == Other(running)

\* p_next_fatfs_nrf52_partition: an old partition table has no fatfs_nrf52_2,
\* then the first one is used for both slots.
NextNrfFs == IF running = 0 /\ nrf2 THEN 1 ELSE 0

\* fw_update_get_current_fatfs_nrf52_partition_name: does a partition of that
\* name exist, and what does it hold.
CurrentNrfFsExists == active = 0 \/ nrf2
CurrentNrfFs == nrfFs[active]

-----------------------------------------------------------------------------
(* A gateway as it leaves the factory, or after earlier updates: slot 0    *)
(* runs a release, slot 1 is empty or holds another confirmed one.         *)

FwInit ==
    /\ \E r \in Releases, old \in Images, two \in BOOLEAN :
          /\ app = [s \in Slot |-> IF s = 0 THEN r ELSE old]
          /\ gwui = [s \in Slot |-> IF s = 0 THEN r ELSE old]
          /\ nrfFs = [s \in Slot |-> IF s = 0 THEN r ELSE
                                     IF two THEN old ELSE Bad]
          /\ two \/ old = Bad
          /\ nrf2 = two
          /\ ota = [s \in Slot |->
                       IF s = 0 \/ old # Bad THEN "VALID" ELSE "NONE"]
          /\ nrfImg \in {r, Bad}
          /\ nrfVer = nrfImg
    /\ bootSlot = 0
    /\ autoFlag = FALSE
    /\ pc = "reset"
    /\ running = 0
    /\ active = 0
    /\ cached = "NONE"
    /\ reason = "NONE"
    /\ release = Bad
    /\ nrfReady = FALSE
    /\ leds = "AFTER_REBOOT"
    /\ ledSigs = {}
    /\ second = FALSE
    /\ updates = 0
    /\ losses = 0
    /\ forcedRollback = FALSE
    /\ unconfirmed = {}

\* What a reset leaves of the variables in RAM.
ClearRam ==
    /\ pc' = "reset"
    /\ running' = 0
    /\ active' = 0
    /\ cached' = "NONE"
    /\ reason' = "NONE"
    /\ release' = Bad
    /\ nrfReady' = FALSE
    /\ leds' = "AFTER_REBOOT"
    /\ ledSigs' = {}
    /\ second' = FALSE

\* leds_notify_*, or an event leds_task subscribes to.
NotifyLeds(sigs) ==
    /\ ledSigs' = ledSigs \cup sigs
    /\ UNCHANGED <<leds, second>>

-----------------------------------------------------------------------------
(* Boot loader (external): an image that was still to be verified at the   *)
(* last reset is aborted; the selected new image becomes one to be         *)
(* verified; an image that does not verify is skipped.                     *)
(* Then fw_update_read_flash_info reads the state of the running slot.     *)

Bootloader ==
    LET aborted == [s \in Slot |-> IF ota[s] = "PENDING_VERIFY" THEN "ABORTED"
                                   ELSE ota[s]]
        ok(s) == aborted[s] \notin {"NONE", "INVALID", "ABORTED"}
        sel == IF ok(bootSlot) THEN bootSlot ELSE
               IF ok(Other(bootSlot)) THEN Other(bootSlot) ELSE 0
        ota1 == [aborted EXCEPT ![sel] = IF @ = "NEW" THEN "PENDING_VERIFY"
                                         ELSE @]
        boot == IF app[sel] # Bad THEN sel ELSE Other(sel)
    IN  /\ pc = "reset"
        /\ ota' = ota1
        /\ IF app[boot] = Bad
             THEN pc' = "dead" /\ UNCHANGED <<running, active, cached>>
             ELSE /\ pc' = "init"
                  /\ running' = boot
                  /\ active' = boot
                  /\ cached' = ota1[boot]
        /\ UNCHANGED <<flash, bootSlot, autoFlag, nrf52, reason, release, nrfReady,
                       ledVars, history>>

\* Mutant: the gateway restarts, the image stays selectable.
RebootWithoutMark ==
    /\ RollbackPossible
    /\ ClearRam
    /\ UNCHANGED <<ota, forcedRollback>>

\* esp_ota_mark_app_invalid_rollback_and_reboot.
RollbackAndReboot ==
    /\ RollbackPossible
    /\ ota' = [ota EXCEPT ![ActiveEntry] = "INVALID"]
    /\ forcedRollback' = TRUE
    /\ ClearRam

\* main_task_init fails before the nRF52 check (no memory, no thread) or after
\* it (network_subsystem_init).  When no rollback is possible app_main stays in
\* its endless loop.
InitFails ==
    /\ pc \in {"init", "app_main"}
    /\ \/ RollbackAndReboot
       \/ /\ ~RollbackPossible
          /\ pc' = "hung"
          /\ UNCHANGED <<ota, forcedRollback, ram, ledVars>>
    /\ UNCHANGED <<flash, bootSlot, autoFlag, nrf52, updates, losses, unconfirmed>>

\* The part of main_task_init before the nRF52 check.  Settings that cannot
\* be opened are erased, and the flag in them with them.
InitSucceeds ==
    /\ pc = "init"
    /\ autoFlag' \in {autoFlag, FALSE}
    /\ NotifyLeds({"NRF52_FW_CHECK"})
    /\ pc' = "nrf_check"
    /\ UNCHANGED <<flash, otadata, nrf52, ram, history>>

\* The CONFIGURE button is held at start-up.
ConfigureButtonHeld ==
    /\ pc = "init"
    /\ leds' = "CFG_ERASING"
    /\ pc' = "cfg_erase"
    /\ UNCHANGED <<flash, otadata, autoFlag, nrf52, ram, ledSigs, second, history>>

\* handle_reset_button_is_pressed_during_boot: the settings are erased and the
\* flags written anew; after the button is released the gateway restarts.
EraseSettings ==
    /\ pc = "cfg_erase"
    /\ autoFlag' = FALSE
    /\ NotifyLeds({"CFG_ERASED"})
    /\ pc' = "cfg_erased"
    /\ UNCHANGED <<flash, otadata, nrf52, ram, history>>

ConfigureButtonReleased ==
    /\ pc = "cfg_erased"
    /\ ClearRam
    /\ UNCHANGED <<flash, otadata, autoFlag, nrf52, history>>

-----------------------------------------------------------------------------
(* nrf52fw_update_fw_if_necessary, called by main_task_init and by         *)
(* fw_update_do_actions.                                                   *)

\* The caller is fw_update_task: only an update has a reason.
InUpdate == reason # "NONE"

\* What the caller does when the nRF52 step returns success.  At start-up
\* gw_status_set_nrf_status follows and the rest of main_task_init.
NrfSucceeded ==
    /\ IF InUpdate
         THEN pc' = "finish" /\ UNCHANGED <<nrfReady, ledVars>>
         ELSE pc' = "app_main" /\ nrfReady' = TRUE /\ NotifyLeds({"NRF52_READY"})
    /\ UNCHANGED <<running, active, cached, reason, release>>

\* Mutant: a failure at start-up is reported like a success.
NrfFailsReady ==
    /\ pc \in NrfSteps
    /\ ~InUpdate
    /\ NrfSucceeded
    /\ UNCHANGED <<flash, otadata, autoFlag, nrf52, history>>

\* SWD, the mount or a file operation fails at some step.  fw_update_task
\* forgets the reason and restarts at once; start-up rolls back if it can and
\* else goes on without the nRF52 (gw_status_clear_nrf_status).
NrfFails ==
    /\ pc \in NrfSteps
    /\ \/ /\ InUpdate
          /\ ClearRam
          /\ UNCHANGED <<ota, forcedRollback>>
       \/ /\ ~InUpdate
          /\ RollbackAndReboot
       \/ /\ ~InUpdate
          /\ ~RollbackPossible
          /\ nrfReady' = FALSE
          /\ NotifyLeds({"NRF52_FAILURE"})
          /\ pc' = "app_main"
          /\ UNCHANGED <<ota, running, active, cached, reason, release,
                         forcedRollback>>
    /\ UNCHANGED <<flash, bootSlot, autoFlag, nrf52, updates, losses, unconfirmed>>

\* info.txt against the version register; only start-up's callback notifies
\* the LEDs that the nRF52 is written.  A partly written file system may
\* still have a readable info.txt; if it names another version the checksums
\* of the segments do not match and the step fails (NrfFails).
NrfCheck ==
    /\ pc = "nrf_check"
    /\ CurrentNrfFsExists
    /\ \/ /\ nrfVer # Bad
          /\ CurrentNrfFs \in {nrfVer, Bad}
          /\ NrfSucceeded
       \/ /\ CurrentNrfFs \notin {nrfVer, Bad}
          /\ pc' = "nrf_erase"
          /\ NotifyLeds(IF InUpdate THEN {} ELSE {"NRF52_FW_UPDATING"})
          /\ UNCHANGED ram
    /\ UNCHANGED <<flash, otadata, autoFlag, nrf52, history>>

\* Mutant: the version register keeps its value.
NrfEraseProgramOnly ==
    /\ pc = "nrf_erase"
    /\ nrfImg' = Bad
    /\ pc' = "nrf_write"
    /\ UNCHANGED <<flash, otadata, autoFlag, nrfVer, ram, ledVars, history>>

\* nrf52swd_erase_all clears the program and the UICR with the version.
NrfErase ==
    /\ pc = "nrf_erase"
    /\ nrfImg' = Bad
    /\ nrfVer' = Bad
    /\ pc' = "nrf_write"
    /\ UNCHANGED <<flash, otadata, autoFlag, ram, ledVars, history>>

NrfWrite ==
    /\ pc = "nrf_write"
    /\ nrfImg' = CurrentNrfFs
    /\ pc' = "nrf_version"
    /\ UNCHANGED <<flash, otadata, autoFlag, nrfVer, ram, ledVars, history>>

\* The version is the last thing written: by the last segment of the image or
\* by nrf52fw_write_current_fw_ver.
NrfWriteVersion ==
    /\ pc = "nrf_version"
    /\ nrfVer' = CurrentNrfFs
    /\ NrfSucceeded
    /\ UNCHANGED <<flash, otadata, autoFlag, nrfImg, history>>

-----------------------------------------------------------------------------
(* app_main and the confirmation of an image *)

\* fw_update_mark_app_valid_cancel_rollback: IDF marks the active entry.
MarkAppValid ==
    IF cached = "PENDING_VERIFY"
      THEN /\ ota' = [ota EXCEPT ![ActiveEntry] = "VALID"]
           /\ cached' = "VALID"
      ELSE UNCHANGED <<ota, cached>>

\* The part of main_task_init after the nRF52 check, whose ruuvi_init_gw_cfg
\* makes the configuration ready, and app_main.  After an auto-update the
\* confirmation is left to the first successful communication with a server.
AppMain ==
    /\ pc = "app_main"
    /\ NotifyLeds({"CFG_READY"})
    /\ IF autoFlag THEN autoFlag' = FALSE /\ UNCHANGED <<ota, cached>>
                   ELSE MarkAppValid /\ UNCHANGED autoFlag
    /\ pc' = "run"
    /\ UNCHANGED <<flash, bootSlot, nrf52, running, active,
                   reason, release, nrfReady, history>>

\* A post of advertisements answered (http_async_poll), or MQTT connected.
CommunicationSucceeds ==
    /\ pc = "run"
    /\ MarkAppValid
    /\ unconfirmed' = unconfirmed \ {running}
    /\ UNCHANGED <<flash, bootSlot, autoFlag, nrf52, pc, running, active, reason,
                   release, nrfReady, ledVars, updates, losses, forcedRollback>>

\* gateway_restart for any reason other than an update: the reset task, the
\* network watchdog, the CONFIGURE button.  Nothing keeps them from restarting
\* the gateway in the middle of an update.
GatewayRestart ==
    /\ pc \in {"run"} \cup UpdateSteps \/ (pc \in NrfSteps /\ InUpdate)
    /\ ClearRam
    /\ UNCHANGED <<flash, otadata, autoFlag, nrf52, history>>

PowerLoss ==
    /\ pc \notin {"reset", "hung", "dead"}
    /\ losses < MaxPowerLoss
    /\ losses' = losses + 1
    /\ ClearRam
    /\ UNCHANGED <<flash, otadata, autoFlag, nrf52, updates, forcedRollback,
                   unconfirmed>>

\* The user switches a gateway that hangs off and on again.
PowerCycle ==
    /\ pc = "hung"
    /\ ClearRam
    /\ UNCHANGED <<flash, otadata, autoFlag, nrf52, history>>

-----------------------------------------------------------------------------
(* fw_update_run and fw_update_task *)

\* By the time a request can arrive leds_task has handled what start-up sent.
FwUpdateRun(why, rel) ==
    /\ pc = "run"
    /\ ledSigs = {}
    /\ NotifyLeds({"NRF52_FW_UPDATING"})
    /\ updates < MaxUpdates
    /\ updates' = updates + 1
    /\ reason' = why
    /\ release' = rel
    /\ pc' = "ota_begin"
    /\ UNCHANGED <<flash, otadata, autoFlag, nrf52, running, active, cached,
                   nrfReady, losses, forcedRollback, unconfirmed>>

\* Any stage fails: no memory, the download, a write, the verification.  The
\* task forgets the reason and restarts the gateway.
UpdateFails ==
    /\ pc \in {"ota_begin", "ota_write", "gwui_erase", "gwui_write",
               "nrffs_erase", "nrffs_write", "set_boot"}
    /\ ClearRam
    /\ UNCHANGED <<flash, otadata, autoFlag, nrf52, history>>

\* Mutant: an update may start before the running image is confirmed.
EspOtaBeginUnconfirmed ==
    /\ pc = "ota_begin"
    /\ NextUpdateSlot # running
    /\ app' = [app EXCEPT ![NextUpdateSlot] = Bad]
    /\ pc' = "ota_write"
    /\ UNCHANGED <<gwui, nrfFs, nrf2, otadata, autoFlag, nrf52, ram, ledVars,
                   history>>

\* Mutant: the running slot is erased.
EspOtaBeginRunning ==
    /\ pc = "ota_begin"
    /\ ota[running] # "PENDING_VERIFY"
    /\ app' = [app EXCEPT ![running] = Bad]
    /\ pc' = "ota_write"
    /\ UNCHANGED <<gwui, nrfFs, nrf2, otadata, autoFlag, nrf52, ram, ledVars,
                   history>>

\* esp_ota_begin_patched refuses the running slot, and any slot while the
\* running image is still to be verified; then it erases.
EspOtaBegin ==
    /\ pc = "ota_begin"
    /\ NextUpdateSlot # running
    /\ ota[running] # "PENDING_VERIFY"
    /\ app' = [app EXCEPT ![NextUpdateSlot] = Bad]
    /\ pc' = "ota_write"
    /\ UNCHANGED <<gwui, nrfFs, nrf2, otadata, autoFlag, nrf52, ram, ledVars,
                   history>>

\* The download into the slot and esp_ota_end_patched, which verifies it.
EspOtaWrite ==
    /\ pc = "ota_write"
    /\ app' = [app EXCEPT ![NextUpdateSlot] = release]
    /\ pc' = "gwui_erase"
    /\ UNCHANGED <<gwui, nrfFs, nrf2, otadata, autoFlag, nrf52, ram, ledVars,
                   history>>

EraseFatfsGwui ==
    /\ pc = "gwui_erase"
    /\ gwui' = [gwui EXCEPT ![NextUpdateSlot] = Bad]
    /\ pc' = "gwui_write"
    /\ UNCHANGED <<app, nrfFs, nrf2, otadata, autoFlag, nrf52, ram, ledVars,
                   history>>

WriteFatfsGwui ==
    /\ pc = "gwui_write"
    /\ gwui' = [gwui EXCEPT ![NextUpdateSlot] = release]
    /\ pc' = "nrffs_erase"
    /\ UNCHANGED <<app, nrfFs, nrf2, otadata, autoFlag, nrf52, ram, ledVars,
                   history>>

EraseFatfsNrf52 ==
    /\ pc = "nrffs_erase"
    /\ nrfFs' = [nrfFs EXCEPT ![NextNrfFs] = Bad]
    /\ pc' = "nrffs_write"
    /\ UNCHANGED <<app, gwui, nrf2, otadata, autoFlag, nrf52, ram, ledVars,
                   history>>

WriteFatfsNrf52 ==
    /\ pc = "nrffs_write"
    /\ nrfFs' = [nrfFs EXCEPT ![NextNrfFs] = release]
    /\ pc' = "set_boot"
    /\ UNCHANGED <<app, gwui, nrf2, otadata, autoFlag, nrf52, ram, ledVars,
                   history>>

\* esp_ota_set_boot_partition verifies the image and writes a new otadata
\* entry; from here on is_ota0_active names the slot to be booted.
SetBootPartition ==
    /\ pc = "set_boot"
    /\ app[NextUpdateSlot] # Bad
    /\ ota' = [ota EXCEPT ![NextUpdateSlot] = "NEW"]
    /\ bootSlot' = NextUpdateSlot
    /\ active' = Other(active)
    /\ pc' = "nrf_check"
    /\ unconfirmed' = IF reason = "AUTO"
                        THEN unconfirmed \cup {NextUpdateSlot}
                        ELSE unconfirmed \ {NextUpdateSlot}
    /\ UNCHANGED <<flash, autoFlag, nrf52, running, cached, reason, release,
                   nrfReady, ledVars, updates, losses, forcedRollback>>

\* The flag for the next boot is written only now, after the nRF52 step.  (A
\* manual update from the hotspot writes flag_force_start_wifi_hotspot
\* instead; it only tells the next boot to start the hotspot once more.)
FinishUpdate ==
    /\ pc = "finish"
    /\ autoFlag' = (autoFlag \/ reason = "AUTO")
    /\ ClearRam
    /\ UNCHANGED <<flash, otadata, nrf52, history>>

\* A second request for an update, at any step of the first one, those of the
\* nRF52 included, and in its LED state: leds_task gets NRF52_FW_UPDATING again
\* and asserts.
SecondUpdate ==
    /\ pc \in UpdateSteps \cup NrfSteps /\ InUpdate
    /\ ledSigs = {}
    /\ ~LedsAccept(leds, "NRF52_FW_UPDATING")
    /\ second' = TRUE
    /\ pc' = "panic"
    /\ UNCHANGED <<flash, otadata, autoFlag, nrf52, ram, leds, ledSigs, history>>

-----------------------------------------------------------------------------
(* leds_task *)

LedsTask ==
    /\ ledSigs # {}
    /\ pc \notin {"dead", "panic"}
    /\ LET sig == CHOOSE e \in ledSigs :
                    \A f \in ledSigs : LedSignal[e] <= LedSignal[f]
       IN  /\ ledSigs' = ledSigs \ {sig}
           /\ IF LedsAccept(leds, sig)
                THEN leds' = LedsNext(leds, sig) /\ UNCHANGED pc
                ELSE pc' = "panic" /\ UNCHANGED leds
    /\ UNCHANGED <<flash, otadata, autoFlag, nrf52, ram, second, history>>

\* A failed assertion resets the gateway.
Panic ==
    /\ pc = "panic"
    /\ ClearRam
    /\ UNCHANGED <<flash, otadata, autoFlag, nrf52, history>>

-----------------------------------------------------------------------------
FwStep ==
    \/ Bootloader \/ InitSucceeds \/ AppMain \/ Panic
    \/ EraseSettings
    \/ NrfCheck \/ NrfErase \/ NrfWrite \/ NrfWriteVersion
    \/ EspOtaBegin \/ EspOtaWrite
    \/ EraseFatfsGwui \/ WriteFatfsGwui
    \/ EraseFatfsNrf52 \/ WriteFatfsNrf52
    \/ SetBootPartition \/ FinishUpdate

FwFault == InitFails \/ NrfFails \/ UpdateFails

FwEnvironment ==
    \/ ConfigureButtonHeld \/ ConfigureButtonReleased \/ SecondUpdate
    \/ CommunicationSucceeds \/ GatewayRestart \/ PowerLoss \/ PowerCycle
    \/ \E why \in Reasons \ {"NONE"}, rel \in Releases : FwUpdateRun(why, rel)

FwNext == FwStep \/ FwFault \/ LedsTask \/ FwEnvironment

FwSpec == FwInit /\ [][FwNext]_fwVars

\* A task that can go on does, or the operation it is in fails; power losses
\* are finitely many (MaxPowerLoss).
FwFairSpec == FwSpec /\ WF_fwVars(FwStep \/ FwFault) /\ WF_fwVars(LedsTask)
-----------------------------------------------------------------------------
(* Properties *)

\* The three partitions of a slot hold one release.
Complete(s) == app[s] # Bad /\ gwui[s] = app[s] /\ nrfFs[s] = app[s]

\* Whatever was interrupted (a download, an erase, the nRF52 step, the write of
\* otadata), the slot that runs holds one complete release in all three of its
\* partitions.  The exception is a rollback forced by a failure at start-up:
\* it only looks at the application of the other slot.
BootsCompleteRelease ==
    pc \notin {"reset", "dead"} /\ nrf2 => Complete(running) \/ forcedRollback

\* A version in the nRF52's register vouches for the program next to it, so
\* that start-up, which compares only the version, never leaves a partly
\* written nRF52 as it is.
NrfVersionHonest == nrfVer # Bad => nrfImg = nrfVer

\* When start-up has reported the nRF52 ready, the nRF52 runs the firmware of
\* the running slot (or one of its own, when the slot's file system cannot be
\* told from a damaged one).
NrfReadyMatches ==
    pc = "run" /\ nrfReady => CurrentNrfFs \in {nrfImg, Bad} /\ nrfImg # Bad

\* No interrupted or failed update, rollback or reset leaves a gateway without
\* an application to boot.
NotDead == pc # "dead"

\* Start-up and one update send leds_task its events in an order it accepts,
\* however late it handles them and although it handles what is pending by
\* number: its assertions fail only when a second update is requested.
LedsAssertOnlyOnSecondUpdate == pc = "panic" => second

\* A reset leads to the main loop, to the erasing of the settings the user asks
\* for, or to the endless loop of app_main; never to a rollback without end.
BootCompletes == pc = "reset" ~> pc \in {"cfg_erase", "run", "hung"}

\* ruuvi_gateway_main.c:608 says that after an auto-update the image is confirmed
\* by http_post_advs or mqtt_event_handler after a successful communication with
\* the server: an image that has not communicated is not confirmed.
AutoUpdateConfirmedByCommunication == \A s \in unconfirmed : ota[s] # "VALID"

-----------------------------------------------------------------------------
(* Why they hold: the parts of an inductive invariant.                     *)

Off == {"reset", "dead"}

\* There is always an application to boot, and the running one is never
\* erased.
SomeApp ==
    /\ \E s \in Slot : app[s] # Bad
    /\ pc \notin Off => app[running] # Bad
    /\ pc # "dead"

\* An update has a reason; every other state has none.
ReasonInv ==
    /\ pc \in UpdateSteps => reason # "NONE"
    /\ pc \in {"reset", "dead", "hung", "run", "cfg_erase", "cfg_erased"} \cup BootSteps
         => reason = "NONE"

\* The nRF52 is written from a file system that can be read; between the
\* erasure and the last step it has no version.
NrfInv ==
    /\ pc \in {"nrf_erase", "nrf_write", "nrf_version"} => CurrentNrfFs # Bad
    /\ pc \in {"nrf_write", "nrf_version"} => nrfVer = Bad
    /\ pc = "nrf_version" => nrfImg = CurrentNrfFs
    /\ pc \in {"app_main", "run"} /\ nrfReady =>
         CurrentNrfFs \in {nrfImg, Bad} /\ nrfImg # Bad

\* The slot the boot loader selects next, and the one it falls back to while
\* the first is not confirmed, hold a complete release; an update writes the
\* slot that is neither.
BootInv ==
    /\ ota[bootSlot] \in {"NEW", "PENDING_VERIFY", "VALID", "ABORTED"}
    /\ ota[Other(bootSlot)] \in {"NONE", "VALID", "ABORTED"}
    /\ ota[bootSlot] # "ABORTED" => Complete(bootSlot)
    /\ ota[bootSlot] # "VALID" =>
         ota[Other(bootSlot)] = "VALID" /\ Complete(Other(bootSlot))
    /\ pc \notin Off =>
         running = IF ota[bootSlot] \in {"NEW", "ABORTED"} THEN Other(bootSlot)
                                                           ELSE bootSlot
    /\ ota[bootSlot] = "NEW" =>
         \/ pc \in Off \cup {"panic"}
         \/ pc \in NrfSteps \cup {"finish"} /\ reason # "NONE"
    /\ pc \notin Off => (cached = "PENDING_VERIFY" <=> ota[running] = "PENDING_VERIFY")

\* What an update has written so far.
WriteInv ==
    LET next == NextUpdateSlot IN
    /\ pc \in UpdateSteps \ {"ota_begin", "finish"} =>
         ota[running] = "VALID"
    /\ pc \in UpdateSteps \ {"finish"} => release # Bad
    /\ pc \in {"gwui_erase", "gwui_write", "nrffs_erase", "nrffs_write", "set_boot"}
         => app[next] = release
    /\ pc \in {"nrffs_erase", "nrffs_write", "set_boot"} => gwui[next] = release
    /\ pc = "set_boot" => nrfFs[next] = release

FlashInv == nrf2 /\ ~forcedRollback => BootInv /\ WriteInv

Pending(e) == e \in ledSigs

\* The signals of start-up that leds_task has not handled yet are the tail of
\* those sent, in the order of their numbers.
LedsAtStartUp ==
    LET after == pc \in {"app_main", "run", "hung"}
        nrf   == Pending("NRF52_READY") \/ Pending("NRF52_FAILURE")
    IN
    /\ ~Pending("CFG_ERASED")
    /\ nrf => after
    /\ ~(Pending("NRF52_READY") /\ Pending("NRF52_FAILURE"))
    /\ Pending("CFG_READY") => pc = "run"
    /\ pc = "nrf_check" => ~Pending("NRF52_FW_UPDATING")
    /\ \/ leds = "AFTER_REBOOT" /\ ledSigs = {} /\ pc \in {"reset", "init", "dead", "hung"}
       \/ /\ leds = "AFTER_REBOOT" /\ Pending("NRF52_FW_CHECK")
          /\ pc \in NrfSteps \/ (after /\ nrf)
       \/ /\ leds = "CHECKING_NRF52_FW" /\ ~Pending("NRF52_FW_CHECK")
          /\ pc \in NrfSteps \/ (after /\ nrf)
       \/ /\ leds = "FLASHING_NRF52_FW"
          /\ ~Pending("NRF52_FW_CHECK") /\ ~Pending("NRF52_FW_UPDATING")
          /\ pc \in NrfSteps \ {"nrf_check"} \/ (after /\ nrf)
       \/ leds = "WAITING_CFG_READY" /\ after /\ ledSigs \subseteq {"CFG_READY"}
       \/ leds = "NRF52_FAILURE" /\ after /\ ledSigs \subseteq {"CFG_READY"}
       \/ leds = "SUBSTATE" /\ pc = "run" /\ ledSigs = {}
    /\ pc = "run" => Pending("CFG_READY") \/ leds \in {"SUBSTATE", "NRF52_FAILURE"}

LedsInv ==
    \/ pc = "panic" /\ second
    \/ /\ ~second
       /\ \/ pc = "cfg_erase" /\ leds = "CFG_ERASING" /\ ledSigs = {}
          \/ /\ pc = "cfg_erased"
             /\ \/ leds = "CFG_ERASING" /\ ledSigs = {"CFG_ERASED"}
                \/ leds = "CFG_ERASED" /\ ledSigs = {}
          \/ /\ pc \in BootSteps \cup NrfSteps \cup {"reset", "dead", "hung", "run"}
             /\ reason = "NONE"
             /\ LedsAtStartUp
          \/ /\ pc \in UpdateSteps \cup NrfSteps /\ reason # "NONE"
             /\ \/ leds = "SUBSTATE" /\ ledSigs = {"NRF52_FW_UPDATING"}
                \/ leds = "FLASHING_NRF52_FW" /\ ledSigs = {}
                \/ leds = "NRF52_FAILURE" /\ ledSigs \subseteq {"NRF52_FW_UPDATING"}

FwInv ==
    /\ FwTypeOK
    /\ NrfVersionHonest
    /\ SomeApp
    /\ ReasonInv
    /\ NrfInv
    /\ FlashInv
    /\ LedsInv
=============================================================================
