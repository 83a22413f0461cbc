--------------------------- MODULE FwUpdateProofs ---------------------------
(***************************************************************************)
(* Proofs about FwUpdate: FwInv is an inductive invariant of FwSpec, for   *)
(* any set of releases and any number of updates and power losses.         *)
(***************************************************************************)
EXTENDS FwUpdate, TLAPS


(* The boot loader finds an application: the selected slot's, or the other *)
(* one's when that does not verify.                                        *)
LEMMA BootloaderStep ==
  ASSUME FwTypeOK, SomeApp, Bootloader
  PROVE  /\ pc = "reset" /\ pc' = "init"
         /\ running' \in Slot
         /\ active' = running'
         /\ app[running'] # Bad
         /\ cached' = ota'[running']
         /\ ota' \in [Slot -> OtaStates]
         /\ UNCHANGED <<flash, bootSlot, autoFlag, nrf52, reason, release, nrfReady,
                        ledVars, history>>
  <1> DEFINE aborted == [s \in Slot |-> IF ota[s] = "PENDING_VERIFY"
                                          THEN "ABORTED" ELSE ota[s]]
             ok(s) == aborted[s] \notin {"NONE", "INVALID", "ABORTED"}
             sel == IF ok(bootSlot) THEN bootSlot ELSE
                    IF ok(Other(bootSlot)) THEN Other(bootSlot) ELSE 0
             ota1 == [aborted EXCEPT ![sel] = IF @ = "NEW" THEN "PENDING_VERIFY"
                                              ELSE @]
             boot == IF app[sel] # Bad THEN sel ELSE Other(sel)
  <1>1. sel \in Slot
    BY DEF FwTypeOK, Slot, Other
  <1>2. /\ pc = "reset"
        /\ ota' = ota1
        /\ IF app[boot] = Bad
             THEN pc' = "dead" /\ UNCHANGED <<running, active, cached>>
             ELSE /\ pc' = "init"
                  /\ running' = boot
                  /\ active' = boot
                  /\ cached' = ota1[boot]
        /\ UNCHANGED <<flash, bootSlot, autoFlag, nrf52, reason, release, nrfReady,
                       ledVars, history>>
    BY DEF Bootloader
  <1>a. aborted \in [Slot -> OtaStates]
    BY DEF FwTypeOK, OtaStates
  <1> HIDE DEF sel, aborted
  <1>3. boot \in Slot /\ app[boot] # Bad
    BY <1>1 DEF SomeApp, Slot, Other
  <1>4. ota1 \in [Slot -> OtaStates]
    BY <1>1, <1>a DEF OtaStates
  <1> HIDE DEF boot, ota1
  <1> QED BY <1>2, <1>3, <1>4

(* leds_task handles the pending signal with the lowest number.            *)
LEMMA LedsTaskStep ==
  ASSUME FwTypeOK, LedsTask
  PROVE  \E sig \in ledSigs :
           /\ \A f \in ledSigs : LedSignal[sig] <= LedSignal[f]
           /\ ledSigs' = ledSigs \ {sig}
           /\ \/ LedsAccept(leds, sig) /\ leds' = LedsNext(leds, sig) /\ UNCHANGED pc
              \/ ~LedsAccept(leds, sig) /\ pc' = "panic" /\ UNCHANGED leds
  <1> DEFINE Least(e) == \A f \in ledSigs : LedSignal[e] <= LedSignal[f]
             sig == CHOOSE e \in ledSigs : Least(e)
  <1>1. \E e \in ledSigs : Least(e)
    <2>1. ledSigs # {} /\ ledSigs \subseteq DOMAIN LedSignal
      BY DEF LedsTask, FwTypeOK
    <2> QED BY <2>1 DEF LedSignal
  <1>2. sig \in ledSigs /\ Least(sig)
    BY <1>1, Zenon
  <1>3. /\ ledSigs' = ledSigs \ {sig}
        /\ IF LedsAccept(leds, sig)
             THEN leds' = LedsNext(leds, sig) /\ UNCHANGED pc
             ELSE pc' = "panic" /\ UNCHANGED leds
    BY DEF LedsTask
  <1> HIDE DEF sig
  <1> QED BY <1>2, <1>3

(* The transitions of leds_ctrl.c, state by state.                         *)
LEMMA LedsTable ==
  /\ \A e : LedsAccept("AFTER_REBOOT", e) <=> e = "NRF52_FW_CHECK"
  /\ LedsNext("AFTER_REBOOT", "NRF52_FW_CHECK") = "CHECKING_NRF52_FW"
  /\ \A e : LedsAccept("CHECKING_NRF52_FW", e) <=>
              e \in {"NRF52_FW_UPDATING", "NRF52_READY", "NRF52_FAILURE"}
  /\ LedsNext("CHECKING_NRF52_FW", "NRF52_FW_UPDATING") = "FLASHING_NRF52_FW"
  /\ LedsNext("CHECKING_NRF52_FW", "NRF52_READY") = "WAITING_CFG_READY"
  /\ LedsNext("CHECKING_NRF52_FW", "NRF52_FAILURE") = "NRF52_FAILURE"
  /\ \A e : LedsAccept("FLASHING_NRF52_FW", e) <=>
              e \in {"NRF52_READY", "NRF52_FAILURE", "CFG_READY"}
  /\ LedsNext("FLASHING_NRF52_FW", "NRF52_READY") = "WAITING_CFG_READY"
  /\ LedsNext("FLASHING_NRF52_FW", "NRF52_FAILURE") = "NRF52_FAILURE"
  /\ LedsNext("FLASHING_NRF52_FW", "CFG_READY") = "FLASHING_NRF52_FW"
  /\ \A e : LedsAccept("WAITING_CFG_READY", e) <=> e = "CFG_READY"
  /\ LedsNext("WAITING_CFG_READY", "CFG_READY") = "SUBSTATE"
  /\ \A e : LedsAccept("SUBSTATE", e) <=>
              e \in {"NRF52_FW_UPDATING", "NRF52_READY", "NRF52_FAILURE"}
  /\ LedsNext("SUBSTATE", "NRF52_FW_UPDATING") = "FLASHING_NRF52_FW"
  /\ LedsNext("SUBSTATE", "NRF52_READY") = "SUBSTATE"
  /\ LedsNext("SUBSTATE", "NRF52_FAILURE") = "SUBSTATE"
  /\ \A e : LedsAccept("CFG_ERASING", e) <=> e = "CFG_ERASED"
  /\ LedsNext("CFG_ERASING", "CFG_ERASED") = "CFG_ERASED"
  /\ \A e : LedsAccept("NRF52_FAILURE", e)
  /\ \A e : LedsNext("NRF52_FAILURE", e) = "NRF52_FAILURE"
  /\ \A e : LedsAccept("CFG_ERASED", e)
  /\ \A e : LedsNext("CFG_ERASED", e) = "CFG_ERASED"
  BY DEF LedsAccept, LedsNext, LedsCtrl

(* An accepted event leads to a state of the LED controller.               *)
LEMMA LedsNextType ==
  ASSUME NEW s \in LedStates, NEW e, LedsAccept(s, e)
  PROVE  LedsNext(s, e) \in LedStates
  BY LedsTable DEF LedStates

(* The numbers of leds_task_sig_e.                                         *)
LEMMA SignalOrder ==
  /\ DOMAIN LedSignal = {"NRF52_FW_CHECK", "NRF52_FW_UPDATING", "NRF52_READY",
                         "NRF52_FAILURE", "CFG_READY", "CFG_ERASED"}
  /\ LedSignal["NRF52_FW_CHECK"] = 2
  /\ LedSignal["NRF52_FW_UPDATING"] = 3
  /\ LedSignal["NRF52_READY"] = 4
  /\ LedSignal["NRF52_FAILURE"] = 5
  /\ LedSignal["CFG_READY"] = 6
  /\ LedSignal["CFG_ERASED"] = 8
  BY DEF LedSignal

(* Without a forced rollback the boot loader starts a new or a confirmed image *)
(* of the slot written last, and falls back to the other slot otherwise.   *)
LEMMA BootloaderSelects ==
  ASSUME FwTypeOK, BootInv, Bootloader
  PROVE  /\ pc' = "init"
         /\ running' = IF ota[bootSlot] \in {"NEW", "VALID"} THEN bootSlot
                                                            ELSE Other(bootSlot)
         /\ \A s \in Slot : ota'[s] = IF ota[s] = "NEW" THEN "PENDING_VERIFY" ELSE
                                     IF ota[s] = "PENDING_VERIFY" THEN "ABORTED"
                                     ELSE ota[s]
         /\ cached' = ota'[running']
  <1> DEFINE aborted == [s \in Slot |-> IF ota[s] = "PENDING_VERIFY"
                                          THEN "ABORTED" ELSE ota[s]]
             ok(s) == aborted[s] \notin {"NONE", "INVALID", "ABORTED"}
             sel == IF ok(bootSlot) THEN bootSlot ELSE
                    IF ok(Other(bootSlot)) THEN Other(bootSlot) ELSE 0
             ota1 == [aborted EXCEPT ![sel] = IF @ = "NEW" THEN "PENDING_VERIFY"
                                              ELSE @]
             boot == IF app[sel] # Bad THEN sel ELSE Other(sel)
  <1> USE DEF FwTypeOK, Slot, Other, BootInv, Complete
  <1>1. sel = IF ota[bootSlot] \in {"NEW", "VALID"} THEN bootSlot
                                                    ELSE Other(bootSlot)
    OBVIOUS
  <1>2. /\ ota' = ota1
        /\ IF app[boot] = Bad
             THEN pc' = "dead" /\ UNCHANGED <<running, active, cached>>
             ELSE /\ pc' = "init"
                  /\ running' = boot
                  /\ active' = boot
                  /\ cached' = ota1[boot]
    BY DEF Bootloader
  <1>3. aborted \in [Slot -> OtaStates]
    BY DEF OtaStates
  <1>4. \A s \in Slot : aborted[s] = IF ota[s] = "PENDING_VERIFY" THEN "ABORTED"
                                                                 ELSE ota[s]
    OBVIOUS
  <1> HIDE DEF sel, aborted
  <1>5. app[sel] # Bad /\ boot = sel
    BY <1>1
  <1>6. ASSUME NEW s \in Slot
        PROVE  ota1[s] = IF ota[s] = "NEW" THEN "PENDING_VERIFY" ELSE
                         IF ota[s] = "PENDING_VERIFY" THEN "ABORTED" ELSE ota[s]
    <2>1. ota1[s] = IF s = sel /\ aborted[s] = "NEW" THEN "PENDING_VERIFY"
                                                     ELSE aborted[s]
      BY <1>3
    <2>2. ota[s] = "NEW" => s = sel
      BY <1>1
    <2> QED BY <1>4, <2>1, <2>2
  <1> HIDE DEF boot, ota1
  <1> QED BY <1>1, <1>2, <1>5, <1>6

(* Every action keeps the flags Boolean.                                   *)
LEMMA FlagsNext ==
  FwFlags /\ [FwNext]_fwVars
    => FwFlags'
  <1> SUFFICES ASSUME FwFlags,
                      [FwNext]_fwVars
               PROVE  FwFlags'
    OBVIOUS
  <1> USE DEF FwFlags, fwVars, flash, otadata, nrf52, ledVars, ram, history
  <1>1. CASE Bootloader
    BY <1>1, Zenon DEF Bootloader
  <1>2. CASE InitSucceeds
    BY <1>2, Zenon DEF InitSucceeds, NotifyLeds
  <1>3. CASE AppMain
    BY <1>3, Zenon DEF AppMain, NotifyLeds, MarkAppValid
  <1>4. CASE Panic
    BY <1>4, Zenon DEF Panic, ClearRam
  <1>5. CASE EraseSettings
    BY <1>5, Zenon DEF EraseSettings, NotifyLeds
  <1>6. CASE NrfCheck
    BY <1>6, Zenon DEF NrfCheck, NrfSucceeded, NotifyLeds, InUpdate
  <1>7. CASE NrfErase
    BY <1>7, Zenon DEF NrfErase
  <1>8. CASE NrfWrite
    BY <1>8, Zenon DEF NrfWrite
  <1>9. CASE NrfWriteVersion
    BY <1>9, Zenon DEF NrfWriteVersion, NrfSucceeded, NotifyLeds, InUpdate
  <1>10. CASE EspOtaBegin
    BY <1>10, Zenon DEF EspOtaBegin
  <1>11. CASE EspOtaWrite
    BY <1>11, Zenon DEF EspOtaWrite
  <1>12. CASE EraseFatfsGwui
    BY <1>12, Zenon DEF EraseFatfsGwui
  <1>13. CASE WriteFatfsGwui
    BY <1>13, Zenon DEF WriteFatfsGwui
  <1>14. CASE EraseFatfsNrf52
    BY <1>14, Zenon DEF EraseFatfsNrf52
  <1>15. CASE WriteFatfsNrf52
    BY <1>15, Zenon DEF WriteFatfsNrf52
  <1>16. CASE SetBootPartition
    BY <1>16, Zenon DEF SetBootPartition
  <1>17. CASE FinishUpdate
    BY <1>17, Zenon DEF FinishUpdate, ClearRam
  <1>18. CASE InitFails
    BY <1>18, Zenon DEF InitFails, RollbackAndReboot, ClearRam
  <1>19. CASE NrfFails
    BY <1>19, Zenon DEF NrfFails, RollbackAndReboot, ClearRam, InUpdate,
          NotifyLeds, NrfSteps
  <1>20. CASE UpdateFails
    BY <1>20, Zenon DEF UpdateFails, ClearRam
  <1>21. CASE ConfigureButtonHeld
    BY <1>21, Zenon DEF ConfigureButtonHeld
  <1>22. CASE ConfigureButtonReleased
    BY <1>22, Zenon DEF ConfigureButtonReleased, ClearRam
  <1>23. CASE SecondUpdate
    BY <1>23, Zenon DEF SecondUpdate, UpdateSteps, NrfSteps, InUpdate
  <1>24. CASE CommunicationSucceeds
    BY <1>24, Zenon DEF CommunicationSucceeds, MarkAppValid
  <1>25. CASE GatewayRestart
    BY <1>25, Zenon DEF GatewayRestart, ClearRam
  <1>26. CASE PowerLoss
    BY <1>26, Zenon DEF PowerLoss, ClearRam
  <1>27. CASE PowerCycle
    BY <1>27, Zenon DEF PowerCycle, ClearRam
  <1>28. CASE LedsTask
    BY <1>28, Zenon DEF LedsTask
  <1>29. ASSUME NEW why \in Reasons \ {"NONE"},
               NEW rel \in Releases, FwUpdateRun(why, rel)
        PROVE  FwFlags'
    BY <1>29, Zenon DEF FwUpdateRun, NotifyLeds
  <1>30. CASE UNCHANGED fwVars
    BY <1>30
  <1> QED BY <1>1, <1>2, <1>3, <1>4, <1>5, <1>6, <1>7, <1>8, <1>9, <1>10,
        <1>11, <1>12, <1>13, <1>14, <1>15, <1>16, <1>17, <1>18, <1>19,
        <1>20, <1>21, <1>22, <1>23, <1>24, <1>25, <1>26, <1>27, <1>28,
        <1>29, <1>30
      DEF FwNext, FwStep, FwFault, FwEnvironment

(* Every action keeps the types.                                           *)
LEMMA TypesNext ==
  FwTypeOK /\ SomeApp /\ [FwNext]_fwVars
    => FwTypeOK'
  <1> SUFFICES ASSUME FwTypeOK /\ SomeApp,
                      [FwNext]_fwVars
               PROVE  FwTypeOK'
    OBVIOUS
  <1>0. FwFlags'
    BY FlagsNext DEF FwTypeOK
  <1> USE DEF FwTypeOK, Slot, Other, ActiveEntry, Images, NextUpdateSlot,
        NextNrfFs, CurrentNrfFs, OtaStates, Reasons, PCs, BootSteps,
        UpdateSteps, NrfSteps, LedStates, fwVars, flash, otadata, nrf52,
        ledVars, ram, history
  <1>1. CASE Bootloader
    BY <1>0, <1>1, BootloaderStep, SignalOrder
  <1>2. CASE InitSucceeds
    BY <1>0, <1>2, SignalOrder, FwAssumption DEF InitSucceeds, NotifyLeds
  <1>3. CASE AppMain
    BY <1>0, <1>3, SignalOrder, FwAssumption DEF AppMain, NotifyLeds,
          MarkAppValid
  <1>4. CASE Panic
    BY <1>0, <1>4, SignalOrder, FwAssumption DEF Panic, ClearRam
  <1>5. CASE EraseSettings
    BY <1>0, <1>5, SignalOrder, FwAssumption DEF EraseSettings, NotifyLeds
  <1>6. CASE NrfCheck
    BY <1>0, <1>6, SignalOrder, FwAssumption DEF NrfCheck, NrfSucceeded,
          NotifyLeds, InUpdate
  <1>7. CASE NrfErase
    BY <1>0, <1>7, SignalOrder, FwAssumption DEF NrfErase
  <1>8. CASE NrfWrite
    BY <1>0, <1>8, SignalOrder, FwAssumption DEF NrfWrite
  <1>9. CASE NrfWriteVersion
    BY <1>0, <1>9, SignalOrder, FwAssumption DEF NrfWriteVersion,
          NrfSucceeded, NotifyLeds, InUpdate
  <1>10. CASE EspOtaBegin
    BY <1>0, <1>10, SignalOrder, FwAssumption DEF EspOtaBegin
  <1>11. CASE EspOtaWrite
    BY <1>0, <1>11, SignalOrder, FwAssumption DEF EspOtaWrite
  <1>12. CASE EraseFatfsGwui
    BY <1>0, <1>12, SignalOrder, FwAssumption DEF EraseFatfsGwui
  <1>13. CASE WriteFatfsGwui
    BY <1>0, <1>13, SignalOrder, FwAssumption DEF WriteFatfsGwui
  <1>14. CASE EraseFatfsNrf52
    BY <1>0, <1>14, SignalOrder, FwAssumption DEF EraseFatfsNrf52
  <1>15. CASE WriteFatfsNrf52
    BY <1>0, <1>15, SignalOrder, FwAssumption DEF WriteFatfsNrf52
  <1>16. CASE SetBootPartition
    BY <1>0, <1>16, SignalOrder, FwAssumption DEF SetBootPartition
  <1>17. CASE FinishUpdate
    BY <1>0, <1>17, SignalOrder, FwAssumption DEF FinishUpdate, ClearRam
  <1>18. CASE InitFails
    BY <1>0, <1>18, SignalOrder, FwAssumption DEF InitFails,
          RollbackAndReboot, ClearRam
  <1>19. CASE NrfFails
    BY <1>0, <1>19, SignalOrder, FwAssumption DEF NrfFails,
          RollbackAndReboot, ClearRam, InUpdate, NotifyLeds, NrfSteps
  <1>20. CASE UpdateFails
    BY <1>0, <1>20, SignalOrder, FwAssumption DEF UpdateFails, ClearRam
  <1>21. CASE ConfigureButtonHeld
    BY <1>0, <1>21, SignalOrder, FwAssumption DEF ConfigureButtonHeld
  <1>22. CASE ConfigureButtonReleased
    BY <1>0, <1>22, SignalOrder, FwAssumption DEF ConfigureButtonReleased,
          ClearRam
  <1>23. CASE SecondUpdate
    BY <1>0, <1>23, SignalOrder, FwAssumption DEF SecondUpdate, UpdateSteps, NrfSteps, InUpdate
  <1>24. CASE CommunicationSucceeds
    BY <1>0, <1>24, SignalOrder, FwAssumption DEF CommunicationSucceeds,
          MarkAppValid
  <1>25. CASE GatewayRestart
    BY <1>0, <1>25, SignalOrder, FwAssumption DEF GatewayRestart, ClearRam
  <1>26. CASE PowerLoss
    BY <1>0, <1>26, SignalOrder, FwAssumption DEF PowerLoss, ClearRam
  <1>27. CASE PowerCycle
    BY <1>0, <1>27, SignalOrder, FwAssumption DEF PowerCycle, ClearRam
  <1>28. CASE LedsTask
    <2> PICK sig \in ledSigs :
          /\ \A f \in ledSigs : LedSignal[sig] <= LedSignal[f]
          /\ ledSigs' = ledSigs \ {sig}
          /\ \/ LedsAccept(leds, sig) /\ leds' = LedsNext(leds, sig) /\ UNCHANGED pc
             \/ ~LedsAccept(leds, sig) /\ pc' = "panic" /\ UNCHANGED leds
      BY <1>0, <1>28, LedsTaskStep
    <2>1. UNCHANGED <<flash, otadata, autoFlag, nrf52, ram, second, history>>
      BY <1>0, <1>28 DEF LedsTask
    <2>2. leds' \in LedStates
      BY LedsNextType
    <2> QED BY <1>0, <2>1, <2>2, SignalOrder
  <1>29. ASSUME NEW why \in Reasons \ {"NONE"},
               NEW rel \in Releases, FwUpdateRun(why, rel)
        PROVE  FwTypeOK'
    BY <1>0, <1>29, SignalOrder, FwAssumption DEF FwUpdateRun, NotifyLeds
  <1>30. CASE UNCHANGED fwVars
    BY <1>0, <1>30
  <1> QED BY <1>1, <1>2, <1>3, <1>4, <1>5, <1>6, <1>7, <1>8, <1>9, <1>10,
        <1>11, <1>12, <1>13, <1>14, <1>15, <1>16, <1>17, <1>18, <1>19,
        <1>20, <1>21, <1>22, <1>23, <1>24, <1>25, <1>26, <1>27, <1>28,
        <1>29, <1>30
      DEF FwNext, FwStep, FwFault, FwEnvironment

(* Nothing is pending for leds_task at a reset.                            *)
LEMMA QuietAtReset == LedsInv /\ pc = "reset" => ledSigs = {}
  BY DEF LedsInv, LedsAtStartUp, BootSteps, NrfSteps, UpdateSteps

(* No action erases the last application, or the running one.              *)
LEMMA SomeAppNext ==
  FwTypeOK /\ SomeApp /\ LedsInv /\ [FwNext]_fwVars
    => SomeApp'
  <1> SUFFICES ASSUME FwTypeOK /\ SomeApp /\ LedsInv,
                      [FwNext]_fwVars
               PROVE  SomeApp'
    OBVIOUS
  <1> USE DEF FwTypeOK, SomeApp, Off, Slot, Other, fwVars, flash, otadata,
        nrf52, ledVars, ram, history, NextUpdateSlot, NrfSteps, UpdateSteps
  <1>1. CASE Bootloader
    BY <1>1, BootloaderStep, SignalOrder
  <1>2. CASE InitSucceeds
    BY <1>2 DEF InitSucceeds, NotifyLeds
  <1>3. CASE AppMain
    BY <1>3 DEF AppMain, NotifyLeds, MarkAppValid
  <1>4. CASE Panic
    BY <1>4 DEF Panic, ClearRam
  <1>5. CASE EraseSettings
    BY <1>5 DEF EraseSettings, NotifyLeds
  <1>6. CASE NrfCheck
    BY <1>6 DEF NrfCheck, NrfSucceeded, NotifyLeds, InUpdate
  <1>7. CASE NrfErase
    BY <1>7 DEF NrfErase
  <1>8. CASE NrfWrite
    BY <1>8 DEF NrfWrite
  <1>9. CASE NrfWriteVersion
    BY <1>9 DEF NrfWriteVersion, NrfSucceeded, NotifyLeds, InUpdate
  <1>10. CASE EspOtaBegin
    BY <1>10 DEF EspOtaBegin
  <1>11. CASE EspOtaWrite
    BY <1>11 DEF EspOtaWrite
  <1>12. CASE EraseFatfsGwui
    BY <1>12 DEF EraseFatfsGwui
  <1>13. CASE WriteFatfsGwui
    BY <1>13 DEF WriteFatfsGwui
  <1>14. CASE EraseFatfsNrf52
    BY <1>14 DEF EraseFatfsNrf52
  <1>15. CASE WriteFatfsNrf52
    BY <1>15 DEF WriteFatfsNrf52
  <1>16. CASE SetBootPartition
    BY <1>16 DEF SetBootPartition
  <1>17. CASE FinishUpdate
    BY <1>17 DEF FinishUpdate, ClearRam
  <1>18. CASE InitFails
    BY <1>18 DEF InitFails, RollbackAndReboot, ClearRam
  <1>19. CASE NrfFails
    BY <1>19 DEF NrfFails, RollbackAndReboot, ClearRam, InUpdate,
          NotifyLeds, NrfSteps
  <1>20. CASE UpdateFails
    BY <1>20 DEF UpdateFails, ClearRam
  <1>21. CASE ConfigureButtonHeld
    BY <1>21 DEF ConfigureButtonHeld
  <1>22. CASE ConfigureButtonReleased
    BY <1>22 DEF ConfigureButtonReleased, ClearRam
  <1>23. CASE SecondUpdate
    BY <1>23 DEF SecondUpdate, UpdateSteps, NrfSteps, InUpdate
  <1>24. CASE CommunicationSucceeds
    BY <1>24 DEF CommunicationSucceeds, MarkAppValid
  <1>25. CASE GatewayRestart
    BY <1>25 DEF GatewayRestart, ClearRam
  <1>26. CASE PowerLoss
    BY <1>26 DEF PowerLoss, ClearRam
  <1>27. CASE PowerCycle
    BY <1>27 DEF PowerCycle, ClearRam
  <1>28. CASE LedsTask
    <2> PICK sig \in ledSigs :
          /\ \A f \in ledSigs : LedSignal[sig] <= LedSignal[f]
          /\ ledSigs' = ledSigs \ {sig}
          /\ \/ LedsAccept(leds, sig) /\ leds' = LedsNext(leds, sig) /\ UNCHANGED pc
             \/ ~LedsAccept(leds, sig) /\ pc' = "panic" /\ UNCHANGED leds
      BY <1>28, LedsTaskStep
    <2>1. UNCHANGED <<flash, otadata, autoFlag, nrf52, ram, second, history>>
      BY <1>28 DEF LedsTask
    <2>2. pc # "reset"
      BY <1>28, QuietAtReset DEF LedsTask
    <2> QED BY <2>1, <2>2
  <1>29. ASSUME NEW why \in Reasons \ {"NONE"},
               NEW rel \in Releases, FwUpdateRun(why, rel)
        PROVE  SomeApp'
    BY <1>29 DEF FwUpdateRun, NotifyLeds
  <1>30. CASE UNCHANGED fwVars
    BY <1>30
  <1> QED BY <1>1, <1>2, <1>3, <1>4, <1>5, <1>6, <1>7, <1>8, <1>9, <1>10,
        <1>11, <1>12, <1>13, <1>14, <1>15, <1>16, <1>17, <1>18, <1>19,
        <1>20, <1>21, <1>22, <1>23, <1>24, <1>25, <1>26, <1>27, <1>28,
        <1>29, <1>30
      DEF FwNext, FwStep, FwFault, FwEnvironment

(* No action makes the slot to be booted, or the one to fall back to,      *)
(* incomplete.                                                             *)
LEMMA FlashNext ==
  FwTypeOK /\ SomeApp /\ ReasonInv /\ LedsInv /\ FlashInv /\ [FwNext]_fwVars
    => FlashInv'
  <1> SUFFICES ASSUME FwTypeOK /\ SomeApp /\ ReasonInv /\ LedsInv /\ FlashInv,
                      [FwNext]_fwVars
               PROVE  FlashInv'
    OBVIOUS
  <1> USE DEF FwTypeOK, FwFlags, SomeApp, ReasonInv, FlashInv, BootInv,
        WriteInv, Complete, Off, Slot, Other, OtaStates, BootSteps,
        ActiveEntry, RollbackPossible, Selectable, NextNrfFs, fwVars, flash,
        otadata, nrf52, ledVars, ram, history, NextUpdateSlot, NrfSteps,
        UpdateSteps, Images
  <1>1. CASE Bootloader
    <2>1. SUFFICES ASSUME nrf2, ~forcedRollback PROVE BootInv' /\ WriteInv'
      BY <1>1, BootloaderStep
    <2>2. BootInv
      BY <2>1
    <2> QED BY <1>1, <2>2, BootloaderStep, BootloaderSelects
  <1>2. CASE InitSucceeds
    BY <1>2, FwAssumption DEF InitSucceeds, NotifyLeds
  <1>3. CASE AppMain
    BY <1>3, FwAssumption DEF AppMain, NotifyLeds, MarkAppValid
  <1>4. CASE Panic
    BY <1>4, FwAssumption DEF Panic, ClearRam
  <1>5. CASE EraseSettings
    BY <1>5, FwAssumption DEF EraseSettings, NotifyLeds
  <1>6. CASE NrfCheck
    BY <1>6, FwAssumption DEF NrfCheck, NrfSucceeded, NotifyLeds, InUpdate
  <1>7. CASE NrfErase
    BY <1>7, FwAssumption DEF NrfErase
  <1>8. CASE NrfWrite
    BY <1>8, FwAssumption DEF NrfWrite
  <1>9. CASE NrfWriteVersion
    BY <1>9, FwAssumption DEF NrfWriteVersion, NrfSucceeded, NotifyLeds,
          InUpdate
  <1>10. CASE EspOtaBegin
    BY <1>10, FwAssumption DEF EspOtaBegin
  <1>11. CASE EspOtaWrite
    BY <1>11, FwAssumption DEF EspOtaWrite
  <1>12. CASE EraseFatfsGwui
    BY <1>12, FwAssumption DEF EraseFatfsGwui
  <1>13. CASE WriteFatfsGwui
    BY <1>13, FwAssumption DEF WriteFatfsGwui
  <1>14. CASE EraseFatfsNrf52
    BY <1>14, FwAssumption DEF EraseFatfsNrf52
  <1>15. CASE WriteFatfsNrf52
    BY <1>15, FwAssumption DEF WriteFatfsNrf52
  <1>16. CASE SetBootPartition
    BY <1>16, FwAssumption DEF SetBootPartition
  <1>17. CASE FinishUpdate
    BY <1>17, FwAssumption DEF FinishUpdate, ClearRam
  <1>18. CASE InitFails
    BY <1>18, FwAssumption DEF InitFails, RollbackAndReboot, ClearRam
  <1>19. CASE NrfFails
    BY <1>19, FwAssumption DEF NrfFails, RollbackAndReboot, ClearRam,
          InUpdate, NotifyLeds, NrfSteps
  <1>20. CASE UpdateFails
    BY <1>20, FwAssumption DEF UpdateFails, ClearRam
  <1>21. CASE ConfigureButtonHeld
    BY <1>21, FwAssumption DEF ConfigureButtonHeld
  <1>22. CASE ConfigureButtonReleased
    BY <1>22, FwAssumption DEF ConfigureButtonReleased, ClearRam
  <1>23. CASE SecondUpdate
    BY <1>23, FwAssumption DEF SecondUpdate, UpdateSteps, NrfSteps, InUpdate
  <1>24. CASE CommunicationSucceeds
    BY <1>24, FwAssumption DEF CommunicationSucceeds, MarkAppValid
  <1>25. CASE GatewayRestart
    BY <1>25, FwAssumption DEF GatewayRestart, ClearRam
  <1>26. CASE PowerLoss
    BY <1>26, FwAssumption DEF PowerLoss, ClearRam
  <1>27. CASE PowerCycle
    BY <1>27, FwAssumption DEF PowerCycle, ClearRam
  <1>28. CASE LedsTask
    <2> PICK sig \in ledSigs :
          /\ \A f \in ledSigs : LedSignal[sig] <= LedSignal[f]
          /\ ledSigs' = ledSigs \ {sig}
          /\ \/ LedsAccept(leds, sig) /\ leds' = LedsNext(leds, sig) /\ UNCHANGED pc
             \/ ~LedsAccept(leds, sig) /\ pc' = "panic" /\ UNCHANGED leds
      BY <1>28, LedsTaskStep
    <2>1. UNCHANGED <<flash, otadata, autoFlag, nrf52, ram, second, history>>
      BY <1>28 DEF LedsTask
    <2>2. pc # "reset"
      BY <1>28, QuietAtReset DEF LedsTask
    <2> QED BY <2>1, <2>2
  <1>29. ASSUME NEW why \in Reasons \ {"NONE"},
               NEW rel \in Releases, FwUpdateRun(why, rel)
        PROVE  FlashInv'
    BY <1>29, FwAssumption DEF FwUpdateRun, NotifyLeds
  <1>30. CASE UNCHANGED fwVars
    BY <1>30
  <1> QED BY <1>1, <1>2, <1>3, <1>4, <1>5, <1>6, <1>7, <1>8, <1>9, <1>10,
        <1>11, <1>12, <1>13, <1>14, <1>15, <1>16, <1>17, <1>18, <1>19,
        <1>20, <1>21, <1>22, <1>23, <1>24, <1>25, <1>26, <1>27, <1>28,
        <1>29, <1>30
      DEF FwNext, FwStep, FwFault, FwEnvironment

(* Every event reaches leds_task in a state that accepts it, unless it is that *)
(* of a second update.                                                     *)
LEMMA LedsInvNext ==
  FwTypeOK /\ SomeApp /\ ReasonInv /\ LedsInv /\ [FwNext]_fwVars
    => LedsInv'
  <1> SUFFICES ASSUME FwTypeOK /\ SomeApp /\ ReasonInv /\ LedsInv,
                      [FwNext]_fwVars
               PROVE  LedsInv'
    OBVIOUS
  <1> USE DEF LedsInv, LedsAtStartUp, Pending, ReasonInv, SomeApp,
        BootSteps, NrfSteps, UpdateSteps, fwVars, flash, otadata, nrf52,
        ledVars, ram, history
  <1>1. CASE Bootloader
    BY <1>1, BootloaderStep
  <1>2. CASE InitSucceeds
    BY <1>2 DEF InitSucceeds, NotifyLeds
  <1>3. CASE AppMain
    BY <1>3 DEF AppMain, NotifyLeds, MarkAppValid
  <1>4. CASE Panic
    BY <1>4 DEF Panic, ClearRam
  <1>5. CASE EraseSettings
    BY <1>5 DEF EraseSettings, NotifyLeds
  <1>6. CASE NrfCheck
    BY <1>6 DEF NrfCheck, NrfSucceeded, NotifyLeds, InUpdate
  <1>7. CASE NrfErase
    BY <1>7 DEF NrfErase
  <1>8. CASE NrfWrite
    BY <1>8 DEF NrfWrite
  <1>9. CASE NrfWriteVersion
    BY <1>9 DEF NrfWriteVersion, NrfSucceeded, NotifyLeds, InUpdate
  <1>10. CASE EspOtaBegin
    BY <1>10 DEF EspOtaBegin
  <1>11. CASE EspOtaWrite
    BY <1>11 DEF EspOtaWrite
  <1>12. CASE EraseFatfsGwui
    BY <1>12 DEF EraseFatfsGwui
  <1>13. CASE WriteFatfsGwui
    BY <1>13 DEF WriteFatfsGwui
  <1>14. CASE EraseFatfsNrf52
    BY <1>14 DEF EraseFatfsNrf52
  <1>15. CASE WriteFatfsNrf52
    BY <1>15 DEF WriteFatfsNrf52
  <1>16. CASE SetBootPartition
    BY <1>16 DEF SetBootPartition
  <1>17. CASE FinishUpdate
    BY <1>17 DEF FinishUpdate, ClearRam
  <1>18. CASE InitFails
    BY <1>18 DEF InitFails, RollbackAndReboot, ClearRam
  <1>19. CASE NrfFails
    BY <1>19 DEF NrfFails, RollbackAndReboot, ClearRam, InUpdate,
          NotifyLeds, NrfSteps
  <1>20. CASE UpdateFails
    BY <1>20 DEF UpdateFails, ClearRam
  <1>21. CASE ConfigureButtonHeld
    BY <1>21 DEF ConfigureButtonHeld
  <1>22. CASE ConfigureButtonReleased
    BY <1>22 DEF ConfigureButtonReleased, ClearRam
  <1>23. CASE SecondUpdate
    BY <1>23 DEF SecondUpdate, UpdateSteps, NrfSteps, InUpdate
  <1>24. CASE CommunicationSucceeds
    BY <1>24 DEF CommunicationSucceeds, MarkAppValid
  <1>25. CASE GatewayRestart
    BY <1>25 DEF GatewayRestart, ClearRam
  <1>26. CASE PowerLoss
    BY <1>26 DEF PowerLoss, ClearRam
  <1>27. CASE PowerCycle
    BY <1>27 DEF PowerCycle, ClearRam
  <1>28. CASE LedsTask
    <2> PICK sig \in ledSigs :
          /\ \A f \in ledSigs : LedSignal[sig] <= LedSignal[f]
          /\ ledSigs' = ledSigs \ {sig}
          /\ \/ LedsAccept(leds, sig) /\ leds' = LedsNext(leds, sig) /\ UNCHANGED pc
             \/ ~LedsAccept(leds, sig) /\ pc' = "panic" /\ UNCHANGED leds
      BY <1>28, LedsTaskStep
    <2>1. UNCHANGED <<flash, otadata, autoFlag, nrf52, ram, second, history>>
      BY <1>28 DEF LedsTask
    <2> QED BY <2>1, LedsTable, SignalOrder DEF FwTypeOK, LedStates
  <1>29. ASSUME NEW why \in Reasons \ {"NONE"},
               NEW rel \in Releases, FwUpdateRun(why, rel)
        PROVE  LedsInv'
    BY <1>29 DEF FwUpdateRun, NotifyLeds
  <1>30. CASE UNCHANGED fwVars
    BY <1>30
  <1> QED BY <1>1, <1>2, <1>3, <1>4, <1>5, <1>6, <1>7, <1>8, <1>9, <1>10,
        <1>11, <1>12, <1>13, <1>14, <1>15, <1>16, <1>17, <1>18, <1>19,
        <1>20, <1>21, <1>22, <1>23, <1>24, <1>25, <1>26, <1>27, <1>28,
        <1>29, <1>30
      DEF FwNext, FwStep, FwFault, FwEnvironment

(* g_fw_updating_reason is set exactly while an update runs.               *)
LEMMA ReasonNext ==
  FwTypeOK /\ ReasonInv /\ [FwNext]_fwVars
    => ReasonInv'
  <1> SUFFICES ASSUME FwTypeOK /\ ReasonInv,
                      [FwNext]_fwVars
               PROVE  ReasonInv'
    OBVIOUS
  <1> USE DEF ReasonInv, BootSteps, UpdateSteps, NrfSteps, fwVars, flash,
        otadata, nrf52, ledVars, ram, history
  <1>1. CASE Bootloader
    BY <1>1 DEF Bootloader
  <1>2. CASE InitSucceeds
    BY <1>2 DEF InitSucceeds, NotifyLeds
  <1>3. CASE AppMain
    BY <1>3 DEF AppMain, NotifyLeds, MarkAppValid
  <1>4. CASE Panic
    BY <1>4 DEF Panic, ClearRam
  <1>5. CASE EraseSettings
    BY <1>5 DEF EraseSettings, NotifyLeds
  <1>6. CASE NrfCheck
    BY <1>6 DEF NrfCheck, NrfSucceeded, NotifyLeds, InUpdate
  <1>7. CASE NrfErase
    BY <1>7 DEF NrfErase
  <1>8. CASE NrfWrite
    BY <1>8 DEF NrfWrite
  <1>9. CASE NrfWriteVersion
    BY <1>9 DEF NrfWriteVersion, NrfSucceeded, NotifyLeds, InUpdate
  <1>10. CASE EspOtaBegin
    BY <1>10 DEF EspOtaBegin
  <1>11. CASE EspOtaWrite
    BY <1>11 DEF EspOtaWrite
  <1>12. CASE EraseFatfsGwui
    BY <1>12 DEF EraseFatfsGwui
  <1>13. CASE WriteFatfsGwui
    BY <1>13 DEF WriteFatfsGwui
  <1>14. CASE EraseFatfsNrf52
    BY <1>14 DEF EraseFatfsNrf52
  <1>15. CASE WriteFatfsNrf52
    BY <1>15 DEF WriteFatfsNrf52
  <1>16. CASE SetBootPartition
    BY <1>16 DEF SetBootPartition
  <1>17. CASE FinishUpdate
    BY <1>17 DEF FinishUpdate, ClearRam
  <1>18. CASE InitFails
    BY <1>18 DEF InitFails, RollbackAndReboot, ClearRam
  <1>19. CASE NrfFails
    BY <1>19 DEF NrfFails, RollbackAndReboot, ClearRam, InUpdate,
          NotifyLeds, NrfSteps
  <1>20. CASE UpdateFails
    BY <1>20 DEF UpdateFails, ClearRam
  <1>21. CASE ConfigureButtonHeld
    BY <1>21 DEF ConfigureButtonHeld
  <1>22. CASE ConfigureButtonReleased
    BY <1>22 DEF ConfigureButtonReleased, ClearRam
  <1>23. CASE SecondUpdate
    BY <1>23 DEF SecondUpdate, UpdateSteps, NrfSteps, InUpdate
  <1>24. CASE CommunicationSucceeds
    BY <1>24 DEF CommunicationSucceeds, MarkAppValid
  <1>25. CASE GatewayRestart
    BY <1>25 DEF GatewayRestart, ClearRam
  <1>26. CASE PowerLoss
    BY <1>26 DEF PowerLoss, ClearRam
  <1>27. CASE PowerCycle
    BY <1>27 DEF PowerCycle, ClearRam
  <1>28. CASE LedsTask
    BY <1>28 DEF LedsTask
  <1>29. ASSUME NEW why \in Reasons \ {"NONE"},
               NEW rel \in Releases, FwUpdateRun(why, rel)
        PROVE  ReasonInv'
    BY <1>29 DEF FwUpdateRun, NotifyLeds
  <1>30. CASE UNCHANGED fwVars
    BY <1>30
  <1> QED BY <1>1, <1>2, <1>3, <1>4, <1>5, <1>6, <1>7, <1>8, <1>9, <1>10,
        <1>11, <1>12, <1>13, <1>14, <1>15, <1>16, <1>17, <1>18, <1>19,
        <1>20, <1>21, <1>22, <1>23, <1>24, <1>25, <1>26, <1>27, <1>28,
        <1>29, <1>30
      DEF FwNext, FwStep, FwFault, FwEnvironment

(* The version register of the nRF52 never gets ahead of its program.      *)
LEMMA NrfNext ==
  FwTypeOK /\ NrfVersionHonest /\ NrfInv /\ [FwNext]_fwVars
    => (NrfVersionHonest /\ NrfInv)'
  <1> SUFFICES ASSUME FwTypeOK /\ NrfVersionHonest /\ NrfInv,
                      [FwNext]_fwVars
               PROVE  (NrfVersionHonest /\ NrfInv)'
    OBVIOUS
  <1> USE DEF NrfVersionHonest, NrfInv, CurrentNrfFs, UpdateSteps, NrfSteps,
        FwTypeOK, Slot, fwVars, flash, otadata, nrf52, ledVars, ram, history
  <1>1. CASE Bootloader
    BY <1>1 DEF Bootloader
  <1>2. CASE InitSucceeds
    BY <1>2 DEF InitSucceeds, NotifyLeds
  <1>3. CASE AppMain
    BY <1>3 DEF AppMain, NotifyLeds, MarkAppValid
  <1>4. CASE Panic
    BY <1>4 DEF Panic, ClearRam
  <1>5. CASE EraseSettings
    BY <1>5 DEF EraseSettings, NotifyLeds
  <1>6. CASE NrfCheck
    BY <1>6 DEF NrfCheck, NrfSucceeded, NotifyLeds, InUpdate
  <1>7. CASE NrfErase
    BY <1>7 DEF NrfErase
  <1>8. CASE NrfWrite
    BY <1>8 DEF NrfWrite
  <1>9. CASE NrfWriteVersion
    BY <1>9 DEF NrfWriteVersion, NrfSucceeded, NotifyLeds, InUpdate
  <1>10. CASE EspOtaBegin
    BY <1>10 DEF EspOtaBegin
  <1>11. CASE EspOtaWrite
    BY <1>11 DEF EspOtaWrite
  <1>12. CASE EraseFatfsGwui
    BY <1>12 DEF EraseFatfsGwui
  <1>13. CASE WriteFatfsGwui
    BY <1>13 DEF WriteFatfsGwui
  <1>14. CASE EraseFatfsNrf52
    BY <1>14 DEF EraseFatfsNrf52
  <1>15. CASE WriteFatfsNrf52
    BY <1>15 DEF WriteFatfsNrf52
  <1>16. CASE SetBootPartition
    BY <1>16 DEF SetBootPartition
  <1>17. CASE FinishUpdate
    BY <1>17 DEF FinishUpdate, ClearRam
  <1>18. CASE InitFails
    BY <1>18 DEF InitFails, RollbackAndReboot, ClearRam
  <1>19. CASE NrfFails
    BY <1>19 DEF NrfFails, RollbackAndReboot, ClearRam, InUpdate,
          NotifyLeds, NrfSteps
  <1>20. CASE UpdateFails
    BY <1>20 DEF UpdateFails, ClearRam
  <1>21. CASE ConfigureButtonHeld
    BY <1>21 DEF ConfigureButtonHeld
  <1>22. CASE ConfigureButtonReleased
    BY <1>22 DEF ConfigureButtonReleased, ClearRam
  <1>23. CASE SecondUpdate
    BY <1>23 DEF SecondUpdate, UpdateSteps, NrfSteps, InUpdate
  <1>24. CASE CommunicationSucceeds
    BY <1>24 DEF CommunicationSucceeds, MarkAppValid
  <1>25. CASE GatewayRestart
    BY <1>25 DEF GatewayRestart, ClearRam
  <1>26. CASE PowerLoss
    BY <1>26 DEF PowerLoss, ClearRam
  <1>27. CASE PowerCycle
    BY <1>27 DEF PowerCycle, ClearRam
  <1>28. CASE LedsTask
    BY <1>28 DEF LedsTask
  <1>29. ASSUME NEW why \in Reasons \ {"NONE"},
               NEW rel \in Releases, FwUpdateRun(why, rel)
        PROVE  (NrfVersionHonest /\ NrfInv)'
    BY <1>29 DEF FwUpdateRun, NotifyLeds
  <1>30. CASE UNCHANGED fwVars
    BY <1>30
  <1> QED BY <1>1, <1>2, <1>3, <1>4, <1>5, <1>6, <1>7, <1>8, <1>9, <1>10,
        <1>11, <1>12, <1>13, <1>14, <1>15, <1>16, <1>17, <1>18, <1>19,
        <1>20, <1>21, <1>22, <1>23, <1>24, <1>25, <1>26, <1>27, <1>28,
        <1>29, <1>30
      DEF FwNext, FwStep, FwFault, FwEnvironment

(* A gateway as it leaves the factory satisfies the invariant.             *)
LEMMA InitInv == FwInit => FwInv
  <1> SUFFICES ASSUME FwInit PROVE FwInv
    OBVIOUS
  <1> USE FwAssumption
  <1>0. FwFlags
    BY Zenon DEF FwInit, FwFlags
  <1>1. FwTypeOK
    BY <1>0, SignalOrder
    DEF FwInit, FwTypeOK, Slot, Images, OtaStates, PCs, Reasons, LedStates
  <1>2. NrfVersionHonest /\ NrfInv
    BY DEF FwInit, NrfVersionHonest, NrfInv
  <1>3. SomeApp
    BY DEF FwInit, SomeApp, Off, Slot
  <1>4. ReasonInv
    BY DEF FwInit, ReasonInv, UpdateSteps
  <1>5. FlashInv
    BY DEF FwInit, FlashInv, BootInv, WriteInv, Complete, Off, Slot, Other,
           UpdateSteps
  <1>6. LedsInv
    BY DEF FwInit, LedsInv, LedsAtStartUp, Pending, NrfSteps
  <1> QED BY <1>1, <1>2, <1>3, <1>4, <1>5, <1>6 DEF FwInv

(* FwInv is inductive.                                                     *)
LEMMA FwInvariant == FwSpec => []FwInv
  <1>1. FwInv /\ [FwNext]_fwVars => FwInv'
    BY TypesNext, SomeAppNext, ReasonNext, NrfNext, FlashNext, LedsInvNext
    DEF FwInv
  <1> QED BY InitInv, <1>1, PTL DEF FwSpec

(* Every variable keeps its type: the partitions hold releases or nothing  *)
(* usable, the otadata a state of IDF, the LED controller a state of       *)
(* leds_ctrl.c.                                                            *)
THEOREM FwTypeCorrect == FwSpec => []FwTypeOK
  <1>1. FwInv => FwTypeOK
    BY DEF FwInv
  <1> QED BY <1>1, FwInvariant, PTL

(* Wherever an update is cut short, the slot the boot loader starts holds  *)
(* one complete release, unless a failure at start-up forced a rollback.   *)
THEOREM UpdateIsAtomic == FwSpec => []BootsCompleteRelease
  <1>1. FwInv => BootsCompleteRelease
    <2> SUFFICES ASSUME FwInv, pc \notin {"reset", "dead"}, nrf2, ~forcedRollback
                 PROVE  Complete(running)
      BY DEF BootsCompleteRelease
    <2> QED BY DEF FwInv, FwTypeOK, FlashInv, BootInv, Off, Slot, Other
  <1> QED BY <1>1, FwInvariant, PTL

(* No update, rollback or reset leaves a gateway without an application.   *)
THEOREM AlwaysBootable == FwSpec => []NotDead
  <1>1. FwInv => NotDead
    BY DEF FwInv, SomeApp, NotDead
  <1> QED BY <1>1, FwInvariant, PTL

(* The version in the nRF52's register is that of the program next to it,  *)
(* whichever step of nrf52fw_update_fw_if_necessary is interrupted.        *)
THEOREM NrfVersionIsHonest == FwSpec => []NrfVersionHonest
  <1>1. FwInv => NrfVersionHonest
    BY DEF FwInv
  <1> QED BY <1>1, FwInvariant, PTL

(* When start-up reports the nRF52 ready, it runs the firmware that        *)
(* belongs to the running slot.                                            *)
THEOREM NrfReadyIsTrue == FwSpec => []NrfReadyMatches
  <1>1. FwInv => NrfReadyMatches
    BY DEF FwInv, NrfInv, NrfReadyMatches
  <1> QED BY <1>1, FwInvariant, PTL

(* The assertions of leds_ctrl.c fail only when a second update is         *)
(* requested, however late leds_task handles its signals.                  *)
THEOREM LedsAssertionsHold == FwSpec => []LedsAssertOnlyOnSecondUpdate
  <1>1. FwInv => LedsAssertOnlyOnSecondUpdate
    BY DEF FwInv, LedsInv, LedsAssertOnlyOnSecondUpdate, BootSteps, NrfSteps,
           UpdateSteps
  <1> QED BY <1>1, FwInvariant, PTL
=============================================================================
