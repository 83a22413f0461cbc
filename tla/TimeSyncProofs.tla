--------------------------- MODULE TimeSyncProofs ---------------------------
(***************************************************************************)
(* Proofs about TimeSync and the configuration store under it: TsInv is an *)
(* inductive invariant of TsSpec, for any set of configurations and any    *)
(* number of updates, faults, resets and losses of the network.            *)
(***************************************************************************)
EXTENDS TimeSync, TLAPS

(* The NTP settings of a configuration are two flags.                      *)
LEMMA NtpOfType == ASSUME NEW c \in Cfg PROVE NtpOf(c) \in BOOLEAN \X BOOLEAN
  BY StoreAssumption, Zenon DEF NtpOf

(* Nothing received: a record of flags.                                    *)
LEMMA NoRxType == NoRx \in [active : BOOLEAN, ntp : BOOLEAN, sync : BOOLEAN]
  BY Zenon DEF NoRx

(* The flags of the configuration stay Boolean.                            *)
LEMMA StoreFlagsNext ==
  StoreTypeOK /\ [TsNext]_tsVars
    => StoreFlags'
  <1> SUFFICES ASSUME StoreTypeOK,
                      [TsNext]_tsVars
               PROVE  StoreFlags'
    OBVIOUS
  <1> USE DEF StoreTypeOK, StoreFlags, tsVars, storeVars, nvsVars, gwCfg,
      storeHist, timeVars, netVars, postVars, rxVars
  <1>1. CASE StoreNext /\ SettingsGetFromFlash
    BY <1>1, Zenon DEF SettingsGetFromFlash, LoadFrom, Reserved,
       GwCfgUnlocked, StoreNext
  <1>2. CASE StoreNext /\ SettingsUnreadable
    BY <1>2, Zenon DEF SettingsUnreadable, LoadFrom, Reserved,
       GwCfgUnlocked, Event, StoreNext
  <1>3. CASE StoreNext /\ GwCfgUpdateAtBoot
    BY <1>3, Zenon DEF GwCfgUpdateAtBoot, GwCfgSet, GwCfgUnlocked,
       Reserved, Notify, Notified, StoreNext
  <1>4. CASE StoreNext /\ GwCfgUpdate
    BY <1>4, Zenon DEF GwCfgUpdate, GwCfgSet, GwCfgUnlocked, Reserved,
       Notify, Notified, Event, StoreNext
  <1>5. CASE StoreNext /\ GwCfgAssign
    BY <1>5, Zenon DEF GwCfgAssign, Reserved, StoreNext
  <1>6. CASE StoreNext /\ GwCfgUpdateFwUpdateUrl
    BY <1>6, Zenon DEF GwCfgUpdateFwUpdateUrl, GwCfgUnlocked, Reserved,
       Event, StoreNext
  <1>7. CASE StoreNext /\ SettingsSave
    BY <1>7, Zenon DEF SettingsSave, Written, StoreNext
  <1>8. CASE StoreNext /\ SettingsSaveFails
    BY <1>8, Zenon DEF SettingsSaveFails, Event, StoreNext
  <1>9. CASE StoreNext /\ NvsErase  BY <1>9, Zenon DEF NvsErase, Event, StoreNext
  <1>10. CASE StoreNext /\ SettingsRewrite
    BY <1>10, Zenon DEF SettingsRewrite, Written, StoreNext
  <1>11. CASE StoreNext /\ SettingsRewriteFails
    BY <1>11, Zenon DEF SettingsRewriteFails, Event, StoreNext
  <1>12. CASE StoreNext /\ FinishSave
    BY <1>12, Zenon DEF FinishSave, Notify, Notified, StoreNext
  <1>13. CASE Reset  BY <1>13, Zenon DEF Reset, StoreReset, Reserved, Event
  <1>14. CASE \/ TimeTaskInit \/ TakeSignals("time") \/ TimeOnConnected
              \/ TimeOnDisconnected \/ TimeOnCfgChanged \/ SntpSynchronized
              \/ SntpBadTimestamp \/ LinkUp \/ LinkDown \/ MainReconnect
              \/ TakeSignals("adv") \/ AdvOnTimeSynchronized \/ AdvOnCfg
              \/ AdvTakesCache \/ AdvReleasesCache \/ AdvClearsTable
              \/ ReceiveReport \/ PutReport \/ UNCHANGED tsVars
    <2>1. UNCHANGED <<isEmpty, ready, lost, failed>>
      BY <1>14 DEF TimeTaskInit, GwCfgLockRo, GwCfgUnlocked, NtpOf,
         TakeSignals, TimeOnConnected, Handles, SntpStart,
         TimeOnDisconnected, SntpStop, Notify, Notified,
         TimeOnCfgChanged, SntpRestart, SntpSynchronized,
         SntpBadTimestamp, LinkUp, LinkDown, Event, MainReconnect,
         AdvOnTimeSynchronized, AdvOnCfg, AdvTakesCache,
         AdvReleasesCache, AdvClearsTable, ReceiveReport, PutReport
    <2> QED BY <2>1
  <1> QED BY <1>1, <1>2, <1>3, <1>4, <1>5, <1>6, <1>7, <1>8, <1>9, <1>10,
      <1>11, <1>12, <1>13, <1>14 DEF TsNext, StoreNext, StoreStep, TimeTask,
      AdvTask

(* The flags of the tasks stay Boolean.                                    *)
LEMMA TimeFlagsNext ==
  TimeTypeOK /\ [TsNext]_tsVars
    => TimeFlags'
  <1> SUFFICES ASSUME TimeTypeOK,
                      [TsNext]_tsVars
               PROVE  TimeFlags'
    OBVIOUS
  <1> USE DEF TimeTypeOK, StoreTypeOK, TimeFlags, tsVars, storeVars, nvsVars,
      gwCfg, storeHist, timeVars, netVars, postVars, rxVars
  <1>1. CASE TimeTaskInit
    BY <1>1, NtpOfType, NoRxType, StoreAssumption, Zenon DEF TimeTaskInit,
       GwCfgLockRo, GwCfgUnlocked, NtpOf
  <1>2. CASE TimeOnConnected
    <2>1. UNCHANGED <<fallback, missed, link, reconnect, ntp, postVars, cacheNtp, rx>>
      BY <1>2, Zenon DEF TimeOnConnected
    <2>2. sntp' \in BOOLEAN /\ synced' \in BOOLEAN
      BY <1>2, Zenon DEF TimeOnConnected, SntpStart
    <2> QED BY <2>1, <2>2, Zenon
  <1>3. CASE TimeOnDisconnected
    BY <1>3, NtpOfType, NoRxType, StoreAssumption, Zenon DEF
       TimeOnDisconnected, Handles, SntpStop, Notify, Notified
  <1>4. CASE TimeOnCfgChanged
    BY <1>4, NtpOfType, NoRxType, StoreAssumption, Zenon DEF
       TimeOnCfgChanged, Handles, GwCfgLockRo, GwCfgUnlocked, NtpOf,
       SntpRestart, SntpStop, SntpStart, Notify, Notified
  <1>5. CASE SntpSynchronized
    BY <1>5, NtpOfType, NoRxType, StoreAssumption, Zenon DEF
       SntpSynchronized, Notify, Notified
  <1>6. CASE SntpBadTimestamp
    BY <1>6, NtpOfType, NoRxType, StoreAssumption, Zenon DEF SntpBadTimestamp
  <1>7. CASE LinkUp
    <2>1. missed' \in BOOLEAN
      BY <1>7 DEF LinkUp
    <2>2. UNCHANGED <<fallback, timeVars, postVars, cacheNtp, rx>> /\ link' = TRUE
      BY <1>7, Zenon DEF LinkUp
    <2> QED BY <2>1, <2>2, Zenon
  <1>8. CASE LinkDown
    BY <1>8, NtpOfType, NoRxType, StoreAssumption, Zenon DEF LinkDown,
       Event, Notify, Notified
  <1>9. CASE MainReconnect
    BY <1>9, NtpOfType, NoRxType, StoreAssumption, Zenon DEF MainReconnect,
       GwCfgLockRo, GwCfgUnlocked, Notify, Notified
  <1>10. CASE AdvOnTimeSynchronized
    BY <1>10, NtpOfType, NoRxType, StoreAssumption, Zenon DEF
       AdvOnTimeSynchronized, Handles
  <1>11. CASE AdvOnCfg
    BY <1>11, NtpOfType, NoRxType, StoreAssumption, Zenon DEF AdvOnCfg,
       Handles, GwCfgLockRo, GwCfgUnlocked
  <1>12. CASE AdvTakesCache
    BY <1>12, NtpOfType, NoRxType, StoreAssumption, Zenon DEF AdvTakesCache
  <1>13. CASE ReceiveReport
    BY <1>13, NtpOfType, NoRxType, StoreAssumption, Zenon DEF ReceiveReport
  <1>14. CASE PutReport
    BY <1>14, NtpOfType, NoRxType, StoreAssumption, Zenon DEF PutReport
  <1>15. CASE Reset
    BY <1>15, NtpOfType, NoRxType, StoreAssumption, Zenon DEF Reset,
       StoreReset, Reserved, Event
  <1>16. CASE \/ StoreNext \/ TakeSignals("time") \/ TakeSignals("adv")
              \/ AdvReleasesCache \/ AdvClearsTable \/ UNCHANGED tsVars
    <2>1. UNCHANGED <<timeVars, netVars, useTs, primary, cacheNtp, rx>>
      BY <1>16 DEF StoreNext, TakeSignals, AdvReleasesCache, GwCfgLockRo,
         GwCfgUnlocked, AdvClearsTable
    <2> QED BY <2>1
  <1> QED BY <1>1, <1>2, <1>3, <1>4, <1>5, <1>6, <1>7, <1>8, <1>9, <1>10,
      <1>11, <1>12, <1>13, <1>14, <1>15, <1>16 DEF TsNext, StoreNext,
      StoreStep, TimeTask, AdvTask

(* Every variable keeps its type.                                          *)
LEMMA TypesNext ==
  TimeTypeOK /\ SignalsSubscribed /\ [TsNext]_tsVars
    => TimeTypeOK'
  <1> SUFFICES ASSUME TimeTypeOK /\ SignalsSubscribed,
                      [TsNext]_tsVars
               PROVE  TimeTypeOK'
    OBVIOUS
  <1>a. StoreFlags' /\ TimeFlags'
    BY StoreFlagsNext, TimeFlagsNext DEF TimeTypeOK
  <1> USE DEF TimeTypeOK, StoreTypeOK, SignalsSubscribed, Unhandled, Stamped,
      Kind, NoRx, Subscribed, Tasks, tsVars, storeVars, nvsVars, gwCfg,
      storeHist, timeVars, netVars, postVars, rxVars
  <1>1. CASE StoreNext /\ SettingsGetFromFlash
    BY <1>1, <1>a DEF SettingsGetFromFlash, LoadFrom, Reserved,
       GwCfgUnlocked, StoreNext
  <1>2. CASE StoreNext /\ SettingsUnreadable
    BY <1>2, <1>a, StoreAssumption DEF SettingsUnreadable, LoadFrom,
       Reserved, GwCfgUnlocked, Event, StoreNext
  <1>3. CASE StoreNext /\ GwCfgUpdateAtBoot
    BY <1>3, <1>a DEF GwCfgUpdateAtBoot, GwCfgSet, GwCfgUnlocked, Reserved,
       Notify, Notified, StoreNext
  <1>4. CASE StoreNext /\ GwCfgUpdate
    BY <1>4, <1>a, StoreAssumption DEF GwCfgUpdate, GwCfgSet,
       GwCfgUnlocked, Reserved, Notify, Notified, Event, StoreNext
  <1>5. CASE StoreNext /\ GwCfgAssign
    BY <1>5, <1>a DEF GwCfgAssign, Reserved, StoreNext
  <1>6. CASE StoreNext /\ GwCfgUpdateFwUpdateUrl
    BY <1>6, <1>a, StoreAssumption DEF GwCfgUpdateFwUpdateUrl,
       GwCfgUnlocked, Reserved, Event, StoreNext
  <1>7. CASE StoreNext /\ SettingsSave
    BY <1>7, <1>a DEF SettingsSave, Written, StoreNext
  <1>8. CASE StoreNext /\ SettingsSaveFails
    BY <1>8, <1>a, StoreAssumption DEF SettingsSaveFails, Event, StoreNext
  <1>9. CASE StoreNext /\ NvsErase
    BY <1>9, <1>a, StoreAssumption DEF NvsErase, Event, StoreNext
  <1>10. CASE StoreNext /\ SettingsRewrite
    BY <1>10, <1>a DEF SettingsRewrite, Written, StoreNext
  <1>11. CASE StoreNext /\ SettingsRewriteFails
    BY <1>11, <1>a, StoreAssumption DEF SettingsRewriteFails, Event, StoreNext
  <1>12. CASE StoreNext /\ FinishSave
    BY <1>12, <1>a DEF FinishSave, Notify, Notified, StoreNext
  <1>13. CASE TimeTaskInit
    BY <1>13, <1>a DEF TimeTaskInit, GwCfgLockRo, GwCfgUnlocked, NtpOf
  <1>14. CASE TakeSignals("time")  BY <1>14, <1>a DEF TakeSignals
  <1>15. CASE TimeOnConnected
    BY <1>15, <1>a DEF TimeOnConnected, Handles, SntpStart
  <1>16. CASE TimeOnDisconnected
    BY <1>16, <1>a DEF TimeOnDisconnected, Handles, SntpStop, Notify, Notified
  <1>17. CASE TimeOnCfgChanged
    BY <1>17, <1>a DEF TimeOnCfgChanged, Handles, GwCfgLockRo,
       GwCfgUnlocked, NtpOf, SntpRestart, SntpStop, SntpStart, Notify,
       Notified
  <1>18. CASE SntpSynchronized
    BY <1>18, <1>a DEF SntpSynchronized, Notify, Notified
  <1>19. CASE SntpBadTimestamp  BY <1>19, <1>a DEF SntpBadTimestamp
  <1>20. CASE LinkUp  BY <1>20, <1>a DEF LinkUp, Notify, Notified
  <1>21. CASE LinkDown
    BY <1>21, <1>a, StoreAssumption DEF LinkDown, Event, Notify, Notified
  <1>22. CASE MainReconnect
    BY <1>22, <1>a DEF MainReconnect, GwCfgLockRo, GwCfgUnlocked, Notify,
       Notified
  <1>23. CASE TakeSignals("adv")  BY <1>23, <1>a DEF TakeSignals
  <1>24. CASE AdvOnTimeSynchronized
    BY <1>24, <1>a DEF AdvOnTimeSynchronized, Handles
  <1>25. CASE AdvOnCfg
    BY <1>25, <1>a DEF AdvOnCfg, Handles, GwCfgLockRo, GwCfgUnlocked
  <1>26. CASE AdvTakesCache  BY <1>26, <1>a DEF AdvTakesCache
  <1>27. CASE AdvReleasesCache
    BY <1>27, <1>a DEF AdvReleasesCache, GwCfgLockRo, GwCfgUnlocked
  <1>28. CASE AdvClearsTable  BY <1>28, <1>a DEF AdvClearsTable
  <1>29. CASE ReceiveReport  BY <1>29, <1>a DEF ReceiveReport
  <1>30. CASE PutReport  BY <1>30, <1>a DEF PutReport
  <1>31. CASE Reset
    BY <1>31, <1>a, StoreAssumption DEF Reset, StoreReset, Reserved, Event
  <1>32. CASE UNCHANGED tsVars  BY <1>32, <1>a
  <1> QED BY <1>1, <1>2, <1>3, <1>4, <1>5, <1>6, <1>7, <1>8, <1>9, <1>10,
      <1>11, <1>12, <1>13, <1>14, <1>15, <1>16, <1>17, <1>18, <1>19, <1>20,
      <1>21, <1>22, <1>23, <1>24, <1>25, <1>26, <1>27, <1>28, <1>29, <1>30,
      <1>31, <1>32 DEF TsNext, StoreNext, StoreStep, TimeTask, AdvTask

(* What the next start-up will load, by cases.                             *)
LEMMA StoredFacts ==
    /\ nvs # NoCfg => Stored = nvs
    /\ nvs = NoCfg /\ blob # NoCfg => Stored = blob
    /\ nvs = NoCfg /\ blob = NoCfg => Stored = Empty
    /\ nvs' # NoCfg => Stored' = nvs'
    /\ nvs' = NoCfg /\ blob' # NoCfg => Stored' = blob'
    /\ nvs' = NoCfg /\ blob' = NoCfg => Stored' = Empty
  BY DEF Stored

(* Loading, setting and saving the configuration: no step loses it, and what *)
(* is in RAM is what was set last.                                         *)
LEMMA StoreNextInv ==
  StoreTypeOK /\ StartUpOrder /\ DurableInv /\ RunningInv /\ [TsNext]_tsVars
    => (StartUpOrder /\ DurableInv /\ RunningInv)'
  <1> SUFFICES ASSUME StoreTypeOK /\ StartUpOrder /\ DurableInv /\ RunningInv,
                      [TsNext]_tsVars
               PROVE  (StartUpOrder /\ DurableInv /\ RunningInv)'
    OBVIOUS
  <1> USE DEF StoreTypeOK, StartUpOrder, DurableInv, RunningInv,
      GwCfgUnlocked, tsVars, storeVars, nvsVars, gwCfg, storeHist, timeVars, netVars,
      postVars, rxVars
  <1>1. CASE StoreNext /\ SettingsGetFromFlash
    <2>1. StartUpOrder'
      BY <1>1, StoredFacts, StoreAssumption DEF SettingsGetFromFlash,
         LoadFrom, Reserved, GwCfgUnlocked, StoreNext
    <2>2. DurableInv'
      BY <1>1, StoredFacts, StoreAssumption DEF SettingsGetFromFlash,
         LoadFrom, Reserved, GwCfgUnlocked, StoreNext
    <2>3. RunningInv'
      BY <1>1, StoredFacts, StoreAssumption DEF SettingsGetFromFlash,
         LoadFrom, Reserved, GwCfgUnlocked, StoreNext
    <2> QED BY <2>1, <2>2, <2>3
  <1>2. CASE StoreNext /\ SettingsUnreadable
    BY <1>2, StoredFacts, StoreAssumption DEF SettingsUnreadable, LoadFrom,
       Reserved, GwCfgUnlocked, Event, StoreNext
  <1>3. CASE StoreNext /\ GwCfgUpdateAtBoot
    BY <1>3, StoredFacts, StoreAssumption DEF GwCfgUpdateAtBoot, GwCfgSet,
       GwCfgUnlocked, Reserved, Notify, Notified, StoreNext
  <1>4. CASE StoreNext /\ GwCfgUpdate
    BY <1>4, StoredFacts, StoreAssumption DEF GwCfgUpdate, GwCfgSet,
       GwCfgUnlocked, Reserved, Notify, Notified, Event, StoreNext
  <1>5. CASE StoreNext /\ GwCfgAssign
    BY <1>5, StoredFacts, StoreAssumption DEF GwCfgAssign, Reserved, StoreNext
  <1>6. CASE StoreNext /\ GwCfgUpdateFwUpdateUrl
    BY <1>6, StoredFacts, StoreAssumption DEF GwCfgUpdateFwUpdateUrl,
       GwCfgUnlocked, Reserved, Event, StoreNext
  <1>7. CASE StoreNext /\ SettingsSave
    <2>1. StartUpOrder'
      BY <1>7, StoredFacts, StoreAssumption DEF SettingsSave, Written, StoreNext
    <2>2. DurableInv'
      BY <1>7, StoredFacts, StoreAssumption DEF SettingsSave, Written, StoreNext
    <2>3. RunningInv'
      BY <1>7, StoredFacts, StoreAssumption DEF SettingsSave, Written, StoreNext
    <2> QED BY <2>1, <2>2, <2>3
  <1>8. CASE StoreNext /\ SettingsSaveFails
    <2>1. StartUpOrder'
      BY <1>8, StoredFacts, StoreAssumption DEF SettingsSaveFails, Event, StoreNext
    <2>2. DurableInv'
      BY <1>8, StoredFacts, StoreAssumption DEF SettingsSaveFails, Event, StoreNext
    <2>3. RunningInv'
      BY <1>8, StoredFacts, StoreAssumption DEF SettingsSaveFails, Event, StoreNext
    <2> QED BY <2>1, <2>2, <2>3
  <1>9. CASE StoreNext /\ NvsErase
    BY <1>9, StoredFacts, StoreAssumption DEF NvsErase, Event, StoreNext
  <1>10. CASE StoreNext /\ SettingsRewrite
    <2>1. StartUpOrder'
      BY <1>10, StoredFacts, StoreAssumption DEF SettingsRewrite, Written, StoreNext
    <2>2. DurableInv'
      BY <1>10, StoredFacts, StoreAssumption DEF SettingsRewrite, Written, StoreNext
    <2>3. RunningInv'
      BY <1>10, StoredFacts, StoreAssumption DEF SettingsRewrite, Written, StoreNext
    <2> QED BY <2>1, <2>2, <2>3
  <1>11. CASE StoreNext /\ SettingsRewriteFails
    <2>1. StartUpOrder'
      BY <1>11, StoredFacts, StoreAssumption DEF SettingsRewriteFails, Event,
         StoreNext
    <2>2. DurableInv'
      BY <1>11, StoredFacts, StoreAssumption DEF SettingsRewriteFails, Event,
         StoreNext
    <2>3. RunningInv'
      BY <1>11, StoredFacts, StoreAssumption DEF SettingsRewriteFails, Event,
         StoreNext
    <2> QED BY <2>1, <2>2, <2>3
  <1>12. CASE StoreNext /\ FinishSave
    <2>1. StartUpOrder'
      BY <1>12, StoredFacts, StoreAssumption DEF FinishSave, Notify,
         Notified, StoreNext
    <2>2. DurableInv'
      BY <1>12, StoredFacts, StoreAssumption DEF FinishSave, Notify,
         Notified, StoreNext
    <2>3. RunningInv'
      BY <1>12, StoredFacts, StoreAssumption DEF FinishSave, Notify,
         Notified, StoreNext
    <2> QED BY <2>1, <2>2, <2>3
  <1>13. CASE TimeTaskInit
    BY <1>13, StoredFacts, StoreAssumption DEF TimeTaskInit, GwCfgLockRo,
       GwCfgUnlocked, NtpOf
  <1>14. CASE Reset
    BY <1>14, StoredFacts, StoreAssumption DEF Reset, StoreReset, Reserved,
       Event
  <1>15. CASE \/ TakeSignals("time") \/ TimeOnConnected \/ TimeOnDisconnected
              \/ TimeOnCfgChanged \/ SntpSynchronized \/ SntpBadTimestamp
              \/ LinkUp \/ LinkDown \/ MainReconnect \/ TakeSignals("adv")
              \/ AdvOnTimeSynchronized \/ AdvOnCfg \/ AdvTakesCache
              \/ AdvReleasesCache \/ AdvClearsTable \/ ReceiveReport
              \/ PutReport \/ UNCHANGED tsVars
    BY <1>15 DEF TakeSignals, TimeOnConnected, Handles, SntpStart,
       TimeOnDisconnected, SntpStop, Notify, Notified, TimeOnCfgChanged,
       GwCfgLockRo, GwCfgUnlocked, NtpOf, SntpRestart, SntpSynchronized,
       SntpBadTimestamp, LinkUp, LinkDown, Event, MainReconnect,
       AdvOnTimeSynchronized, AdvOnCfg, AdvTakesCache, AdvReleasesCache,
       AdvClearsTable, ReceiveReport, PutReport, Stored
  <1> QED BY <1>1, <1>2, <1>3, <1>4, <1>5, <1>6, <1>7, <1>8, <1>9, <1>10,
      <1>11, <1>12, <1>13, <1>14, <1>15 DEF TsNext, StoreNext, StoreStep,
      TimeTask, AdvTask

(* A report is stamped by the setting it was received under, and the table is *)
(* cleared before adv_post goes on with a new setting.                     *)
LEMMA CacheNext ==
  TimeTypeOK /\ CacheInv /\ TableKind /\ [TsNext]_tsVars
    => (CacheInv /\ TableKind)'
  <1> SUFFICES ASSUME TimeTypeOK /\ CacheInv /\ TableKind,
                      [TsNext]_tsVars
               PROVE  (CacheInv /\ TableKind)'
    OBVIOUS
  <1> USE DEF CacheInv, TableKind, TimeTypeOK, tsVars, storeVars, nvsVars,
      gwCfg, storeHist, timeVars, netVars, postVars, rxVars, NoRx, Kind, Stamped
  <1>1. CASE AdvOnTimeSynchronized  BY <1>1 DEF AdvOnTimeSynchronized, Handles
  <1>2. CASE AdvOnCfg  BY <1>2 DEF AdvOnCfg, Handles, GwCfgLockRo, GwCfgUnlocked
  <1>3. CASE AdvTakesCache  BY <1>3 DEF AdvTakesCache
  <1>4. CASE AdvReleasesCache
    BY <1>4 DEF AdvReleasesCache, GwCfgLockRo, GwCfgUnlocked
  <1>5. CASE AdvClearsTable  BY <1>5 DEF AdvClearsTable
  <1>6. CASE ReceiveReport  BY <1>6 DEF ReceiveReport
  <1>7. CASE PutReport  BY <1>7 DEF PutReport
  <1>8. CASE Reset  BY <1>8 DEF Reset, StoreReset, Reserved, Event
  <1>9. CASE \/ StoreNext \/ TimeTaskInit \/ TakeSignals("time")
             \/ TimeOnConnected \/ TimeOnDisconnected \/ TimeOnCfgChanged
             \/ SntpSynchronized \/ SntpBadTimestamp \/ LinkUp \/ LinkDown
             \/ MainReconnect \/ TakeSignals("adv") \/ UNCHANGED tsVars
    <2>1. UNCHANGED <<postVars, rxVars>>
      BY <1>9 DEF StoreNext, TimeTaskInit, GwCfgLockRo, GwCfgUnlocked,
         NtpOf, TakeSignals, TimeOnConnected, Handles, SntpStart,
         TimeOnDisconnected, SntpStop, Notify, Notified,
         TimeOnCfgChanged, SntpRestart, SntpSynchronized,
         SntpBadTimestamp, LinkUp, LinkDown, Event, MainReconnect
    <2> QED BY <2>1
  <1> QED BY <1>1, <1>2, <1>3, <1>4, <1>5, <1>6, <1>7, <1>8, <1>9 DEF TsNext,
      StoreNext, StoreStep, TimeTask, AdvTask

(* event_mgr_notify reaches only the tasks that subscribed.                *)
LEMMA SubscribedNext ==
  TimeTypeOK /\ SignalsSubscribed /\ [TsNext]_tsVars
    => SignalsSubscribed'
  <1> SUFFICES ASSUME TimeTypeOK /\ SignalsSubscribed,
                      [TsNext]_tsVars
               PROVE  SignalsSubscribed'
    OBVIOUS
  <1> USE DEF TimeTypeOK, StoreTypeOK, SignalsSubscribed, Unhandled,
      Subscribed, Tasks, tsVars, storeVars, nvsVars, gwCfg, storeHist,
      timeVars, netVars, postVars, rxVars
  <1>1. CASE StoreNext /\ SettingsGetFromFlash
    BY <1>1 DEF SettingsGetFromFlash, LoadFrom, Reserved, GwCfgUnlocked,
       StoreNext
  <1>2. CASE StoreNext /\ SettingsUnreadable
    BY <1>2 DEF SettingsUnreadable, LoadFrom, Reserved, GwCfgUnlocked,
       Event, StoreNext
  <1>3. CASE StoreNext /\ GwCfgUpdateAtBoot
    BY <1>3 DEF GwCfgUpdateAtBoot, GwCfgSet, GwCfgUnlocked, Reserved,
       Notify, Notified, StoreNext
  <1>4. CASE StoreNext /\ GwCfgUpdate
    BY <1>4 DEF GwCfgUpdate, GwCfgSet, GwCfgUnlocked, Reserved, Notify,
       Notified, Event, StoreNext
  <1>5. CASE StoreNext /\ GwCfgAssign  BY <1>5 DEF GwCfgAssign, Reserved, StoreNext
  <1>6. CASE StoreNext /\ GwCfgUpdateFwUpdateUrl
    BY <1>6 DEF GwCfgUpdateFwUpdateUrl, GwCfgUnlocked, Reserved, Event,
       StoreNext
  <1>7. CASE StoreNext /\ SettingsSave  BY <1>7 DEF SettingsSave, Written, StoreNext
  <1>8. CASE StoreNext /\ SettingsSaveFails
    BY <1>8 DEF SettingsSaveFails, Event, StoreNext
  <1>9. CASE StoreNext /\ NvsErase  BY <1>9 DEF NvsErase, Event, StoreNext
  <1>10. CASE StoreNext /\ SettingsRewrite
    BY <1>10 DEF SettingsRewrite, Written, StoreNext
  <1>11. CASE StoreNext /\ SettingsRewriteFails
    BY <1>11 DEF SettingsRewriteFails, Event, StoreNext
  <1>12. CASE StoreNext /\ FinishSave
    BY <1>12 DEF FinishSave, Notify, Notified, StoreNext
  <1>13. CASE TimeTaskInit
    BY <1>13 DEF TimeTaskInit, GwCfgLockRo, GwCfgUnlocked, NtpOf
  <1>14. CASE TakeSignals("time")  BY <1>14 DEF TakeSignals
  <1>15. CASE TimeOnConnected  BY <1>15 DEF TimeOnConnected, Handles, SntpStart
  <1>16. CASE TimeOnDisconnected
    BY <1>16 DEF TimeOnDisconnected, Handles, SntpStop, Notify, Notified
  <1>17. CASE TimeOnCfgChanged
    BY <1>17 DEF TimeOnCfgChanged, Handles, GwCfgLockRo, GwCfgUnlocked,
       NtpOf, SntpRestart, SntpStop, SntpStart, Notify, Notified
  <1>18. CASE SntpSynchronized  BY <1>18 DEF SntpSynchronized, Notify, Notified
  <1>19. CASE LinkUp  BY <1>19 DEF LinkUp, Notify, Notified
  <1>20. CASE LinkDown  BY <1>20 DEF LinkDown, Event, Notify, Notified
  <1>21. CASE MainReconnect
    BY <1>21 DEF MainReconnect, GwCfgLockRo, GwCfgUnlocked, Notify, Notified
  <1>22. CASE TakeSignals("adv")  BY <1>22 DEF TakeSignals
  <1>23. CASE AdvOnTimeSynchronized  BY <1>23 DEF AdvOnTimeSynchronized, Handles
  <1>24. CASE AdvOnCfg  BY <1>24 DEF AdvOnCfg, Handles, GwCfgLockRo, GwCfgUnlocked
  <1>25. CASE Reset  BY <1>25 DEF Reset, StoreReset, Reserved, Event
  <1>26. CASE \/ SntpBadTimestamp \/ AdvTakesCache \/ AdvReleasesCache
              \/ AdvClearsTable \/ ReceiveReport \/ PutReport
              \/ UNCHANGED tsVars
    BY <1>26 DEF SntpBadTimestamp, AdvTakesCache, AdvReleasesCache,
       GwCfgLockRo, GwCfgUnlocked, AdvClearsTable, ReceiveReport, PutReport
  <1> QED BY <1>1, <1>2, <1>3, <1>4, <1>5, <1>6, <1>7, <1>8, <1>9, <1>10,
      <1>11, <1>12, <1>13, <1>14, <1>15, <1>16, <1>17, <1>18, <1>19, <1>20,
      <1>21, <1>22, <1>23, <1>24, <1>25, <1>26 DEF TsNext, StoreNext,
      StoreStep, TimeTask, AdvTask

(* time_task has the NTP settings or a signal that makes it read them.     *)
LEMMA TimeHasCfgNext ==
  TimeTypeOK /\ StartUpOrder /\ TimeHasCfg /\ [TsNext]_tsVars
    => TimeHasCfg'
  <1> SUFFICES ASSUME TimeTypeOK /\ StartUpOrder /\ TimeHasCfg,
                      [TsNext]_tsVars
               PROVE  TimeHasCfg'
    OBVIOUS
  <1> USE DEF TimeTypeOK, StartUpOrder, StoreTypeOK, TimeHasCfg, Announced,
      NtpOf, Unhandled, Subscribed, Tasks, tsVars, storeVars, nvsVars, gwCfg,
      storeHist, timeVars, netVars, postVars, rxVars
  <1>1. CASE StoreNext /\ SettingsGetFromFlash
    BY <1>1 DEF SettingsGetFromFlash, LoadFrom, Reserved, GwCfgUnlocked,
       StoreNext
  <1>2. CASE StoreNext /\ SettingsUnreadable
    BY <1>2 DEF SettingsUnreadable, LoadFrom, Reserved, GwCfgUnlocked,
       Event, StoreNext
  <1>3. CASE StoreNext /\ GwCfgUpdateAtBoot
    BY <1>3 DEF GwCfgUpdateAtBoot, GwCfgSet, GwCfgUnlocked, Reserved,
       Notify, Notified, StoreNext
  <1>4. CASE StoreNext /\ GwCfgUpdate
    BY <1>4, StoreAssumption DEF GwCfgUpdate, GwCfgSet, GwCfgUnlocked,
       Reserved, Notify, Notified, Event, StoreNext
  <1>5. CASE StoreNext /\ GwCfgAssign  BY <1>5 DEF GwCfgAssign, Reserved, StoreNext
  <1>6. CASE StoreNext /\ GwCfgUpdateFwUpdateUrl
    BY <1>6, StoreAssumption DEF GwCfgUpdateFwUpdateUrl, GwCfgUnlocked,
       Reserved, Event, StoreNext
  <1>7. CASE StoreNext /\ SettingsSave  BY <1>7 DEF SettingsSave, Written, StoreNext
  <1>8. CASE StoreNext /\ SettingsSaveFails
    BY <1>8 DEF SettingsSaveFails, Event, StoreNext
  <1>9. CASE StoreNext /\ NvsErase  BY <1>9 DEF NvsErase, Event, StoreNext
  <1>10. CASE StoreNext /\ SettingsRewrite
    BY <1>10 DEF SettingsRewrite, Written, StoreNext
  <1>11. CASE StoreNext /\ SettingsRewriteFails
    BY <1>11 DEF SettingsRewriteFails, Event, StoreNext
  <1>12. CASE StoreNext /\ FinishSave
    BY <1>12 DEF FinishSave, Notify, Notified, StoreNext
  <1>13. CASE TimeTaskInit
    BY <1>13 DEF TimeTaskInit, GwCfgLockRo, GwCfgUnlocked, NtpOf
  <1>14. CASE TakeSignals("time")  BY <1>14 DEF TakeSignals
  <1>15. CASE TimeOnConnected  BY <1>15 DEF TimeOnConnected, Handles, SntpStart
  <1>16. CASE TimeOnDisconnected
    BY <1>16 DEF TimeOnDisconnected, Handles, SntpStop, Notify, Notified
  <1>17. CASE TimeOnCfgChanged
    BY <1>17, StoreAssumption DEF TimeOnCfgChanged, Handles, GwCfgLockRo,
       GwCfgUnlocked, NtpOf, SntpRestart, SntpStop, SntpStart, Notify,
       Notified
  <1>18. CASE SntpSynchronized  BY <1>18 DEF SntpSynchronized, Notify, Notified
  <1>19. CASE LinkUp  BY <1>19 DEF LinkUp, Notify, Notified
  <1>20. CASE LinkDown  BY <1>20 DEF LinkDown, Event, Notify, Notified
  <1>21. CASE MainReconnect
    BY <1>21 DEF MainReconnect, GwCfgLockRo, GwCfgUnlocked, Notify, Notified
  <1>22. CASE TakeSignals("adv")  BY <1>22 DEF TakeSignals
  <1>23. CASE AdvOnTimeSynchronized  BY <1>23 DEF AdvOnTimeSynchronized, Handles
  <1>24. CASE AdvOnCfg  BY <1>24 DEF AdvOnCfg, Handles, GwCfgLockRo, GwCfgUnlocked
  <1>25. CASE Reset  BY <1>25 DEF Reset, StoreReset, Reserved, Event
  <1>26. CASE \/ SntpBadTimestamp \/ AdvTakesCache \/ AdvReleasesCache
              \/ AdvClearsTable \/ ReceiveReport \/ PutReport
              \/ UNCHANGED tsVars
    BY <1>26 DEF SntpBadTimestamp, AdvTakesCache, AdvReleasesCache,
       GwCfgLockRo, GwCfgUnlocked, AdvClearsTable, ReceiveReport, PutReport
  <1> QED BY <1>1, <1>2, <1>3, <1>4, <1>5, <1>6, <1>7, <1>8, <1>9, <1>10,
      <1>11, <1>12, <1>13, <1>14, <1>15, <1>16, <1>17, <1>18, <1>19, <1>20,
      <1>21, <1>22, <1>23, <1>24, <1>25, <1>26 DEF TsNext, StoreNext,
      StoreStep, TimeTask, AdvTask

(* adv_post has the NTP setting or a signal that makes it read it.         *)
LEMMA AdvHasCfgNext ==
  TimeTypeOK /\ StartUpOrder /\ AdvHasCfg /\ [TsNext]_tsVars
    => AdvHasCfg'
  <1> SUFFICES ASSUME TimeTypeOK /\ StartUpOrder /\ AdvHasCfg,
                      [TsNext]_tsVars
               PROVE  AdvHasCfg'
    OBVIOUS
  <1> USE DEF TimeTypeOK, StartUpOrder, StoreTypeOK, AdvHasCfg, Announced,
      Unhandled, Subscribed, Tasks, tsVars, storeVars, nvsVars, gwCfg,
      storeHist, timeVars, netVars, postVars, rxVars
  <1>1. CASE StoreNext /\ SettingsGetFromFlash
    BY <1>1 DEF SettingsGetFromFlash, LoadFrom, Reserved, GwCfgUnlocked,
       StoreNext
  <1>2. CASE StoreNext /\ SettingsUnreadable
    BY <1>2 DEF SettingsUnreadable, LoadFrom, Reserved, GwCfgUnlocked,
       Event, StoreNext
  <1>3. CASE StoreNext /\ GwCfgUpdateAtBoot
    BY <1>3 DEF GwCfgUpdateAtBoot, GwCfgSet, GwCfgUnlocked, Reserved,
       Notify, Notified, StoreNext
  <1>4. CASE StoreNext /\ GwCfgUpdate
    <2> PICK c \in Cfg : GwCfgSet(c)
      BY <1>4 DEF GwCfgUpdate
    <2>1. CASE c = ram
      BY <1>4, <2>1 DEF GwCfgSet, GwCfgUnlocked, Reserved, Notify, Notified,
         StoreNext
    <2>2. CASE c # ram
      <3>1. ready /\ c # Empty
        BY <1>4, StoreAssumption DEF GwCfgUpdate
      <3>2. "CFG_CHANGED" \in sig'["adv"]
        BY <2>2, <3>1 DEF GwCfgSet, Notify, Notified
      <3> QED BY <3>2
    <2> QED BY <2>1, <2>2
  <1>5. CASE StoreNext /\ GwCfgAssign  BY <1>5 DEF GwCfgAssign, Reserved, StoreNext
  <1>6. CASE StoreNext /\ GwCfgUpdateFwUpdateUrl
    BY <1>6, StoreAssumption DEF GwCfgUpdateFwUpdateUrl, GwCfgUnlocked,
       Reserved, Event, StoreNext
  <1>7. CASE StoreNext /\ SettingsSave  BY <1>7 DEF SettingsSave, Written, StoreNext
  <1>8. CASE StoreNext /\ SettingsSaveFails
    BY <1>8 DEF SettingsSaveFails, Event, StoreNext
  <1>9. CASE StoreNext /\ NvsErase  BY <1>9 DEF NvsErase, Event, StoreNext
  <1>10. CASE StoreNext /\ SettingsRewrite
    BY <1>10 DEF SettingsRewrite, Written, StoreNext
  <1>11. CASE StoreNext /\ SettingsRewriteFails
    BY <1>11 DEF SettingsRewriteFails, Event, StoreNext
  <1>12. CASE StoreNext /\ FinishSave
    <2>1. CASE ready
      BY <1>12, <2>1 DEF FinishSave, StoreNext, Notify, Notified
    <2>2. CASE ~ready
      <3>1. "CFG_READY" \in sig'["adv"] \/ ~ready'
        BY <1>12, <2>2 DEF FinishSave, Notify, Notified
      <3> QED BY <1>12, <3>1 DEF FinishSave, StoreNext
    <2> QED BY <2>1, <2>2
  <1>13. CASE TimeTaskInit
    BY <1>13 DEF TimeTaskInit, GwCfgLockRo, GwCfgUnlocked, NtpOf
  <1>14. CASE TakeSignals("time")  BY <1>14 DEF TakeSignals
  <1>15. CASE TimeOnConnected  BY <1>15 DEF TimeOnConnected, Handles, SntpStart
  <1>16. CASE TimeOnDisconnected
    BY <1>16 DEF TimeOnDisconnected, Handles, SntpStop, Notify, Notified
  <1>17. CASE TimeOnCfgChanged
    BY <1>17, StoreAssumption DEF TimeOnCfgChanged, Handles, GwCfgLockRo,
       GwCfgUnlocked, NtpOf, SntpRestart, SntpStop, SntpStart, Notify,
       Notified
  <1>18. CASE SntpSynchronized  BY <1>18 DEF SntpSynchronized, Notify, Notified
  <1>19. CASE LinkUp  BY <1>19 DEF LinkUp, Notify, Notified
  <1>20. CASE LinkDown  BY <1>20 DEF LinkDown, Event, Notify, Notified
  <1>21. CASE MainReconnect
    BY <1>21 DEF MainReconnect, GwCfgLockRo, GwCfgUnlocked, Notify, Notified
  <1>22. CASE TakeSignals("adv")  BY <1>22 DEF TakeSignals
  <1>23. CASE AdvOnTimeSynchronized  BY <1>23 DEF AdvOnTimeSynchronized, Handles
  <1>24. CASE AdvOnCfg  BY <1>24 DEF AdvOnCfg, Handles, GwCfgLockRo, GwCfgUnlocked
  <1>25. CASE Reset  BY <1>25 DEF Reset, StoreReset, Reserved, Event
  <1>26. CASE \/ SntpBadTimestamp \/ AdvTakesCache \/ AdvReleasesCache
              \/ AdvClearsTable \/ ReceiveReport \/ PutReport
              \/ UNCHANGED tsVars
    BY <1>26 DEF SntpBadTimestamp, AdvTakesCache, AdvReleasesCache,
       GwCfgLockRo, GwCfgUnlocked, AdvClearsTable, ReceiveReport, PutReport
  <1> QED BY <1>1, <1>2, <1>3, <1>4, <1>5, <1>6, <1>7, <1>8, <1>9, <1>10,
      <1>11, <1>12, <1>13, <1>14, <1>15, <1>16, <1>17, <1>18, <1>19, <1>20,
      <1>21, <1>22, <1>23, <1>24, <1>25, <1>26 DEF TsNext, StoreNext,
      StoreStep, TimeTask, AdvTask

(* With the network up SNTP runs or is still to be started.                *)
LEMMA SntpNext ==
  TimeTypeOK /\ StartUpOrder /\ SntpInv /\ [TsNext]_tsVars
    => SntpInv'
  <1> SUFFICES ASSUME TimeTypeOK /\ StartUpOrder /\ SntpInv,
                      [TsNext]_tsVars
               PROVE  SntpInv'
    OBVIOUS
  <1> USE DEF TimeTypeOK, StartUpOrder, StoreTypeOK, SntpInv, Unhandled,
      Subscribed, Tasks, tsVars, storeVars, nvsVars, gwCfg, storeHist,
      timeVars, netVars, postVars, rxVars
  <1>1. CASE StoreNext /\ SettingsGetFromFlash
    BY <1>1 DEF SettingsGetFromFlash, LoadFrom, Reserved, GwCfgUnlocked,
       StoreNext
  <1>2. CASE StoreNext /\ SettingsUnreadable
    BY <1>2 DEF SettingsUnreadable, LoadFrom, Reserved, GwCfgUnlocked,
       Event, StoreNext
  <1>3. CASE StoreNext /\ GwCfgUpdateAtBoot
    BY <1>3 DEF GwCfgUpdateAtBoot, GwCfgSet, GwCfgUnlocked, Reserved,
       Notify, Notified, StoreNext
  <1>4. CASE StoreNext /\ GwCfgUpdate
    BY <1>4, StoreAssumption DEF GwCfgUpdate, GwCfgSet, GwCfgUnlocked,
       Reserved, Notify, Notified, Event, StoreNext
  <1>5. CASE StoreNext /\ GwCfgAssign  BY <1>5 DEF GwCfgAssign, Reserved, StoreNext
  <1>6. CASE StoreNext /\ GwCfgUpdateFwUpdateUrl
    BY <1>6, StoreAssumption DEF GwCfgUpdateFwUpdateUrl, GwCfgUnlocked,
       Reserved, Event, StoreNext
  <1>7. CASE StoreNext /\ SettingsSave  BY <1>7 DEF SettingsSave, Written, StoreNext
  <1>8. CASE StoreNext /\ SettingsSaveFails
    BY <1>8 DEF SettingsSaveFails, Event, StoreNext
  <1>9. CASE StoreNext /\ NvsErase  BY <1>9 DEF NvsErase, Event, StoreNext
  <1>10. CASE StoreNext /\ SettingsRewrite
    BY <1>10 DEF SettingsRewrite, Written, StoreNext
  <1>11. CASE StoreNext /\ SettingsRewriteFails
    BY <1>11 DEF SettingsRewriteFails, Event, StoreNext
  <1>12. CASE StoreNext /\ FinishSave
    BY <1>12 DEF FinishSave, Notify, Notified, StoreNext
  <1>13. CASE TimeTaskInit
    BY <1>13 DEF TimeTaskInit, GwCfgLockRo, GwCfgUnlocked, NtpOf
  <1>14. CASE TakeSignals("time")  BY <1>14 DEF TakeSignals
  <1>15. CASE TimeOnConnected  BY <1>15 DEF TimeOnConnected, Handles, SntpStart
  <1>16. CASE TimeOnDisconnected
    BY <1>16 DEF TimeOnDisconnected, Handles, SntpStop, Notify, Notified
  <1>17. CASE TimeOnCfgChanged
    BY <1>17, StoreAssumption DEF TimeOnCfgChanged, Handles, GwCfgLockRo,
       GwCfgUnlocked, NtpOf, SntpRestart, SntpStop, SntpStart, Notify,
       Notified
  <1>18. CASE SntpSynchronized  BY <1>18 DEF SntpSynchronized, Notify, Notified
  <1>19. CASE LinkUp  BY <1>19 DEF LinkUp, Notify, Notified
  <1>20. CASE LinkDown  BY <1>20 DEF LinkDown, Event, Notify, Notified
  <1>21. CASE MainReconnect
    <2>1. CASE fallback
      <3>1. ~missed' => ~missed /\ (link => sntp)
        BY <1>21, <2>1, Zenon DEF MainReconnect, TimeFlags
      <3>2. UNCHANGED <<boot, link, sig, cur, ntp, sntp>>
        BY <1>21, <2>1, Zenon DEF MainReconnect
      <3> QED BY <3>1, <3>2
    <2>2. CASE ~fallback
      BY <1>21, <2>2 DEF MainReconnect, Notify, Notified
    <2> QED BY <2>1, <2>2
  <1>22. CASE TakeSignals("adv")  BY <1>22 DEF TakeSignals
  <1>23. CASE AdvOnTimeSynchronized  BY <1>23 DEF AdvOnTimeSynchronized, Handles
  <1>24. CASE AdvOnCfg  BY <1>24 DEF AdvOnCfg, Handles, GwCfgLockRo, GwCfgUnlocked
  <1>25. CASE Reset  BY <1>25 DEF Reset, StoreReset, Reserved, Event
  <1>26. CASE \/ SntpBadTimestamp \/ AdvTakesCache \/ AdvReleasesCache
              \/ AdvClearsTable \/ ReceiveReport \/ PutReport
              \/ UNCHANGED tsVars
    BY <1>26 DEF SntpBadTimestamp, AdvTakesCache, AdvReleasesCache,
       GwCfgLockRo, GwCfgUnlocked, AdvClearsTable, ReceiveReport, PutReport
  <1> QED BY <1>1, <1>2, <1>3, <1>4, <1>5, <1>6, <1>7, <1>8, <1>9, <1>10,
      <1>11, <1>12, <1>13, <1>14, <1>15, <1>16, <1>17, <1>18, <1>19, <1>20,
      <1>21, <1>22, <1>23, <1>24, <1>25, <1>26 DEF TsNext, StoreNext,
      StoreStep, TimeTask, AdvTask

(* A gateway before its start-up satisfies the invariant.                  *)
LEMMA InitInv == TsInit => TsInv
  <1> SUFFICES ASSUME TsInit PROVE TsInv
    OBVIOUS
  <1> USE StoreAssumption DEF TsInit, StoreInit, TimeInit
  <1>1. StoreFlags
    BY Zenon DEF StoreFlags
  <1>2. TimeFlags
    BY NoRxType, Zenon DEF TimeFlags
  <1>3. TimeTypeOK
    BY <1>1, <1>2 DEF TimeTypeOK, StoreTypeOK, Subscribed, Tasks, Reserved
  <1>4. StoreInv
    BY <1>3 DEF StoreInv, TimeTypeOK, StartUpOrder, DurableInv, RunningInv,
       Stored, Reserved
  <1>5. SignalsSubscribed
    BY DEF SignalsSubscribed, Unhandled
  <1>6. TimeHasCfg /\ AdvHasCfg
    BY DEF TimeHasCfg, AdvHasCfg
  <1>7. CacheInv /\ TableKind
    BY DEF CacheInv, TableKind, NoRx
  <1>8. SntpInv
    BY DEF SntpInv
  <1> QED BY <1>3, <1>4, <1>5, <1>6, <1>7, <1>8 DEF TsInv

(* TsInv is inductive.                                                     *)
LEMMA TsInvariant == TsSpec => []TsInv
  <1>1. TsInv /\ [TsNext]_tsVars => TsInv'
    <2> SUFFICES ASSUME TsInv, [TsNext]_tsVars PROVE TsInv'
      OBVIOUS
    <2>1. TimeTypeOK' /\ SignalsSubscribed'
      BY TypesNext, SubscribedNext DEF TsInv
    <2>2. StoreInv'
      BY <2>1, StoreNextInv DEF TsInv, StoreInv, TimeTypeOK
    <2>3. TimeHasCfg' /\ AdvHasCfg' /\ SntpInv'
      BY TimeHasCfgNext, AdvHasCfgNext, SntpNext DEF TsInv, StoreInv
    <2>4. CacheInv' /\ TableKind'
      BY CacheNext DEF TsInv
    <2> QED BY <2>1, <2>2, <2>3, <2>4 DEF TsInv
  <1> QED BY InitInv, <1>1, PTL DEF TsSpec

(* Every variable of the configuration store and of the tasks that follow  *)
(* it keeps its type; in particular no task gets a signal it has not       *)
(* subscribed to with event_mgr.c.                                         *)
THEOREM TimeTypeCorrect == TsSpec => []TimeTypeOK
  <1>1. TsInv => TimeTypeOK
    BY DEF TsInv
  <1> QED BY <1>1, TsInvariant, PTL

(* Whatever resets and failed writes come in between, the next start-up    *)
(* loads the configuration the user saved last (settings.c), but for the   *)
(* losses the code admits: a fault between erasing a full NVS and          *)
(* rewriting it, and a configuration that is unreadable at start-up.       *)
THEOREM ConfigIsDurable == TsSpec => []ConfigDurable
  <1>1. TsInv => ConfigDurable
    BY DEF TsInv, StoreInv, DurableInv, ConfigDurable
  <1> QED BY <1>1, TsInvariant, PTL

(* Outside gw_cfg_set the configuration in RAM is the stored one, unless   *)
(* its save failed.                                                        *)
THEOREM RunningConfigIsStored == TsSpec => []RunningConfigStored
  <1>1. TsInv => RunningConfigStored
    BY DEF TsInv, StoreInv, RunningInv, RunningConfigStored
  <1> QED BY <1>1, TsInvariant, PTL

(* time_task and adv_post miss no change of the configuration, though it   *)
(* is announced before it is made.                                         *)
THEOREM TasksHaveConfig == TsSpec => []CfgReachesTasks
  <1>1. TsInv => CfgReachesTasks
    BY DEF TsInv, StoreInv, StartUpOrder, TimeHasCfg, AdvHasCfg, CacheInv,
       Announced, Unhandled, Idle, CfgReachesTasks, GwCfgUnlocked
  <1> QED BY <1>1, TsInvariant, PTL

(* The table of advertisements never mixes times and counters, and holds   *)
(* no zero timestamp (adv_post_send_report).                               *)
THEOREM TableHasOneKind == TsSpec => []TableKind
  <1>1. TsInv => TableKind
    BY DEF TsInv
  <1> QED BY <1>1, TsInvariant, PTL

(* No order of configuration changes, losses of the network and            *)
(* reconnections leaves SNTP stopped (time_task.c), but for new settings   *)
(* on the fallback Ethernet, which main_loop.c does not reconnect, and a   *)
(* network that is back before time_task takes the signal of its loss.     *)
THEOREM SntpIsNotForgotten == TsSpec => []SntpNotForgotten
  <1>1. TsInv => SntpNotForgotten
    <2> SUFFICES ASSUME TsInv, boot = "up", ram.ntp_use, link, ~reconnect,
                        ~missed, Idle("time")
                 PROVE  sntp
      BY DEF SntpNotForgotten
    <2>1. ntp = NtpOf(ram)
      BY DEF TsInv, TimeHasCfg, Unhandled, Idle
    <2>2. ntp[1]
      BY <2>1 DEF NtpOf
    <2> QED BY <2>2 DEF TsInv, SntpInv, Unhandled, Idle
  <1> QED BY <1>1, TsInvariant, PTL
=============================================================================
