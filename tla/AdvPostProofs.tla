--------------------------- MODULE AdvPostProofs ----------------------------
(***************************************************************************)
(* Proofs about AdvPost: PostInv is an inductive invariant of Spec, for    *)
(* any configurations, threads, events and batch size.                     *)
(***************************************************************************)
EXTENDS AdvPost, FiniteSetTheorems, TLAPS

(* The signals of the periodic timers.                                     *)
LEMMA SigOfJob ==
    \A j \in Job :
        SigOf[j] \in {"RETRANSMIT", "RETRANSMIT2", "RETRANSMIT_MQTT", "SEND_STATISTICS"}
  BY DEF SigOf, Job, HttpJob

(* The names of the signals.                                               *)
LEMMA SigNames ==
    Sig = {"NETWORK_DISCONNECTED", "NETWORK_CONNECTED", "TIME_SYNCHRONIZED",
           "RETRANSMIT", "RETRANSMIT2", "RETRANSMIT_MQTT", "SEND_STATISTICS",
           "DO_ASYNC_COMM", "RELAYING_MODE_CHANGED", "GW_CFG_READY",
           "GW_CFG_CHANGED_RUUVI", "CFG_MODE_DEACTIVATED"}
  BY DEF Sig, SigNum

(* The fields of a configuration are flags.                                *)
LEMMA CfgFields ==
    ASSUME NEW c \in Cfg
    PROVE  /\ c.ntp \in BOOLEAN
           /\ \A j \in Job : c[j] \in BOOLEAN
  BY CfgAssumption DEF CfgRecord, Job, HttpJob

(* A number of suspenders is in the range of the counter.                  *)
LEMMA SuspenderCount ==
    ASSUME NEW S \in SUBSET Client
    PROVE  IsFiniteSet(S) /\ Cardinality(S) \in 0 .. Cardinality(Client)
  BY ClientAssumption, FS_Subset, FS_CardinalityType

(* What a step of one thread does to the set of suspenders.                *)
LEMMA SuspendersStep ==
    ASSUME TypeOK, NEW c \in Client, NEW to, pc' = [pc EXCEPT ![c] = to]
    PROVE  Suspenders' = IF to \in Holding THEN Suspenders \cup {c}
                                           ELSE Suspenders \ {c}
  BY DEF TypeOK, Suspenders

(* gw_status_suspend_relaying and gw_status_resume_relaying keep the count. *)
LEMMA CounterNext ==
  TypeOK /\ CounterExact /\ [Next]_vars
    => CounterExact'
  <1> SUFFICES ASSUME TypeOK /\ CounterExact,
                      [Next]_vars
               PROVE  CounterExact'
    OBVIOUS
  <1> USE DEF vars, task, flags, comm, clocks, env, http, status
  <1>1. ASSUME NEW c \in Client, Accept(c)
        PROVE  CounterExact'
    <2>1. Suspenders' = Suspenders
      BY <1>1 DEF Accept, At, Suspenders, Holding, TypeOK
    <2> QED BY <1>1, <2>1 DEF Accept, At, CounterExact
  <1>2. ASSUME NEW c \in Client, Close(c)
        PROVE  CounterExact'
    <2>1. Suspenders' = Suspenders
      BY <1>2 DEF Close, At, Suspenders, Holding, TypeOK
    <2> QED BY <1>2, <2>1 DEF Close, At, CounterExact
  <1>3. ASSUME NEW c \in Client, Suspend(c)
        PROVE  CounterExact'
    <2>1. c \notin Suspenders /\ Suspenders' = Suspenders \cup {c}
      BY <1>3, SuspendersStep DEF Suspend, At, Rest, Suspenders, Holding
    <2>2. Cardinality(Suspenders') = Cardinality(Suspenders) + 1
      BY <2>1, SuspenderCount, FS_AddElement DEF Suspenders
    <2> QED BY <1>3, <2>2 DEF Suspend, CounterExact
  <1>4. ASSUME NEW c \in Client, SetCommand(c)
        PROVE  CounterExact'
    <2>1. Suspenders' = Suspenders
      BY <1>4 DEF SetCommand, At, Suspenders, Holding, TypeOK
    <2> QED BY <1>4, <2>1 DEF SetCommand, At, CounterExact
  <1>5. ASSUME NEW c \in Client, Notify(c)
        PROVE  CounterExact'
    <2>1. Suspenders' = Suspenders
      BY <1>5 DEF Notify, At, Rest, Suspenders, Holding, TypeOK
    <2> QED BY <1>5, <2>1 DEF Notify, At, Rest, CounterExact
  <1>6. ASSUME NEW c \in Client, WaitEnds(c)
        PROVE  CounterExact'
    <2>1. Suspenders' = Suspenders
      BY <1>6 DEF WaitEnds, At, Rest, Suspenders, Holding, TypeOK
    <2> QED BY <1>6, <2>1 DEF WaitEnds, At, Rest, CounterExact
  <1>7. ASSUME NEW c \in Client, WaitTimesOut(c)
        PROVE  CounterExact'
    <2>1. Suspenders' = Suspenders
      BY <1>7 DEF WaitTimesOut, At, Rest, Suspenders, Holding, TypeOK
    <2> QED BY <1>7, <2>1 DEF WaitTimesOut, At, Rest, CounterExact
  <1>8. ASSUME NEW c \in Client, Check(c)
        PROVE  CounterExact'
    <2>1. Suspenders' = Suspenders
      BY <1>8 DEF Check, At, Suspenders, Holding, TypeOK
    <2> QED BY <1>8, <2>1 DEF Check, At, CounterExact
  <1>9. ASSUME NEW c \in Client, CheckEnds(c)
        PROVE  CounterExact'
    <2>1. Suspenders' = Suspenders
      BY <1>9 DEF CheckEnds, At, Suspenders, Holding, TypeOK
    <2> QED BY <1>9, <2>1 DEF CheckEnds, At, CounterExact
  <1>12. ASSUME NEW c \in Client, CheckPostsAdvs(c)
        PROVE  CounterExact'
    <2>1. Suspenders' = Suspenders
      BY <1>12 DEF CheckPostsAdvs, At, Suspenders, Holding, TypeOK
    <2> QED BY <1>12, <2>1 DEF CheckPostsAdvs, At, CounterExact
  <1>10. ASSUME NEW c \in Client, Resume(c)
        PROVE  CounterExact'
    <2> DEFINE to == IF cnt_suspended = 1 THEN "resume" ELSE Rest(c)
    <2>1. to \notin Holding
      BY DEF Rest, Holding
    <2>2. pc[c] = "work" /\ pc' = [pc EXCEPT ![c] = to]
      BY <1>10 DEF Resume, At
    <2> HIDE DEF to
    <2>3. c \in Suspenders /\ Suspenders' = Suspenders \ {c}
      BY <2>1, <2>2, SuspendersStep DEF Suspenders, Holding
    <2>4. Cardinality(Suspenders') = Cardinality(Suspenders) - 1
      BY <2>3, SuspenderCount, FS_RemoveElement DEF Suspenders
    <2> QED BY <1>10, <2>4 DEF Resume, CounterExact
  <1>11. CASE \/ TaskStep \/ EnvStep \/ UNCHANGED vars
    <2>1. UNCHANGED <<pc, cnt_suspended>>
      BY <1>11 DEF TaskStep, DoAsyncComm, StartJob, TakeSignals,
         HandleNetworkDisconnected, Got, HandleNetworkConnected,
         RestartPending, HandleTimeSynchronized, HandleRetransmit,
         HandleGwCfgChanged, OnGwCfgChange, HandleCfgModeDeactivated,
         NothingInProgress, PollAsserts, Polled, PollAgain, PollDone,
         PublishOne, PublishDone,
         NothingToStart, CancelStatistics, Starting, PostponeHttp,
         StartHttp, HttpMayStart, StartHttpFails, StartHttpAsserts,
         CancelMqtt, PostponeMqtt, StartMqttFails, StartMqtt,
         HandleRelayingModeChanged, AbortTransfer, AbortFault,
         Acknowledge, EnvStep, TimerFires, Send, AsyncTimerFires,
         NetworkChanges, TimeIsSynchronized, MqttConnects, SaveCfg
    <2> QED BY <2>1 DEF CounterExact, Suspenders
  <1> QED BY <1>1, <1>2, <1>3, <1>4, <1>5, <1>6, <1>7, <1>8, <1>9, <1>10,
      <1>11, <1>12 DEF Next, ClientStep, Continue

(* A thread that resumes is counted.                                       *)
LEMMA ResumeCounted ==
    ASSUME CounterExact, NEW c \in Client, pc[c] = "work"
    PROVE  cnt_suspended \in Nat /\ cnt_suspended >= 1
  <1>1. c \in Suspenders
    BY DEF Suspenders, Holding
  <1>2. Cardinality(Suspenders) \in Nat /\ Cardinality(Suspenders) - 1 \in Nat
    <2>1. IsFiniteSet(Suspenders)
      BY SuspenderCount DEF Suspenders
    <2>2. Cardinality(Suspenders \ {c}) = Cardinality(Suspenders) - 1
      BY <1>1, <2>1, FS_RemoveElement
    <2>3. Cardinality(Suspenders) \in Nat /\ Cardinality(Suspenders \ {c}) \in Nat
      BY <2>1, FS_CardinalityType, FS_RemoveElement
    <2> QED BY <2>2, <2>3
  <1> QED BY <1>2 DEF CounterExact

(* Every change of the counter is notified, or changes nothing for the task. *)
LEMMA FollowsNext ==
  TypeOK /\ CounterExact /\ RelayingFollowsCounter /\ [Next]_vars
    => RelayingFollowsCounter'
  <1> SUFFICES ASSUME TypeOK /\ CounterExact /\ RelayingFollowsCounter,
                      [Next]_vars
               PROVE  RelayingFollowsCounter'
    OBVIOUS
  <1> USE DEF TypeOK, RelayingFollowsCounter, Notifying, vars, task, flags,
      comm, clocks, env, http, status
  <1>1. CASE TakeSignals  BY <1>1 DEF TakeSignals
  <1>2. CASE HandleNetworkDisconnected  BY <1>2 DEF HandleNetworkDisconnected, Got
  <1>3. CASE HandleNetworkConnected
    BY <1>3 DEF HandleNetworkConnected, Got, RestartPending
  <1>4. CASE HandleTimeSynchronized
    BY <1>4 DEF HandleTimeSynchronized, Got, RestartPending
  <1>5. ASSUME NEW j \in Job, HandleRetransmit(j)
        PROVE  RelayingFollowsCounter'  BY <1>5, SigOfJob DEF HandleRetransmit, Got
  <1>6. ASSUME NEW s \in Sig, HandleGwCfgChanged(s)
        PROVE  RelayingFollowsCounter'
    BY <1>6 DEF HandleGwCfgChanged, Got, OnGwCfgChange
  <1>7. CASE HandleCfgModeDeactivated
    BY <1>7 DEF HandleCfgModeDeactivated, Got, OnGwCfgChange
  <1>8. CASE NothingInProgress  BY <1>8 DEF NothingInProgress, Got
  <1>9. CASE PollAgain  BY <1>9 DEF PollAgain, Polled, Got
  <1>10. CASE PollDone  BY <1>10 DEF PollDone, Polled, Got
  <1>11. CASE PublishOne  BY <1>11 DEF PublishOne, Got
  <1>12. CASE PublishDone  BY <1>12 DEF PublishDone, Got
  <1>13. CASE NothingToStart  BY <1>13 DEF NothingToStart
  <1>14. CASE CancelStatistics  BY <1>14 DEF CancelStatistics, Starting
  <1>15. ASSUME NEW j \in HttpJob, PostponeHttp(j)
        PROVE  RelayingFollowsCounter'  BY <1>15 DEF PostponeHttp, Starting
  <1>16. ASSUME NEW j \in HttpJob, StartHttp(j)
        PROVE  RelayingFollowsCounter'
    BY <1>16 DEF StartHttp, Starting, HttpMayStart
  <1>17. ASSUME NEW j \in HttpJob, StartHttpFails(j)
        PROVE  RelayingFollowsCounter'
    BY <1>17 DEF StartHttpFails, Starting, HttpMayStart
  <1>18. ASSUME NEW j \in HttpJob, StartHttpAsserts(j)
        PROVE  RelayingFollowsCounter'
    BY <1>18 DEF StartHttpAsserts, Starting, HttpMayStart
  <1>19. CASE CancelMqtt  BY <1>19 DEF CancelMqtt, Starting
  <1>20. CASE PostponeMqtt  BY <1>20 DEF PostponeMqtt, Starting
  <1>21. CASE StartMqttFails  BY <1>21 DEF StartMqttFails, Starting
  <1>22. ASSUME NEW n \in 0 .. MaxBatch, StartMqtt(n)
        PROVE  RelayingFollowsCounter'  BY <1>22 DEF StartMqtt, Starting
  <1>23. CASE HandleRelayingModeChanged
    BY <1>23 DEF HandleRelayingModeChanged, AbortTransfer, AbortFault, Got
  <1>24. CASE Acknowledge  BY <1>24 DEF Acknowledge
  <1>25. ASSUME NEW c \in Client, Accept(c)
        PROVE  RelayingFollowsCounter'  BY <1>25 DEF Accept, At
  <1>26. ASSUME NEW c \in Client, Close(c)
        PROVE  RelayingFollowsCounter'  BY <1>26 DEF Close, At
  <1>27. ASSUME NEW c \in Client, Suspend(c)
        PROVE  RelayingFollowsCounter'  BY <1>27 DEF Suspend, At, Rest
  <1>28. ASSUME NEW c \in Client, SetCommand(c)
        PROVE  RelayingFollowsCounter'  BY <1>28 DEF SetCommand, At
  <1>29. ASSUME NEW c \in Client, Notify(c)
        PROVE  RelayingFollowsCounter'  BY <1>29 DEF Notify, At, Rest
  <1>30. ASSUME NEW c \in Client, WaitEnds(c)
        PROVE  RelayingFollowsCounter'  BY <1>30 DEF WaitEnds, At, Rest
  <1>31. ASSUME NEW c \in Client, WaitTimesOut(c)
        PROVE  RelayingFollowsCounter'  BY <1>31 DEF WaitTimesOut, At, Rest
  <1>32. ASSUME NEW c \in Client, Check(c)
        PROVE  RelayingFollowsCounter'  BY <1>32 DEF Check, At
  <1>33. ASSUME NEW c \in Client, CheckEnds(c)
        PROVE  RelayingFollowsCounter'  BY <1>33 DEF CheckEnds, At
  <1>34. ASSUME NEW c \in Client, Resume(c)
        PROVE  RelayingFollowsCounter'  BY <1>34, ResumeCounted DEF Resume, At, Rest
  <1>35. ASSUME NEW j \in Job, TimerFires(j)
        PROVE  RelayingFollowsCounter'  BY <1>35 DEF TimerFires, Send
  <1>36. CASE AsyncTimerFires  BY <1>36 DEF AsyncTimerFires
  <1>37. ASSUME NEW s \in Sig, NetworkChanges(s)
        PROVE  RelayingFollowsCounter'  BY <1>37 DEF NetworkChanges, Send
  <1>38. CASE TimeIsSynchronized  BY <1>38 DEF TimeIsSynchronized, Send
  <1>39. ASSUME NEW b \in BOOLEAN, MqttConnects(b)
        PROVE  RelayingFollowsCounter'  BY <1>39 DEF MqttConnects
  <1>40. ASSUME NEW c \in Cfg, SaveCfg(c)
        PROVE  RelayingFollowsCounter'  BY <1>40 DEF SaveCfg
  <1>41. CASE UNCHANGED vars  BY <1>41
  <1>42. CASE PollAsserts  BY <1>42 DEF PollAsserts, Got
  <1>43. ASSUME NEW c \in Client, CheckPostsAdvs(c)
        PROVE  RelayingFollowsCounter'  BY <1>43 DEF CheckPostsAdvs, At
  <1> QED BY <1>1, <1>2, <1>3, <1>4, <1>5, <1>6, <1>7, <1>8, <1>9, <1>10,
      <1>11, <1>12, <1>13, <1>14, <1>15, <1>16, <1>17, <1>18, <1>19, <1>20,
      <1>21, <1>22, <1>23, <1>24, <1>25, <1>26, <1>27, <1>28, <1>29, <1>30,
      <1>31, <1>32, <1>33, <1>34, <1>35, <1>36, <1>37, <1>38, <1>39, <1>40,
      <1>41, <1>42, <1>43 DEF Next, TaskStep, EnvStep, ClientStep, Continue,
      DoAsyncComm, StartJob

(* The flags stay Boolean.                                                 *)
LEMMA FlagsNext ==
  TypeOK /\ [Next]_vars
    => PostFlags'
  <1> SUFFICES ASSUME TypeOK,
                      [Next]_vars
               PROVE  PostFlags'
    OBVIOUS
  <1> USE DEF TypeOK, PostFlags, vars, task, flags, comm, clocks, env, http,
      status
  <1>1. CASE TakeSignals  BY <1>1, Zenon DEF TakeSignals
  <1>2. CASE HandleNetworkDisconnected
    BY <1>2, Zenon DEF HandleNetworkDisconnected, Got
  <1>3. CASE HandleNetworkConnected
    BY <1>3, Zenon DEF HandleNetworkConnected, Got, RestartPending
  <1>4. CASE HandleTimeSynchronized
    BY <1>4, Zenon DEF HandleTimeSynchronized, Got, RestartPending
  <1>5. ASSUME NEW j \in Job, HandleRetransmit(j)
        PROVE  PostFlags'  BY <1>5, Zenon DEF HandleRetransmit, Got
  <1>6. ASSUME NEW s \in Sig, HandleGwCfgChanged(s)
        PROVE  PostFlags'
    BY <1>6, Zenon, CfgFields DEF HandleGwCfgChanged, Got, OnGwCfgChange
  <1>7. CASE HandleCfgModeDeactivated
    BY <1>7, Zenon, CfgFields DEF HandleCfgModeDeactivated, Got, OnGwCfgChange
  <1>8. CASE NothingInProgress  BY <1>8, Zenon DEF NothingInProgress, Got
  <1>9. CASE PollAgain  BY <1>9, Zenon DEF PollAgain, Polled, Got
  <1>10. CASE PollDone  BY <1>10, Zenon DEF PollDone, Polled, Got
  <1>11. CASE PublishOne  BY <1>11, Zenon DEF PublishOne, Got
  <1>12. CASE PublishDone  BY <1>12, Zenon DEF PublishDone, Got
  <1>13. CASE NothingToStart  BY <1>13, Zenon DEF NothingToStart
  <1>14. CASE CancelStatistics  BY <1>14, Zenon DEF CancelStatistics, Starting
  <1>15. ASSUME NEW j \in HttpJob, PostponeHttp(j)
        PROVE  PostFlags'  BY <1>15, Zenon DEF PostponeHttp, Starting
  <1>16. ASSUME NEW j \in HttpJob, StartHttp(j)
        PROVE  PostFlags'  BY <1>16, Zenon DEF StartHttp, Starting, HttpMayStart
  <1>17. ASSUME NEW j \in HttpJob, StartHttpFails(j)
        PROVE  PostFlags'
    BY <1>17, Zenon DEF StartHttpFails, Starting, HttpMayStart
  <1>18. ASSUME NEW j \in HttpJob, StartHttpAsserts(j)
        PROVE  PostFlags'
    BY <1>18, Zenon DEF StartHttpAsserts, Starting, HttpMayStart
  <1>19. CASE CancelMqtt  BY <1>19, Zenon DEF CancelMqtt, Starting
  <1>20. CASE PostponeMqtt  BY <1>20, Zenon DEF PostponeMqtt, Starting
  <1>21. CASE StartMqttFails  BY <1>21, Zenon DEF StartMqttFails, Starting
  <1>22. ASSUME NEW n \in 0 .. MaxBatch, StartMqtt(n)
        PROVE  PostFlags'  BY <1>22, Zenon DEF StartMqtt, Starting
  <1>23. CASE HandleRelayingModeChanged
    BY <1>23, Zenon DEF HandleRelayingModeChanged, AbortTransfer,
       AbortFault, Got
  <1>24. CASE Acknowledge  BY <1>24, Zenon DEF Acknowledge
  <1>25. ASSUME NEW c \in Client, Accept(c)
        PROVE  PostFlags'  BY <1>25, Zenon DEF Accept, At
  <1>26. ASSUME NEW c \in Client, Close(c)
        PROVE  PostFlags'  BY <1>26, Zenon DEF Close, At
  <1>27. ASSUME NEW c \in Client, Suspend(c)
        PROVE  PostFlags'  BY <1>27, Zenon DEF Suspend, At, Rest
  <1>28. ASSUME NEW c \in Client, SetCommand(c)
        PROVE  PostFlags'  BY <1>28, Zenon DEF SetCommand, At
  <1>29. ASSUME NEW c \in Client, Notify(c)
        PROVE  PostFlags'  BY <1>29, Zenon DEF Notify, At, Rest
  <1>30. ASSUME NEW c \in Client, WaitEnds(c)
        PROVE  PostFlags'  BY <1>30, Zenon DEF WaitEnds, At, Rest
  <1>31. ASSUME NEW c \in Client, WaitTimesOut(c)
        PROVE  PostFlags'  BY <1>31, Zenon DEF WaitTimesOut, At, Rest
  <1>32. ASSUME NEW c \in Client, Check(c)
        PROVE  PostFlags'  BY <1>32, Zenon DEF Check, At
  <1>33. ASSUME NEW c \in Client, CheckEnds(c)
        PROVE  PostFlags'  BY <1>33, Zenon DEF CheckEnds, At
  <1>34. ASSUME NEW c \in Client, Resume(c)
        PROVE  PostFlags'  BY <1>34, Zenon DEF Resume, At, Rest
  <1>35. ASSUME NEW j \in Job, TimerFires(j)
        PROVE  PostFlags'  BY <1>35, Zenon DEF TimerFires, Send
  <1>36. CASE AsyncTimerFires  BY <1>36, Zenon DEF AsyncTimerFires
  <1>37. ASSUME NEW s \in Sig, NetworkChanges(s)
        PROVE  PostFlags'  BY <1>37, Zenon DEF NetworkChanges, Send
  <1>38. CASE TimeIsSynchronized  BY <1>38, Zenon DEF TimeIsSynchronized, Send
  <1>39. ASSUME NEW b \in BOOLEAN, MqttConnects(b)
        PROVE  PostFlags'  BY <1>39, Zenon DEF MqttConnects
  <1>40. ASSUME NEW c \in Cfg, SaveCfg(c)
        PROVE  PostFlags'  BY <1>40, Zenon DEF SaveCfg
  <1>41. CASE UNCHANGED vars  BY <1>41, Zenon
  <1>42. CASE PollAsserts  BY <1>42, Zenon DEF PollAsserts, Got
  <1>43. ASSUME NEW c \in Client, CheckPostsAdvs(c)
        PROVE  PostFlags'  BY <1>43, Zenon DEF CheckPostsAdvs, At
  <1> QED BY <1>1, <1>2, <1>3, <1>4, <1>5, <1>6, <1>7, <1>8, <1>9, <1>10,
      <1>11, <1>12, <1>13, <1>14, <1>15, <1>16, <1>17, <1>18, <1>19, <1>20,
      <1>21, <1>22, <1>23, <1>24, <1>25, <1>26, <1>27, <1>28, <1>29, <1>30,
      <1>31, <1>32, <1>33, <1>34, <1>35, <1>36, <1>37, <1>38, <1>39, <1>40,
      <1>41, <1>42, <1>43 DEF Next, TaskStep, EnvStep, ClientStep, Continue,
      DoAsyncComm, StartJob

(* Every variable keeps its type.                                          *)
LEMMA TypesNext ==
  TypeOK /\ CounterExact /\ [Next]_vars
    => TypeOK'
  <1> SUFFICES ASSUME TypeOK /\ CounterExact,
                      [Next]_vars
               PROVE  TypeOK'
    OBVIOUS
  <1>a. PostFlags' /\ cnt_suspended' \in 0 .. Cardinality(Client)
    BY FlagsNext, CounterNext, SuspenderCount DEF CounterExact, Suspenders
  <1> USE DEF TypeOK, HttpJob, Job, vars, task, flags, comm, clocks, env,
      http, status
  <1>1. CASE TakeSignals  BY <1>1, <1>a, SigNames DEF TakeSignals
  <1>2. CASE HandleNetworkDisconnected
    BY <1>2, <1>a, SigNames DEF HandleNetworkDisconnected, Got
  <1>3. CASE HandleNetworkConnected
    BY <1>3, <1>a, SigNames DEF HandleNetworkConnected, Got, RestartPending
  <1>4. CASE HandleTimeSynchronized
    BY <1>4, <1>a, SigNames DEF HandleTimeSynchronized, Got, RestartPending
  <1>5. ASSUME NEW j \in Job, HandleRetransmit(j)
        PROVE  TypeOK'  BY <1>5, <1>a, SigNames, SigOfJob DEF HandleRetransmit, Got
  <1>6. ASSUME NEW s \in Sig, HandleGwCfgChanged(s)
        PROVE  TypeOK'
    BY <1>6, <1>a, SigNames, CfgFields DEF HandleGwCfgChanged, Got,
       OnGwCfgChange
  <1>7. CASE HandleCfgModeDeactivated
    BY <1>7, <1>a, SigNames, CfgFields DEF HandleCfgModeDeactivated, Got,
       OnGwCfgChange
  <1>8. CASE NothingInProgress  BY <1>8, <1>a, SigNames DEF NothingInProgress, Got
  <1>9. CASE PollAgain  BY <1>9, <1>a, SigNames DEF PollAgain, Polled, Got
  <1>10. CASE PollDone  BY <1>10, <1>a, SigNames DEF PollDone, Polled, Got
  <1>11. CASE PublishOne
    <2>1. mqtt_reports' \in [num : 0 .. MaxBatch, idx : -1 .. MaxBatch]
      BY <1>11, BatchAssumption DEF PublishOne
    <2> QED BY <1>11, <2>1, <1>a, SigNames DEF PublishOne, Got
  <1>12. CASE PublishDone
    <2>1. mqtt_reports' \in [num : 0 .. MaxBatch, idx : -1 .. MaxBatch]
      BY <1>12, BatchAssumption DEF PublishDone, NULL
    <2> QED BY <1>12, <2>1, <1>a, SigNames DEF PublishDone, Got
  <1>13. CASE NothingToStart  BY <1>13, <1>a, SigNames DEF NothingToStart
  <1>14. CASE CancelStatistics
    BY <1>14, <1>a, SigNames DEF CancelStatistics, Starting
  <1>15. ASSUME NEW j \in HttpJob, PostponeHttp(j)
        PROVE  TypeOK'  BY <1>15, <1>a, SigNames DEF PostponeHttp, Starting
  <1>16. ASSUME NEW j \in HttpJob, StartHttp(j)
        PROVE  TypeOK'
    BY <1>16, <1>a, SigNames DEF StartHttp, Starting, HttpMayStart
  <1>17. ASSUME NEW j \in HttpJob, StartHttpFails(j)
        PROVE  TypeOK'
    BY <1>17, <1>a, SigNames DEF StartHttpFails, Starting, HttpMayStart
  <1>18. ASSUME NEW j \in HttpJob, StartHttpAsserts(j)
        PROVE  TypeOK'
    BY <1>18, <1>a, SigNames DEF StartHttpAsserts, Starting, HttpMayStart
  <1>19. CASE CancelMqtt  BY <1>19, <1>a, SigNames DEF CancelMqtt, Starting
  <1>20. CASE PostponeMqtt  BY <1>20, <1>a, SigNames DEF PostponeMqtt, Starting
  <1>21. CASE StartMqttFails  BY <1>21, <1>a, SigNames DEF StartMqttFails, Starting
  <1>22. ASSUME NEW n \in 0 .. MaxBatch, StartMqtt(n)
        PROVE  TypeOK'
    <2>1. mqtt_reports' \in [num : 0 .. MaxBatch, idx : -1 .. MaxBatch]
      BY <1>22, BatchAssumption DEF StartMqtt
    <2> QED BY <1>22, <2>1, <1>a, SigNames DEF StartMqtt, Starting
  <1>23. CASE HandleRelayingModeChanged
    BY <1>23, <1>a, SigNames DEF HandleRelayingModeChanged, AbortTransfer,
       AbortFault, Got
  <1>24. CASE Acknowledge  BY <1>24, <1>a, SigNames DEF Acknowledge
  <1>25. ASSUME NEW c \in Client, Accept(c)
        PROVE  TypeOK'  BY <1>25, <1>a, SigNames DEF Accept, At
  <1>26. ASSUME NEW c \in Client, Close(c)
        PROVE  TypeOK'  BY <1>26, <1>a, SigNames DEF Close, At
  <1>27. ASSUME NEW c \in Client, Suspend(c)
        PROVE  TypeOK'  BY <1>27, <1>a, SigNames DEF Suspend, At, Rest
  <1>28. ASSUME NEW c \in Client, SetCommand(c)
        PROVE  TypeOK'  BY <1>28, <1>a, SigNames DEF SetCommand, At
  <1>29. ASSUME NEW c \in Client, Notify(c)
        PROVE  TypeOK'  BY <1>29, <1>a, SigNames DEF Notify, At, Rest
  <1>30. ASSUME NEW c \in Client, WaitEnds(c)
        PROVE  TypeOK'  BY <1>30, <1>a, SigNames DEF WaitEnds, At, Rest
  <1>31. ASSUME NEW c \in Client, WaitTimesOut(c)
        PROVE  TypeOK'  BY <1>31, <1>a, SigNames DEF WaitTimesOut, At, Rest
  <1>32. ASSUME NEW c \in Client, Check(c)
        PROVE  TypeOK'  BY <1>32, <1>a, SigNames DEF Check, At
  <1>33. ASSUME NEW c \in Client, CheckEnds(c)
        PROVE  TypeOK'  BY <1>33, <1>a, SigNames DEF CheckEnds, At
  <1>34. ASSUME NEW c \in Client, Resume(c)
        PROVE  TypeOK'  BY <1>34, <1>a, SigNames DEF Resume, At, Rest
  <1>35. ASSUME NEW j \in Job, TimerFires(j)
        PROVE  TypeOK'  BY <1>35, <1>a, SigNames, SigOfJob DEF TimerFires, Send
  <1>36. CASE AsyncTimerFires  BY <1>36, <1>a, SigNames DEF AsyncTimerFires
  <1>37. ASSUME NEW s \in Sig, NetworkChanges(s)
        PROVE  TypeOK'  BY <1>37, <1>a, SigNames DEF NetworkChanges, Send
  <1>38. CASE TimeIsSynchronized
    BY <1>38, <1>a, SigNames DEF TimeIsSynchronized, Send
  <1>39. ASSUME NEW b \in BOOLEAN, MqttConnects(b)
        PROVE  TypeOK'  BY <1>39, <1>a, SigNames DEF MqttConnects
  <1>40. ASSUME NEW c \in Cfg, SaveCfg(c)
        PROVE  TypeOK'  BY <1>40, <1>a, SigNames DEF SaveCfg
  <1>41. CASE UNCHANGED vars  BY <1>41, <1>a, SigNames
  <1>42. CASE PollAsserts  BY <1>42, <1>a, SigNames DEF PollAsserts, Got
  <1>43. ASSUME NEW c \in Client, CheckPostsAdvs(c)
        PROVE  TypeOK'  BY <1>43, <1>a, SigNames DEF CheckPostsAdvs, At
  <1> QED BY <1>1, <1>2, <1>3, <1>4, <1>5, <1>6, <1>7, <1>8, <1>9, <1>10,
      <1>11, <1>12, <1>13, <1>14, <1>15, <1>16, <1>17, <1>18, <1>19, <1>20,
      <1>21, <1>22, <1>23, <1>24, <1>25, <1>26, <1>27, <1>28, <1>29, <1>30,
      <1>31, <1>32, <1>33, <1>34, <1>35, <1>36, <1>37, <1>38, <1>39, <1>40,
      <1>41, <1>42, <1>43 DEF Next, TaskStep, EnvStep, ClientStep, Continue,
      DoAsyncComm, StartJob

(* A batch in progress has not been freed.                                 *)
LEMMA BatchIsThere ==
    ASSUME TypeOK, BatchInv, MqttInProgress
    PROVE  /\ mqtt_reports # NULL
           /\ mqtt_reports.idx < mqtt_reports.num \/ mqtt_reports.num = 0
  <1>1. mqtt_reports.num \in Nat /\ mqtt_reports.idx \in Int
    BY BatchAssumption DEF TypeOK
  <1> QED BY <1>1 DEF BatchInv, NULL

(* The mutex and the semaphore are taken and given back with the transfer. *)
LEMMA RequestNext ==
  TypeOK /\ RequestInv /\ BatchInv /\ [Next]_vars
    => RequestInv'
  <1> SUFFICES ASSUME TypeOK /\ RequestInv /\ BatchInv,
                      [Next]_vars
               PROVE  RequestInv'
    OBVIOUS
  <1>a. MqttInProgress => mqtt_reports # NULL
    BY BatchIsThere
  <1> USE DEF TypeOK, RequestInv, HttpRequestOwned, BatchOverwritten, HttpInProgress,
      MqttInProgress, HttpJob, Job, vars, task, flags, comm, clocks, env,
      http, status
  <1>1. CASE TakeSignals  BY <1>1, ClientAssumption DEF TakeSignals
  <1>2. CASE HandleNetworkDisconnected
    BY <1>2, ClientAssumption DEF HandleNetworkDisconnected, Got
  <1>3. CASE HandleNetworkConnected
    BY <1>3, ClientAssumption DEF HandleNetworkConnected, Got, RestartPending
  <1>4. CASE HandleTimeSynchronized
    BY <1>4, ClientAssumption DEF HandleTimeSynchronized, Got, RestartPending
  <1>5. ASSUME NEW j \in Job, HandleRetransmit(j)
        PROVE  RequestInv'  BY <1>5, ClientAssumption DEF HandleRetransmit, Got
  <1>6. ASSUME NEW s \in Sig, HandleGwCfgChanged(s)
        PROVE  RequestInv'
    BY <1>6, ClientAssumption DEF HandleGwCfgChanged, Got, OnGwCfgChange
  <1>7. CASE HandleCfgModeDeactivated
    BY <1>7, ClientAssumption DEF HandleCfgModeDeactivated, Got, OnGwCfgChange
  <1>8. CASE NothingInProgress  BY <1>8, ClientAssumption DEF NothingInProgress, Got
  <1>9. CASE PollAgain  BY <1>9, ClientAssumption DEF PollAgain, Polled, Got
  <1>10. CASE PollDone  BY <1>10, ClientAssumption DEF PollDone, Polled, Got
  <1>11. CASE PublishOne  BY <1>11, ClientAssumption DEF PublishOne, Got
  <1>12. CASE PublishDone  BY <1>12, ClientAssumption DEF PublishDone, Got
  <1>13. CASE NothingToStart  BY <1>13, ClientAssumption DEF NothingToStart
  <1>14. CASE CancelStatistics
    BY <1>14, ClientAssumption DEF CancelStatistics, Starting
  <1>15. ASSUME NEW j \in HttpJob, PostponeHttp(j)
        PROVE  RequestInv'  BY <1>15, ClientAssumption DEF PostponeHttp, Starting
  <1>16. ASSUME NEW j \in HttpJob, StartHttp(j)
        PROVE  RequestInv'
    BY <1>16, ClientAssumption DEF StartHttp, Starting, HttpMayStart
  <1>17. ASSUME NEW j \in HttpJob, StartHttpFails(j)
        PROVE  RequestInv'
    BY <1>17, ClientAssumption DEF StartHttpFails, Starting, HttpMayStart
  <1>18. ASSUME NEW j \in HttpJob, StartHttpAsserts(j)
        PROVE  RequestInv'
    BY <1>18, ClientAssumption DEF StartHttpAsserts, Starting, HttpMayStart
  <1>19. CASE CancelMqtt  BY <1>19, ClientAssumption DEF CancelMqtt, Starting
  <1>20. CASE PostponeMqtt  BY <1>20, ClientAssumption DEF PostponeMqtt, Starting
  <1>21. CASE StartMqttFails
    BY <1>21, ClientAssumption DEF StartMqttFails, Starting
  <1>22. ASSUME NEW n \in 0 .. MaxBatch, StartMqtt(n)
        PROVE  RequestInv'  BY <1>22, ClientAssumption DEF StartMqtt, Starting
  <1>23. CASE HandleRelayingModeChanged
    BY <1>23, ClientAssumption DEF HandleRelayingModeChanged,
       AbortTransfer, AbortFault, Got
  <1>24. CASE Acknowledge  BY <1>24, ClientAssumption DEF Acknowledge
  <1>25. ASSUME NEW c \in Client, Accept(c)
        PROVE  RequestInv'  BY <1>25, ClientAssumption DEF Accept, At
  <1>26. ASSUME NEW c \in Client, Close(c)
        PROVE  RequestInv'  BY <1>26, ClientAssumption DEF Close, At
  <1>27. ASSUME NEW c \in Client, Suspend(c)
        PROVE  RequestInv'  BY <1>27, ClientAssumption DEF Suspend, At, Rest
  <1>28. ASSUME NEW c \in Client, SetCommand(c)
        PROVE  RequestInv'  BY <1>28, ClientAssumption DEF SetCommand, At
  <1>29. ASSUME NEW c \in Client, Notify(c)
        PROVE  RequestInv'  BY <1>29, ClientAssumption DEF Notify, At, Rest
  <1>30. ASSUME NEW c \in Client, WaitEnds(c)
        PROVE  RequestInv'  BY <1>30, ClientAssumption DEF WaitEnds, At, Rest
  <1>31. ASSUME NEW c \in Client, WaitTimesOut(c)
        PROVE  RequestInv'  BY <1>31, ClientAssumption DEF WaitTimesOut, At, Rest
  <1>32. ASSUME NEW c \in Client, Check(c)
        PROVE  RequestInv'  BY <1>32, ClientAssumption DEF Check, At
  <1>33. ASSUME NEW c \in Client, CheckEnds(c)
        PROVE  RequestInv'  BY <1>33, ClientAssumption DEF CheckEnds, At
  <1>34. ASSUME NEW c \in Client, Resume(c)
        PROVE  RequestInv'  BY <1>34, ClientAssumption DEF Resume, At, Rest
  <1>35. ASSUME NEW j \in Job, TimerFires(j)
        PROVE  RequestInv'  BY <1>35, ClientAssumption DEF TimerFires, Send
  <1>36. CASE AsyncTimerFires  BY <1>36, ClientAssumption DEF AsyncTimerFires
  <1>37. ASSUME NEW s \in Sig, NetworkChanges(s)
        PROVE  RequestInv'  BY <1>37, ClientAssumption DEF NetworkChanges, Send
  <1>38. CASE TimeIsSynchronized
    BY <1>38, ClientAssumption DEF TimeIsSynchronized, Send
  <1>39. ASSUME NEW b \in BOOLEAN, MqttConnects(b)
        PROVE  RequestInv'  BY <1>39, ClientAssumption DEF MqttConnects
  <1>40. ASSUME NEW c \in Cfg, SaveCfg(c)
        PROVE  RequestInv'  BY <1>40, ClientAssumption DEF SaveCfg
  <1>41. CASE UNCHANGED vars  BY <1>41, ClientAssumption
  <1>42. CASE PollAsserts  BY <1>42, ClientAssumption DEF PollAsserts, Got
  <1>43. ASSUME NEW c \in Client, CheckPostsAdvs(c)
        PROVE  RequestInv'  BY <1>43, <1>a, ClientAssumption DEF CheckPostsAdvs, At
  <1> QED BY <1>1, <1>2, <1>3, <1>4, <1>5, <1>6, <1>7, <1>8, <1>9, <1>10,
      <1>11, <1>12, <1>13, <1>14, <1>15, <1>16, <1>17, <1>18, <1>19, <1>20,
      <1>21, <1>22, <1>23, <1>24, <1>25, <1>26, <1>27, <1>28, <1>29, <1>30,
      <1>31, <1>32, <1>33, <1>34, <1>35, <1>36, <1>37, <1>38, <1>39, <1>40,
      <1>41, <1>42, <1>43 DEF Next, TaskStep, EnvStep, ClientStep, Continue,
      DoAsyncComm, StartJob

(* Whatever leaves a transfer open also leaves the timer or a signal.      *)
LEMMA PolledNext ==
  RequestInv /\ TransferIsPolled /\ [Next]_vars
    => TransferIsPolled'
  <1> SUFFICES ASSUME RequestInv /\ TransferIsPolled,
                      [Next]_vars
               PROVE  TransferIsPolled'
    OBVIOUS
  <1> USE DEF RequestInv, TransferIsPolled, Running, HttpInProgress, MqttInProgress,
      vars, task, flags, comm, clocks, env, http, status
  <1>1. CASE TakeSignals  BY <1>1 DEF TakeSignals
  <1>2. CASE HandleNetworkDisconnected  BY <1>2 DEF HandleNetworkDisconnected, Got
  <1>3. CASE HandleNetworkConnected
    BY <1>3 DEF HandleNetworkConnected, Got, RestartPending
  <1>4. CASE HandleTimeSynchronized
    BY <1>4 DEF HandleTimeSynchronized, Got, RestartPending
  <1>5. ASSUME NEW j \in Job, HandleRetransmit(j)
        PROVE  TransferIsPolled'  BY <1>5, SigOfJob DEF HandleRetransmit, Got
  <1>6. ASSUME NEW s \in Sig, HandleGwCfgChanged(s)
        PROVE  TransferIsPolled'  BY <1>6 DEF HandleGwCfgChanged, Got, OnGwCfgChange
  <1>7. CASE HandleCfgModeDeactivated
    BY <1>7 DEF HandleCfgModeDeactivated, Got, OnGwCfgChange
  <1>8. CASE NothingInProgress  BY <1>8 DEF NothingInProgress, Got
  <1>9. CASE PollAgain  BY <1>9 DEF PollAgain, Polled, Got
  <1>10. CASE PollDone  BY <1>10 DEF PollDone, Polled, Got
  <1>11. CASE PublishOne  BY <1>11 DEF PublishOne, Got
  <1>12. CASE PublishDone  BY <1>12 DEF PublishDone, Got
  <1>13. CASE NothingToStart  BY <1>13 DEF NothingToStart
  <1>14. CASE CancelStatistics  BY <1>14 DEF CancelStatistics, Starting
  <1>15. ASSUME NEW j \in HttpJob, PostponeHttp(j)
        PROVE  TransferIsPolled'  BY <1>15 DEF PostponeHttp, Starting
  <1>16. ASSUME NEW j \in HttpJob, StartHttp(j)
        PROVE  TransferIsPolled'  BY <1>16 DEF StartHttp, Starting, HttpMayStart
  <1>17. ASSUME NEW j \in HttpJob, StartHttpFails(j)
        PROVE  TransferIsPolled'
    BY <1>17 DEF StartHttpFails, Starting, HttpMayStart
  <1>18. ASSUME NEW j \in HttpJob, StartHttpAsserts(j)
        PROVE  TransferIsPolled'
    BY <1>18 DEF StartHttpAsserts, Starting, HttpMayStart
  <1>19. CASE CancelMqtt  BY <1>19 DEF CancelMqtt, Starting
  <1>20. CASE PostponeMqtt  BY <1>20 DEF PostponeMqtt, Starting
  <1>21. CASE StartMqttFails  BY <1>21 DEF StartMqttFails, Starting
  <1>22. ASSUME NEW n \in 0 .. MaxBatch, StartMqtt(n)
        PROVE  TransferIsPolled'  BY <1>22 DEF StartMqtt, Starting
  <1>23. CASE HandleRelayingModeChanged
    <2>1. CASE AbortTransfer
      BY <2>1 DEF AbortTransfer
    <2>2. CASE UNCHANGED <<async_timer, flag_async_comm_in_progress>>
      BY <1>23, <2>2 DEF HandleRelayingModeChanged, Got
    <2> QED BY <1>23, <2>1, <2>2 DEF HandleRelayingModeChanged
  <1>24. CASE Acknowledge  BY <1>24 DEF Acknowledge
  <1>25. ASSUME NEW c \in Client, Accept(c)
        PROVE  TransferIsPolled'  BY <1>25 DEF Accept, At
  <1>26. ASSUME NEW c \in Client, Close(c)
        PROVE  TransferIsPolled'  BY <1>26 DEF Close, At
  <1>27. ASSUME NEW c \in Client, Suspend(c)
        PROVE  TransferIsPolled'  BY <1>27 DEF Suspend, At, Rest
  <1>28. ASSUME NEW c \in Client, SetCommand(c)
        PROVE  TransferIsPolled'  BY <1>28 DEF SetCommand, At
  <1>29. ASSUME NEW c \in Client, Notify(c)
        PROVE  TransferIsPolled'  BY <1>29 DEF Notify, At, Rest
  <1>30. ASSUME NEW c \in Client, WaitEnds(c)
        PROVE  TransferIsPolled'  BY <1>30 DEF WaitEnds, At, Rest
  <1>31. ASSUME NEW c \in Client, WaitTimesOut(c)
        PROVE  TransferIsPolled'  BY <1>31 DEF WaitTimesOut, At, Rest
  <1>32. ASSUME NEW c \in Client, Check(c)
        PROVE  TransferIsPolled'  BY <1>32 DEF Check, At
  <1>33. ASSUME NEW c \in Client, CheckEnds(c)
        PROVE  TransferIsPolled'  BY <1>33 DEF CheckEnds, At
  <1>34. ASSUME NEW c \in Client, Resume(c)
        PROVE  TransferIsPolled'  BY <1>34 DEF Resume, At, Rest
  <1>35. ASSUME NEW j \in Job, TimerFires(j)
        PROVE  TransferIsPolled'  BY <1>35 DEF TimerFires, Send
  <1>36. CASE AsyncTimerFires  BY <1>36 DEF AsyncTimerFires
  <1>37. ASSUME NEW s \in Sig, NetworkChanges(s)
        PROVE  TransferIsPolled'  BY <1>37 DEF NetworkChanges, Send
  <1>38. CASE TimeIsSynchronized  BY <1>38 DEF TimeIsSynchronized, Send
  <1>39. ASSUME NEW b \in BOOLEAN, MqttConnects(b)
        PROVE  TransferIsPolled'  BY <1>39 DEF MqttConnects
  <1>40. ASSUME NEW c \in Cfg, SaveCfg(c)
        PROVE  TransferIsPolled'  BY <1>40 DEF SaveCfg
  <1>41. CASE UNCHANGED vars  BY <1>41
  <1>42. CASE PollAsserts  BY <1>42 DEF PollAsserts, Got
  <1>43. ASSUME NEW c \in Client, CheckPostsAdvs(c)
        PROVE  TransferIsPolled'  BY <1>43 DEF CheckPostsAdvs, At
  <1> QED BY <1>1, <1>2, <1>3, <1>4, <1>5, <1>6, <1>7, <1>8, <1>9, <1>10,
      <1>11, <1>12, <1>13, <1>14, <1>15, <1>16, <1>17, <1>18, <1>19, <1>20,
      <1>21, <1>22, <1>23, <1>24, <1>25, <1>26, <1>27, <1>28, <1>29, <1>30,
      <1>31, <1>32, <1>33, <1>34, <1>35, <1>36, <1>37, <1>38, <1>39, <1>40,
      <1>41, <1>42, <1>43 DEF Next, TaskStep, EnvStep, ClientStep, Continue,
      DoAsyncComm, StartJob

(* Whoever sets the command bit goes on to send the signal.                *)
LEMMA CommandNext ==
  TypeOK /\ CommandIsHandled /\ [Next]_vars
    => CommandIsHandled'
  <1> SUFFICES ASSUME TypeOK /\ CommandIsHandled,
                      [Next]_vars
               PROVE  CommandIsHandled'
    OBVIOUS
  <1> USE DEF TypeOK, CommandIsHandled, vars, task, flags, comm, clocks, env,
      http, status
  <1>1. CASE TakeSignals  BY <1>1 DEF TakeSignals
  <1>2. CASE HandleNetworkDisconnected  BY <1>2 DEF HandleNetworkDisconnected, Got
  <1>3. CASE HandleNetworkConnected
    BY <1>3 DEF HandleNetworkConnected, Got, RestartPending
  <1>4. CASE HandleTimeSynchronized
    BY <1>4 DEF HandleTimeSynchronized, Got, RestartPending
  <1>5. ASSUME NEW j \in Job, HandleRetransmit(j)
        PROVE  CommandIsHandled'  BY <1>5, SigOfJob DEF HandleRetransmit, Got
  <1>6. ASSUME NEW s \in Sig, HandleGwCfgChanged(s)
        PROVE  CommandIsHandled'  BY <1>6 DEF HandleGwCfgChanged, Got, OnGwCfgChange
  <1>7. CASE HandleCfgModeDeactivated
    BY <1>7 DEF HandleCfgModeDeactivated, Got, OnGwCfgChange
  <1>8. CASE NothingInProgress  BY <1>8 DEF NothingInProgress, Got
  <1>9. CASE PollAgain  BY <1>9 DEF PollAgain, Polled, Got
  <1>10. CASE PollDone  BY <1>10 DEF PollDone, Polled, Got
  <1>11. CASE PublishOne  BY <1>11 DEF PublishOne, Got
  <1>12. CASE PublishDone  BY <1>12 DEF PublishDone, Got
  <1>13. CASE NothingToStart  BY <1>13 DEF NothingToStart
  <1>14. CASE CancelStatistics  BY <1>14 DEF CancelStatistics, Starting
  <1>15. ASSUME NEW j \in HttpJob, PostponeHttp(j)
        PROVE  CommandIsHandled'  BY <1>15 DEF PostponeHttp, Starting
  <1>16. ASSUME NEW j \in HttpJob, StartHttp(j)
        PROVE  CommandIsHandled'  BY <1>16 DEF StartHttp, Starting, HttpMayStart
  <1>17. ASSUME NEW j \in HttpJob, StartHttpFails(j)
        PROVE  CommandIsHandled'
    BY <1>17 DEF StartHttpFails, Starting, HttpMayStart
  <1>18. ASSUME NEW j \in HttpJob, StartHttpAsserts(j)
        PROVE  CommandIsHandled'
    BY <1>18 DEF StartHttpAsserts, Starting, HttpMayStart
  <1>19. CASE CancelMqtt  BY <1>19 DEF CancelMqtt, Starting
  <1>20. CASE PostponeMqtt  BY <1>20 DEF PostponeMqtt, Starting
  <1>21. CASE StartMqttFails  BY <1>21 DEF StartMqttFails, Starting
  <1>22. ASSUME NEW n \in 0 .. MaxBatch, StartMqtt(n)
        PROVE  CommandIsHandled'  BY <1>22 DEF StartMqtt, Starting
  <1>23. CASE HandleRelayingModeChanged
    BY <1>23 DEF HandleRelayingModeChanged, AbortTransfer, AbortFault, Got
  <1>24. CASE Acknowledge  BY <1>24 DEF Acknowledge
  <1>25. ASSUME NEW c \in Client, Accept(c)
        PROVE  CommandIsHandled'  BY <1>25 DEF Accept, At
  <1>26. ASSUME NEW c \in Client, Close(c)
        PROVE  CommandIsHandled'  BY <1>26 DEF Close, At
  <1>27. ASSUME NEW c \in Client, Suspend(c)
        PROVE  CommandIsHandled'  BY <1>27 DEF Suspend, At, Rest
  <1>28. ASSUME NEW c \in Client, SetCommand(c)
        PROVE  CommandIsHandled'  BY <1>28 DEF SetCommand, At
  <1>29. ASSUME NEW c \in Client, Notify(c)
        PROVE  CommandIsHandled'  BY <1>29 DEF Notify, At, Rest
  <1>30. ASSUME NEW c \in Client, WaitEnds(c)
        PROVE  CommandIsHandled'  BY <1>30 DEF WaitEnds, At, Rest
  <1>31. ASSUME NEW c \in Client, WaitTimesOut(c)
        PROVE  CommandIsHandled'  BY <1>31 DEF WaitTimesOut, At, Rest
  <1>32. ASSUME NEW c \in Client, Check(c)
        PROVE  CommandIsHandled'  BY <1>32 DEF Check, At
  <1>33. ASSUME NEW c \in Client, CheckEnds(c)
        PROVE  CommandIsHandled'  BY <1>33 DEF CheckEnds, At
  <1>34. ASSUME NEW c \in Client, Resume(c)
        PROVE  CommandIsHandled'  BY <1>34 DEF Resume, At, Rest
  <1>35. ASSUME NEW j \in Job, TimerFires(j)
        PROVE  CommandIsHandled'  BY <1>35 DEF TimerFires, Send
  <1>36. CASE AsyncTimerFires  BY <1>36 DEF AsyncTimerFires
  <1>37. ASSUME NEW s \in Sig, NetworkChanges(s)
        PROVE  CommandIsHandled'  BY <1>37 DEF NetworkChanges, Send
  <1>38. CASE TimeIsSynchronized  BY <1>38 DEF TimeIsSynchronized, Send
  <1>39. ASSUME NEW b \in BOOLEAN, MqttConnects(b)
        PROVE  CommandIsHandled'  BY <1>39 DEF MqttConnects
  <1>40. ASSUME NEW c \in Cfg, SaveCfg(c)
        PROVE  CommandIsHandled'  BY <1>40 DEF SaveCfg
  <1>41. CASE UNCHANGED vars  BY <1>41
  <1>42. CASE PollAsserts  BY <1>42 DEF PollAsserts, Got
  <1>43. ASSUME NEW c \in Client, CheckPostsAdvs(c)
        PROVE  CommandIsHandled'  BY <1>43 DEF CheckPostsAdvs, At
  <1> QED BY <1>1, <1>2, <1>3, <1>4, <1>5, <1>6, <1>7, <1>8, <1>9, <1>10,
      <1>11, <1>12, <1>13, <1>14, <1>15, <1>16, <1>17, <1>18, <1>19, <1>20,
      <1>21, <1>22, <1>23, <1>24, <1>25, <1>26, <1>27, <1>28, <1>29, <1>30,
      <1>31, <1>32, <1>33, <1>34, <1>35, <1>36, <1>37, <1>38, <1>39, <1>40,
      <1>41, <1>42, <1>43 DEF Next, TaskStep, EnvStep, ClientStep, Continue,
      DoAsyncComm, StartJob

(* A target is due because it is enabled, or its change is still to be handled. *)
LEMMA DueNext ==
  TypeOK /\ DueInv /\ [Next]_vars
    => DueInv'
  <1> SUFFICES ASSUME TypeOK /\ DueInv,
                      [Next]_vars
               PROVE  DueInv'
    OBVIOUS
  <1> USE DEF TypeOK, DueInv, HttpJob, Job, CfgRecord, vars, task, flags,
      comm, clocks, env, http, status
  <1>1. CASE TakeSignals  BY <1>1 DEF TakeSignals
  <1>2. CASE HandleNetworkDisconnected  BY <1>2 DEF HandleNetworkDisconnected, Got
  <1>3. CASE HandleNetworkConnected
    BY <1>3 DEF HandleNetworkConnected, Got, RestartPending
  <1>4. CASE HandleTimeSynchronized
    BY <1>4 DEF HandleTimeSynchronized, Got, RestartPending
  <1>5. ASSUME NEW j \in Job, HandleRetransmit(j)
        PROVE  DueInv'  BY <1>5, SigOfJob DEF HandleRetransmit, Got
  <1>6. ASSUME NEW s \in Sig, HandleGwCfgChanged(s)
        PROVE  DueInv'  BY <1>6 DEF HandleGwCfgChanged, Got, OnGwCfgChange
  <1>7. CASE HandleCfgModeDeactivated
    BY <1>7 DEF HandleCfgModeDeactivated, Got, OnGwCfgChange
  <1>8. CASE NothingInProgress  BY <1>8 DEF NothingInProgress, Got
  <1>9. CASE PollAgain  BY <1>9 DEF PollAgain, Polled, Got
  <1>10. CASE PollDone  BY <1>10 DEF PollDone, Polled, Got
  <1>11. CASE PublishOne  BY <1>11 DEF PublishOne, Got
  <1>12. CASE PublishDone  BY <1>12 DEF PublishDone, Got
  <1>13. CASE NothingToStart  BY <1>13 DEF NothingToStart
  <1>14. CASE CancelStatistics  BY <1>14 DEF CancelStatistics, Starting
  <1>15. ASSUME NEW j \in HttpJob, PostponeHttp(j)
        PROVE  DueInv'  BY <1>15 DEF PostponeHttp, Starting
  <1>16. ASSUME NEW j \in HttpJob, StartHttp(j)
        PROVE  DueInv'  BY <1>16 DEF StartHttp, Starting, HttpMayStart
  <1>17. ASSUME NEW j \in HttpJob, StartHttpFails(j)
        PROVE  DueInv'  BY <1>17 DEF StartHttpFails, Starting, HttpMayStart
  <1>18. ASSUME NEW j \in HttpJob, StartHttpAsserts(j)
        PROVE  DueInv'  BY <1>18 DEF StartHttpAsserts, Starting, HttpMayStart
  <1>19. CASE CancelMqtt  BY <1>19 DEF CancelMqtt, Starting
  <1>20. CASE PostponeMqtt  BY <1>20 DEF PostponeMqtt, Starting
  <1>21. CASE StartMqttFails  BY <1>21 DEF StartMqttFails, Starting
  <1>22. ASSUME NEW n \in 0 .. MaxBatch, StartMqtt(n)
        PROVE  DueInv'  BY <1>22 DEF StartMqtt, Starting
  <1>23. CASE HandleRelayingModeChanged
    BY <1>23 DEF HandleRelayingModeChanged, AbortTransfer, AbortFault, Got
  <1>24. CASE Acknowledge  BY <1>24 DEF Acknowledge
  <1>25. ASSUME NEW c \in Client, Accept(c)
        PROVE  DueInv'  BY <1>25 DEF Accept, At
  <1>26. ASSUME NEW c \in Client, Close(c)
        PROVE  DueInv'  BY <1>26 DEF Close, At
  <1>27. ASSUME NEW c \in Client, Suspend(c)
        PROVE  DueInv'  BY <1>27 DEF Suspend, At, Rest
  <1>28. ASSUME NEW c \in Client, SetCommand(c)
        PROVE  DueInv'  BY <1>28 DEF SetCommand, At
  <1>29. ASSUME NEW c \in Client, Notify(c)
        PROVE  DueInv'  BY <1>29 DEF Notify, At, Rest
  <1>30. ASSUME NEW c \in Client, WaitEnds(c)
        PROVE  DueInv'  BY <1>30 DEF WaitEnds, At, Rest
  <1>31. ASSUME NEW c \in Client, WaitTimesOut(c)
        PROVE  DueInv'  BY <1>31 DEF WaitTimesOut, At, Rest
  <1>32. ASSUME NEW c \in Client, Check(c)
        PROVE  DueInv'  BY <1>32 DEF Check, At
  <1>33. ASSUME NEW c \in Client, CheckEnds(c)
        PROVE  DueInv'  BY <1>33 DEF CheckEnds, At
  <1>34. ASSUME NEW c \in Client, Resume(c)
        PROVE  DueInv'  BY <1>34 DEF Resume, At, Rest
  <1>35. ASSUME NEW j \in Job, TimerFires(j)
        PROVE  DueInv'  BY <1>35 DEF TimerFires, Send
  <1>36. CASE AsyncTimerFires  BY <1>36 DEF AsyncTimerFires
  <1>37. ASSUME NEW s \in Sig, NetworkChanges(s)
        PROVE  DueInv'  BY <1>37 DEF NetworkChanges, Send
  <1>38. CASE TimeIsSynchronized  BY <1>38 DEF TimeIsSynchronized, Send
  <1>39. ASSUME NEW b \in BOOLEAN, MqttConnects(b)
        PROVE  DueInv'  BY <1>39 DEF MqttConnects
  <1>40. ASSUME NEW c \in Cfg, SaveCfg(c)
        PROVE  DueInv'  BY <1>40 DEF SaveCfg
  <1>41. CASE UNCHANGED vars  BY <1>41
  <1>42. CASE PollAsserts  BY <1>42 DEF PollAsserts, Got
  <1>43. ASSUME NEW c \in Client, CheckPostsAdvs(c)
        PROVE  DueInv'  BY <1>43 DEF CheckPostsAdvs, At
  <1> QED BY <1>1, <1>2, <1>3, <1>4, <1>5, <1>6, <1>7, <1>8, <1>9, <1>10,
      <1>11, <1>12, <1>13, <1>14, <1>15, <1>16, <1>17, <1>18, <1>19, <1>20,
      <1>21, <1>22, <1>23, <1>24, <1>25, <1>26, <1>27, <1>28, <1>29, <1>30,
      <1>31, <1>32, <1>33, <1>34, <1>35, <1>36, <1>37, <1>38, <1>39, <1>40,
      <1>41, <1>42, <1>43 DEF Next, TaskStep, EnvStep, ClientStep, Continue,
      DoAsyncComm, StartJob

(* An enabled target is timed: the timers are set when the configuration   *)
(* is read, and started again, never stopped, by everything else.          *)
LEMMA TimedNext ==
  TypeOK /\ TimedInv /\ [Next]_vars
    => TimedInv'
  <1> SUFFICES ASSUME TypeOK /\ TimedInv,
                      [Next]_vars
               PROVE  TimedInv'
    OBVIOUS
  <1> USE DEF TypeOK, TimedInv, CfgComes, HttpJob, Job, CfgRecord, vars, task, flags,
      comm, clocks, env, http, status
  <1>1. CASE TakeSignals  BY <1>1 DEF TakeSignals
  <1>2. CASE HandleNetworkDisconnected  BY <1>2 DEF HandleNetworkDisconnected, Got
  <1>3. CASE HandleNetworkConnected
    BY <1>3 DEF HandleNetworkConnected, Got, RestartPending
  <1>4. CASE HandleTimeSynchronized
    BY <1>4 DEF HandleTimeSynchronized, Got, RestartPending
  <1>5. ASSUME NEW j \in Job, HandleRetransmit(j)
        PROVE  TimedInv'  BY <1>5, SigOfJob DEF HandleRetransmit, Got
  <1>6. ASSUME NEW s \in Sig, HandleGwCfgChanged(s)
        PROVE  TimedInv'  BY <1>6 DEF HandleGwCfgChanged, Got, OnGwCfgChange
  <1>7. CASE HandleCfgModeDeactivated
    BY <1>7 DEF HandleCfgModeDeactivated, Got, OnGwCfgChange
  <1>8. CASE NothingInProgress  BY <1>8 DEF NothingInProgress, Got
  <1>9. CASE PollAgain  BY <1>9 DEF PollAgain, Polled, Got
  <1>10. CASE PollDone  BY <1>10 DEF PollDone, Polled, Got
  <1>11. CASE PublishOne  BY <1>11 DEF PublishOne, Got
  <1>12. CASE PublishDone  BY <1>12 DEF PublishDone, Got
  <1>13. CASE NothingToStart  BY <1>13 DEF NothingToStart
  <1>14. CASE CancelStatistics  BY <1>14 DEF CancelStatistics, Starting
  <1>15. ASSUME NEW j \in HttpJob, PostponeHttp(j)
        PROVE  TimedInv'  BY <1>15 DEF PostponeHttp, Starting
  <1>16. ASSUME NEW j \in HttpJob, StartHttp(j)
        PROVE  TimedInv'  BY <1>16 DEF StartHttp, Starting, HttpMayStart
  <1>17. ASSUME NEW j \in HttpJob, StartHttpFails(j)
        PROVE  TimedInv'  BY <1>17 DEF StartHttpFails, Starting, HttpMayStart
  <1>18. ASSUME NEW j \in HttpJob, StartHttpAsserts(j)
        PROVE  TimedInv'  BY <1>18 DEF StartHttpAsserts, Starting, HttpMayStart
  <1>19. CASE CancelMqtt  BY <1>19 DEF CancelMqtt, Starting
  <1>20. CASE PostponeMqtt  BY <1>20 DEF PostponeMqtt, Starting
  <1>21. CASE StartMqttFails  BY <1>21 DEF StartMqttFails, Starting
  <1>22. ASSUME NEW n \in 0 .. MaxBatch, StartMqtt(n)
        PROVE  TimedInv'  BY <1>22 DEF StartMqtt, Starting
  <1>23. CASE HandleRelayingModeChanged
    BY <1>23 DEF HandleRelayingModeChanged, AbortTransfer, AbortFault, Got
  <1>24. CASE Acknowledge  BY <1>24 DEF Acknowledge
  <1>25. ASSUME NEW c \in Client, Accept(c)
        PROVE  TimedInv'  BY <1>25 DEF Accept, At
  <1>26. ASSUME NEW c \in Client, Close(c)
        PROVE  TimedInv'  BY <1>26 DEF Close, At
  <1>27. ASSUME NEW c \in Client, Suspend(c)
        PROVE  TimedInv'  BY <1>27 DEF Suspend, At, Rest
  <1>28. ASSUME NEW c \in Client, SetCommand(c)
        PROVE  TimedInv'  BY <1>28 DEF SetCommand, At
  <1>29. ASSUME NEW c \in Client, Notify(c)
        PROVE  TimedInv'  BY <1>29 DEF Notify, At, Rest
  <1>30. ASSUME NEW c \in Client, WaitEnds(c)
        PROVE  TimedInv'  BY <1>30 DEF WaitEnds, At, Rest
  <1>31. ASSUME NEW c \in Client, WaitTimesOut(c)
        PROVE  TimedInv'  BY <1>31 DEF WaitTimesOut, At, Rest
  <1>32. ASSUME NEW c \in Client, Check(c)
        PROVE  TimedInv'  BY <1>32 DEF Check, At
  <1>33. ASSUME NEW c \in Client, CheckEnds(c)
        PROVE  TimedInv'  BY <1>33 DEF CheckEnds, At
  <1>34. ASSUME NEW c \in Client, Resume(c)
        PROVE  TimedInv'  BY <1>34 DEF Resume, At, Rest
  <1>35. ASSUME NEW j \in Job, TimerFires(j)
        PROVE  TimedInv'  BY <1>35 DEF TimerFires, Send
  <1>36. CASE AsyncTimerFires  BY <1>36 DEF AsyncTimerFires
  <1>37. ASSUME NEW s \in Sig, NetworkChanges(s)
        PROVE  TimedInv'  BY <1>37 DEF NetworkChanges, Send
  <1>38. CASE TimeIsSynchronized  BY <1>38 DEF TimeIsSynchronized, Send
  <1>39. ASSUME NEW b \in BOOLEAN, MqttConnects(b)
        PROVE  TimedInv'  BY <1>39 DEF MqttConnects
  <1>40. ASSUME NEW c \in Cfg, SaveCfg(c)
        PROVE  TimedInv'  BY <1>40 DEF SaveCfg
  <1>41. CASE UNCHANGED vars  BY <1>41
  <1>42. CASE PollAsserts  BY <1>42 DEF PollAsserts, Got
  <1>43. ASSUME NEW c \in Client, CheckPostsAdvs(c)
        PROVE  TimedInv'  BY <1>43 DEF CheckPostsAdvs, At
  <1> QED BY <1>1, <1>2, <1>3, <1>4, <1>5, <1>6, <1>7, <1>8, <1>9, <1>10,
      <1>11, <1>12, <1>13, <1>14, <1>15, <1>16, <1>17, <1>18, <1>19, <1>20,
      <1>21, <1>22, <1>23, <1>24, <1>25, <1>26, <1>27, <1>28, <1>29, <1>30,
      <1>31, <1>32, <1>33, <1>34, <1>35, <1>36, <1>37, <1>38, <1>39, <1>40,
      <1>41, <1>42, <1>43 DEF Next, TaskStep, EnvStep, ClientStep, Continue,
      DoAsyncComm, StartJob

(* Switching relaying off ends the transfer; none starts while it is off.  *)
LEMMA OffNext ==
  TypeOK /\ OffInv /\ [Next]_vars
    => OffInv'
  <1> SUFFICES ASSUME TypeOK /\ OffInv,
                      [Next]_vars
               PROVE  OffInv'
    OBVIOUS
  <1> USE DEF TypeOK, OffInv, Due, vars, task, flags, comm, clocks, env,
      http, status
  <1>1. CASE TakeSignals  BY <1>1 DEF TakeSignals
  <1>2. CASE HandleNetworkDisconnected  BY <1>2 DEF HandleNetworkDisconnected, Got
  <1>3. CASE HandleNetworkConnected
    BY <1>3 DEF HandleNetworkConnected, Got, RestartPending
  <1>4. CASE HandleTimeSynchronized
    BY <1>4 DEF HandleTimeSynchronized, Got, RestartPending
  <1>5. ASSUME NEW j \in Job, HandleRetransmit(j)
        PROVE  OffInv'  BY <1>5 DEF HandleRetransmit, Got
  <1>6. ASSUME NEW s \in Sig, HandleGwCfgChanged(s)
        PROVE  OffInv'  BY <1>6 DEF HandleGwCfgChanged, Got, OnGwCfgChange
  <1>7. CASE HandleCfgModeDeactivated
    BY <1>7 DEF HandleCfgModeDeactivated, Got, OnGwCfgChange
  <1>8. CASE NothingInProgress  BY <1>8 DEF NothingInProgress, Got
  <1>9. CASE PollAgain  BY <1>9 DEF PollAgain, Polled, Got
  <1>10. CASE PollDone  BY <1>10 DEF PollDone, Polled, Got
  <1>11. CASE PublishOne  BY <1>11 DEF PublishOne, Got
  <1>12. CASE PublishDone  BY <1>12 DEF PublishDone, Got
  <1>13. CASE NothingToStart  BY <1>13 DEF NothingToStart
  <1>14. CASE CancelStatistics  BY <1>14 DEF CancelStatistics, Starting
  <1>15. ASSUME NEW j \in HttpJob, PostponeHttp(j)
        PROVE  OffInv'  BY <1>15 DEF PostponeHttp, Starting
  <1>16. ASSUME NEW j \in HttpJob, StartHttp(j)
        PROVE  OffInv'  BY <1>16 DEF StartHttp, Starting, HttpMayStart
  <1>17. ASSUME NEW j \in HttpJob, StartHttpFails(j)
        PROVE  OffInv'  BY <1>17 DEF StartHttpFails, Starting, HttpMayStart
  <1>18. ASSUME NEW j \in HttpJob, StartHttpAsserts(j)
        PROVE  OffInv'  BY <1>18 DEF StartHttpAsserts, Starting, HttpMayStart
  <1>19. CASE CancelMqtt  BY <1>19 DEF CancelMqtt, Starting
  <1>20. CASE PostponeMqtt  BY <1>20 DEF PostponeMqtt, Starting
  <1>21. CASE StartMqttFails  BY <1>21 DEF StartMqttFails, Starting
  <1>22. ASSUME NEW n \in 0 .. MaxBatch, StartMqtt(n)
        PROVE  OffInv'  BY <1>22 DEF StartMqtt, Starting
  <1>23. CASE HandleRelayingModeChanged
    BY <1>23 DEF HandleRelayingModeChanged, AbortTransfer, AbortFault, Got
  <1>24. CASE Acknowledge  BY <1>24 DEF Acknowledge
  <1>25. ASSUME NEW c \in Client, Accept(c)
        PROVE  OffInv'  BY <1>25 DEF Accept, At
  <1>26. ASSUME NEW c \in Client, Close(c)
        PROVE  OffInv'  BY <1>26 DEF Close, At
  <1>27. ASSUME NEW c \in Client, Suspend(c)
        PROVE  OffInv'  BY <1>27 DEF Suspend, At, Rest
  <1>28. ASSUME NEW c \in Client, SetCommand(c)
        PROVE  OffInv'  BY <1>28 DEF SetCommand, At
  <1>29. ASSUME NEW c \in Client, Notify(c)
        PROVE  OffInv'  BY <1>29 DEF Notify, At, Rest
  <1>30. ASSUME NEW c \in Client, WaitEnds(c)
        PROVE  OffInv'  BY <1>30 DEF WaitEnds, At, Rest
  <1>31. ASSUME NEW c \in Client, WaitTimesOut(c)
        PROVE  OffInv'  BY <1>31 DEF WaitTimesOut, At, Rest
  <1>32. ASSUME NEW c \in Client, Check(c)
        PROVE  OffInv'  BY <1>32 DEF Check, At
  <1>33. ASSUME NEW c \in Client, CheckEnds(c)
        PROVE  OffInv'  BY <1>33 DEF CheckEnds, At
  <1>34. ASSUME NEW c \in Client, Resume(c)
        PROVE  OffInv'  BY <1>34 DEF Resume, At, Rest
  <1>35. ASSUME NEW j \in Job, TimerFires(j)
        PROVE  OffInv'  BY <1>35 DEF TimerFires, Send
  <1>36. CASE AsyncTimerFires  BY <1>36 DEF AsyncTimerFires
  <1>37. ASSUME NEW s \in Sig, NetworkChanges(s)
        PROVE  OffInv'  BY <1>37 DEF NetworkChanges, Send
  <1>38. CASE TimeIsSynchronized  BY <1>38 DEF TimeIsSynchronized, Send
  <1>39. ASSUME NEW b \in BOOLEAN, MqttConnects(b)
        PROVE  OffInv'  BY <1>39 DEF MqttConnects
  <1>40. ASSUME NEW c \in Cfg, SaveCfg(c)
        PROVE  OffInv'  BY <1>40 DEF SaveCfg
  <1>41. CASE UNCHANGED vars  BY <1>41
  <1>42. CASE PollAsserts  BY <1>42 DEF PollAsserts, Got
  <1>43. ASSUME NEW c \in Client, CheckPostsAdvs(c)
        PROVE  OffInv'  BY <1>43 DEF CheckPostsAdvs, At
  <1> QED BY <1>1, <1>2, <1>3, <1>4, <1>5, <1>6, <1>7, <1>8, <1>9, <1>10,
      <1>11, <1>12, <1>13, <1>14, <1>15, <1>16, <1>17, <1>18, <1>19, <1>20,
      <1>21, <1>22, <1>23, <1>24, <1>25, <1>26, <1>27, <1>28, <1>29, <1>30,
      <1>31, <1>32, <1>33, <1>34, <1>35, <1>36, <1>37, <1>38, <1>39, <1>40,
      <1>41, <1>42, <1>43 DEF Next, TaskStep, EnvStep, ClientStep, Continue,
      DoAsyncComm, StartJob

(* A batch is replaced or freed only together with its transfer.           *)
LEMMA BatchNext ==
  TypeOK /\ RequestInv /\ BatchInv /\ [Next]_vars
    => BatchInv'
  <1> SUFFICES ASSUME TypeOK /\ RequestInv /\ BatchInv,
                      [Next]_vars
               PROVE  BatchInv'
    OBVIOUS
  <1> USE DEF TypeOK, RequestInv, BatchInv, MqttInProgress, HttpJob, vars,
      task, flags, comm, clocks, env, http, status
  <1>1. CASE TakeSignals  BY <1>1 DEF TakeSignals
  <1>2. CASE HandleNetworkDisconnected  BY <1>2 DEF HandleNetworkDisconnected, Got
  <1>3. CASE HandleNetworkConnected
    BY <1>3 DEF HandleNetworkConnected, Got, RestartPending
  <1>4. CASE HandleTimeSynchronized
    BY <1>4 DEF HandleTimeSynchronized, Got, RestartPending
  <1>5. ASSUME NEW j \in Job, HandleRetransmit(j)
        PROVE  BatchInv'  BY <1>5 DEF HandleRetransmit, Got
  <1>6. ASSUME NEW s \in Sig, HandleGwCfgChanged(s)
        PROVE  BatchInv'  BY <1>6 DEF HandleGwCfgChanged, Got, OnGwCfgChange
  <1>7. CASE HandleCfgModeDeactivated
    BY <1>7 DEF HandleCfgModeDeactivated, Got, OnGwCfgChange
  <1>8. CASE NothingInProgress  BY <1>8 DEF NothingInProgress, Got
  <1>9. CASE PollAgain  BY <1>9 DEF PollAgain, Polled, Got
  <1>10. CASE PollDone  BY <1>10 DEF PollDone, Polled, Got
  <1>11. CASE PublishOne  BY <1>11 DEF PublishOne, Got
  <1>12. CASE PublishDone  BY <1>12 DEF PublishDone, Got
  <1>13. CASE NothingToStart  BY <1>13 DEF NothingToStart
  <1>14. CASE CancelStatistics  BY <1>14 DEF CancelStatistics, Starting
  <1>15. ASSUME NEW j \in HttpJob, PostponeHttp(j)
        PROVE  BatchInv'  BY <1>15 DEF PostponeHttp, Starting
  <1>16. ASSUME NEW j \in HttpJob, StartHttp(j)
        PROVE  BatchInv'  BY <1>16 DEF StartHttp, Starting, HttpMayStart
  <1>17. ASSUME NEW j \in HttpJob, StartHttpFails(j)
        PROVE  BatchInv'  BY <1>17 DEF StartHttpFails, Starting, HttpMayStart
  <1>18. ASSUME NEW j \in HttpJob, StartHttpAsserts(j)
        PROVE  BatchInv'  BY <1>18 DEF StartHttpAsserts, Starting, HttpMayStart
  <1>19. CASE CancelMqtt  BY <1>19 DEF CancelMqtt, Starting
  <1>20. CASE PostponeMqtt  BY <1>20 DEF PostponeMqtt, Starting
  <1>21. CASE StartMqttFails  BY <1>21 DEF StartMqttFails, Starting
  <1>22. ASSUME NEW n \in 0 .. MaxBatch, StartMqtt(n)
        PROVE  BatchInv'  BY <1>22 DEF StartMqtt, Starting
  <1>23. CASE HandleRelayingModeChanged
    BY <1>23 DEF HandleRelayingModeChanged, AbortTransfer, AbortFault, Got
  <1>24. CASE Acknowledge  BY <1>24 DEF Acknowledge
  <1>25. ASSUME NEW c \in Client, Accept(c)
        PROVE  BatchInv'  BY <1>25 DEF Accept, At
  <1>26. ASSUME NEW c \in Client, Close(c)
        PROVE  BatchInv'  BY <1>26 DEF Close, At
  <1>27. ASSUME NEW c \in Client, Suspend(c)
        PROVE  BatchInv'  BY <1>27 DEF Suspend, At, Rest
  <1>28. ASSUME NEW c \in Client, SetCommand(c)
        PROVE  BatchInv'  BY <1>28 DEF SetCommand, At
  <1>29. ASSUME NEW c \in Client, Notify(c)
        PROVE  BatchInv'  BY <1>29 DEF Notify, At, Rest
  <1>30. ASSUME NEW c \in Client, WaitEnds(c)
        PROVE  BatchInv'  BY <1>30 DEF WaitEnds, At, Rest
  <1>31. ASSUME NEW c \in Client, WaitTimesOut(c)
        PROVE  BatchInv'  BY <1>31 DEF WaitTimesOut, At, Rest
  <1>32. ASSUME NEW c \in Client, Check(c)
        PROVE  BatchInv'  BY <1>32 DEF Check, At
  <1>33. ASSUME NEW c \in Client, CheckEnds(c)
        PROVE  BatchInv'  BY <1>33 DEF CheckEnds, At
  <1>34. ASSUME NEW c \in Client, Resume(c)
        PROVE  BatchInv'  BY <1>34 DEF Resume, At, Rest
  <1>35. ASSUME NEW j \in Job, TimerFires(j)
        PROVE  BatchInv'  BY <1>35 DEF TimerFires, Send
  <1>36. CASE AsyncTimerFires  BY <1>36 DEF AsyncTimerFires
  <1>37. ASSUME NEW s \in Sig, NetworkChanges(s)
        PROVE  BatchInv'  BY <1>37 DEF NetworkChanges, Send
  <1>38. CASE TimeIsSynchronized  BY <1>38 DEF TimeIsSynchronized, Send
  <1>39. ASSUME NEW b \in BOOLEAN, MqttConnects(b)
        PROVE  BatchInv'  BY <1>39 DEF MqttConnects
  <1>40. ASSUME NEW c \in Cfg, SaveCfg(c)
        PROVE  BatchInv'  BY <1>40 DEF SaveCfg
  <1>41. CASE UNCHANGED vars  BY <1>41
  <1>42. CASE PollAsserts  BY <1>42 DEF PollAsserts, Got
  <1>43. ASSUME NEW c \in Client, CheckPostsAdvs(c)
        PROVE  BatchInv'  BY <1>43 DEF CheckPostsAdvs, At
  <1> QED BY <1>1, <1>2, <1>3, <1>4, <1>5, <1>6, <1>7, <1>8, <1>9, <1>10,
      <1>11, <1>12, <1>13, <1>14, <1>15, <1>16, <1>17, <1>18, <1>19, <1>20,
      <1>21, <1>22, <1>23, <1>24, <1>25, <1>26, <1>27, <1>28, <1>29, <1>30,
      <1>31, <1>32, <1>33, <1>34, <1>35, <1>36, <1>37, <1>38, <1>39, <1>40,
      <1>41, <1>42, <1>43 DEF Next, TaskStep, EnvStep, ClientStep, Continue,
      DoAsyncComm, StartJob

(* With one suspending thread, every step keeps the command and where the  *)
(* thread is in agreement.                                                 *)
LEMMA OneSuspenderNext ==
  OneSuspender /\ PostInv /\ OneSuspenderInv /\ [Next]_vars
    => OneSuspenderInv'
  <1> SUFFICES ASSUME OneSuspender /\ PostInv /\ OneSuspenderInv,
                      [Next]_vars
               PROVE  OneSuspenderInv'
    OBVIOUS
  <1> PICK s : Client = {s}
    BY DEF OneSuspender
  <1>a. /\ pc \in [Client -> {"idle", "connected", "suspend", "suspend_notify",
                          "suspend_wait", "work", "check", "post", "resume",
                          "resume_notify", "resume_wait"}]
        /\ CfgMode = {} /\ ~AllowTimeout
    BY DEF PostInv, TypeOK, OneSuspender
  <1>b. cnt_suspended = IF pc[s] \in Holding THEN 1 ELSE 0
    <2>1. CASE pc[s] \in Holding
      <3>1. Suspenders = {s}
        BY <2>1 DEF Suspenders
      <3> QED BY <2>1, <3>1, FS_Singleton DEF PostInv, CounterExact
    <2>2. CASE pc[s] \notin Holding
      <3>1. Suspenders = {}
        BY <2>2 DEF Suspenders
      <3> QED BY <2>2, <3>1, FS_EmptySet DEF PostInv, CounterExact
    <2> QED BY <2>1, <2>2
  <1>c. /\ http_sema \in {s, "adv_post", "none"}
        /\ http_sema = s <=> pc[s] \in {"check", "post"}
        /\ ap_pc = "start" \/ ~flag_relaying_enabled =>
              http_sema # "adv_post" /\ ~flag_async_comm_in_progress
    BY DEF PostInv, TypeOK, RequestInv, HttpRequestOwned, HttpInProgress, OffInv
  <1> USE DEF OneSuspenderInv, Holding, Due, OneHttpRequestAtATime, PolledByOwner,
      HttpInProgress, Command, Running, vars, task, flags, comm, clocks, env, http, status
  <1>1. CASE TakeSignals  BY <1>1, <1>a, <1>b DEF TakeSignals
  <1>2. CASE HandleNetworkDisconnected
    BY <1>2, <1>a, <1>b DEF HandleNetworkDisconnected, Got
  <1>3. CASE HandleNetworkConnected
    BY <1>3, <1>a, <1>b DEF HandleNetworkConnected, Got, RestartPending
  <1>4. CASE HandleTimeSynchronized
    BY <1>4, <1>a, <1>b DEF HandleTimeSynchronized, Got, RestartPending
  <1>5. ASSUME NEW j \in Job, HandleRetransmit(j)
        PROVE  OneSuspenderInv'
    BY <1>5, <1>a, <1>b, SigOfJob DEF HandleRetransmit, Got
  <1>6. ASSUME NEW z \in Sig, HandleGwCfgChanged(z)
        PROVE  OneSuspenderInv'
    BY <1>6, <1>a, <1>b DEF HandleGwCfgChanged, Got, OnGwCfgChange
  <1>7. CASE HandleCfgModeDeactivated
    BY <1>7, <1>a, <1>b DEF HandleCfgModeDeactivated, Got, OnGwCfgChange
  <1>8. CASE NothingInProgress  BY <1>8, <1>a, <1>b DEF NothingInProgress, Got
  <1>9. CASE PollAgain  BY <1>9, <1>a, <1>b DEF PollAgain, Polled, Got
  <1>10. CASE PollDone  BY <1>10, <1>a, <1>b DEF PollDone, Polled, Got
  <1>11. CASE PublishOne  BY <1>11, <1>a, <1>b DEF PublishOne, Got
  <1>12. CASE PublishDone  BY <1>12, <1>a, <1>b DEF PublishDone, Got
  <1>13. CASE NothingToStart  BY <1>13, <1>a, <1>b DEF NothingToStart
  <1>14. CASE CancelStatistics  BY <1>14, <1>a, <1>b DEF CancelStatistics, Starting
  <1>15. ASSUME NEW j \in HttpJob, PostponeHttp(j)
        PROVE  OneSuspenderInv'  BY <1>15, <1>a, <1>b DEF PostponeHttp, Starting
  <1>16. ASSUME NEW j \in HttpJob, StartHttp(j)
        PROVE  OneSuspenderInv'
    BY <1>16, <1>a, <1>b DEF StartHttp, Starting, HttpMayStart
  <1>17. ASSUME NEW j \in HttpJob, StartHttpFails(j)
        PROVE  OneSuspenderInv'
    BY <1>17, <1>a, <1>b, <1>c DEF StartHttpFails, Starting, HttpMayStart
  <1>18. ASSUME NEW j \in HttpJob, StartHttpAsserts(j)
        PROVE  OneSuspenderInv'
    BY <1>18, <1>a, <1>b, <1>c DEF StartHttpAsserts, Starting, HttpMayStart
  <1>19. CASE CancelMqtt  BY <1>19, <1>a, <1>b DEF CancelMqtt, Starting
  <1>20. CASE PostponeMqtt  BY <1>20, <1>a, <1>b DEF PostponeMqtt, Starting
  <1>21. CASE StartMqttFails  BY <1>21, <1>a, <1>b, <1>c DEF StartMqttFails, Starting
  <1>22. ASSUME NEW n \in 0 .. MaxBatch, StartMqtt(n)
        PROVE  OneSuspenderInv'  BY <1>22, <1>a, <1>b DEF StartMqtt, Starting
  <1>23. CASE HandleRelayingModeChanged
    <2>1. cnt_suspended = 0 <=> pc[s] \notin Holding
      BY <1>b
    <2>2. flag_relaying_enabled' <=> cnt_suspended = 0
      BY <1>23, Zenon DEF HandleRelayingModeChanged
    <2>3. /\ fault' \notin {"sema_busy", "poll_other"}
          /\ HttpInProgress' => http_sema' = "adv_post"
      BY <1>23 DEF HandleRelayingModeChanged, AbortTransfer, AbortFault
    <2>4. /\ "RELAYING_MODE_CHANGED" \in cur
          /\ cur' = cur \ {"RELAYING_MODE_CHANGED"}
          /\ ap_pc = "loop" /\ ap_pc' = "ack"
          /\ UNCHANGED <<sig, relaying_cmd, pc>>
      BY <1>23 DEF HandleRelayingModeChanged, Got
    <2>5. "RELAYING_MODE_CHANGED" \notin sig => ~("RELAYING_MODE_CHANGED" \in sig' \cup cur')
      BY <2>4
    <2> QED BY <1>a, <2>1, <2>2, <2>3, <2>4, <2>5
  <1>24. CASE Acknowledge  BY <1>24, <1>a, <1>b DEF Acknowledge
  <1>25. ASSUME NEW c \in Client, Accept(c)
        PROVE  OneSuspenderInv'  BY <1>25, <1>a, <1>b DEF Accept, At
  <1>26. ASSUME NEW c \in Client, Close(c)
        PROVE  OneSuspenderInv'  BY <1>26, <1>a, <1>b DEF Close, At
  <1>27. ASSUME NEW c \in Client, Suspend(c)
        PROVE  OneSuspenderInv'  BY <1>27, <1>a, <1>b DEF Suspend, At, Rest
  <1>28. ASSUME NEW c \in Client, SetCommand(c)
        PROVE  OneSuspenderInv'  BY <1>28, <1>a, <1>b DEF SetCommand, At
  <1>29. ASSUME NEW c \in Client, Notify(c)
        PROVE  OneSuspenderInv'  BY <1>29, <1>a, <1>b DEF Notify, At, Rest
  <1>30. ASSUME NEW c \in Client, WaitEnds(c)
        PROVE  OneSuspenderInv'  BY <1>30, <1>a, <1>b DEF WaitEnds, At, Rest
  <1>31. ASSUME NEW c \in Client, WaitTimesOut(c)
        PROVE  OneSuspenderInv'  BY <1>31, <1>a, <1>b DEF WaitTimesOut, At, Rest
  <1>32. ASSUME NEW c \in Client, Check(c)
        PROVE  OneSuspenderInv'  BY <1>32, <1>a, <1>b, <1>c DEF Check, At
  <1>33. ASSUME NEW c \in Client, CheckEnds(c)
        PROVE  OneSuspenderInv'  BY <1>33, <1>a, <1>b, <1>c DEF CheckEnds, At
  <1>34. ASSUME NEW c \in Client, Resume(c)
        PROVE  OneSuspenderInv'  BY <1>34, <1>a, <1>b DEF Resume, At, Rest
  <1>35. ASSUME NEW j \in Job, TimerFires(j)
        PROVE  OneSuspenderInv'  BY <1>35, <1>a, <1>b, SigOfJob DEF TimerFires, Send
  <1>36. CASE AsyncTimerFires  BY <1>36, <1>a, <1>b DEF AsyncTimerFires
  <1>37. ASSUME NEW z \in Sig, NetworkChanges(z)
        PROVE  OneSuspenderInv'
    BY <1>37, <1>a, <1>b, ExtSigAssumption DEF NetworkChanges, Send
  <1>38. CASE TimeIsSynchronized  BY <1>38, <1>a, <1>b DEF TimeIsSynchronized, Send
  <1>39. ASSUME NEW b \in BOOLEAN, MqttConnects(b)
        PROVE  OneSuspenderInv'  BY <1>39, <1>a, <1>b DEF MqttConnects
  <1>40. ASSUME NEW c \in Cfg, SaveCfg(c)
        PROVE  OneSuspenderInv'  BY <1>40, <1>a, <1>b DEF SaveCfg
  <1>41. CASE UNCHANGED vars  BY <1>41, <1>a, <1>b
  <1>42. CASE PollAsserts  BY <1>42, <1>a, <1>b DEF PollAsserts, Got
  <1>43. ASSUME NEW c \in Client, CheckPostsAdvs(c)
        PROVE  OneSuspenderInv'  BY <1>43, <1>a, <1>b, <1>c DEF CheckPostsAdvs, At
  <1> QED BY <1>1, <1>2, <1>3, <1>4, <1>5, <1>6, <1>7, <1>8, <1>9, <1>10,
      <1>11, <1>12, <1>13, <1>14, <1>15, <1>16, <1>17, <1>18, <1>19, <1>20,
      <1>21, <1>22, <1>23, <1>24, <1>25, <1>26, <1>27, <1>28, <1>29, <1>30,
      <1>31, <1>32, <1>33, <1>34, <1>35, <1>36, <1>37, <1>38, <1>39, <1>40,
      <1>41, <1>42, <1>43 DEF Next, TaskStep, EnvStep, ClientStep, Continue,
      DoAsyncComm, StartJob

(* Only StartHttp starts a post, and only one that is due.                 *)
LEMMA PostStepNext ==
  TypeOK /\ DueInv /\ [Next]_vars
    => PostToEnabledTarget
  <1> SUFFICES ASSUME TypeOK /\ DueInv,
                      [Next]_vars
               PROVE  PostToEnabledTarget
    OBVIOUS
  <1> USE DEF TypeOK, DueInv, PostToEnabledTarget, HttpJob, Job, vars, task,
      flags, comm, clocks, env, http, status
  <1>1. CASE TakeSignals  BY <1>1 DEF TakeSignals
  <1>2. CASE HandleNetworkDisconnected  BY <1>2 DEF HandleNetworkDisconnected, Got
  <1>3. CASE HandleNetworkConnected
    BY <1>3 DEF HandleNetworkConnected, Got, RestartPending
  <1>4. CASE HandleTimeSynchronized
    BY <1>4 DEF HandleTimeSynchronized, Got, RestartPending
  <1>5. ASSUME NEW j \in Job, HandleRetransmit(j)
        PROVE  PostToEnabledTarget  BY <1>5 DEF HandleRetransmit, Got
  <1>6. ASSUME NEW s \in Sig, HandleGwCfgChanged(s)
        PROVE  PostToEnabledTarget
    BY <1>6 DEF HandleGwCfgChanged, Got, OnGwCfgChange
  <1>7. CASE HandleCfgModeDeactivated
    BY <1>7 DEF HandleCfgModeDeactivated, Got, OnGwCfgChange
  <1>8. CASE NothingInProgress  BY <1>8 DEF NothingInProgress, Got
  <1>9. CASE PollAgain  BY <1>9 DEF PollAgain, Polled, Got
  <1>10. CASE PollDone  BY <1>10 DEF PollDone, Polled, Got
  <1>11. CASE PublishOne  BY <1>11 DEF PublishOne, Got
  <1>12. CASE PublishDone  BY <1>12 DEF PublishDone, Got
  <1>13. CASE NothingToStart  BY <1>13 DEF NothingToStart
  <1>14. CASE CancelStatistics  BY <1>14 DEF CancelStatistics, Starting
  <1>15. ASSUME NEW j \in HttpJob, PostponeHttp(j)
        PROVE  PostToEnabledTarget  BY <1>15 DEF PostponeHttp, Starting
  <1>16. ASSUME NEW j \in HttpJob, StartHttp(j)
        PROVE  PostToEnabledTarget  BY <1>16 DEF StartHttp, Starting, Due, Wanted
  <1>17. ASSUME NEW j \in HttpJob, StartHttpFails(j)
        PROVE  PostToEnabledTarget
    BY <1>17 DEF StartHttpFails, Starting, HttpMayStart
  <1>18. ASSUME NEW j \in HttpJob, StartHttpAsserts(j)
        PROVE  PostToEnabledTarget
    BY <1>18 DEF StartHttpAsserts, Starting, HttpMayStart
  <1>19. CASE CancelMqtt  BY <1>19 DEF CancelMqtt, Starting
  <1>20. CASE PostponeMqtt  BY <1>20 DEF PostponeMqtt, Starting
  <1>21. CASE StartMqttFails  BY <1>21 DEF StartMqttFails, Starting
  <1>22. ASSUME NEW n \in 0 .. MaxBatch, StartMqtt(n)
        PROVE  PostToEnabledTarget  BY <1>22 DEF StartMqtt, Starting
  <1>23. CASE HandleRelayingModeChanged
    BY <1>23 DEF HandleRelayingModeChanged, AbortTransfer
  <1>24. CASE Acknowledge  BY <1>24 DEF Acknowledge
  <1>25. ASSUME NEW c \in Client, Accept(c)
        PROVE  PostToEnabledTarget  BY <1>25 DEF Accept, At
  <1>26. ASSUME NEW c \in Client, Close(c)
        PROVE  PostToEnabledTarget  BY <1>26 DEF Close, At
  <1>27. ASSUME NEW c \in Client, Suspend(c)
        PROVE  PostToEnabledTarget  BY <1>27 DEF Suspend, At, Rest
  <1>28. ASSUME NEW c \in Client, SetCommand(c)
        PROVE  PostToEnabledTarget  BY <1>28 DEF SetCommand, At
  <1>29. ASSUME NEW c \in Client, Notify(c)
        PROVE  PostToEnabledTarget  BY <1>29 DEF Notify, At, Rest
  <1>30. ASSUME NEW c \in Client, WaitEnds(c)
        PROVE  PostToEnabledTarget  BY <1>30 DEF WaitEnds, At, Rest
  <1>31. ASSUME NEW c \in Client, WaitTimesOut(c)
        PROVE  PostToEnabledTarget  BY <1>31 DEF WaitTimesOut, At, Rest
  <1>32. ASSUME NEW c \in Client, Check(c)
        PROVE  PostToEnabledTarget  BY <1>32 DEF Check, At
  <1>33. ASSUME NEW c \in Client, CheckEnds(c)
        PROVE  PostToEnabledTarget  BY <1>33 DEF CheckEnds, At
  <1>34. ASSUME NEW c \in Client, Resume(c)
        PROVE  PostToEnabledTarget  BY <1>34 DEF Resume, At, Rest
  <1>35. ASSUME NEW j \in Job, TimerFires(j)
        PROVE  PostToEnabledTarget  BY <1>35 DEF TimerFires, Send
  <1>36. CASE AsyncTimerFires  BY <1>36 DEF AsyncTimerFires
  <1>37. ASSUME NEW s \in Sig, NetworkChanges(s)
        PROVE  PostToEnabledTarget  BY <1>37 DEF NetworkChanges, Send
  <1>38. CASE TimeIsSynchronized  BY <1>38 DEF TimeIsSynchronized, Send
  <1>39. ASSUME NEW b \in BOOLEAN, MqttConnects(b)
        PROVE  PostToEnabledTarget  BY <1>39 DEF MqttConnects
  <1>40. ASSUME NEW c \in Cfg, SaveCfg(c)
        PROVE  PostToEnabledTarget  BY <1>40 DEF SaveCfg
  <1>41. CASE UNCHANGED vars  BY <1>41
  <1>42. CASE PollAsserts  BY <1>42 DEF PollAsserts, Got
  <1>43. ASSUME NEW c \in Client, CheckPostsAdvs(c)
        PROVE  PostToEnabledTarget  BY <1>43 DEF CheckPostsAdvs, At
  <1> QED BY <1>1, <1>2, <1>3, <1>4, <1>5, <1>6, <1>7, <1>8, <1>9, <1>10,
      <1>11, <1>12, <1>13, <1>14, <1>15, <1>16, <1>17, <1>18, <1>19, <1>20,
      <1>21, <1>22, <1>23, <1>24, <1>25, <1>26, <1>27, <1>28, <1>29, <1>30,
      <1>31, <1>32, <1>33, <1>34, <1>35, <1>36, <1>37, <1>38, <1>39, <1>40,
      <1>41, <1>42, <1>43 DEF Next, TaskStep, EnvStep, ClientStep, Continue,
      DoAsyncComm, StartJob

(* The task as it starts satisfies the invariant.                          *)
LEMMA InitInv == Init => PostInv
  <1> SUFFICES ASSUME Init PROVE PostInv
    OBVIOUS
  <1> USE DEF Init
  <1>1. PostFlags
    BY Zenon DEF PostFlags
  <1>2. CounterExact /\ cnt_suspended \in 0 .. Cardinality(Client)
    <2>1. Suspenders = {}
      BY DEF Suspenders, Holding
    <2> QED BY <2>1, FS_EmptySet, SuspenderCount DEF CounterExact, Suspenders
  <1>3. flag_need_to_send \in [Job -> BOOLEAN]
    BY Zenon
  <1>4. TypeOK
    BY <1>1, <1>2, <1>3, SigNames, BatchAssumption DEF TypeOK, NULL
  <1>5. RequestInv
    BY ClientAssumption DEF RequestInv, HttpRequestOwned, HttpInProgress
  <1>6. TransferIsPolled /\ BatchInv /\ OffInv /\ CommandIsHandled
    BY DEF TransferIsPolled, BatchInv, MqttInProgress, OffInv, CommandIsHandled
  <1>7. DueInv /\ TimedInv
    BY DEF DueInv, Job, TimedInv, CfgComes
  <1>8. RelayingFollowsCounter
    BY DEF RelayingFollowsCounter
  <1> QED BY <1>2, <1>4, <1>5, <1>6, <1>7, <1>8 DEF PostInv

(* PostInv is inductive.                                                   *)
LEMMA PostInvariant == Spec => []PostInv
  <1>1. PostInv /\ [Next]_vars => PostInv'
    <2> SUFFICES ASSUME PostInv, [Next]_vars PROVE PostInv'
      OBVIOUS
    <2>1. TypeOK' /\ CounterExact' /\ RelayingFollowsCounter'
      BY TypesNext, CounterNext, FollowsNext DEF PostInv
    <2>2. RequestInv' /\ TransferIsPolled' /\ BatchInv'
      BY RequestNext, PolledNext, BatchNext DEF PostInv
    <2>3. DueInv' /\ TimedInv' /\ OffInv' /\ CommandIsHandled'
      BY DueNext, TimedNext, OffNext, CommandNext DEF PostInv
    <2> QED BY <2>1, <2>2, <2>3 DEF PostInv
  <1> QED BY InitInv, <1>1, PTL DEF Spec

(* Every variable of the task and of the suspend protocol keeps its type;  *)
(* in particular cnt_relaying_via_http_suspended never goes below zero or  *)
(* above the number of threads.                                            *)
THEOREM PostTypeCorrect == Spec => []TypeOK
  <1>1. PostInv => TypeOK
    BY DEF PostInv
  <1> QED BY <1>1, PostInvariant, PTL

(* adv_post takes and gives back the connection mutex and the request's    *)
(* semaphore together, holds them only while it has an HTTP transfer in    *)
(* progress, and takes a transfer that it does not hold them for to be one *)
(* of HTTP only when a check has overwritten the kind of an MQTT batch,    *)
(* for any number of threads that suspend relaying and check servers.      *)
THEOREM RequestIsOwned == Spec => []HttpRequestOwned
  <1>1. PostInv => HttpRequestOwned
    BY DEF PostInv, RequestInv
  <1> QED BY <1>1, PostInvariant, PTL

(* A transfer in progress always has DO_ASYNC_COMM or its timer pending.   *)
THEOREM TransfersArePolled == Spec => []TransferIsPolled
  <1>1. PostInv => TransferIsPolled
    BY DEF PostInv
  <1> QED BY <1>1, PostInvariant, PTL

(* adv_post_do_async_comm_in_progress_mqtt finds a batch, and publishes a  *)
(* report of it unless the batch was empty from the start.                 *)
THEOREM BatchIsValid == Spec => []MqttBatchValid
  <1>1. PostInv => MqttBatchValid
    BY BatchIsThere DEF PostInv, MqttBatchValid
  <1> QED BY <1>1, PostInvariant, PTL

(* No due post is forgotten: whatever suspensions, aborted transfers, lost *)
(* connections and configurations come in between, the periodic timer of   *)
(* its target runs or a new configuration is still to be read.             *)
THEOREM DuePostsAreTimed == Spec => []DuePostIsTimed
  <1>1. PostInv => DuePostIsTimed
    BY DEF PostInv, DueInv, TimedInv, CfgComes, DuePostIsTimed
  <1> QED BY <1>1, PostInvariant, PTL

(* The command bit is set only while somebody is about to clear it.        *)
THEOREM CommandsAreHandled == Spec => []CommandIsHandled
  <1>1. PostInv => CommandIsHandled
    BY DEF PostInv
  <1> QED BY <1>1, PostInvariant, PTL

(* For any number of threads that suspend and resume relaying in any order *)
(* the task's copy of the counter is right once all is handled.            *)
THEOREM RelayingIsRight == Spec => []RelayingFollowsCounter
  <1>1. PostInv => RelayingFollowsCounter
    BY DEF PostInv
  <1> QED BY <1>1, PostInvariant, PTL

(* No advertisements are sent to a target once its being switched off has  *)
(* been handled, whatever timers, signals and transfers were left.         *)
THEOREM NoPostAfterDisabling == Spec => NoPostToDisabledTarget
  <1>1. PostInv /\ [Next]_vars => [PostToEnabledTarget]_vars
    BY PostStepNext DEF PostInv
  <1> QED BY <1>1, PostInvariant, PTL DEF Spec, NoPostToDisabledTarget

(* One thread that suspends relaying and gets its acknowledgement in time  *)
(* has the network to itself: no HTTP transfer is in progress or starts    *)
(* before it resumes, no two threads use the one asynchronous request, and *)
(* no batch is taken for an HTTP transfer.  With two such threads, or a    *)
(* wait that times out, none of it holds.                                  *)
THEOREM OneSuspenderIsSafe ==
    ASSUME OneSuspender
    PROVE  Spec => [](SuspendedMeansQuiet /\ OneHttpRequestAtATime /\ PolledByOwner)
  <1>1. Init => OneSuspenderInv
    BY DEF Init, OneSuspenderInv, Command, OneHttpRequestAtATime, PolledByOwner,
           HttpInProgress
  <1>2. PostInv /\ OneSuspenderInv
          => SuspendedMeansQuiet /\ OneHttpRequestAtATime /\ PolledByOwner
    <2> SUFFICES ASSUME PostInv, OneSuspenderInv
                 PROVE  SuspendedMeansQuiet /\ OneHttpRequestAtATime /\ PolledByOwner
      OBVIOUS
    <2>1. OneHttpRequestAtATime /\ PolledByOwner
      BY DEF OneSuspender, OneSuspenderInv
    <2>2. SuspendedMeansQuiet
      BY DEF PostInv, OffInv, OneSuspenderInv, Command, SuspendedMeansQuiet,
         HttpInProgress
    <2> QED BY <2>1, <2>2
  <1>3. PostInv /\ OneSuspenderInv /\ [Next]_vars => OneSuspenderInv'
    BY OneSuspenderNext
  <1> QED BY <1>1, <1>2, <1>3, PostInvariant, PTL DEF Spec
=============================================================================
