--------------------------- MODULE MqttRelayProofs --------------------------
(***************************************************************************)
(* Proofs about MqttRelay: RelayInv is an inductive invariant of Spec, for *)
(* any brokers, configurations, HTTP server threads, sensors and events.   *)
(***************************************************************************)
EXTENDS MqttRelay, FiniteSetTheorems, TLAPS

(* Facts about the lists of steps.                                         *)
LEMMA Concat ==
    ASSUME NEW q \in Seq(Step), q # <<>>, NEW m \in Seq(Step)
    PROVE  /\ m \o Tail(q) \in Seq(Step)
           /\ Len(m \o Tail(q)) = Len(m) + Len(q) - 1
           /\ \A i \in 1 .. Len(m) : (m \o Tail(q))[i] = m[i]
           /\ \A i \in Len(m) + 1 .. Len(m) + Len(q) - 1 :
                (m \o Tail(q))[i] = q[i - Len(m) + 1]
  <1>1. Tail(q) \in Seq(Step) /\ Len(Tail(q)) = Len(q) - 1
    OBVIOUS
  <1>2. \A i \in 1 .. Len(q) - 1 : Tail(q)[i] = q[i + 1]
    OBVIOUS
  <1>3. m \o Tail(q) \in Seq(Step) /\ Len(m \o Tail(q)) = Len(m) + Len(q) - 1
    BY <1>1
  <1>4. \A i \in 1 .. Len(m) : (m \o Tail(q))[i] = m[i]
    BY <1>1
  <1>5. ASSUME NEW i \in Len(m) + 1 .. Len(m) + Len(q) - 1
        PROVE  (m \o Tail(q))[i] = q[i - Len(m) + 1]
    <2>1. (m \o Tail(q))[i] = Tail(q)[i - Len(m)]
      BY <1>1
    <2>2. i - Len(m) \in 1 .. Len(q) - 1
      OBVIOUS
    <2> QED BY <2>1, <2>2, <1>2
  <1> QED BY <1>3, <1>4, <1>5

(* The steps of a list are its first one and the others.                   *)
LEMMA ConcatElems ==
    ASSUME NEW q \in Seq(Step), q # <<>>, NEW m \in Seq(Step)
    PROVE  /\ Elems(q) = {Head(q)} \cup Elems(Tail(q))
           /\ Elems(m \o Tail(q)) = Elems(m) \cup Elems(Tail(q))
  <1>1. Len(q) \in Nat /\ Len(q) >= 1 /\ Len(m) \in Nat
    OBVIOUS
  <1>2. Tail(q) \in Seq(Step) /\ Len(Tail(q)) = Len(q) - 1
    OBVIOUS
  <1>3. \A i \in 1 .. Len(q) - 1 : Tail(q)[i] = q[i + 1]
    OBVIOUS
  <1>4. Elems(Tail(q)) = {q[i] : i \in 2 .. Len(q)}
    <2>1. ASSUME NEW i \in 2 .. Len(q)
          PROVE  q[i] \in Elems(Tail(q))
      <3>1. i - 1 \in 1 .. Len(q) - 1 /\ q[i] = Tail(q)[i - 1]
        BY <1>1, <1>3
      <3>2. i - 1 \in DOMAIN Tail(q)
        BY <1>2, <3>1
      <3> QED BY <3>1, <3>2, Zenon DEF Elems
    <2>2. ASSUME NEW i \in DOMAIN Tail(q)
          PROVE  \E j \in 2 .. Len(q) : Tail(q)[i] = q[j]
      <3>1. i \in 1 .. Len(q) - 1 /\ i + 1 \in 2 .. Len(q)
        BY <1>1, <1>2
      <3> QED BY <3>1, <1>3
    <2> QED BY <2>1, <2>2 DEF Elems
  <1>5. Elems(q) = {Head(q)} \cup Elems(Tail(q))
    <2>1. Head(q) = q[1] /\ DOMAIN q = 1 .. Len(q)
      OBVIOUS
    <2>2. 1 .. Len(q) = {1} \cup 2 .. Len(q)
      BY <1>1
    <2> QED BY <2>1, <2>2, <1>4 DEF Elems
  <1>6. DOMAIN (m \o Tail(q)) = 1 .. Len(m) + Len(q) - 1
    BY Concat
  <1>7. ASSUME NEW i \in DOMAIN (m \o Tail(q))
        PROVE  (m \o Tail(q))[i] \in Elems(m) \cup Elems(Tail(q))
    <2>1. CASE i \in 1 .. Len(m)
      BY <2>1, Concat DEF Elems
    <2>2. CASE i \in Len(m) + 1 .. Len(m) + Len(q) - 1
      <3>1. i - Len(m) + 1 \in 2 .. Len(q)
        BY <2>2, <1>1
      <3> QED BY <3>1, <2>2, <1>4, Concat
    <2> QED BY <2>1, <2>2, <1>6, <1>1
  <1>8. ASSUME NEW x \in Elems(m)
        PROVE  x \in Elems(m \o Tail(q))
    <2>1. PICK i \in 1 .. Len(m) : x = m[i]
      BY DEF Elems
    <2>2. i \in DOMAIN (m \o Tail(q)) /\ x = (m \o Tail(q))[i]
      BY <2>1, <1>1, <1>6, Concat
    <2> QED BY <2>2, Zenon DEF Elems
  <1>9. ASSUME NEW x \in Elems(Tail(q))
        PROVE  x \in Elems(m \o Tail(q))
    <2>1. PICK i \in 2 .. Len(q) : x = q[i]
      BY <1>4
    <2>2. i + Len(m) - 1 \in Len(m) + 1 .. Len(m) + Len(q) - 1
      BY <1>1
    <2>3. (m \o Tail(q))[i + Len(m) - 1] = q[i]
      BY <2>2, <1>1, Concat
    <2>4. i + Len(m) - 1 \in DOMAIN (m \o Tail(q))
      BY <2>2, <1>1, <1>6
    <2> QED BY <2>1, <2>3, <2>4, Zenon DEF Elems
  <1>10. Elems(m \o Tail(q)) = Elems(m) \cup Elems(Tail(q))
    BY <1>7, <1>8, <1>9 DEF Elems
  <1> QED BY <1>5, <1>10

(* Taking a step and inserting others keeps the order of a list.           *)
LEMMA ThenOrdered ==
    ASSUME NEW q \in Seq(Step), q # <<>>, Ordered(q),
           NEW m \in Seq(Step), Ordered(m),
           Elems(m) \cap {"resume", "resume_http"} = {}
    PROVE  Ordered(m \o Tail(q))
  <1> DEFINE r == m \o Tail(q)
  <1>1. Len(q) \in Nat /\ Len(q) >= 1 /\ Len(m) \in Nat
    OBVIOUS
  <1> SUFFICES ASSUME NEW i \in 1 .. Len(r)
               PROVE  /\ r[i] \in {"clear", "set_started", "suspend", "suspend_http", "command"}
                           => i = 1
                      /\ r[i] \in {"resume", "resume_http"} => i = Len(r)
    BY DEF Ordered
  <1>2. CASE i \in 1 .. Len(m)
    <2>1. r[i] = m[i] /\ i \in DOMAIN m
      BY <1>2, Concat
    <2>2. m[i] \in Elems(m)
      BY <2>1, Zenon DEF Elems
    <2>3. m[i] \in {"clear", "set_started", "suspend", "suspend_http", "command"} => i = 1
      BY <1>2 DEF Ordered
    <2> HIDE DEF r
    <2> QED BY <2>1, <2>2, <2>3
  <1>3. CASE i \in Len(m) + 1 .. Len(m) + Len(q) - 1
    <2>1. r[i] = q[i - Len(m) + 1] /\ i - Len(m) + 1 \in 2 .. Len(q)
      BY <1>1, <1>3, Concat
    <2> HIDE DEF r
    <2> DEFINE k == i - Len(m) + 1
    <2>5. k \in 1 .. Len(q) /\ k # 1 /\ r[i] = q[k]
      BY <1>1, <2>1
    <2> HIDE DEF k
    <2>2. r[i] \notin {"clear", "set_started", "suspend", "suspend_http", "command"}
      BY <2>5 DEF Ordered
    <2>3. r[i] \in {"resume", "resume_http"} => k = Len(q)
      BY <2>5 DEF Ordered
    <2>4. Len(r) = Len(m) + Len(q) - 1
      BY Concat DEF r
    <2> QED BY <1>1, <2>2, <2>3, <2>4 DEF k
  <1> QED BY <1>1, <1>2, <1>3, Concat

(* What a step inserts: nothing, the second half of mqtt_app_start or      *)
(* mqtt_app_stop, or the announcement of a change of the counter.          *)
Inserted ==
    {<<>>, <<"clear">>, <<"set_started">>, <<"start">>, <<"notify">>,
     <<"send_restart">>, Announce}

(* Nothing of that suspends or resumes relaying.                           *)
LEMMA InsertedSteps ==
    ASSUME NEW m \in Inserted
    PROVE  /\ m \in Seq(Step)
           /\ Ordered(m)
           /\ Elems(m) \cap {"suspend", "resume", "suspend_http", "resume_http"} = {}
  <1>1. CASE m = <<>>
    BY <1>1 DEF Ordered, Elems
  <1>2. CASE m = Announce
    BY <1>2 DEF Announce, Step, Ordered, Elems
  <1>3. ASSUME NEW x \in Step \ {"suspend", "resume", "suspend_http", "resume_http"}, m = <<x>>
        PROVE  /\ m \in Seq(Step)
               /\ Ordered(m)
               /\ Elems(m) \cap {"suspend", "resume", "suspend_http", "resume_http"} = {}
    BY <1>3 DEF Ordered, Elems
  <1> QED BY <1>1, <1>2, <1>3 DEF Inserted, Step

(* A step of thread th and what is left to do afterwards.                  *)
LEMMA ThenStep ==
    ASSUME RelayValues, NEW th \in Thread, ~Idle(th),
           NEW m \in Inserted, Then(th, m)
    PROVE  /\ todo' \in [Thread -> Seq(Step)]
           /\ Ordered(todo[th]) => Ordered(todo'[th])
           /\ \A x \in Thread \ {th} : todo'[x] = todo[x]
           /\ Elems(todo[th]) = {Head(todo[th])} \cup Elems(Tail(todo[th]))
           /\ Elems(todo'[th]) = Elems(m) \cup Elems(Tail(todo[th]))
           /\ m = <<>> => todo'[th] = Tail(todo[th])
           /\ m # <<>> => todo'[th] # <<>> /\ Head(todo'[th]) = Head(m)
  <1> DEFINE q == todo[th]
  <1>1. q \in Seq(Step) /\ q # <<>>
    BY DEF RelayValues, Idle
  <1>2. todo' = [todo EXCEPT ![th] = m \o Tail(q)]
    BY DEF Then
  <1> HIDE DEF q
  <1>3. m \in Seq(Step) /\ Ordered(m) /\ Elems(m) \cap {"resume", "resume_http"} = {}
    BY InsertedSteps
  <1>4. m \o Tail(q) \in Seq(Step)
    BY <1>1, <1>3, Concat
  <1>5. /\ todo'[th] = m \o Tail(q)
        /\ todo' \in [Thread -> Seq(Step)]
        /\ \A x \in Thread \ {th} : todo'[x] = todo[x]
    BY <1>2, <1>4 DEF RelayValues
  <1>6. Ordered(q) => Ordered(m \o Tail(q))
    BY <1>1, <1>3, ThenOrdered
  <1>7. /\ Elems(q) = {Head(q)} \cup Elems(Tail(q))
        /\ Elems(m \o Tail(q)) = Elems(m) \cup Elems(Tail(q))
    BY <1>1, <1>3, ConcatElems
  <1>8. m = <<>> => m \o Tail(q) = Tail(q)
    BY <1>1
  <1>9. ASSUME m # <<>>
        PROVE  m \o Tail(q) # <<>> /\ Head(m \o Tail(q)) = Head(m)
    <2>1. Len(m) \in Nat /\ Len(m) >= 1 /\ Len(q) \in Nat /\ Len(q) >= 1
      BY <1>1, <1>3, <1>9
    <2>2. Len(m \o Tail(q)) >= 1 /\ (m \o Tail(q))[1] = m[1]
      BY <1>1, <1>3, <2>1, Concat
    <2> QED BY <1>3, <1>4, <2>2
  <1> QED BY <1>5, <1>6, <1>7, <1>8, <1>9 DEF q

(* A handler of an idle thread begins with a list of its own.              *)
LEMMA BeginStep ==
    ASSUME RelayValues, NEW th \in Thread, NEW q \in Seq(Step), Begin(th, q)
    PROVE  /\ todo' \in [Thread -> Seq(Step)]
           /\ todo'[th] = q
           /\ \A x \in Thread \ {th} : todo'[x] = todo[x]
  BY DEF RelayValues, Begin

(* What a handler begins with, a list each.                                *)
Begun ==
    {<<>>, <<"suspend">>, <<"resume">>, <<"stop", "restart">>, <<"ack">>,
     <<"start", "ack">>, <<"stop", "ack">>, <<"start_timer">>,
     <<"suspend_http", "apply", "resume_http">>,
     <<"suspend", "start", "await", "stop", "resume">>}

(* All of them are in order.                                               *)
LEMMA BegunSteps ==
    ASSUME NEW q \in Begun
    PROVE  q \in Seq(Step) /\ Ordered(q)
  <1>1. CASE q = <<>>
    BY <1>1 DEF Ordered
  <1>2. ASSUME NEW x \in Step, q = <<x>>
        PROVE  q \in Seq(Step) /\ Ordered(q)
    BY <1>2 DEF Ordered
  <1>3. ASSUME NEW x \in {"stop", "start"}, NEW y \in {"restart", "ack"},
               q = <<x, y>>
        PROVE  q \in Seq(Step) /\ Ordered(q)
    BY <1>3 DEF Ordered, Step
  <1>4. CASE q = <<"suspend_http", "apply", "resume_http">>
    BY <1>4 DEF Ordered, Step
  <1>5. CASE q = <<"suspend", "start", "await", "stop", "resume">>
    BY <1>5 DEF Ordered, Step
  <1> QED BY <1>1, <1>2, <1>3, <1>4, <1>5 DEF Begun, Step

(* Threads that are and are not in the middle of mqtt.c.                   *)
LEMMA DoingNext ==
    ASSUME RelayValues, StepOrder, NEW th \in Thread, ~Idle(th),
           NEW m \in Inserted, Then(th, m)
    PROVE  /\ \A x \in Thread \ {th} : \A st \in Step : Doing(x, st)' <=> Doing(x, st)
           /\ Doing(th, "clear")' <=> m = <<"clear">>
           /\ Doing(th, "set_started")' <=> m = <<"set_started">>
  <1>1. /\ todo' \in [Thread -> Seq(Step)]
        /\ \A x \in Thread \ {th} : todo'[x] = todo[x]
    BY ThenStep
  <1>2. \A x \in Thread \ {th} : \A st \in Step : Doing(x, st)' <=> Doing(x, st)
    BY <1>1 DEF Doing, Idle
  <1>3. CASE m = <<>>
    <2>1. todo'[th] = Tail(todo[th]) /\ todo[th] \in Seq(Step) /\ todo[th] # <<>>
      BY <1>3, ThenStep DEF RelayValues, Idle
    <2>2. ASSUME todo'[th] # <<>>
          PROVE  Head(todo'[th]) \notin {"clear", "set_started"}
      <3>1. Len(todo[th]) >= 2 /\ Head(todo'[th]) = todo[th][2]
        BY <2>1, <2>2
      <3> QED BY <2>1, <3>1 DEF StepOrder, Ordered
    <2> QED BY <1>2, <1>3, <2>2 DEF Doing, Idle
  <1>4. CASE m # <<>>
    <2>1. todo'[th] # <<>> /\ Head(todo'[th]) = Head(m)
      BY <1>4, ThenStep
    <2>2. /\ Head(m) = "clear" <=> m = <<"clear">>
          /\ Head(m) = "set_started" <=> m = <<"set_started">>
      BY <1>4 DEF Inserted, Announce
    <2> QED BY <1>2, <2>1, <2>2 DEF Doing, Idle
  <1> QED BY <1>3, <1>4

(* The main task and the HTTP server are the threads.                      *)
LEMMA MainIsThread == "main" \in Thread /\ Server \subseteq Thread
  BY DEF Thread

(* What a step of the system does to the threads.                          *)
TodoStep ==
    \/ UNCHANGED todo
    \/ \E x \in Thread, m \in Inserted : ~Idle(x) /\ Then(x, m)
    \/ \E x \in Thread, q \in Begun : Idle(x) /\ Begin(x, q)

(* A thread takes its next step, begins a handler, or does nothing.        *)
LEMMA TodoNext ==
  RelayValues /\ [Next]_vars
    => TodoStep
  <1> SUFFICES ASSUME RelayValues,
                      [Next]_vars
               PROVE  TodoStep
    OBVIOUS
  <1> USE DEF TodoStep, vars, main, threads, config, status, mqtt, adv
  <1>1. ASSUME NEW th \in Thread, Stop(th)
        PROVE  TodoStep
    BY <1>1, MainIsThread DEF Stop, Doing, Inserted
  <1>2. ASSUME NEW th \in Thread, ClearBits(th)
        PROVE  TodoStep
    BY <1>2, MainIsThread DEF ClearBits, Doing, Inserted
  <1>3. ASSUME NEW th \in Thread, StartAlreadyRunning(th)
        PROVE  TodoStep
    BY <1>3, MainIsThread DEF StartAlreadyRunning, Doing, Inserted
  <1>4. ASSUME NEW th \in Thread, StartClient(th)
        PROVE  TodoStep
    BY <1>4, MainIsThread DEF StartClient, Doing, Inserted
  <1>5. ASSUME NEW th \in Thread, SetStarted(th)
        PROVE  TodoStep
    BY <1>5, MainIsThread DEF SetStarted, Doing, Inserted
  <1>6. ASSUME NEW th \in Thread, StartFails(th)
        PROVE  TodoStep
    BY <1>6, MainIsThread DEF StartFails, Doing, Inserted
  <1>7. ASSUME NEW th \in Thread, Suspend(th)
        PROVE  TodoStep
    BY <1>7, MainIsThread DEF Suspend, Doing, Inserted
  <1>8. ASSUME NEW th \in Thread, Resume(th)
        PROVE  TodoStep
    BY <1>8, MainIsThread DEF Resume, Doing, Inserted
  <1>9. ASSUME NEW th \in Thread, SetCommand(th)
        PROVE  TodoStep
    BY <1>9, MainIsThread DEF SetCommand, Doing, Inserted
  <1>10. ASSUME NEW th \in Thread, Notify(th)
        PROVE  TodoStep
    BY <1>10, MainIsThread DEF Notify, Doing, Inserted
  <1>11. ASSUME NEW th \in Thread, WaitEnds(th)
        PROVE  TodoStep
    BY <1>11, MainIsThread DEF WaitEnds, Doing, Inserted
  <1>12. CASE ActivateCfgMode
    BY <1>12, MainIsThread DEF ActivateCfgMode, Got, Begun
  <1>13. CASE DeactivateCfgMode
    BY <1>13, MainIsThread DEF DeactivateCfgMode, Got, Begun
  <1>14. CASE RestartServices
    BY <1>14, MainIsThread DEF RestartServices, Got, Begun
  <1>15. CASE RestartMqtt
    BY <1>15, MainIsThread DEF RestartMqtt, Doing, Inserted
  <1>16. CASE RelayingModeChanged
    BY <1>16, MainIsThread DEF RelayingModeChanged, Got, Begun
  <1>17. CASE Acknowledge
    BY <1>17, MainIsThread DEF Acknowledge, Doing, Inserted
  <1>18. ASSUME NEW s \in Server, StartTimer(s)
        PROVE  TodoStep
    BY <1>18, MainIsThread DEF StartTimer, Doing, Inserted
  <1>19. ASSUME NEW s \in Server, SuspendHttp(s)
        PROVE  TodoStep
    BY <1>19, MainIsThread DEF SuspendHttp, Doing, Inserted
  <1>20. ASSUME NEW s \in Server, KeepCfg(s)
        PROVE  TodoStep
    BY <1>20, MainIsThread DEF KeepCfg, Doing, Inserted
  <1>21. ASSUME NEW s \in Server, SendRestart(s)
        PROVE  TodoStep
    BY <1>21, MainIsThread DEF SendRestart, Doing, Inserted
  <1>22. ASSUME NEW s \in Server, ResumeHttp(s)
        PROVE  TodoStep
    BY <1>22, MainIsThread DEF ResumeHttp, Doing, Inserted
  <1>23. ASSUME NEW s \in Server, CheckConcludes(s)
        PROVE  TodoStep
    BY <1>23, MainIsThread DEF CheckConcludes, Doing, Inserted
  <1>24. ASSUME NEW s \in Server, GetRuuviJson(s)
        PROVE  TodoStep
    BY <1>24, MainIsThread DEF GetRuuviJson, Begun
  <1>25. ASSUME NEW s \in Server, DownloadRemoteCfg(s)
        PROVE  TodoStep
    BY <1>25, MainIsThread DEF DownloadRemoteCfg, Begun
  <1>26. ASSUME NEW s \in Server, CheckMqtt(s)
        PROVE  TodoStep
    BY <1>26, MainIsThread DEF CheckMqtt, Begun
  <1>27. ASSUME NEW s \in Server, NEW c \in Cfg, ApplyRemoteCfg(s, c)
        PROVE  TodoStep
    BY <1>27, MainIsThread DEF ApplyRemoteCfg, Install, Doing, Inserted
  <1>28. ASSUME NEW s \in Server, NEW c \in Cfg, PostRuuviJson(s, c)
        PROVE  TodoStep
    BY <1>28, MainIsThread DEF PostRuuviJson, Install, Begun
  <1>29. CASE \/ \E x \in Sensor : RecvAdv(x)
              \/ TakeSignals \/ SetDefaultConfig \/ AdvTakeSignals
              \/ HandleRecvAdv \/ PublishAdv \/ HandleMqttConnected
              \/ HandleGwCfg \/ CfgModeTimerFires \/ EthernetConnected
              \/ OnConnected \/ OnDisconnected \/ UNCHANGED vars
    <2>1. UNCHANGED todo
      BY <1>29 DEF TakeSignals, SetDefaultConfig, Got, AdvTakeSignals,
         HandleRecvAdv, AdvGot, PublishAdv, HandleMqttConnected,
         HandleGwCfg, CfgModeTimerFires, EthernetConnected, OnConnected,
         OnDisconnected, RecvAdv
    <2> QED BY <2>1
  <1> QED BY <1>1, <1>2, <1>3, <1>4, <1>5, <1>6, <1>7, <1>8, <1>9, <1>10,
      <1>11, <1>12, <1>13, <1>14, <1>15, <1>16, <1>17, <1>18, <1>19, <1>20,
      <1>21, <1>22, <1>23, <1>24, <1>25, <1>26, <1>27, <1>28, <1>29,
      MainIsThread, Zenon DEF Next, MainStep, ThreadStep, ServerContinues,
      ServerBegins, AdvStep, EnvStep

(* The lists of steps stay lists of steps, in order.                       *)
LEMMA OrderNext ==
  RelayValues /\ StepOrder /\ [Next]_vars
    => todo' \in [Thread -> Seq(Step)] /\ StepOrder'
  <1> SUFFICES ASSUME RelayValues, StepOrder, [Next]_vars
               PROVE  todo' \in [Thread -> Seq(Step)] /\ StepOrder'
    OBVIOUS
  <1>1. CASE UNCHANGED todo
    BY <1>1 DEF RelayValues, StepOrder
  <1>2. ASSUME NEW x \in Thread, NEW m \in Inserted, ~Idle(x), Then(x, m)
        PROVE  todo' \in [Thread -> Seq(Step)] /\ StepOrder'
    BY <1>2, ThenStep DEF StepOrder
  <1>3. ASSUME NEW x \in Thread, NEW q \in Begun, Begin(x, q)
        PROVE  todo' \in [Thread -> Seq(Step)] /\ StepOrder'
    BY <1>3, BegunSteps, BeginStep DEF StepOrder
  <1> QED BY <1>1, <1>2, <1>3, TodoNext DEF TodoStep

(* The names of the signals.                                               *)
LEMMA SigNames ==
    /\ {"ACTIVATE_CFG_MODE", "DEACTIVATE_CFG_MODE", "RESTART_SERVICES",
        "SET_DEFAULT_CONFIG", "RELAYING_MODE_CHANGED"} = DOMAIN MainSig
    /\ {"RECV_ADV", "MQTT_CONNECTED", "GW_CFG"} = DOMAIN AdvSig
  BY DEF MainSig, AdvSig

(* The configurations are records with a usable or an empty server.        *)
LEMMA CfgFields ==
    ASSUME NEW c \in Cfg \cup {DefaultCfg}
    PROVE  /\ c.mqtt \in BOOLEAN /\ c.instant \in BOOLEAN
           /\ c.broker \in Broker \cup {Invalid}
  <1>1. CASE c \in Cfg
    BY <1>1, CfgAssumption, BrokerAssumption DEF CfgRecord
  <1>2. CASE c = DefaultCfg
    BY <1>2, BrokerAssumption DEF DefaultCfg
  <1> QED BY <1>1, <1>2

(* The flags stay Boolean.                                                 *)
LEMMA FlagsNext ==
  RelayFlags /\ [Next]_vars
    => RelayFlags'
  <1> SUFFICES ASSUME RelayFlags,
                      [Next]_vars
               PROVE  RelayFlags'
    OBVIOUS
  <1> USE DEF vars, main, threads, config, status, mqtt, adv
  <1>1. ASSUME NEW th \in Thread, ClearBits(th)
        PROVE  RelayFlags'
    BY <1>1, Zenon DEF ClearBits, RelayFlags
  <1>2. ASSUME NEW th \in Thread, StartClient(th)
        PROVE  RelayFlags'
    BY <1>2, Zenon DEF StartClient, RelayFlags
  <1>3. ASSUME NEW th \in Thread, SetStarted(th)
        PROVE  RelayFlags'
    BY <1>3, Zenon DEF SetStarted, RelayFlags
  <1>4. ASSUME NEW th \in Thread, StartFails(th)
        PROVE  RelayFlags'
    BY <1>4, Zenon DEF StartFails, RelayFlags
  <1>5. ASSUME NEW th \in Thread, SetCommand(th)
        PROVE  RelayFlags'
    BY <1>5, Zenon DEF SetCommand, RelayFlags
  <1>6. CASE ActivateCfgMode
    BY <1>6, Zenon DEF ActivateCfgMode, Got, RelayFlags
  <1>7. CASE DeactivateCfgMode
    BY <1>7, Zenon DEF DeactivateCfgMode, RelayFlags
  <1>8. CASE SetDefaultConfig
    BY <1>8, Zenon DEF SetDefaultConfig, Got, RelayFlags
  <1>9. CASE Acknowledge
    BY <1>9, Zenon DEF Acknowledge, RelayFlags
  <1>10. ASSUME NEW s \in Server, StartTimer(s)
        PROVE  RelayFlags'
    BY <1>10, Zenon DEF StartTimer, RelayFlags
  <1>11. ASSUME NEW s \in Server, NEW c \in Cfg, ApplyRemoteCfg(s, c)
        PROVE  RelayFlags'
    BY <1>11, Zenon DEF ApplyRemoteCfg, Install, RelayFlags
  <1>12. ASSUME NEW s \in Server, NEW c \in Cfg, PostRuuviJson(s, c)
        PROVE  RelayFlags'
    BY <1>12, Zenon DEF PostRuuviJson, Install, RelayFlags
  <1>13. CASE HandleGwCfg
    <2>1. instant_mode' \in BOOLEAN
      BY <1>13, CfgFields, Zenon DEF HandleGwCfg
    <2> QED BY <1>13, <2>1, Zenon DEF HandleGwCfg, AdvGot, RelayFlags
  <1>14. CASE CfgModeTimerFires
    BY <1>14, Zenon DEF CfgModeTimerFires, RelayFlags
  <1>15. CASE OnConnected
    BY <1>15, Zenon DEF OnConnected, RelayFlags
  <1>16. CASE OnDisconnected
    BY <1>16, Zenon DEF OnDisconnected, RelayFlags
  <1>17. CASE \/ \E th \in Thread : \/ Stop(th) \/ StartAlreadyRunning(th)
                                    \/ Suspend(th) \/ Resume(th)
                                    \/ Notify(th) \/ WaitEnds(th)
              \/ \E s \in Server : \/ SuspendHttp(s) \/ KeepCfg(s)
                                   \/ SendRestart(s) \/ ResumeHttp(s)
                                   \/ CheckConcludes(s) \/ GetRuuviJson(s)
                                   \/ DownloadRemoteCfg(s) \/ CheckMqtt(s)
              \/ \E x \in Sensor : RecvAdv(x)
              \/ TakeSignals \/ RestartServices \/ RestartMqtt
              \/ RelayingModeChanged \/ AdvTakeSignals \/ HandleRecvAdv
              \/ PublishAdv \/ HandleMqttConnected \/ EthernetConnected
              \/ UNCHANGED vars
    <2>1. UNCHANGED <<is_empty, cfg_mode, cfg_mode_timer, relaying_cmd,
                      started, connected, instant_mode>>
      BY <1>17 DEF Stop, StartAlreadyRunning, Suspend, Resume, Notify,
         WaitEnds, TakeSignals, RestartServices, Got, RestartMqtt,
         RelayingModeChanged, SuspendHttp, KeepCfg, SendRestart,
         ResumeHttp, CheckConcludes, GetRuuviJson, DownloadRemoteCfg,
         CheckMqtt, AdvTakeSignals, HandleRecvAdv, AdvGot, PublishAdv,
         HandleMqttConnected, EthernetConnected, RecvAdv
    <2> QED BY <2>1, Zenon DEF RelayFlags
  <1> QED BY <1>1, <1>2, <1>3, <1>4, <1>5, <1>6, <1>7, <1>8, <1>9, <1>10,
      <1>11, <1>12, <1>13, <1>14, <1>15, <1>16, <1>17, MainIsThread, Zenon
      DEF Next, MainStep, ThreadStep, ServerContinues, ServerBegins, AdvStep,
      EnvStep

(* Taking a report leaves a list of reports.                               *)
LEMMA ListTail == list3 \in Seq(Sensor) /\ list3 # <<>> => Tail(list3) \in Seq(Sensor)
  OBVIOUS

(* The other variables keep their types.                                   *)
LEMMA ValuesNext ==
  RelayValues /\ StepOrder /\ [Next]_vars
    => RelayValues'
  <1> SUFFICES ASSUME RelayValues /\ StepOrder,
                      [Next]_vars
               PROVE  RelayValues'
    OBVIOUS
  <1> USE DEF RelayValues, vars, main, threads, config, status, mqtt, adv
  <1>0. todo' \in [Thread -> Seq(Step)]
    BY OrderNext
  <1>1. ASSUME NEW th \in Thread, Stop(th)
        PROVE  RelayValues'
    BY <1>1, <1>0, SigNames, CfgFields, BrokerAssumption DEF Stop
  <1>2. ASSUME NEW th \in Thread, ClearBits(th)
        PROVE  RelayValues'
    BY <1>2, <1>0, SigNames, CfgFields, BrokerAssumption DEF ClearBits
  <1>3. ASSUME NEW th \in Thread, StartClient(th)
        PROVE  RelayValues'
    BY <1>3, <1>0, SigNames, CfgFields, BrokerAssumption DEF StartClient, Wanted
  <1>4. ASSUME NEW th \in Thread, SetStarted(th)
        PROVE  RelayValues'
    BY <1>4, <1>0, SigNames, CfgFields, BrokerAssumption DEF SetStarted
  <1>5. ASSUME NEW th \in Thread, Notify(th)
        PROVE  RelayValues'
    BY <1>5, <1>0, SigNames, CfgFields, BrokerAssumption DEF Notify
  <1>6. CASE TakeSignals
    BY <1>6, <1>0, SigNames, CfgFields, BrokerAssumption DEF TakeSignals
  <1>7. CASE ActivateCfgMode
    BY <1>7, <1>0, SigNames, CfgFields, BrokerAssumption DEF
       ActivateCfgMode, Got
  <1>8. CASE DeactivateCfgMode
    BY <1>8, <1>0, SigNames, CfgFields, BrokerAssumption DEF
       DeactivateCfgMode, Got
  <1>9. CASE RestartServices
    BY <1>9, <1>0, SigNames, CfgFields, BrokerAssumption DEF
       RestartServices, Got
  <1>10. CASE RestartMqtt
    BY <1>10, <1>0, SigNames, CfgFields, BrokerAssumption DEF RestartMqtt
  <1>11. CASE SetDefaultConfig
    BY <1>11, <1>0, SigNames, CfgFields, BrokerAssumption DEF
       SetDefaultConfig, Got
  <1>12. CASE RelayingModeChanged
    BY <1>12, <1>0, SigNames, CfgFields, BrokerAssumption DEF
       RelayingModeChanged, Got
  <1>13. ASSUME NEW s \in Server, SendRestart(s)
        PROVE  RelayValues'
    BY <1>13, <1>0, SigNames, CfgFields, BrokerAssumption DEF SendRestart
  <1>14. ASSUME NEW s \in Server, GetRuuviJson(s)
        PROVE  RelayValues'
    BY <1>14, <1>0, SigNames, CfgFields, BrokerAssumption DEF GetRuuviJson
  <1>15. ASSUME NEW s \in Server, NEW c \in Cfg, ApplyRemoteCfg(s, c)
        PROVE  RelayValues'
    BY <1>15, <1>0, SigNames, CfgFields, BrokerAssumption DEF
       ApplyRemoteCfg, Install
  <1>16. ASSUME NEW s \in Server, NEW c \in Cfg, PostRuuviJson(s, c)
        PROVE  RelayValues'
    BY <1>16, <1>0, SigNames, CfgFields, BrokerAssumption DEF
       PostRuuviJson, Install
  <1>17. CASE AdvTakeSignals
    BY <1>17, <1>0, SigNames, CfgFields, BrokerAssumption DEF AdvTakeSignals
  <1>18. CASE HandleRecvAdv
    BY <1>18, <1>0, ListTail DEF HandleRecvAdv, AdvGot
  <1>19. CASE PublishAdv
    BY <1>19, <1>0, SigNames, CfgFields, BrokerAssumption DEF PublishAdv
  <1>20. CASE HandleMqttConnected
    BY <1>20, <1>0, SigNames, CfgFields, BrokerAssumption DEF
       HandleMqttConnected, AdvGot
  <1>21. CASE HandleGwCfg
    BY <1>21, <1>0, SigNames, CfgFields, BrokerAssumption DEF HandleGwCfg,
       AdvGot
  <1>22. CASE CfgModeTimerFires
    BY <1>22, <1>0, SigNames, CfgFields, BrokerAssumption DEF CfgModeTimerFires
  <1>23. CASE EthernetConnected
    BY <1>23, <1>0, SigNames, CfgFields, BrokerAssumption DEF EthernetConnected
  <1>24. CASE OnConnected
    BY <1>24, <1>0, SigNames, CfgFields, BrokerAssumption DEF OnConnected
  <1>25. ASSUME NEW x \in Sensor, RecvAdv(x)
        PROVE  RelayValues'
    BY <1>25, <1>0, SigNames, CfgFields, BrokerAssumption DEF RecvAdv
  <1>26. CASE \/ \E th \in Thread : \/ StartAlreadyRunning(th)
                                    \/ StartFails(th) \/ Suspend(th)
                                    \/ Resume(th) \/ SetCommand(th)
                                    \/ WaitEnds(th)
              \/ \E s \in Server : \/ StartTimer(s) \/ SuspendHttp(s)
                                   \/ KeepCfg(s) \/ ResumeHttp(s)
                                   \/ CheckConcludes(s)
                                   \/ DownloadRemoteCfg(s) \/ CheckMqtt(s)
              \/ Acknowledge \/ OnDisconnected \/ UNCHANGED vars
    BY <1>26, <1>0 DEF StartAlreadyRunning, StartFails, Suspend, Resume,
       SetCommand, WaitEnds, Acknowledge, StartTimer, SuspendHttp, KeepCfg,
       ResumeHttp, CheckConcludes, DownloadRemoteCfg, CheckMqtt,
       OnDisconnected
  <1> QED BY <1>1, <1>2, <1>3, <1>4, <1>5, <1>6, <1>7, <1>8, <1>9, <1>10,
      <1>11, <1>12, <1>13, <1>14, <1>15, <1>16, <1>17, <1>18, <1>19, <1>20,
      <1>21, <1>22, <1>23, <1>24, <1>25, <1>26, MainIsThread, Zenon DEF Next,
      MainStep, ThreadStep, ServerContinues, ServerBegins, AdvStep, EnvStep

(* Steps that do not enter or leave mqtt.c.                                *)
LEMMA OutsideMqtt ==
    ASSUME RelayValues, StepOrder, MutexInv, UNCHANGED mqtt,
           NEW th \in Thread, NEW st \in Step \ {"clear", "set_started"}, Doing(th, st),
           NEW m \in Inserted \ {<<"clear">>, <<"set_started">>}, Then(th, m)
    PROVE  MutexInv'
  <1>1. ~Doing(th, "clear") /\ ~Doing(th, "set_started")
    BY DEF Doing
  <1>2. ~Doing(th, "clear")' /\ ~Doing(th, "set_started")'
    BY DoingNext DEF Doing
  <1>3. \A x \in Thread \ {th} : todo'[x] = todo[x]
    BY ThenStep DEF Doing
  <1>4. UNCHANGED <<mqtt_mutex, mqtt_client, started, connected>>
    BY DEF mqtt
  <1>5. StatusMatchesClient'
    BY <1>4, Zenon DEF MutexInv, StatusMatchesClient
  <1>6. ASSUME NEW x \in Thread
        PROVE  /\ mqtt_mutex' = x <=> Doing(x, "clear")' \/ Doing(x, "set_started")'
               /\ Doing(x, "clear")' => mqtt_client' = "NULL"
               /\ Doing(x, "set_started")' => mqtt_client' # "NULL"
    <2>1. CASE x = th
      BY <1>1, <1>2, <1>4, <2>1 DEF MutexInv
    <2>2. CASE x # th
      BY <1>3, <1>4, <2>2 DEF MutexInv, Doing, Idle
    <2> QED BY <2>1, <2>2
  <1> QED BY <1>5, <1>6, Zenon DEF MutexInv

(* Handlers begin outside of mqtt.c.                                       *)
LEMMA BeginsOutside ==
    ASSUME RelayValues, MutexInv, UNCHANGED mqtt,
           NEW th \in Thread, Idle(th), NEW q \in Begun, Begin(th, q)
    PROVE  MutexInv'
  <1>1. ~Doing(th, "clear") /\ ~Doing(th, "set_started")
    BY DEF Doing
  <1>2. todo'[th] = q /\ \A x \in Thread \ {th} : todo'[x] = todo[x]
    BY BegunSteps, BeginStep
  <1>3. ~Doing(th, "clear")' /\ ~Doing(th, "set_started")'
    <2>1. q # <<>> => Head(q) \notin {"clear", "set_started"}
      BY DEF Begun
    <2> QED BY <1>2, <2>1 DEF Doing, Idle
  <1>5. UNCHANGED <<mqtt_mutex, mqtt_client, started, connected>>
    BY DEF mqtt
  <1>6. StatusMatchesClient'
    BY <1>5, Zenon DEF MutexInv, StatusMatchesClient
  <1>7. ASSUME NEW x \in Thread
        PROVE  /\ mqtt_mutex' = x <=> Doing(x, "clear")' \/ Doing(x, "set_started")'
               /\ Doing(x, "clear")' => mqtt_client' = "NULL"
               /\ Doing(x, "set_started")' => mqtt_client' # "NULL"
    <2>1. CASE x = th
      BY <1>1, <1>3, <1>5, <2>1 DEF MutexInv
    <2>2. CASE x # th
      BY <1>2, <1>5, <2>2 DEF MutexInv, Doing, Idle
    <2> QED BY <2>1, <2>2
  <1> QED BY <1>6, <1>7, Zenon DEF MutexInv

(* The mutex of mqtt.c is held from the change of the client to that of its *)
(* status; the callbacks come while there is a client.                     *)
LEMMA MutexNext ==
  RelayValues /\ StepOrder /\ MutexInv /\ [Next]_vars
    => MutexInv'
  <1> SUFFICES ASSUME RelayValues /\ StepOrder /\ MutexInv,
                      [Next]_vars
               PROVE  MutexInv'
    OBVIOUS
  <1> USE DEF vars, main, threads, config, status, mqtt, adv
  <1>1. ASSUME NEW th \in Thread, Stop(th)
        PROVE  MutexInv'
    <2>1. ~Idle(th) /\ <<"clear">> \in Inserted
      BY <1>1 DEF Stop, Doing, Inserted
    <2>2. /\ \A x \in Thread \ {th} : \A st \in {"clear", "set_started"} :
                Doing(x, st)' <=> Doing(x, st)
          /\ Doing(th, "clear")' <=> <<"clear">> = <<"clear">>
          /\ Doing(th, "set_started")' <=> <<"clear">> = <<"set_started">>
      BY <1>1, <2>1, DoingNext DEF Stop, Step
    <2> QED BY <1>1, <2>2, ServerAssumption, BrokerAssumption DEF Stop, Doing,
       MutexInv, StatusMatchesClient, Thread
  <1>2. ASSUME NEW th \in Thread, ClearBits(th)
        PROVE  MutexInv'
    <2>1. ~Idle(th) /\ <<>> \in Inserted
      BY <1>2 DEF ClearBits, Doing, Inserted
    <2>2. /\ \A x \in Thread \ {th} : \A st \in {"clear", "set_started"} :
                Doing(x, st)' <=> Doing(x, st)
          /\ Doing(th, "clear")' <=> <<>> = <<"clear">>
          /\ Doing(th, "set_started")' <=> <<>> = <<"set_started">>
      BY <1>2, <2>1, DoingNext DEF ClearBits, Step
    <2> QED BY <1>2, <2>2, ServerAssumption, BrokerAssumption DEF ClearBits,
       Doing, MutexInv, StatusMatchesClient, Thread
  <1>3. ASSUME NEW th \in Thread, StartAlreadyRunning(th)
        PROVE  MutexInv'
    BY <1>3, MainIsThread, OutsideMqtt DEF StartAlreadyRunning, Inserted, Announce, Step
  <1>4. ASSUME NEW th \in Thread, StartClient(th)
        PROVE  MutexInv'
    <2>1. ~Idle(th) /\ <<"set_started">> \in Inserted
      BY <1>4 DEF StartClient, Doing, Inserted
    <2>2. /\ \A x \in Thread \ {th} : \A st \in {"clear", "set_started"} :
                Doing(x, st)' <=> Doing(x, st)
          /\ Doing(th, "clear")' <=> <<"set_started">> = <<"clear">>
          /\ Doing(th, "set_started")' <=> <<"set_started">> = <<"set_started">>
      BY <1>4, <2>1, DoingNext DEF StartClient, Step
    <2> QED BY <1>4, <2>2, ServerAssumption, BrokerAssumption DEF StartClient,
       Wanted, RelayValues, Doing, MutexInv, StatusMatchesClient, Thread
  <1>5. ASSUME NEW th \in Thread, SetStarted(th)
        PROVE  MutexInv'
    <2>1. ~Idle(th) /\ <<>> \in Inserted
      BY <1>5 DEF SetStarted, Doing, Inserted
    <2>2. /\ \A x \in Thread \ {th} : \A st \in {"clear", "set_started"} :
                Doing(x, st)' <=> Doing(x, st)
          /\ Doing(th, "clear")' <=> <<>> = <<"clear">>
          /\ Doing(th, "set_started")' <=> <<>> = <<"set_started">>
      BY <1>5, <2>1, DoingNext DEF SetStarted, Step
    <2> QED BY <1>5, <2>2, ServerAssumption, BrokerAssumption DEF SetStarted,
       Doing, MutexInv, StatusMatchesClient, Thread
  <1>6. ASSUME NEW th \in Thread, StartFails(th)
        PROVE  MutexInv'
    <2>1. ~Idle(th) /\ <<>> \in Inserted
      BY <1>6 DEF StartFails, Doing, Inserted
    <2>2. /\ \A x \in Thread \ {th} : \A st \in {"clear", "set_started"} :
                Doing(x, st)' <=> Doing(x, st)
          /\ Doing(th, "clear")' <=> <<>> = <<"clear">>
          /\ Doing(th, "set_started")' <=> <<>> = <<"set_started">>
      BY <1>6, <2>1, DoingNext DEF StartFails, Step
    <2> QED BY <1>6, <2>2, ServerAssumption, BrokerAssumption DEF StartFails,
       Doing, MutexInv, StatusMatchesClient, Thread
  <1>7. ASSUME NEW th \in Thread, Suspend(th)
        PROVE  MutexInv'
    BY <1>7, MainIsThread, OutsideMqtt DEF Suspend, Inserted, Announce, Step
  <1>8. ASSUME NEW th \in Thread, Resume(th)
        PROVE  MutexInv'
    BY <1>8, MainIsThread, OutsideMqtt DEF Resume, Inserted, Announce, Step
  <1>9. ASSUME NEW th \in Thread, SetCommand(th)
        PROVE  MutexInv'
    BY <1>9, MainIsThread, OutsideMqtt DEF SetCommand, Inserted, Announce, Step
  <1>10. ASSUME NEW th \in Thread, Notify(th)
        PROVE  MutexInv'
    BY <1>10, MainIsThread, OutsideMqtt DEF Notify, Inserted, Announce, Step
  <1>11. ASSUME NEW th \in Thread, WaitEnds(th)
        PROVE  MutexInv'
    BY <1>11, MainIsThread, OutsideMqtt DEF WaitEnds, Inserted, Announce, Step
  <1>12. CASE ActivateCfgMode
    BY <1>12, MainIsThread, BeginsOutside DEF ActivateCfgMode, Got, Begun
  <1>13. CASE DeactivateCfgMode
    <2>1. UNCHANGED mqtt /\ Idle("main")
      BY <1>13 DEF DeactivateCfgMode, Got
    <2>2. CASE Begin("main", <<"resume">>)
      BY <2>1, <2>2, MainIsThread, BeginsOutside DEF Begun
    <2>3. CASE UNCHANGED todo
      BY <2>1, <2>3 DEF MutexInv, StatusMatchesClient, Doing, Idle
    <2> QED BY <1>13, <2>2, <2>3 DEF DeactivateCfgMode
  <1>14. CASE RestartServices
    BY <1>14, MainIsThread, BeginsOutside DEF RestartServices, Got, Begun
  <1>15. CASE RestartMqtt
    BY <1>15, MainIsThread, OutsideMqtt DEF RestartMqtt, Inserted, Announce, Step
  <1>16. CASE RelayingModeChanged
    BY <1>16, MainIsThread, BeginsOutside DEF RelayingModeChanged, Got, Begun
  <1>17. CASE Acknowledge
    BY <1>17, MainIsThread, OutsideMqtt DEF Acknowledge, Inserted, Announce, Step
  <1>18. ASSUME NEW s \in Server, StartTimer(s)
        PROVE  MutexInv'
    BY <1>18, MainIsThread, OutsideMqtt DEF StartTimer, Inserted, Announce, Step
  <1>19. ASSUME NEW s \in Server, SuspendHttp(s)
        PROVE  MutexInv'
    BY <1>19, MainIsThread, OutsideMqtt DEF SuspendHttp, Inserted, Announce, Step
  <1>20. ASSUME NEW s \in Server, KeepCfg(s)
        PROVE  MutexInv'
    BY <1>20, MainIsThread, OutsideMqtt DEF KeepCfg, Inserted, Announce, Step
  <1>21. ASSUME NEW s \in Server, SendRestart(s)
        PROVE  MutexInv'
    BY <1>21, MainIsThread, OutsideMqtt DEF SendRestart, Inserted, Announce, Step
  <1>22. ASSUME NEW s \in Server, ResumeHttp(s)
        PROVE  MutexInv'
    BY <1>22, MainIsThread, OutsideMqtt DEF ResumeHttp, Inserted, Announce, Step
  <1>23. ASSUME NEW s \in Server, CheckConcludes(s)
        PROVE  MutexInv'
    BY <1>23, MainIsThread, OutsideMqtt DEF CheckConcludes, Inserted, Announce, Step
  <1>24. ASSUME NEW s \in Server, GetRuuviJson(s)
        PROVE  MutexInv'
    BY <1>24, MainIsThread, BeginsOutside DEF GetRuuviJson, Begun
  <1>25. ASSUME NEW s \in Server, DownloadRemoteCfg(s)
        PROVE  MutexInv'
    BY <1>25, MainIsThread, BeginsOutside DEF DownloadRemoteCfg, Begun
  <1>26. ASSUME NEW s \in Server, CheckMqtt(s)
        PROVE  MutexInv'
    BY <1>26, MainIsThread, BeginsOutside DEF CheckMqtt, Begun
  <1>27. ASSUME NEW s \in Server, NEW c \in Cfg, ApplyRemoteCfg(s, c)
        PROVE  MutexInv'
    BY <1>27, MainIsThread, OutsideMqtt
       DEF ApplyRemoteCfg, Install, Inserted, Announce, Step
  <1>28. ASSUME NEW s \in Server, NEW c \in Cfg, PostRuuviJson(s, c)
        PROVE  MutexInv'
    BY <1>28, MainIsThread, BeginsOutside DEF PostRuuviJson, Install, Begun
  <1>29. CASE OnConnected
    BY <1>29 DEF OnConnected, MutexInv, StatusMatchesClient, Doing, Idle
  <1>30. CASE OnDisconnected
    BY <1>30 DEF OnDisconnected, MutexInv, StatusMatchesClient, Doing, Idle
  <1>31. CASE \/ \E x \in Sensor : RecvAdv(x)
              \/ TakeSignals \/ SetDefaultConfig \/ AdvTakeSignals
              \/ HandleRecvAdv \/ PublishAdv \/ HandleMqttConnected
              \/ HandleGwCfg \/ CfgModeTimerFires \/ EthernetConnected
              \/ UNCHANGED vars
    <2>1. UNCHANGED <<todo, mqtt_mutex, mqtt_client, started, connected>>
      BY <1>31 DEF TakeSignals, SetDefaultConfig, Got, AdvTakeSignals,
         HandleRecvAdv, AdvGot, PublishAdv, HandleMqttConnected,
         HandleGwCfg, CfgModeTimerFires, EthernetConnected, RecvAdv
    <2> QED BY <2>1 DEF MutexInv, StatusMatchesClient, Doing, Idle
  <1> QED BY <1>1, <1>2, <1>3, <1>4, <1>5, <1>6, <1>7, <1>8, <1>9, <1>10,
      <1>11, <1>12, <1>13, <1>14, <1>15, <1>16, <1>17, <1>18, <1>19, <1>20,
      <1>21, <1>22, <1>23, <1>24, <1>25, <1>26, <1>27, <1>28, <1>29, <1>30,
      <1>31, MainIsThread, Zenon DEF Next, MainStep, ThreadStep,
      ServerContinues, ServerBegins, AdvStep, EnvStep

(* A number of suspenders is in the range of the counter.                  *)
LEMMA SuspenderCount ==
    /\ Suspenders \subseteq Thread /\ IsFiniteSet(Suspenders)
    /\ Cardinality(Suspenders) \in 0 .. Cardinality(Thread)
  <1>1. IsFiniteSet(Thread)
    BY ServerAssumption, FS_AddElement, FS_Singleton, FS_Union DEF Thread
  <1>2. Suspenders \subseteq Thread
    BY DEF Suspenders, Thread
  <1> QED BY <1>1, <1>2, FS_Subset, FS_CardinalityType

(* Nothing that concerns suspensions has changed.                          *)
LEMMA BalanceKept ==
    ASSUME SuspendInv, UNCHANGED <<cnt_suspended, cfg_mode>>,
           \A x \in Thread : \A st \in {"suspend", "resume"} :
               st \in Elems(todo'[x]) <=> st \in Elems(todo[x])
    PROVE  SuspendInv'
  <1>1. Suspenders' = Suspenders
    BY MainIsThread DEF Suspenders, Pending
  <1>2. SuspensionsBalanced'
    BY <1>1 DEF SuspendInv, SuspensionsBalanced
  <1>3. \A s \in Server : Pending(s, "suspend")' => Pending(s, "resume")'
    BY MainIsThread DEF SuspendInv, Pending
  <1>4. /\ Pending("main", "suspend")' => cfg_mode'
        /\ Pending("main", "resume")' => ~cfg_mode'
    BY MainIsThread DEF SuspendInv, Pending
  <1> QED BY <1>2, <1>3, <1>4 DEF SuspendInv

(* Steps that neither suspend nor resume.                                  *)
LEMMA BalanceThen ==
    ASSUME RelayValues, SuspendInv, UNCHANGED <<cnt_suspended, cfg_mode>>,
           NEW th \in Thread, NEW st \in Step \ {"suspend", "resume"}, Doing(th, st),
           NEW m \in Inserted, Then(th, m)
    PROVE  SuspendInv'
  <1>1. ~Idle(th) /\ Head(todo[th]) = st
    BY DEF Doing
  <1>2. /\ \A x \in Thread \ {th} : todo'[x] = todo[x]
        /\ Elems(todo[th]) = {st} \cup Elems(Tail(todo[th]))
        /\ Elems(todo'[th]) = Elems(m) \cup Elems(Tail(todo[th]))
    BY <1>1, ThenStep
  <1>3. Elems(m) \cap {"suspend", "resume"} = {}
    BY InsertedSteps
  <1> QED BY <1>2, <1>3, BalanceKept

(* The lists that neither suspend nor resume.                              *)
LEMMA PlainLists ==
    ASSUME NEW q \in {<<>>, <<"stop", "restart">>, <<"ack">>, <<"start", "ack">>,
                      <<"stop", "ack">>, <<"start_timer">>,
                      <<"suspend_http", "apply", "resume_http">>}
    PROVE  q \in Begun /\ Elems(q) \cap {"suspend", "resume"} = {}
  <1>1. q \in Begun
    BY DEF Begun
  <1>2. CASE q = <<>>
    BY <1>1, <1>2 DEF Elems
  <1>3. ASSUME NEW x \in {"ack", "start_timer"}, q = <<x>>
        PROVE  Elems(q) \cap {"suspend", "resume"} = {}
    BY <1>3 DEF Elems
  <1>4. ASSUME NEW x \in {"stop", "start"}, NEW y \in {"restart", "ack"},
               q = <<x, y>>
        PROVE  Elems(q) \cap {"suspend", "resume"} = {}
    BY <1>4 DEF Elems
  <1>5. CASE q = <<"suspend_http", "apply", "resume_http">>
    BY <1>1, <1>5 DEF Elems
  <1> QED BY <1>1, <1>2, <1>3, <1>4, <1>5

(* The lists that do.                                                      *)
LEMMA SuspendLists ==
    /\ Elems(<<>>) = {}
    /\ Elems(<<"suspend">>) = {"suspend"} /\ Elems(<<"resume">>) = {"resume"}
    /\ LET q == <<"suspend", "start", "await", "stop", "resume">>
       IN  "suspend" \in Elems(q) /\ "resume" \in Elems(q)
  <1>1. Elems(<<>>) = {}
    BY DEF Elems
  <1>2. Elems(<<"suspend">>) = {"suspend"} /\ Elems(<<"resume">>) = {"resume"}
    BY DEF Elems
  <1> DEFINE q == <<"suspend", "start", "await", "stop", "resume">>
  <1>3. 1 \in DOMAIN q /\ q[1] = "suspend" /\ 5 \in DOMAIN q /\ q[5] = "resume"
    OBVIOUS
  <1>4. "suspend" \in Elems(q) /\ "resume" \in Elems(q)
    BY <1>3, Zenon DEF Elems
  <1> QED BY <1>1, <1>2, <1>4

(* Handlers that neither suspend nor resume.                               *)
LEMMA BalanceBegin ==
    ASSUME RelayValues, SuspendInv, UNCHANGED <<cnt_suspended, cfg_mode>>,
           NEW th \in Thread, Idle(th), NEW q \in Begun,
           Elems(q) \cap {"suspend", "resume"} = {}, Begin(th, q)
    PROVE  SuspendInv'
  <1>1. todo'[th] = q /\ \A x \in Thread \ {th} : todo'[x] = todo[x]
    BY BegunSteps, BeginStep
  <1>2. Elems(todo[th]) = {}
    BY DEF Idle, Elems
  <1> QED BY <1>1, <1>2, BalanceKept

(* A list that is in order goes on without what only comes first.          *)
LEMMA LaterSteps ==
    ASSUME RelayValues, StepOrder, NEW th \in Thread, ~Idle(th)
    PROVE  /\ Elems(Tail(todo[th])) \cap {"suspend", "suspend_http", "command"} = {}
           /\ Head(todo[th]) \in {"resume", "resume_http"} => Elems(Tail(todo[th])) = {}
  <1> DEFINE q == todo[th]
  <1>1. q \in Seq(Step) /\ q # <<>> /\ Ordered(q)
    BY DEF RelayValues, Idle, StepOrder
  <1> HIDE DEF q
  <1>2. ASSUME NEW i \in DOMAIN Tail(q)
        PROVE  i + 1 \in 1 .. Len(q) /\ i + 1 # 1 /\ Tail(q)[i] = q[i + 1]
    BY <1>1
  <1>3. Elems(Tail(q)) \cap {"suspend", "suspend_http", "command"} = {}
    BY <1>1, <1>2 DEF Ordered, Elems
  <1>4. ASSUME Head(q) \in {"resume", "resume_http"}
        PROVE  Elems(Tail(q)) = {}
    <2>1. 1 \in 1 .. Len(q) /\ q[1] \in {"resume", "resume_http"}
      BY <1>1, <1>4
    <2>2. Len(q) = 1
      BY <1>1, <2>1 DEF Ordered
    <2> QED BY <1>1, <1>2, <2>2 DEF Elems
  <1> QED BY <1>3, <1>4 DEF q

(* The counter is raised and lowered once by everybody who counts as a     *)
(* suspender.                                                              *)
LEMMA BalanceNext ==
  RelayValues /\ StepOrder /\ SuspendInv /\ [Next]_vars
    => SuspendInv'
  <1> SUFFICES ASSUME RelayValues /\ StepOrder /\ SuspendInv,
                      [Next]_vars
               PROVE  SuspendInv'
    OBVIOUS
  <1> USE DEF vars, main, threads, config, status, mqtt, adv
  <1>1. ASSUME NEW th \in Thread, Stop(th)
        PROVE  SuspendInv'
    BY <1>1, MainIsThread, BalanceThen DEF Stop, Inserted, Step
  <1>2. ASSUME NEW th \in Thread, ClearBits(th)
        PROVE  SuspendInv'
    BY <1>2, MainIsThread, BalanceThen DEF ClearBits, Inserted, Step
  <1>3. ASSUME NEW th \in Thread, StartAlreadyRunning(th)
        PROVE  SuspendInv'
    BY <1>3, MainIsThread, BalanceThen DEF StartAlreadyRunning, Inserted, Step
  <1>4. ASSUME NEW th \in Thread, StartClient(th)
        PROVE  SuspendInv'
    BY <1>4, MainIsThread, BalanceThen DEF StartClient, Inserted, Step
  <1>5. ASSUME NEW th \in Thread, SetStarted(th)
        PROVE  SuspendInv'
    BY <1>5, MainIsThread, BalanceThen DEF SetStarted, Inserted, Step
  <1>6. ASSUME NEW th \in Thread, StartFails(th)
        PROVE  SuspendInv'
    BY <1>6, MainIsThread, BalanceThen DEF StartFails, Inserted, Step
  <1>7. ASSUME NEW th \in Thread, Suspend(th)
        PROVE  SuspendInv'
    <2> DEFINE m == IF cnt_suspended = 0 THEN Announce ELSE <<>>
    <2>1. /\ m \in Inserted /\ Then(th, m) /\ ~Idle(th) /\ Head(todo[th]) = "suspend"
          /\ cnt_suspended' = cnt_suspended + 1 /\ cfg_mode' = cfg_mode
      BY <1>7 DEF Suspend, Doing, Inserted
    <2> HIDE DEF m
    <2>2. /\ \A x \in Thread \ {th} : todo'[x] = todo[x]
          /\ Elems(todo[th]) = {"suspend"} \cup Elems(Tail(todo[th]))
          /\ Elems(todo'[th]) = Elems(m) \cup Elems(Tail(todo[th]))
      BY <2>1, ThenStep
    <2>3. Elems(m) \cap {"suspend", "resume"} = {}
      BY <2>1, InsertedSteps
    <2>4. "suspend" \notin Elems(Tail(todo[th]))
      BY <2>1, LaterSteps
    <2>5. CASE th \in Server
      <3>1. "resume" \in Elems(todo[th]) /\ th # "main"
        BY <2>2, <2>5, ServerAssumption DEF SuspendInv, Pending
      <3>2. th \notin Suspenders /\ Suspenders' = Suspenders \cup {th}
        BY <2>1, <2>2, <2>3, <2>4, <2>5, <3>1, MainIsThread DEF Suspenders, Pending
      <3>3. SuspensionsBalanced'
        BY <2>1, <3>2, SuspenderCount, FS_AddElement DEF SuspendInv, SuspensionsBalanced
      <3> QED
        BY <2>1, <2>2, <2>3, <2>4, <2>5, <3>1, <3>3, MainIsThread
           DEF SuspendInv, Pending
    <2>6. CASE th = "main"
      <3>1. cfg_mode /\ "resume" \notin Elems(todo[th]) /\ th \notin Server
        BY <2>2, <2>6, ServerAssumption DEF SuspendInv, Pending
      <3>2. th \notin Suspenders /\ Suspenders' = Suspenders \cup {th}
        BY <2>1, <2>2, <2>3, <2>4, <2>6, <3>1, MainIsThread DEF Suspenders, Pending
      <3>3. SuspensionsBalanced'
        BY <2>1, <3>2, SuspenderCount, FS_AddElement DEF SuspendInv, SuspensionsBalanced
      <3> QED
        BY <2>1, <2>2, <2>3, <2>4, <2>6, <3>1, <3>3, MainIsThread
           DEF SuspendInv, Pending
    <2> QED BY <2>5, <2>6 DEF Thread
  <1>8. ASSUME NEW th \in Thread, Resume(th)
        PROVE  SuspendInv'
    <2> DEFINE m == IF cnt_suspended = 1 THEN Announce ELSE <<>>
    <2>1. /\ m \in Inserted /\ Then(th, m) /\ ~Idle(th) /\ Head(todo[th]) = "resume"
          /\ cnt_suspended' = IF cnt_suspended = 0 THEN 0 ELSE cnt_suspended - 1
          /\ cfg_mode' = cfg_mode
      BY <1>8 DEF Resume, Doing, Inserted
    <2> HIDE DEF m
    <2>2. /\ \A x \in Thread \ {th} : todo'[x] = todo[x]
          /\ Elems(todo[th]) = {"resume"} \cup Elems(Tail(todo[th]))
          /\ Elems(todo'[th]) = Elems(m) \cup Elems(Tail(todo[th]))
      BY <2>1, ThenStep
    <2>3. Elems(m) \cap {"suspend", "resume"} = {}
      BY <2>1, InsertedSteps
    <2>4. Elems(Tail(todo[th])) = {}
      BY <2>1, LaterSteps
    <2>5. th \in Suspenders /\ Suspenders' = Suspenders \ {th}
      <3>1. CASE th \in Server
        BY <2>1, <2>2, <2>3, <2>4, <3>1, MainIsThread, ServerAssumption
           DEF Suspenders, Pending
      <3>2. CASE th = "main"
        <4>1. ~cfg_mode /\ th \notin Server
          BY <2>2, <3>2, ServerAssumption DEF SuspendInv, Pending
        <4> QED
          BY <2>1, <2>2, <2>3, <2>4, <3>2, <4>1, MainIsThread
             DEF Suspenders, Pending
      <3> QED BY <3>1, <3>2 DEF Thread
    <2>6. SuspensionsBalanced'
      <3>1. /\ Cardinality(Suspenders') = Cardinality(Suspenders) - 1
            /\ Cardinality(Suspenders) \in Nat /\ Cardinality(Suspenders) # 0
        BY <2>5, SuspenderCount, FS_RemoveElement, FS_EmptySet, FS_CardinalityType
      <3> QED BY <2>1, <3>1 DEF SuspendInv, SuspensionsBalanced
    <2> QED
      BY <2>1, <2>2, <2>3, <2>4, <2>6, MainIsThread DEF SuspendInv, Pending
  <1>9. ASSUME NEW th \in Thread, SetCommand(th)
        PROVE  SuspendInv'
    BY <1>9, MainIsThread, BalanceThen DEF SetCommand, Inserted, Step
  <1>10. ASSUME NEW th \in Thread, Notify(th)
        PROVE  SuspendInv'
    BY <1>10, MainIsThread, BalanceThen DEF Notify, Inserted, Step
  <1>11. ASSUME NEW th \in Thread, WaitEnds(th)
        PROVE  SuspendInv'
    BY <1>11, MainIsThread, BalanceThen DEF WaitEnds, Inserted, Step
  <1>12. CASE ActivateCfgMode
    <2>1. Idle("main") /\ Elems(todo["main"]) = {} /\ cnt_suspended' = cnt_suspended
      BY <1>12, SuspendLists DEF ActivateCfgMode, Got, Idle
    <2>2. CASE cfg_mode
      BY <1>12, <2>1, <2>2, MainIsThread, PlainLists, BalanceBegin DEF ActivateCfgMode
    <2>3. CASE ~cfg_mode
      <3>1. /\ todo'["main"] = <<"suspend">> /\ cfg_mode'
            /\ \A x \in Thread \ {"main"} : todo'[x] = todo[x]
        BY <1>12, <2>3, MainIsThread, BegunSteps, BeginStep DEF ActivateCfgMode, Begun
      <3>2. Suspenders' = Suspenders
        BY <2>1, <2>3, <3>1, MainIsThread, ServerAssumption, SuspendLists
           DEF Suspenders, Pending
      <3> QED
        BY <2>1, <2>3, <3>1, <3>2, MainIsThread, ServerAssumption, SuspendLists
           DEF SuspendInv, SuspensionsBalanced, Pending
    <2> QED BY <2>2, <2>3
  <1>13. CASE DeactivateCfgMode
    <2>1. Idle("main") /\ Elems(todo["main"]) = {} /\ cnt_suspended' = cnt_suspended
      BY <1>13, SuspendLists DEF DeactivateCfgMode, Got, Idle
    <2>2. CASE UNCHANGED <<cfg_mode, todo>>
      BY <2>1, <2>2, BalanceKept
    <2>3. CASE cfg_mode /\ ~cfg_mode' /\ Begin("main", <<"resume">>)
      <3>1. /\ todo'["main"] = <<"resume">>
            /\ \A x \in Thread \ {"main"} : todo'[x] = todo[x]
        BY <2>3, MainIsThread, BegunSteps, BeginStep DEF Begun
      <3>2. Suspenders' = Suspenders
        BY <2>1, <2>3, <3>1, MainIsThread, ServerAssumption, SuspendLists
           DEF Suspenders, Pending
      <3> QED
        BY <2>1, <2>3, <3>1, <3>2, MainIsThread, ServerAssumption, SuspendLists
           DEF SuspendInv, SuspensionsBalanced, Pending
    <2> QED BY <1>13, <2>2, <2>3 DEF DeactivateCfgMode
  <1>14. CASE RestartServices
    BY <1>14, MainIsThread, PlainLists, BalanceBegin DEF RestartServices, Got
  <1>15. CASE RestartMqtt
    BY <1>15, MainIsThread, BalanceThen DEF RestartMqtt, Inserted, Step
  <1>16. CASE RelayingModeChanged
    BY <1>16, MainIsThread, PlainLists, BalanceBegin DEF RelayingModeChanged, Got
  <1>17. CASE Acknowledge
    BY <1>17, MainIsThread, BalanceThen DEF Acknowledge, Inserted, Step
  <1>18. ASSUME NEW s \in Server, StartTimer(s)
        PROVE  SuspendInv'
    BY <1>18, MainIsThread, BalanceThen DEF StartTimer, Inserted, Step
  <1>19. ASSUME NEW s \in Server, SuspendHttp(s)
        PROVE  SuspendInv'
    BY <1>19, MainIsThread, BalanceThen DEF SuspendHttp, Inserted, Step
  <1>20. ASSUME NEW s \in Server, KeepCfg(s)
        PROVE  SuspendInv'
    BY <1>20, MainIsThread, BalanceThen DEF KeepCfg, Inserted, Step
  <1>21. ASSUME NEW s \in Server, SendRestart(s)
        PROVE  SuspendInv'
    BY <1>21, MainIsThread, BalanceThen DEF SendRestart, Inserted, Step
  <1>22. ASSUME NEW s \in Server, ResumeHttp(s)
        PROVE  SuspendInv'
    BY <1>22, MainIsThread, BalanceThen DEF ResumeHttp, Inserted, Step
  <1>23. ASSUME NEW s \in Server, CheckConcludes(s)
        PROVE  SuspendInv'
    BY <1>23, MainIsThread, BalanceThen DEF CheckConcludes, Inserted, Step
  <1>24. ASSUME NEW s \in Server, GetRuuviJson(s)
        PROVE  SuspendInv'
    BY <1>24, MainIsThread, PlainLists, BalanceBegin DEF GetRuuviJson
  <1>25. ASSUME NEW s \in Server, DownloadRemoteCfg(s)
        PROVE  SuspendInv'
    BY <1>25, MainIsThread, PlainLists, BalanceBegin DEF DownloadRemoteCfg
  <1>26. ASSUME NEW s \in Server, CheckMqtt(s)
        PROVE  SuspendInv'
    <2> DEFINE q == <<"suspend", "start", "await", "stop", "resume">>
    <2>1. /\ Elems(todo[s]) = {} /\ s \in Thread /\ s # "main"
          /\ cnt_suspended' = cnt_suspended /\ cfg_mode' = cfg_mode
      BY <1>26, SuspendLists, MainIsThread, ServerAssumption DEF CheckMqtt, Idle
    <2>2. todo'[s] = q /\ \A x \in Thread \ {s} : todo'[x] = todo[x]
      BY <1>26, MainIsThread, BegunSteps, BeginStep DEF CheckMqtt, Begun
    <2>3. "suspend" \in Elems(q) /\ "resume" \in Elems(q)
      BY SuspendLists
    <2> HIDE DEF q
    <2>4. Suspenders' = Suspenders
      BY <2>1, <2>2, <2>3, MainIsThread DEF Suspenders, Pending
    <2> QED
      BY <2>1, <2>2, <2>3, <2>4, MainIsThread
         DEF SuspendInv, SuspensionsBalanced, Pending
  <1>27. ASSUME NEW s \in Server, NEW c \in Cfg, ApplyRemoteCfg(s, c)
        PROVE  SuspendInv'
    BY <1>27, MainIsThread, BalanceThen DEF ApplyRemoteCfg, Install, Inserted, Step
  <1>28. ASSUME NEW s \in Server, NEW c \in Cfg, PostRuuviJson(s, c)
        PROVE  SuspendInv'
    BY <1>28, MainIsThread, PlainLists, BalanceBegin DEF PostRuuviJson, Install
  <1>29. CASE \/ \E x \in Sensor : RecvAdv(x)
              \/ TakeSignals \/ SetDefaultConfig \/ AdvTakeSignals
              \/ HandleRecvAdv \/ PublishAdv \/ HandleMqttConnected
              \/ HandleGwCfg \/ CfgModeTimerFires \/ EthernetConnected
              \/ OnConnected \/ OnDisconnected \/ UNCHANGED vars
    <2>1. UNCHANGED <<todo, cnt_suspended, cfg_mode>>
      BY <1>29 DEF TakeSignals, SetDefaultConfig, Got, AdvTakeSignals,
         HandleRecvAdv, AdvGot, PublishAdv, HandleMqttConnected,
         HandleGwCfg, CfgModeTimerFires, EthernetConnected, OnConnected,
         OnDisconnected, RecvAdv
    <2> QED BY <2>1, BalanceKept
  <1> QED BY <1>1, <1>2, <1>3, <1>4, <1>5, <1>6, <1>7, <1>8, <1>9, <1>10,
      <1>11, <1>12, <1>13, <1>14, <1>15, <1>16, <1>17, <1>18, <1>19, <1>20,
      <1>21, <1>22, <1>23, <1>24, <1>25, <1>26, <1>27, <1>28, <1>29,
      MainIsThread, Zenon DEF Next, MainStep, ThreadStep, ServerContinues,
      ServerBegins, AdvStep, EnvStep

(* A report is taken from the head of the list.                            *)
LEMMA ListTake ==
    ASSUME NEW q \in Seq(Sensor), q # <<>>, Len(q) = Cardinality(Elems(q)),
           \A i, j \in 1 .. Len(q) : q[i] = q[j] => i = j
    PROVE  /\ Len(Tail(q)) = Cardinality(Elems(Tail(q)))
           /\ \A i, j \in 1 .. Len(Tail(q)) : Tail(q)[i] = Tail(q)[j] => i = j
  <1> DEFINE r == Tail(q)
  <1>1. /\ Len(q) \in Nat /\ Len(q) >= 1 /\ Len(r) = Len(q) - 1
        /\ DOMAIN q = 1 .. Len(q) /\ DOMAIN r = 1 .. Len(q) - 1
        /\ \A i \in 1 .. Len(q) - 1 : r[i] = q[i + 1]
    OBVIOUS
  <1> HIDE DEF r
  <1>2. \A i, j \in 1 .. Len(r) : r[i] = r[j] => i = j
    <2> SUFFICES ASSUME NEW i \in 1 .. Len(r), NEW j \in 1 .. Len(r), r[i] = r[j]
                 PROVE  i = j
      OBVIOUS
    <2>1. i + 1 \in 1 .. Len(q) /\ j + 1 \in 1 .. Len(q) /\ q[i + 1] = q[j + 1]
      BY <1>1
    <2> QED BY <1>1, <2>1
  <1>3. Elems(r) = Elems(q) \ {q[1]}
    <2>1. ASSUME NEW i \in DOMAIN r
          PROVE  r[i] \in Elems(q) \ {q[1]}
      <3>1. i + 1 \in DOMAIN q /\ r[i] = q[i + 1] /\ i + 1 # 1 /\ 1 \in DOMAIN q
        BY <1>1
      <3>2. q[i + 1] # q[1]
        BY <1>1, <3>1
      <3>3. q[i + 1] \in Elems(q)
        BY <3>1, Zenon DEF Elems
      <3> QED BY <3>1, <3>2, <3>3
    <2>2. ASSUME NEW i \in DOMAIN q, q[i] # q[1]
          PROVE  q[i] \in Elems(r)
      <3>1. i - 1 \in DOMAIN r /\ r[i - 1] = q[i]
        BY <1>1, <2>2
      <3> QED BY <3>1, Zenon DEF Elems
    <2> QED BY <2>1, <2>2 DEF Elems
  <1>4. q[1] \in Elems(q) /\ IsFiniteSet(Elems(q))
    <2>1. Elems(q) \subseteq Sensor
      <3>1. \A i \in DOMAIN q : q[i] \in Sensor
        BY <1>1
      <3> QED BY <3>1, Zenon DEF Elems
    <2>2. 1 \in DOMAIN q
      BY <1>1
    <2>3. q[1] \in Elems(q)
      BY <2>2, Zenon DEF Elems
    <2> QED BY <2>1, <2>3, SensorAssumption, FS_Subset
  <1>5. Cardinality(Elems(r)) = Cardinality(Elems(q)) - 1
    BY <1>3, <1>4, FS_RemoveElement
  <1> QED BY <1>1, <1>2, <1>5 DEF r

(* A report is put at the end of the list.                                 *)
LEMMA ListPut ==
    ASSUME NEW q \in Seq(Sensor), NEW x \in Sensor, x \notin Elems(q),
           Len(q) = Cardinality(Elems(q)),
           \A i, j \in 1 .. Len(q) : q[i] = q[j] => i = j
    PROVE  /\ Len(Append(q, x)) = Cardinality(Elems(Append(q, x)))
           /\ \A i, j \in 1 .. Len(Append(q, x)) :
                Append(q, x)[i] = Append(q, x)[j] => i = j
  <1> DEFINE r == Append(q, x)
  <1>1. /\ Len(q) \in Nat /\ Len(r) = Len(q) + 1
        /\ DOMAIN q = 1 .. Len(q) /\ DOMAIN r = 1 .. Len(q) + 1
        /\ \A i \in 1 .. Len(q) : r[i] = q[i]
        /\ r[Len(q) + 1] = x
    OBVIOUS
  <1> HIDE DEF r
  <1>2. \A i \in DOMAIN q : q[i] \in Elems(q) /\ q[i] # x
    BY Zenon DEF Elems
  <1>3. \A i, j \in 1 .. Len(r) : r[i] = r[j] => i = j
    BY <1>1, <1>2
  <1>4. Elems(r) = Elems(q) \cup {x}
    <2>1. ASSUME NEW i \in DOMAIN r
          PROVE  r[i] \in Elems(q) \cup {x}
      BY <1>1, <1>2
    <2>2. ASSUME NEW i \in DOMAIN q
          PROVE  q[i] \in Elems(r)
      <3>1. i \in DOMAIN r /\ r[i] = q[i]
        BY <1>1
      <3> QED BY <3>1, Zenon DEF Elems
    <2>3. x \in Elems(r)
      <3>1. Len(q) + 1 \in DOMAIN r /\ r[Len(q) + 1] = x
        BY <1>1
      <3> QED BY <3>1, Zenon DEF Elems
    <2> QED BY <2>1, <2>2, <2>3 DEF Elems
  <1>5. IsFiniteSet(Elems(q))
    <2>1. Elems(q) \subseteq Sensor
      <3>1. \A i \in DOMAIN q : q[i] \in Sensor
        BY <1>1
      <3> QED BY <3>1, Zenon DEF Elems
    <2> QED BY <2>1, SensorAssumption, FS_Subset
  <1>6. Cardinality(Elems(r)) = Cardinality(Elems(q)) + 1
    BY <1>4, <1>5, FS_AddElement
  <1> QED BY <1>1, <1>3, <1>6 DEF r

(* The list of due reports holds a sensor at most once.                    *)
LEMMA ListNext ==
  RelayValues /\ ListInv /\ [Next]_vars
    => ListInv'
  <1> SUFFICES ASSUME RelayValues /\ ListInv,
                      [Next]_vars
               PROVE  ListInv'
    OBVIOUS
  <1> USE DEF vars, main, threads, config, status, mqtt, adv
  <1>1. CASE HandleRecvAdv
    <2>1. CASE list3' = list3
      BY <2>1 DEF ListInv
    <2>2. CASE list3 # <<>> /\ list3' = Tail(list3)
      BY <2>2, ListTake DEF ListInv, RelayValues
    <2> QED BY <1>1, <2>1, <2>2 DEF HandleRecvAdv
  <1>2. ASSUME NEW x \in Sensor, RecvAdv(x)
        PROVE  ListInv'
    <2>1. CASE list3' = list3
      BY <2>1 DEF ListInv
    <2>2. CASE x \notin Elems(list3) /\ list3' = Append(list3, x)
      BY <2>2, ListPut DEF ListInv, RelayValues
    <2> QED BY <1>2, <2>1, <2>2 DEF RecvAdv
  <1>3. CASE \/ \E th \in Thread : \/ Stop(th) \/ ClearBits(th)
                                   \/ StartAlreadyRunning(th)
                                   \/ StartClient(th) \/ SetStarted(th)
                                   \/ StartFails(th) \/ Suspend(th)
                                   \/ Resume(th) \/ SetCommand(th)
                                   \/ Notify(th) \/ WaitEnds(th)
             \/ \E s \in Server : \/ StartTimer(s) \/ SuspendHttp(s)
                                  \/ KeepCfg(s) \/ SendRestart(s)
                                  \/ ResumeHttp(s) \/ CheckConcludes(s)
                                  \/ GetRuuviJson(s) \/ DownloadRemoteCfg(s)
                                  \/ CheckMqtt(s)
             \/ \E s \in Server, c \in Cfg : \/ ApplyRemoteCfg(s, c)
                                             \/ PostRuuviJson(s, c)
             \/ TakeSignals \/ ActivateCfgMode \/ DeactivateCfgMode
             \/ RestartServices \/ RestartMqtt \/ SetDefaultConfig
             \/ RelayingModeChanged \/ Acknowledge \/ AdvTakeSignals
             \/ PublishAdv \/ HandleMqttConnected \/ HandleGwCfg
             \/ CfgModeTimerFires \/ EthernetConnected \/ OnConnected
             \/ OnDisconnected \/ UNCHANGED vars
    <2>1. UNCHANGED list3
      BY <1>3 DEF Stop, ClearBits, StartAlreadyRunning, StartClient,
         SetStarted, StartFails, Suspend, Resume, SetCommand, Notify,
         WaitEnds, TakeSignals, ActivateCfgMode, Got, DeactivateCfgMode,
         RestartServices, RestartMqtt, SetDefaultConfig,
         RelayingModeChanged, Acknowledge, StartTimer, SuspendHttp,
         KeepCfg, SendRestart, ResumeHttp, CheckConcludes, GetRuuviJson,
         DownloadRemoteCfg, CheckMqtt, ApplyRemoteCfg, Install,
         PostRuuviJson, AdvTakeSignals, PublishAdv, HandleMqttConnected,
         AdvGot, HandleGwCfg, CfgModeTimerFires, EthernetConnected,
         OnConnected, OnDisconnected
    <2> QED BY <2>1 DEF ListInv
  <1> QED BY <1>1, <1>2, <1>3, MainIsThread, Zenon DEF Next, MainStep,
      ThreadStep, ServerContinues, ServerBegins, AdvStep, EnvStep

(* The two counts that TypeOK bounds.                                      *)
LEMMA Counts ==
    ASSUME RelayFlags, RelayValues, SuspendInv, ListInv
    PROVE  TypeOK
  <1>1. cnt_suspended \in 0 .. Cardinality(Thread)
    BY SuspenderCount DEF SuspendInv, SuspensionsBalanced
  <1>2. Len(list3) <= Cardinality(Sensor)
    <2>1. Elems(list3) \subseteq Sensor
      BY DEF RelayValues, Elems
    <2> QED BY <2>1, SensorAssumption, FS_Subset DEF ListInv
  <1> QED BY <1>1, <1>2 DEF TypeOK

(* The gateway as it enters main_loop satisfies the invariant.             *)
LEMMA InitInv == Init => RelayInv
  <1> SUFFICES ASSUME Init PROVE RelayInv
    OBVIOUS
  <1>1. RelayFlags
    BY Zenon DEF Init, RelayFlags
  <1>2. \A th \in Thread : todo[th] \in {<<>>, <<"start">>}
    BY DEF Init
  <1>3. todo \in [Thread -> Seq(Step)] /\ StepOrder
    <2>1. <<>> \in Seq(Step) /\ Ordered(<<>>)
      BY DEF Ordered
    <2>2. <<"start">> \in Seq(Step) /\ Ordered(<<"start">>)
      BY DEF Ordered, Step
    <2>3. todo = [th \in Thread |->
                    IF th = "main" /\ gw_cfg.mqtt THEN <<"start">> ELSE <<>>]
      BY DEF Init
    <2> QED BY <2>1, <2>2, <2>3 DEF StepOrder
  <1>4. RelayValues
    <2>1. gw_cfg \in Cfg \cup {DefaultCfg}
      BY DEF Init
    <2>2. copy \in Broker \cup {Invalid}
      BY <2>1, CfgFields DEF Init
    <2> QED BY <1>3, <2>1, <2>2, SigNames DEF Init, RelayValues
  <1>5. MutexInv
    <2>1. \A th \in Thread : ~Doing(th, "clear") /\ ~Doing(th, "set_started")
      BY <1>2 DEF Doing, Idle
    <2>2. mqtt_mutex = "none" /\ mqtt_client = "NULL" /\ ~started /\ ~connected
      BY Zenon DEF Init
    <2>3. "none" \notin Thread
      BY ServerAssumption DEF Thread
    <2>4. StatusMatchesClient
      BY <2>2, Zenon DEF StatusMatchesClient
    <2> QED BY <2>1, <2>2, <2>3, <2>4 DEF MutexInv
  <1>6. SuspendInv
    <2>1. \A th \in Thread : Elems(todo[th]) \cap {"suspend", "resume"} = {}
      <3>1. Elems(<<"start">>) = {"start"}
        BY DEF Elems
      <3> QED BY <1>2, <3>1, SuspendLists
    <2>2. ~cfg_mode /\ cnt_suspended = 0
      BY Zenon DEF Init
    <2>3. Suspenders = {}
      BY <2>1, <2>2, MainIsThread DEF Suspenders, Pending
    <2> QED
      BY <2>1, <2>2, <2>3, MainIsThread, FS_EmptySet
         DEF SuspendInv, SuspensionsBalanced, Pending
  <1>7. ListInv
    <2>1. list3 = <<>> /\ Elems(<<>>) = {}
      BY SuspendLists DEF Init
    <2> QED BY <2>1, FS_EmptySet DEF ListInv
  <1> QED BY <1>1, <1>3, <1>4, <1>5, <1>6, <1>7 DEF RelayInv

(* RelayInv is inductive.                                                  *)
LEMMA RelayInvariant == Spec => []RelayInv
  <1>1. RelayInv /\ [Next]_vars => RelayInv'
    <2> SUFFICES ASSUME RelayInv, [Next]_vars PROVE RelayInv'
      OBVIOUS
    <2>1. RelayFlags' /\ RelayValues' /\ StepOrder'
      BY FlagsNext, ValuesNext, OrderNext DEF RelayInv
    <2>2. MutexInv' /\ SuspendInv' /\ ListInv'
      BY MutexNext, BalanceNext, ListNext DEF RelayInv
    <2> QED BY <2>1, <2>2 DEF RelayInv
  <1> QED BY InitInv, <1>1, PTL DEF Spec

(* Every variable keeps its type; in particular the suspend counter never  *)
(* exceeds the number of threads, and the list of due reports that of the  *)
(* sensors.                                                                *)
THEOREM RelayTypeCorrect == Spec => []TypeOK
  <1>1. RelayInv => TypeOK
    BY Counts DEF RelayInv
  <1> QED BY <1>1, RelayInvariant, PTL

(* For any number of HTTP server threads, and however often configuration  *)
(* mode is requested, extended or left, cnt_relaying_via_mqtt_suspended is *)
(* the number of those who have suspended relaying and not resumed it.     *)
THEOREM SuspensionsAreBalanced == Spec => []SuspensionsBalanced
  <1>1. RelayInv => SuspensionsBalanced
    BY DEF RelayInv, SuspendInv
  <1> QED BY <1>1, RelayInvariant, PTL

(* Outside of mqtt_app_start and mqtt_app_stop the started bit says        *)
(* whether there is a client, and no destroyed client counts as connected, *)
(* whichever threads start and stop it and whenever callbacks come.        *)
THEOREM StatusIsTrue == Spec => []StatusMatchesClient
  <1>1. RelayInv => StatusMatchesClient
    BY DEF RelayInv, MutexInv
  <1> QED BY <1>1, RelayInvariant, PTL
=============================================================================
