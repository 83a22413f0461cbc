-------------------------- MODULE MqttServiceProofs -------------------------
(***************************************************************************)
(* MQTT follows the configuration: ServicesFollowConfig of MqttRelay, for  *)
(* any brokers, configurations and HTTP server threads, as long as a       *)
(* configuration is saved in configuration mode or with a restart and the  *)
(* client can be created (CfgIsGuarded).  No command of gw_status.c is     *)
(* forgotten (CommandIsHandled), and a thread that has suspended relaying  *)
(* to try out a broker finds MQTT stopped (SuspendedMeansStopped), when it *)
(* is the only one (OneChecker).                                           *)
(***************************************************************************)
EXTENDS MqttRelayProofs

(* Thread th has done its step st and got the steps of new to do.          *)
Pops(th, st, new) ==
    /\ st \in Elems(todo[th])
    /\ \A y \in Elems(todo[th]) \ {st} : y \in Elems(todo'[th])
    /\ \A y \in Elems(todo'[th]) \ new : y \in Elems(todo[th]) /\ y # "suspend"
    /\ \A y \in new : y \in Elems(todo'[th])
    /\ "suspend_http" \notin Elems(todo'[th])
    /\ \A x \in Thread \ {th} : todo'[x] = todo[x]

(* A step of a thread takes the first entry off its list.                  *)
LEMMA DoStep ==
    ASSUME RelayValues, StepOrder, NEW th \in Thread, NEW st, Doing(th, st),
           NEW m \in Inserted, Then(th, m)
    PROVE  Pops(th, st, Elems(m))
  <1>1. ~Idle(th) /\ Head(todo[th]) = st
    BY DEF Doing
  <1>2. /\ \A x \in Thread \ {th} : todo'[x] = todo[x]
        /\ Elems(todo[th]) = {st} \cup Elems(Tail(todo[th]))
        /\ Elems(todo'[th]) = Elems(m) \cup Elems(Tail(todo[th]))
    BY <1>1, ThenStep
  <1>3. Elems(Tail(todo[th])) \cap {"suspend", "suspend_http"} = {}
    BY <1>1, LaterSteps
  <1>4. "suspend_http" \notin Elems(m)
    BY InsertedSteps
  <1> QED BY <1>2, <1>3, <1>4 DEF Pops

(* The steps of the lists that are inserted.                               *)
LEMMA InsertedElems ==
    /\ Elems(<<>>) = {}
    /\ \A x \in Step : Elems(<<x>>) = {x}
    /\ Elems(Announce) = {"command", "notify", "wait"}
  BY DEF Elems, Announce

(* The place of a step, counted from the end, does not change.             *)
LEMMA FromEndThen ==
    ASSUME NEW q \in Seq(Step), q # <<>>, NEW m \in Seq(Step),
           NEW x, NEW n \in Nat, x \notin Elems(m), FromEnd(q, x, n)
    PROVE  FromEnd(m \o Tail(q), x, n)
  <1> DEFINE r == m \o Tail(q)
  <1>1. Len(q) \in Nat /\ Len(q) >= 1 /\ Len(m) \in Nat
    OBVIOUS
  <1> SUFFICES ASSUME NEW i \in 1 .. Len(r), r[i] = x
               PROVE  i = Len(r) - n
    BY DEF FromEnd
  <1>2. Len(r) = Len(m) + Len(q) - 1
    BY Concat
  <1>3. CASE i \in 1 .. Len(m)
    BY <1>3, Concat DEF Elems
  <1>4. CASE i \in Len(m) + 1 .. Len(m) + Len(q) - 1
    <2> DEFINE k == i - Len(m) + 1
    <2>1. k \in 1 .. Len(q) /\ q[k] = x
      BY <1>1, <1>4, Concat
    <2> HIDE DEF k, r
    <2>2. k = Len(q) - n
      BY <2>1 DEF FromEnd
    <2> QED BY <1>1, <1>2, <2>2 DEF k
  <1> HIDE DEF r
  <1> QED BY <1>1, <1>2, <1>3, <1>4

(* The positions of a list of no or one step.                              *)
LEMMA ShortLists ==
    ASSUME NEW q \in Seq(Step)
    PROVE  /\ Len(q) = 0 => DOMAIN q = {}
           /\ Len(q) = 1 => \A i \in DOMAIN q : i = 1
  <1>1. DOMAIN q = 1 .. Len(q)
    OBVIOUS
  <1> QED BY <1>1

(* A check that stops its client has only its resume left.                 *)
LEMMA ResumeIsLast ==
    ASSUME RelayValues, NEW th \in Thread, Doing(th, "stop"),
           FromEnd(todo[th], "stop", 1), Pending(th, "resume")
    PROVE  Elems(Tail(todo[th])) = {"resume"}
  <1> DEFINE q == todo[th]
  <1>1. q \in Seq(Step) /\ q # <<>> /\ Head(q) = "stop"
    BY DEF RelayValues, Doing, Idle
  <1>2. FromEnd(q, "stop", 1) /\ "resume" \in Elems(q)
    BY DEF Pending
  <1> HIDE DEF q
  <1>3. Len(q) \in Nat /\ 1 \in 1 .. Len(q) /\ q[1] = "stop"
    BY <1>1
  <1>4. Len(q) = 2
    <2>1. 1 = Len(q) - 1
      BY <1>2, <1>3 DEF FromEnd
    <2> QED BY <1>3, <2>1
  <1>5. "resume" \in Elems(Tail(q))
    BY <1>1, <1>2, ConcatElems
  <1>6. \A i \in DOMAIN Tail(q) : i = 1
    <2>1. Tail(q) \in Seq(Step) /\ Len(Tail(q)) = 1
      BY <1>1, <1>4
    <2> QED BY <2>1, ShortLists
  <1> QED BY <1>5, <1>6 DEF q, Elems

(* The same for a restart, which is the last thing the main task does.     *)
LEMMA RestartIsLast ==
    ASSUME RelayValues, PlanInv, Doing("main", "restart")
    PROVE  Elems(Tail(todo["main"])) = {} /\ Elems(todo["main"]) = {"restart"}
  <1> DEFINE q == todo["main"]
  <1>1. q \in Seq(Step) /\ q # <<>> /\ Head(q) = "restart"
    BY MainIsThread DEF RelayValues, Doing, Idle
  <1>2. FromEnd(q, "restart", 0)
    BY DEF PlanInv
  <1> HIDE DEF q
  <1>3. Len(q) \in Nat /\ 1 \in 1 .. Len(q) /\ q[1] = "restart"
    BY <1>1
  <1>4. Len(q) = 1
    BY <1>2, <1>3 DEF FromEnd
  <1>5. DOMAIN Tail(q) = {}
    <2>1. Tail(q) \in Seq(Step) /\ Len(Tail(q)) = 0
      BY <1>1, <1>4
    <2> QED BY <2>1, ShortLists
  <1>6. Elems(Tail(q)) = {}
    BY <1>5 DEF Elems
  <1>7. Elems(q) = {"restart"}
    BY <1>1, <1>6, ConcatElems, InsertedElems
  <1> QED BY <1>6, <1>7 DEF q

(* A step of a thread keeps the order of its steps.                        *)
LEMMA PlanThen ==
    ASSUME RelayValues, StepOrder, PlanInv,
           NEW th \in Thread, NEW st \in Step, Doing(th, st),
           NEW m \in Inserted, Then(th, m),
           m = <<"start">> => th = "main" /\ st = "restart",
           m = <<"clear">> => st = "stop",
           m = <<"set_started">> => st = "start"
    PROVE  PlanInv'
  <1>1. /\ todo[th] \in Seq(Step) /\ todo[th] # <<>>
        /\ ~Idle(th) /\ Head(todo[th]) = st
    BY DEF RelayValues, Doing, Idle
  <1>2. m \in Seq(Step)
    BY InsertedSteps
  <1>3. Elems(m) \cap {"suspend", "resume", "stop", "restart", "apply"} = {}
    BY InsertedElems DEF Inserted, Step
  <1>4. /\ "start" \in Elems(m) => th = "main" /\ st = "restart"
        /\ "clear" \in Elems(m) => st = "stop"
        /\ "set_started" \in Elems(m) => st = "start"
    BY InsertedElems DEF Inserted, Step
  <1>5. todo'[th] = m \o Tail(todo[th])
    BY DEF Then, RelayValues
  <1>6. \A x \in {"stop", "restart"} : \A n \in Nat :
            FromEnd(todo[th], x, n) => FromEnd(todo'[th], x, n)
    BY <1>1, <1>2, <1>3, <1>5, FromEndThen
  <1>7. Pops(th, st, Elems(m))
    BY DoStep
  <1>8. FromEnd(todo'["main"], "restart", 0)
    BY <1>6, <1>7, MainIsThread DEF PlanInv, Pops
  <1>9. "suspend" \in Elems(todo'["main"]) => Elems(todo'["main"]) = {"suspend"}
    BY <1>3, <1>7, MainIsThread DEF PlanInv, Pops, Pending
  <1>10. ~("start" \in Elems(todo'["main"]) /\ "restart" \in Elems(todo'["main"]))
    <2>1. CASE "start" \in Elems(m)
      <3>1. Elems(Tail(todo["main"])) = {}
        BY <1>4, <2>1, RestartIsLast
      <3>2. Elems(todo'["main"]) = Elems(m) \cup Elems(Tail(todo["main"]))
        BY <1>1, <1>4, <2>1, ThenStep
      <3> QED BY <1>3, <3>1, <3>2
    <2>2. CASE "start" \notin Elems(m)
      BY <1>3, <1>7, <2>2, MainIsThread DEF PlanInv, Pops, Pending
    <2> QED BY <2>1, <2>2
  <1>11. ASSUME NEW s \in Server
         PROVE  /\ FromEnd(todo'[s], "stop", 1)
                /\ "start" \in Elems(todo'[s]) => "stop" \in Elems(todo'[s])
                /\ "apply" \in Elems(todo'[s]) => "resume_http" \in Elems(todo'[s])
                /\ \A x \in {"stop", "clear", "set_started"} :
                      x \in Elems(todo'[s]) => "resume" \in Elems(todo'[s])
    <2>1. CASE s # th
      BY <1>7, <2>1, MainIsThread DEF PlanInv, Pops, Pending
    <2>2. CASE s = th
      <3>1. FromEnd(todo'[s], "stop", 1)
        BY <1>6, <2>2 DEF PlanInv
      <3>2. th # "main" /\ "start" \notin Elems(m)
        BY <1>4, <2>2, ServerAssumption
      <3>3. /\ Elems(todo[th]) = {st} \cup Elems(Tail(todo[th]))
            /\ Elems(todo'[th]) = Elems(m) \cup Elems(Tail(todo[th]))
        BY <1>1, ThenStep
      <3>4. st = "stop" => Elems(Tail(todo[th])) = {"resume"}
        BY <2>2, <3>3, ResumeIsLast DEF PlanInv, Pending
      <3>5. st \in {"resume", "resume_http"} => Elems(Tail(todo[th])) = {}
        BY <1>1, LaterSteps
      <3>6. "start" \in Elems(todo'[s]) => "stop" \in Elems(todo'[s])
        BY <2>2, <3>2, <3>3, <3>4 DEF PlanInv, Pending
      <3>7. ASSUME NEW x \in {"stop", "clear", "set_started"}, x \in Elems(todo'[s])
            PROVE  "resume" \in Elems(todo'[s])
        BY <1>3, <1>4, <2>2, <3>2, <3>3, <3>4, <3>5, <3>7 DEF PlanInv, Pending
      <3>8. "apply" \in Elems(todo'[s]) => "resume_http" \in Elems(todo'[s])
        BY <1>3, <2>2, <3>3, <3>5 DEF PlanInv, Pending
      <3> QED BY <3>1, <3>6, <3>7, <3>8
    <2> QED BY <2>1, <2>2
  <1> QED BY <1>8, <1>9, <1>10, <1>11 DEF PlanInv, Pending

(* What the handlers of the main task begin with.                          *)
LEMMA MainLists ==
    ASSUME NEW q \in {<<>>, <<"suspend">>, <<"resume">>, <<"stop", "restart">>,
                      <<"ack">>, <<"start", "ack">>, <<"stop", "ack">>}
    PROVE  /\ q \in Begun
           /\ FromEnd(q, "restart", 0)
           /\ "suspend" \in Elems(q) => Elems(q) = {"suspend"}
           /\ ~("start" \in Elems(q) /\ "restart" \in Elems(q))
  <1>1. q \in Begun
    BY DEF Begun
  <1>2. CASE q = <<>>
    BY <1>1, <1>2 DEF Elems, FromEnd
  <1>3. ASSUME NEW x \in {"suspend", "resume", "ack"}, q = <<x>>
        PROVE  /\ FromEnd(q, "restart", 0)
               /\ "suspend" \in Elems(q) => Elems(q) = {"suspend"}
               /\ ~("start" \in Elems(q) /\ "restart" \in Elems(q))
    BY <1>3 DEF Elems, FromEnd
  <1>4. ASSUME NEW x \in {"stop", "start"}, NEW y \in {"restart", "ack"}, q = <<x, y>>,
               x = "stop" \/ y = "ack"
        PROVE  /\ FromEnd(q, "restart", 0)
               /\ "suspend" \in Elems(q) => Elems(q) = {"suspend"}
               /\ ~("start" \in Elems(q) /\ "restart" \in Elems(q))
    BY <1>4 DEF Elems, FromEnd
  <1> QED BY <1>1, <1>2, <1>3, <1>4

(* What the handlers of the HTTP server begin with.                        *)
LEMMA ServerLists ==
    ASSUME NEW q \in {<<"start_timer">>, <<"suspend_http", "apply", "resume_http">>,
                      <<"suspend", "start", "await", "stop", "resume">>}
    PROVE  /\ q \in Begun
           /\ FromEnd(q, "stop", 1)
           /\ "start" \in Elems(q) => "stop" \in Elems(q)
           /\ "apply" \in Elems(q) => "resume_http" \in Elems(q)
           /\ \A x \in {"stop", "clear", "set_started"} :
                 x \in Elems(q) => "resume" \in Elems(q)
  <1>1. q \in Begun
    BY DEF Begun
  <1>2. CASE q = <<"start_timer">>
    BY <1>1, <1>2 DEF Elems, FromEnd
  <1>3. CASE q = <<"suspend_http", "apply", "resume_http">>
    BY <1>1, <1>3 DEF Elems, FromEnd
  <1>4. CASE q = <<"suspend", "start", "await", "stop", "resume">>
    <2>1. FromEnd(q, "stop", 1)
      BY <1>4 DEF FromEnd
    <2>2. 4 \in DOMAIN q /\ q[4] = "stop" /\ 5 \in DOMAIN q /\ q[5] = "resume"
      BY <1>4
    <2>3. "stop" \in Elems(q) /\ "resume" \in Elems(q)
      BY <2>2, Zenon DEF Elems
    <2>4. "apply" \notin Elems(q)
      BY <1>4 DEF Elems
    <2> QED BY <1>1, <2>1, <2>3, <2>4
  <1> QED BY <1>2, <1>3, <1>4

(* A handler begins with its list in that order.                           *)
LEMMA PlanBegin ==
    ASSUME RelayValues, PlanInv,
           NEW th \in Thread, NEW q, Begin(th, q),
           \/ th = "main" /\ q \in {<<>>, <<"suspend">>, <<"resume">>, <<"stop", "restart">>,
                                    <<"ack">>, <<"start", "ack">>, <<"stop", "ack">>}
           \/ th \in Server /\ q \in {<<"start_timer">>,
                                      <<"suspend_http", "apply", "resume_http">>,
                                      <<"suspend", "start", "await", "stop", "resume">>}
    PROVE  PlanInv'
  <1>1. q \in Begun
    BY MainLists, ServerLists
  <1>2. todo'[th] = q /\ \A x \in Thread \ {th} : todo'[x] = todo[x]
    BY <1>1, BegunSteps, BeginStep
  <1>3. /\ FromEnd(todo'["main"], "restart", 0)
        /\ "suspend" \in Elems(todo'["main"]) => Elems(todo'["main"]) = {"suspend"}
        /\ ~("start" \in Elems(todo'["main"]) /\ "restart" \in Elems(todo'["main"]))
    <2>1. CASE th = "main"
      BY <1>2, <2>1, MainLists, ServerAssumption
    <2>2. CASE th # "main"
      BY <1>2, <2>2, MainIsThread DEF PlanInv, Pending
    <2> QED BY <2>1, <2>2
  <1>4. ASSUME NEW s \in Server
        PROVE  /\ FromEnd(todo'[s], "stop", 1)
               /\ "start" \in Elems(todo'[s]) => "stop" \in Elems(todo'[s])
               /\ "apply" \in Elems(todo'[s]) => "resume_http" \in Elems(todo'[s])
               /\ \A x \in {"stop", "clear", "set_started"} :
                     x \in Elems(todo'[s]) => "resume" \in Elems(todo'[s])
    <2>1. CASE th = s
      BY <1>2, <2>1, ServerLists, ServerAssumption
    <2>2. CASE th # s
      BY <1>2, <2>2, MainIsThread DEF PlanInv, Pending
    <2> QED BY <2>1, <2>2
  <1> QED BY <1>3, <1>4 DEF PlanInv, Pending

(* The threads go on with what they were doing.                            *)
LEMMA PlanKept ==
    ASSUME PlanInv, UNCHANGED todo
    PROVE  PlanInv'
  BY DEF PlanInv, Pending

(* Every step keeps the order of what the threads do.                      *)
LEMMA PlanNext ==
  RelayValues /\ StepOrder /\ PlanInv /\ [Next]_vars => PlanInv'
  <1> SUFFICES ASSUME RelayValues /\ StepOrder /\ PlanInv,
                      [Next]_vars
               PROVE  PlanInv'
    OBVIOUS
  <1> USE DEF vars, main, threads, config, status, mqtt, adv
  <1>1. ASSUME NEW th \in Thread, Stop(th)
        PROVE  PlanInv'
    BY <1>1, MainIsThread, PlanThen
       DEF Stop, Inserted, Step
  <1>2. ASSUME NEW th \in Thread, ClearBits(th)
        PROVE  PlanInv'
    BY <1>2, MainIsThread, PlanThen
       DEF ClearBits, Inserted, Step
  <1>3. ASSUME NEW th \in Thread, StartAlreadyRunning(th)
        PROVE  PlanInv'
    BY <1>3, MainIsThread, PlanThen
       DEF StartAlreadyRunning, Inserted, Step
  <1>4. ASSUME NEW th \in Thread, StartClient(th)
        PROVE  PlanInv'
    BY <1>4, MainIsThread, PlanThen
       DEF StartClient, Inserted, Step
  <1>5. ASSUME NEW th \in Thread, SetStarted(th)
        PROVE  PlanInv'
    BY <1>5, MainIsThread, PlanThen
       DEF SetStarted, Inserted, Step
  <1>6. ASSUME NEW th \in Thread, StartFails(th)
        PROVE  PlanInv'
    BY <1>6, MainIsThread, PlanThen
       DEF StartFails, Inserted, Step
  <1>7. ASSUME NEW th \in Thread, Suspend(th)
        PROVE  PlanInv'
    BY <1>7, MainIsThread, PlanThen
       DEF Suspend, Announce, Inserted, Step
  <1>8. ASSUME NEW th \in Thread, Resume(th)
        PROVE  PlanInv'
    BY <1>8, MainIsThread, PlanThen
       DEF Resume, Announce, Inserted, Step
  <1>9. ASSUME NEW th \in Thread, SetCommand(th)
        PROVE  PlanInv'
    BY <1>9, MainIsThread, PlanThen
       DEF SetCommand, Inserted, Step
  <1>10. ASSUME NEW th \in Thread, Notify(th)
        PROVE  PlanInv'
    BY <1>10, MainIsThread, PlanThen
       DEF Notify, Inserted, Step
  <1>11. ASSUME NEW th \in Thread, WaitEnds(th)
        PROVE  PlanInv'
    BY <1>11, MainIsThread, PlanThen
       DEF WaitEnds, Inserted, Step
  <1>12. CASE ActivateCfgMode
    BY <1>12, MainIsThread, PlanBegin DEF ActivateCfgMode, Got
  <1>13. CASE DeactivateCfgMode
    <2>2. CASE Begin("main", <<"resume">>)
      BY <2>2, MainIsThread, PlanBegin
    <2>3. CASE UNCHANGED todo
      BY <2>3, PlanKept
    <2> QED BY <1>13, <2>2, <2>3 DEF DeactivateCfgMode
  <1>14. CASE RestartServices
    BY <1>14, MainIsThread, PlanBegin DEF RestartServices, Got
  <1>15. CASE RestartMqtt
    BY <1>15, MainIsThread, PlanThen
       DEF RestartMqtt, Inserted, Step
  <1>16. CASE RelayingModeChanged
    BY <1>16, MainIsThread, PlanBegin DEF RelayingModeChanged, Got
  <1>17. CASE Acknowledge
    BY <1>17, MainIsThread, PlanThen
       DEF Acknowledge, Inserted, Step
  <1>18. ASSUME NEW s \in Server, StartTimer(s)
        PROVE  PlanInv'
    BY <1>18, MainIsThread, PlanThen
       DEF StartTimer, Inserted, Step
  <1>19. ASSUME NEW s \in Server, SuspendHttp(s)
        PROVE  PlanInv'
    BY <1>19, MainIsThread, PlanThen
       DEF SuspendHttp, Inserted, Step
  <1>20. ASSUME NEW s \in Server, KeepCfg(s)
        PROVE  PlanInv'
    BY <1>20, MainIsThread, PlanThen
       DEF KeepCfg, Inserted, Step
  <1>21. ASSUME NEW s \in Server, SendRestart(s)
        PROVE  PlanInv'
    BY <1>21, MainIsThread, PlanThen
       DEF SendRestart, Inserted, Step
  <1>22. ASSUME NEW s \in Server, ResumeHttp(s)
        PROVE  PlanInv'
    BY <1>22, MainIsThread, PlanThen
       DEF ResumeHttp, Inserted, Step
  <1>23. ASSUME NEW s \in Server, CheckConcludes(s)
        PROVE  PlanInv'
    BY <1>23, MainIsThread, PlanThen
       DEF CheckConcludes, Inserted, Step
  <1>24. ASSUME NEW s \in Server, GetRuuviJson(s)
        PROVE  PlanInv'
    BY <1>24, MainIsThread, PlanBegin DEF GetRuuviJson
  <1>25. ASSUME NEW s \in Server, DownloadRemoteCfg(s)
        PROVE  PlanInv'
    BY <1>25, MainIsThread, PlanBegin DEF DownloadRemoteCfg
  <1>26. ASSUME NEW s \in Server, CheckMqtt(s)
        PROVE  PlanInv'
    BY <1>26, MainIsThread, PlanBegin DEF CheckMqtt
  <1>27. ASSUME NEW s \in Server, NEW c \in Cfg, ApplyRemoteCfg(s, c)
        PROVE  PlanInv'
    BY <1>27, MainIsThread, PlanThen
       DEF ApplyRemoteCfg, Install, Inserted, Step
  <1>28. ASSUME NEW s \in Server, NEW c \in Cfg, PostRuuviJson(s, c)
        PROVE  PlanInv'
    BY <1>28, MainIsThread, PlanBegin DEF PostRuuviJson, Install
  <1>29. CASE \/ \E x \in Sensor : RecvAdv(x)
              \/ TakeSignals \/ SetDefaultConfig \/ AdvTakeSignals
              \/ HandleRecvAdv \/ PublishAdv \/ HandleMqttConnected
              \/ HandleGwCfg \/ CfgModeTimerFires \/ EthernetConnected
              \/ OnConnected \/ OnDisconnected \/ UNCHANGED vars
    <2>1. UNCHANGED todo
      BY <1>29 DEF TakeSignals, SetDefaultConfig, AdvTakeSignals,
         HandleRecvAdv, AdvGot, EthernetConnected, PublishAdv, HandleMqttConnected,
         HandleGwCfg, CfgModeTimerFires, OnConnected, OnDisconnected, RecvAdv
    <2> QED BY <2>1, PlanKept
  <1> QED
    BY <1>1, <1>2, <1>3, <1>4, <1>5, <1>6, <1>7, <1>8, <1>9, <1>10, <1>11,
       <1>12, <1>13, <1>14, <1>15, <1>16, <1>17, <1>18, <1>19, <1>20,
       <1>21, <1>22, <1>23, <1>24, <1>25, <1>26, <1>27, <1>28, <1>29,
       MainIsThread, Zenon DEF Next, MainStep, ThreadStep,
       ServerContinues, ServerBegins, AdvStep, EnvStep

-----------------------------------------------------------------------------
(* What the steps other than those of the client, the counter and the main *)
(* task's decisions leave alone.                                           *)
CoreInv == TestInv /\ DecisionInv /\ ClientInv

(* Nothing the invariants speak of changes for the worse.                  *)
LEMMA CoreKept ==
    ASSUME CoreInv, UNCHANGED <<copy, gw_cfg, cfg_mode, cnt_suspended, mqtt_client>>,
           RestartComes => RestartComes', ModeChangeComes => ModeChangeComes',
           LookComes => LookComes',
           \A y \in {"start", "stop"} :
               y \in Elems(todo'["main"]) <=> y \in Elems(todo["main"]),
           "restart" \in Elems(todo'["main"]) => "restart" \in Elems(todo["main"]),
           \A s \in Server : "stop" \in Elems(todo[s]) =>
               /\ "stop" \in Elems(todo'[s])
               /\ "resume" \in Elems(todo[s]) => "resume" \in Elems(todo'[s])
               /\ "suspend" \in Elems(todo'[s]) => "suspend" \in Elems(todo[s])
    PROVE  CoreInv'
  <1>1. TestInv'
    BY DEF CoreInv, TestInv, Pending
  <1>2. DecisionInv'
    BY DEF CoreInv, DecisionInv, Configured, Pending
  <1>3. ClientInv'
    BY DEF CoreInv, ClientInv, Configured, Pending
  <1> QED BY <1>1, <1>2, <1>3 DEF CoreInv

(* What is to come stays to come.                                          *)
LEMMA ComesThen ==
    ASSUME NEW th \in Thread, NEW st, NEW new, Pops(th, st, new),
           main_sig \cup main_cur \subseteq main_sig' \cup main_cur'
    PROVE  /\ st # "notify" => (ModeChangeComes => ModeChangeComes')
           /\ st \notin {"restart", "send_restart"} => (RestartComes => RestartComes')
           /\ st \notin {"notify", "resume_http"} => (LookComes => LookComes')
  <1>1. ASSUME st # "notify", ModeChangeComes
        PROVE  ModeChangeComes'
    <2>1. CASE "RELAYING_MODE_CHANGED" \in main_sig \cup main_cur
      BY <2>1 DEF ModeChangeComes
    <2>2. ASSUME NEW x \in Thread, "notify" \in Elems(todo[x])
          PROVE  ModeChangeComes'
      <3>1. "notify" \in Elems(todo'[x])
        BY <1>1, <2>2 DEF Pops
      <3> QED BY <3>1 DEF ModeChangeComes, Pending
    <2> QED BY <1>1, <2>1, <2>2 DEF ModeChangeComes, Pending
  <1>2. ASSUME st \notin {"restart", "send_restart"}, RestartComes
        PROVE  RestartComes'
    <2>1. CASE "RESTART_SERVICES" \in main_sig \cup main_cur
      BY <2>1 DEF RestartComes
    <2>2. CASE "restart" \in Elems(todo["main"])
      <3>1. "restart" \in Elems(todo'["main"])
        BY <1>2, <2>2, MainIsThread DEF Pops
      <3> QED BY <3>1 DEF RestartComes, Pending
    <2>3. ASSUME NEW s \in Server, "send_restart" \in Elems(todo[s])
          PROVE  RestartComes'
      <3>1. "send_restart" \in Elems(todo'[s])
        BY <1>2, <2>3, MainIsThread DEF Pops
      <3> QED BY <3>1 DEF RestartComes, Pending
    <2> QED BY <1>2, <2>1, <2>2, <2>3 DEF RestartComes, Pending
  <1>3. ASSUME st # "resume_http", NEW s \in Downloading
        PROVE  Downloading' # {}
    <2>1. s \in Server /\ "resume_http" \in Elems(todo[s]) /\ "suspend_http" \notin Elems(todo[s])
      BY DEF Downloading, Pending
    <2>2. "resume_http" \in Elems(todo'[s]) /\ "suspend_http" \notin Elems(todo'[s])
      BY <1>3, <2>1, MainIsThread DEF Pops
    <2> QED BY <2>1, <2>2 DEF Downloading, Pending
  <1> QED BY <1>1, <1>2, <1>3 DEF LookComes

(* The same when an idle thread begins something.                          *)
LEMMA ComesBegin ==
    ASSUME NEW th \in Thread, Elems(todo[th]) = {},
           \A x \in Thread \ {th} : todo'[x] = todo[x]
    PROVE  /\ ("RELAYING_MODE_CHANGED" \in main_sig \cup main_cur
                  => "RELAYING_MODE_CHANGED" \in main_sig' \cup main_cur')
                => (ModeChangeComes => ModeChangeComes') /\ (LookComes => LookComes')
           /\ ("RESTART_SERVICES" \in main_sig \cup main_cur
                  => "RESTART_SERVICES" \in main_sig' \cup main_cur')
                => (RestartComes => RestartComes')
  <1>1. ASSUME NEW x \in Thread, NEW y \in Elems(todo[x]) PROVE y \in Elems(todo'[x])
    BY <1>1
  <1>2. ASSUME "RELAYING_MODE_CHANGED" \in main_sig \cup main_cur
                  => "RELAYING_MODE_CHANGED" \in main_sig' \cup main_cur',
               ModeChangeComes
        PROVE  ModeChangeComes'
    BY <1>1, <1>2 DEF ModeChangeComes, Pending
  <1>3. ASSUME "RESTART_SERVICES" \in main_sig \cup main_cur
                  => "RESTART_SERVICES" \in main_sig' \cup main_cur',
               RestartComes
        PROVE  RestartComes'
    BY <1>1, <1>3, MainIsThread DEF RestartComes, Pending
  <1>4. Downloading \subseteq Downloading'
    BY MainIsThread DEF Downloading, Pending
  <1> QED BY <1>2, <1>3, <1>4 DEF LookComes

(* Steps that concern neither the client nor the counter.                  *)
LEMMA PlainThen ==
    ASSUME RelayValues, StepOrder, CoreInv,
           UNCHANGED <<main_sig, main_cur, copy, gw_cfg, cfg_mode, cnt_suspended, mqtt_client>>,
           NEW th \in Thread,
           NEW st \in Step \ {"start", "stop", "restart", "notify", "send_restart",
                              "suspend", "resume", "resume_http"},
           Doing(th, st), NEW m \in Inserted \ {<<"start">>}, Then(th, m)
    PROVE  CoreInv'
  <1>1. Pops(th, st, Elems(m))
    BY DoStep
  <1>2. Elems(m) \cap {"suspend", "resume", "stop", "restart", "start"} = {}
    BY InsertedElems DEF Inserted, Step
  <1>3. /\ RestartComes => RestartComes'
        /\ ModeChangeComes => ModeChangeComes'
        /\ LookComes => LookComes'
    BY <1>1, ComesThen
  <1>4. \A x \in Thread : \A y \in {"start", "stop", "restart", "resume"} :
            y \in Elems(todo'[x]) <=> y \in Elems(todo[x])
    BY <1>1, <1>2 DEF Pops
  <1>5. \A x \in Thread : "suspend" \in Elems(todo'[x]) => "suspend" \in Elems(todo[x])
    BY <1>1, <1>2 DEF Pops
  <1> QED BY <1>3, <1>4, <1>5, MainIsThread, CoreKept

(* Handlers of the HTTP server that leave the configuration alone.         *)
LEMMA PlainBegin ==
    ASSUME RelayValues, CoreInv,
           UNCHANGED <<copy, gw_cfg, cfg_mode, cnt_suspended, mqtt_client>>,
           main_sig \cup main_cur \subseteq main_sig' \cup main_cur',
           NEW s \in Server, Idle(s), NEW q \in Begun, Begin(s, q)
    PROVE  CoreInv'
  <1>1. s \in Thread /\ s # "main" /\ Elems(todo[s]) = {}
    BY MainIsThread, ServerAssumption, InsertedElems DEF Idle
  <1>2. \A x \in Thread \ {s} : todo'[x] = todo[x]
    BY <1>1, BegunSteps, BeginStep
  <1>3. /\ RestartComes => RestartComes'
        /\ ModeChangeComes => ModeChangeComes'
        /\ LookComes => LookComes'
    BY <1>1, <1>2, ComesBegin
  <1> QED BY <1>1, <1>2, <1>3, MainIsThread, CoreKept

(* Somebody who has suspended relaying is counted.                         *)
LEMMA SuspendersCount ==
    ASSUME RelayInv
    PROVE  /\ cnt_suspended \in Nat
           /\ \A s \in Server : Pending(s, "resume") /\ ~Pending(s, "suspend")
                                   => cnt_suspended > 0
           /\ cfg_mode /\ ~Pending("main", "suspend") => cnt_suspended > 0
  <1>1. cnt_suspended = Cardinality(Suspenders) /\ IsFiniteSet(Suspenders)
    BY SuspenderCount DEF RelayInv, SuspendInv, SuspensionsBalanced
  <1>2. cnt_suspended \in Nat /\ (Suspenders # {} => cnt_suspended > 0)
    BY <1>1, FS_EmptySet, FS_CardinalityType
  <1> QED BY <1>2 DEF Suspenders

(* A thread that has gone beyond its first step does not suspend any more. *)
LEMMA NotSuspending ==
    ASSUME RelayInv, NEW th \in Thread, NEW st, Doing(th, st), st # "suspend"
    PROVE  ~Pending(th, "suspend")
  <1>1. ~Idle(th) /\ Head(todo[th]) = st /\ todo[th] \in Seq(Step) /\ todo[th] # <<>>
    BY DEF Doing, Idle, RelayInv, RelayValues
  <1>2. "suspend" \notin Elems(Tail(todo[th]))
    BY <1>1, LaterSteps DEF RelayInv
  <1>3. Elems(todo[th]) = {st} \cup Elems(Tail(todo[th]))
    BY <1>1, InsertedSteps, ConcatElems DEF Inserted
  <1> QED BY <1>2, <1>3 DEF Pending

(* When a download ends, it announces the change, or relaying via HTTP is  *)
(* still suspended.                                                        *)
LEMMA LastDownload ==
    ASSUME RelayInv, NEW s \in Server, Doing(s, "resume_http"),
           NEW new, Pops(s, "resume_http", new), CntHttpSuspended = 1 => "notify" \in new
    PROVE  \/ \E th \in Thread : Pending(th, "notify")'
           \/ cnt_suspended > 0
           \/ Downloading' # {}
  <1> SUFFICES ASSUME "notify" \notin new, ~(cnt_suspended > 0)
               PROVE  Downloading' # {}
    <2>1. "notify" \in new => "notify" \in Elems(todo'[s])
      BY DEF Pops
    <2> QED BY <2>1, MainIsThread DEF Pending
  <1>1. cnt_suspended = 0
    BY SuspendersCount
  <1>2. Cardinality(Downloading) # 1
    <2>1. CntHttpSuspended # 1
      OBVIOUS
    <2>2. IsFiniteSet(Downloading)
      BY ServerAssumption, FS_Subset DEF Downloading
    <2> QED BY <1>1, <2>1, <2>2, FS_CardinalityType DEF CntHttpSuspended
  <1>3. "resume_http" \in Elems(todo[s]) /\ "suspend_http" \notin Elems(todo[s])
    <2>1. ~Idle(s) /\ Head(todo[s]) = "resume_http" /\ s \in Thread
      BY MainIsThread DEF Doing
    <2>2. Elems(Tail(todo[s])) = {}
      BY <2>1, LaterSteps DEF RelayInv
    <2>3. todo[s] \in Seq(Step) /\ todo[s] # <<>>
      BY <2>1 DEF RelayInv, RelayValues, Idle
    <2>4. Elems(todo[s]) = {"resume_http"} \cup Elems(Tail(todo[s]))
      BY <2>1, <2>3, InsertedSteps, ConcatElems DEF Inserted
    <2> QED BY <2>2, <2>4
  <1>4. PICK x \in Downloading : x # s
    <2>1. s \in Downloading
      BY <1>3 DEF Downloading, Pending
    <2>2. Downloading # {s}
      BY <1>2, FS_Singleton
    <2> QED BY <2>1, <2>2
  <1>5. x \in Server /\ todo'[x] = todo[x]
    BY <1>4, MainIsThread DEF Downloading, Pops
  <1> QED BY <1>4, <1>5 DEF Downloading, Pending

(* mqtt_app_stop by whoever no longer needs the client.                    *)
LEMMA StopStep ==
    ASSUME RelayInv, PlanInv, CoreInv, NEW th \in Thread, Stop(th)
    PROVE  CoreInv'
  <1>1. /\ Doing(th, "stop") /\ Then(th, <<"clear">>) /\ mqtt_client' = "NULL"
        /\ UNCHANGED <<main_sig, main_cur, copy, gw_cfg, cfg_mode, cnt_suspended>>
    BY DEF Stop, main, config, status
  <1>2. Pops(th, "stop", {"clear"})
    <2>1. <<"clear">> \in Inserted /\ Elems(<<"clear">>) = {"clear"}
      BY InsertedElems DEF Inserted, Step
    <2>2. Pops(th, "stop", Elems(<<"clear">>))
      BY <1>1, <2>1, DoStep DEF RelayInv
    <2> QED BY <2>1, <2>2
  <1>3. /\ RestartComes => RestartComes'
        /\ ModeChangeComes => ModeChangeComes'
        /\ LookComes => LookComes'
    BY <1>1, <1>2, ComesThen
  <1>4. \A y \in {"start", "stop"} : y \in Elems(todo'["main"]) => y \in Elems(todo["main"])
    BY <1>2, MainIsThread DEF Pops
  <1>5. "start" \in Elems(todo["main"]) => "start" \in Elems(todo'["main"])
    BY <1>2, MainIsThread DEF Pops
  <1>6. mqtt_client' # TestBroker /\ ~Configured'
    BY <1>1, BrokerAssumption DEF Configured
  <1>7. cnt_suspended = 0 /\ gw_cfg.mqtt => ModeChangeComes \/ RestartComes
    <2>1. CASE th = "main"
      <3>1. Pending("main", "stop")
        BY <1>2, <2>1 DEF Pops, Pending
      <3> QED BY <3>1 DEF CoreInv, DecisionInv
    <2>2. CASE th \in Server
      <3>1. Pending(th, "resume") /\ ~Pending(th, "suspend")
        BY <1>1, <1>2, <2>2, NotSuspending DEF PlanInv, Pops, Pending
      <3> QED BY <2>2, <3>1, SuspendersCount
    <2> QED BY <2>1, <2>2 DEF Thread
  <1>8. TestInv'
    BY <1>1, <1>6 DEF CoreInv, TestInv
  <1>9. DecisionInv'
    BY <1>1, <1>3, <1>4, <1>6 DEF CoreInv, DecisionInv, Pending
  <1>10. ClientInv'
    BY <1>1, <1>3, <1>6, <1>7 DEF ClientInv
  <1> QED BY <1>8, <1>9, <1>10 DEF CoreInv

(* The thread of a check goes on with its own list only.                   *)
LEMMA OthersKept ==
    ASSUME NEW th \in Thread, NEW st, NEW new, Pops(th, st, new),
           new \cap {"suspend", "resume", "stop", "start", "restart"} = {},
           st \notin {"resume", "stop"}, TestInv,
           UNCHANGED <<copy, mqtt_client>>
    PROVE  TestInv'
  <1> SUFFICES ASSUME mqtt_client = TestBroker
               PROVE  \E s \in Server : /\ "stop" \in Elems(todo'[s])
                                        /\ "resume" \in Elems(todo'[s])
                                        /\ "suspend" \notin Elems(todo'[s])
    BY DEF TestInv, Pending
  <1>1. PICK s \in Server : /\ "stop" \in Elems(todo[s]) /\ "resume" \in Elems(todo[s])
                            /\ "suspend" \notin Elems(todo[s])
    BY DEF TestInv, Pending
  <1> QED BY <1>1, MainIsThread DEF Pops

(* mqtt_app_start finds a client running and leaves it alone.              *)
LEMMA RunningStep ==
    ASSUME RelayInv, PlanInv, CoreInv, NEW th \in Thread, StartAlreadyRunning(th)
    PROVE  CoreInv'
  <1>1. /\ Doing(th, "start") /\ Then(th, <<>>) /\ mqtt_client # "NULL"
        /\ UNCHANGED <<main_sig, main_cur, copy, gw_cfg, cfg_mode, cnt_suspended, mqtt_client>>
    BY DEF StartAlreadyRunning, main, config, status, mqtt
  <1>2. Pops(th, "start", {})
    BY <1>1, DoStep, InsertedElems DEF RelayInv, Inserted
  <1>3. /\ RestartComes => RestartComes'
        /\ ModeChangeComes => ModeChangeComes'
        /\ LookComes => LookComes'
    BY <1>1, <1>2, ComesThen
  <1>4. /\ \A y \in {"start", "stop", "restart"} :
              y \in Elems(todo'["main"]) => y \in Elems(todo["main"])
        /\ "stop" \in Elems(todo["main"]) => "stop" \in Elems(todo'["main"])
    BY <1>2, MainIsThread DEF Pops
  <1>5. TestInv'
    BY <1>1, <1>2, OthersKept DEF CoreInv
  <1>6. DecisionInv'
    BY <1>1, <1>3, <1>4 DEF CoreInv, DecisionInv, Configured, Pending
  <1>7. ClientInv'
    BY <1>1, <1>3, <1>4 DEF CoreInv, ClientInv, Configured, Pending
  <1> QED BY <1>5, <1>6, <1>7 DEF CoreInv

(* mqtt_app_start: the main task starts the configured server, a check the *)
(* one under test, which it will stop.                                     *)
LEMMA StartStep ==
    ASSUME RelayInv, PlanInv, CoreInv, NEW th \in Thread, StartClient(th)
    PROVE  CoreInv'
  <1>1. /\ Doing(th, "start") /\ Then(th, <<"set_started">>)
        /\ mqtt_client' = Wanted(th) /\ Wanted(th) # Invalid
        /\ UNCHANGED <<main_sig, main_cur, copy, gw_cfg, cfg_mode, cnt_suspended>>
    BY DEF StartClient, main, config, status
  <1>2. Pops(th, "start", {"set_started"})
    <2>1. <<"set_started">> \in Inserted /\ Elems(<<"set_started">>) = {"set_started"}
      BY InsertedElems DEF Inserted, Step
    <2>2. Pops(th, "start", Elems(<<"set_started">>))
      BY <1>1, <2>1, DoStep DEF RelayInv
    <2> QED BY <2>1, <2>2
  <1>3. /\ RestartComes => RestartComes'
        /\ ModeChangeComes => ModeChangeComes'
        /\ LookComes => LookComes'
    BY <1>1, <1>2, ComesThen
  <1>4. /\ \A y \in {"start", "stop", "restart"} :
              y \in Elems(todo'["main"]) => y \in Elems(todo["main"])
        /\ "stop" \in Elems(todo["main"]) => "stop" \in Elems(todo'["main"])
    BY <1>2, MainIsThread DEF Pops
  <1>5. CASE th = "main"
    <2>1. mqtt_client' = copy /\ copy # TestBroker /\ copy # "NULL"
      BY <1>1, <1>5, BrokerAssumption
         DEF Wanted, CoreInv, TestInv, RelayInv, RelayValues
    <2>2. Pending("main", "start") /\ ~Pending("main", "restart")
      BY <1>2, <1>5 DEF Pops, Pending, PlanInv
    <2>3. TestInv'
      BY <1>1, <2>1 DEF TestInv
    <2>4. DecisionInv'
      BY <1>1, <1>3, <1>4, <2>2 DEF CoreInv, DecisionInv, Pending
    <2>5. ClientInv'
      BY <1>1, <1>3, <2>1, <2>2 DEF CoreInv, DecisionInv, ClientInv, Configured
    <2> QED BY <2>3, <2>4, <2>5 DEF CoreInv
  <1>6. CASE th \in Server
    <2>1. mqtt_client' = TestBroker /\ TestBroker # "NULL"
      BY <1>1, <1>6, ServerAssumption, BrokerAssumption DEF Wanted
    <2>2. "stop" \in Elems(todo[th]) /\ "resume" \in Elems(todo[th])
      BY <1>2, <1>6 DEF Pops, PlanInv, Pending
    <2>3. /\ "stop" \in Elems(todo'[th]) /\ "resume" \in Elems(todo'[th])
          /\ "suspend" \notin Elems(todo'[th])
      BY <1>2, <2>2 DEF Pops
    <2>4. TestInv'
      BY <1>1, <1>6, <2>3 DEF CoreInv, TestInv, Pending
    <2>5. DecisionInv'
      BY <1>1, <1>3, <1>4, <2>1 DEF CoreInv, DecisionInv, Configured, Pending
    <2>6. ClientInv'
      BY <2>1 DEF ClientInv, Configured
    <2> QED BY <2>4, <2>5, <2>6 DEF CoreInv
  <1> QED BY <1>5, <1>6 DEF Thread

(* mqtt_app_start without a usable server: nothing more is to come.        *)
LEMMA FailStep ==
    ASSUME CfgIsGuarded, RelayInv, PlanInv, CoreInv, NEW th \in Thread, StartFails(th)
    PROVE  CoreInv'
  <1>1. /\ Doing(th, "start") /\ Then(th, <<>>)
        /\ mqtt_client = "NULL" /\ Wanted(th) = Invalid
        /\ UNCHANGED <<main_sig, main_cur, copy, gw_cfg, cfg_mode, cnt_suspended, mqtt_client>>
    BY DEF StartFails, CfgIsGuarded, main, config, status
  <1>2. Pops(th, "start", {})
    BY <1>1, DoStep, InsertedElems DEF RelayInv, Inserted
  <1>3. /\ RestartComes => RestartComes'
        /\ ModeChangeComes => ModeChangeComes'
        /\ LookComes => LookComes'
    BY <1>1, <1>2, ComesThen
  <1>4. \A y \in {"start", "stop", "restart"} :
              y \in Elems(todo'["main"]) => y \in Elems(todo["main"])
    BY <1>2, MainIsThread DEF Pops
  <1>5. th = "main" /\ copy = Invalid /\ Pending("main", "start")
    BY <1>1, <1>2, BrokerAssumption DEF Wanted, Thread, Pops, Pending
  <1>6. mqtt_client' # TestBroker /\ ~Configured'
    BY <1>1, BrokerAssumption DEF Configured
  <1>7. TestInv'
    BY <1>1, <1>6 DEF CoreInv, TestInv
  <1>8. DecisionInv'
    BY <1>1, <1>3, <1>4, <1>6 DEF CoreInv, DecisionInv, Pending
  <1>9. ClientInv'
    BY <1>1, <1>3, <1>5, <1>6 DEF CoreInv, ClientInv, DecisionInv
  <1> QED BY <1>7, <1>8, <1>9 DEF CoreInv

(* The first suspension is announced to the main task.                     *)
LEMMA SuspendStep ==
    ASSUME RelayInv, PlanInv, CoreInv, NEW th \in Thread, Suspend(th)
    PROVE  CoreInv'
  <1> DEFINE m == IF cnt_suspended = 0 THEN Announce ELSE <<>>
  <1>1. /\ Doing(th, "suspend") /\ Then(th, m) /\ m \in Inserted
        /\ cnt_suspended' = cnt_suspended + 1
        /\ UNCHANGED <<main_sig, main_cur, copy, gw_cfg, cfg_mode, mqtt_client>>
    BY DEF Suspend, Inserted, main, config, mqtt
  <1>2. /\ Elems(m) \cap {"suspend", "resume", "stop", "start", "restart"} = {}
        /\ cnt_suspended = 0 => "notify" \in Elems(m)
    BY InsertedElems
  <1> HIDE DEF m
  <1>3. Pops(th, "suspend", Elems(m))
    BY <1>1, DoStep DEF RelayInv
  <1>4. /\ RestartComes => RestartComes'
        /\ ModeChangeComes => ModeChangeComes'
        /\ LookComes => LookComes'
    BY <1>1, <1>3, ComesThen
  <1>5. cnt_suspended = 0 => ModeChangeComes'
    <2>1. cnt_suspended = 0 => "notify" \in Elems(todo'[th])
      BY <1>2, <1>3 DEF Pops
    <2> QED BY <2>1 DEF ModeChangeComes, Pending
  <1>6. cnt_suspended \in Nat
    BY SuspendersCount
  <1>7. \A y \in {"start", "stop", "restart"} :
            y \in Elems(todo'["main"]) <=> y \in Elems(todo["main"])
    BY <1>2, <1>3, MainIsThread DEF Pops
  <1>8. TestInv'
    BY <1>1, <1>2, <1>3, OthersKept DEF CoreInv
  <1>9. DecisionInv'
    BY <1>1, <1>4, <1>5, <1>6, <1>7 DEF CoreInv, DecisionInv, Configured, Pending
  <1>10. ClientInv'
    BY <1>1, <1>4, <1>5, <1>6, <1>7 DEF CoreInv, ClientInv, Configured, Pending
  <1> QED BY <1>8, <1>9, <1>10 DEF CoreInv

(* So is the last resumption.                                              *)
LEMMA ResumeStep ==
    ASSUME RelayInv, PlanInv, CoreInv, NEW th \in Thread, Resume(th)
    PROVE  CoreInv'
  <1> DEFINE m == IF cnt_suspended = 1 THEN Announce ELSE <<>>
  <1>1. /\ Doing(th, "resume") /\ Then(th, m) /\ m \in Inserted
        /\ cnt_suspended' = IF cnt_suspended = 0 THEN 0 ELSE cnt_suspended - 1
        /\ UNCHANGED <<main_sig, main_cur, copy, gw_cfg, cfg_mode, mqtt_client>>
    BY DEF Resume, Inserted, main, config, mqtt
  <1>2. /\ Elems(m) \cap {"suspend", "resume", "stop", "start", "restart"} = {}
        /\ cnt_suspended = 1 => "notify" \in Elems(m)
    BY InsertedElems
  <1> HIDE DEF m
  <1>3. Pops(th, "resume", Elems(m))
    BY <1>1, DoStep DEF RelayInv
  <1>4. /\ RestartComes => RestartComes'
        /\ ModeChangeComes => ModeChangeComes'
        /\ LookComes => LookComes'
    BY <1>1, <1>3, ComesThen
  <1>5. cnt_suspended = 1 => ModeChangeComes'
    <2>1. cnt_suspended = 1 => "notify" \in Elems(todo'[th])
      BY <1>2, <1>3 DEF Pops
    <2> QED BY <2>1 DEF ModeChangeComes, Pending
  <1>6. cnt_suspended \in Nat
    BY SuspendersCount
  <1>7. \A y \in {"start", "stop", "restart"} :
            y \in Elems(todo'["main"]) <=> y \in Elems(todo["main"])
    BY <1>2, <1>3, MainIsThread DEF Pops
  <1>8. TestInv'
    <2>1. Elems(todo[th]) = {"resume"}
      <3>1. ~Idle(th) /\ Head(todo[th]) = "resume"
        BY <1>1 DEF Doing
      <3>2. Elems(todo[th]) = {"resume"} \cup Elems(Tail(todo[th]))
        BY <1>1, <3>1, ThenStep DEF RelayInv
      <3>3. Elems(Tail(todo[th])) = {}
        BY <3>1, LaterSteps DEF RelayInv
      <3> QED BY <3>2, <3>3
    <2>2. \A s \in Server : "stop" \in Elems(todo[s]) => todo'[s] = todo[s]
      BY <1>3, <2>1, MainIsThread DEF Pops
    <2> QED BY <1>1, <2>2 DEF CoreInv, TestInv, Pending
  <1>9. CASE cnt_suspended = 1
    <2>1. cnt_suspended' = 0
      BY <1>1, <1>9
    <2>2. DecisionInv'
      BY <1>1, <1>4, <1>5, <1>7, <1>9 DEF CoreInv, DecisionInv, Configured, Pending
    <2>3. ClientInv'
      BY <1>1, <1>4, <1>5, <1>7, <1>9, <2>1 DEF CoreInv, ClientInv, Configured, Pending
    <2> QED BY <1>8, <2>2, <2>3 DEF CoreInv
  <1>10. CASE cnt_suspended # 1
    <2>1. cnt_suspended' \in Nat /\ (cnt_suspended' > 0 <=> cnt_suspended > 0)
      BY <1>1, <1>6, <1>10
    <2>2. DecisionInv'
      BY <1>1, <1>4, <1>7, <2>1 DEF CoreInv, DecisionInv, Configured, Pending
    <2>3. ClientInv'
      BY <1>1, <1>4, <1>6, <1>7, <2>1 DEF CoreInv, ClientInv, Configured, Pending
    <2> QED BY <1>8, <2>2, <2>3 DEF CoreInv
  <1> QED BY <1>9, <1>10

(* The announcement reaches the main task.                                 *)
LEMMA NotifyStep ==
    ASSUME RelayInv, CoreInv, NEW th \in Thread, Notify(th)
    PROVE  CoreInv'
  <1>1. /\ Doing(th, "notify") /\ Then(th, <<>>)
        /\ main_sig' = main_sig \cup {"RELAYING_MODE_CHANGED"}
        /\ UNCHANGED <<main_cur, copy, gw_cfg, cfg_mode, cnt_suspended, mqtt_client>>
    BY DEF Notify, config, status, mqtt
  <1>2. Pops(th, "notify", {})
    BY <1>1, DoStep, InsertedElems DEF RelayInv, Inserted
  <1>3. RestartComes => RestartComes'
    BY <1>1, <1>2, ComesThen
  <1>4. ModeChangeComes' /\ LookComes'
    BY <1>1 DEF ModeChangeComes, LookComes
  <1>5. \A x \in Thread : \A y \in {"start", "stop", "restart", "resume"} :
            y \in Elems(todo'[x]) <=> y \in Elems(todo[x])
    BY <1>2 DEF Pops
  <1>6. \A x \in Thread : "suspend" \in Elems(todo'[x]) => "suspend" \in Elems(todo[x])
    BY <1>2 DEF Pops
  <1> QED BY <1>1, <1>3, <1>4, <1>5, <1>6, MainIsThread, CoreKept

(* The restart a remote configuration asks for reaches the main task.      *)
LEMMA SendStep ==
    ASSUME RelayInv, CoreInv, NEW s \in Server, SendRestart(s)
    PROVE  CoreInv'
  <1>1. /\ Doing(s, "send_restart") /\ Then(s, <<>>)
        /\ main_sig' = main_sig \cup {"RESTART_SERVICES"}
        /\ UNCHANGED <<main_cur, copy, gw_cfg, cfg_mode, cnt_suspended, mqtt_client>>
    BY DEF SendRestart, config, status, mqtt
  <1>2. Pops(s, "send_restart", {})
    BY <1>1, DoStep, InsertedElems, MainIsThread DEF RelayInv, Inserted
  <1>3. (ModeChangeComes => ModeChangeComes') /\ (LookComes => LookComes')
    BY <1>1, <1>2, ComesThen, MainIsThread
  <1>4. RestartComes'
    BY <1>1 DEF RestartComes
  <1>5. \A x \in Thread : \A y \in {"start", "stop", "restart", "resume"} :
            y \in Elems(todo'[x]) <=> y \in Elems(todo[x])
    BY <1>2 DEF Pops
  <1>6. \A x \in Thread : "suspend" \in Elems(todo'[x]) => "suspend" \in Elems(todo[x])
    BY <1>2 DEF Pops
  <1> QED BY <1>1, <1>3, <1>4, <1>5, <1>6, MainIsThread, CoreKept

(* The last one who resumes relaying via HTTP makes the main task look;    *)
(* while MQTT is suspended as well, that look is still to come.            *)
LEMMA ResumeHttpStep ==
    ASSUME RelayInv, CoreInv, NEW s \in Server, ResumeHttp(s)
    PROVE  CoreInv'
  <1> DEFINE m == IF CntHttpSuspended = 1 THEN <<"notify">> ELSE <<>>
  <1>1. /\ Doing(s, "resume_http") /\ Then(s, m) /\ m \in Inserted
        /\ UNCHANGED <<main_sig, main_cur, copy, gw_cfg, cfg_mode, cnt_suspended, mqtt_client>>
    BY DEF ResumeHttp, Inserted, main, config, status, mqtt
  <1>2. /\ Elems(m) \cap {"suspend", "resume", "stop", "start", "restart"} = {}
        /\ CntHttpSuspended = 1 => "notify" \in Elems(m)
    BY InsertedElems DEF Step
  <1> HIDE DEF m
  <1>3. Pops(s, "resume_http", Elems(m))
    BY <1>1, MainIsThread, DoStep DEF RelayInv
  <1>4. (RestartComes => RestartComes') /\ (ModeChangeComes => ModeChangeComes')
    BY <1>1, <1>3, MainIsThread, ComesThen
  <1>5. LookComes' \/ cnt_suspended > 0
    BY <1>1, <1>2, <1>3, LastDownload DEF LookComes, ModeChangeComes
  <1>6. \A x \in Thread : \A y \in {"start", "stop", "restart", "resume"} :
            y \in Elems(todo'[x]) <=> y \in Elems(todo[x])
    BY <1>2, <1>3 DEF Pops
  <1>7. \A x \in Thread : "suspend" \in Elems(todo'[x]) => "suspend" \in Elems(todo[x])
    BY <1>2, <1>3 DEF Pops
  <1>8. TestInv'
    BY <1>1, <1>6, <1>7, MainIsThread DEF CoreInv, TestInv, Pending
  <1>9. DecisionInv'
    BY <1>1, <1>4, <1>6, MainIsThread DEF CoreInv, DecisionInv, Configured, Pending
  <1>10. ClientInv'
    <2>1. Configured => LookComes' \/ "stop" \in Elems(todo'["main"])
      BY <1>4, <1>5, <1>6, MainIsThread DEF CoreInv, ClientInv, LookComes, Pending
    <2> QED BY <1>1, <1>4, <1>6, <2>1, MainIsThread
            DEF CoreInv, ClientInv, Configured, Pending
  <1> QED BY <1>8, <1>9, <1>10 DEF CoreInv

(* A remote configuration comes with a restart of the services.            *)
LEMMA ApplyStep ==
    ASSUME RelayInv, CoreInv, NEW s \in Server, NEW c \in Cfg, ApplyRemoteCfg(s, c)
    PROVE  CoreInv'
  <1>1. /\ Doing(s, "apply") /\ Then(s, <<"send_restart">>)
        /\ UNCHANGED <<main_sig, main_cur, copy, cfg_mode, cnt_suspended, mqtt_client>>
    BY DEF ApplyRemoteCfg, Install, main, status, mqtt
  <1>2. Pops(s, "apply", {"send_restart"})
    <2>1. <<"send_restart">> \in Inserted /\ Elems(<<"send_restart">>) = {"send_restart"}
      BY InsertedElems DEF Inserted, Step
    <2>2. Pops(s, "apply", Elems(<<"send_restart">>))
      BY <1>1, <2>1, DoStep, MainIsThread DEF RelayInv
    <2> QED BY <2>1, <2>2
  <1>3. ModeChangeComes => ModeChangeComes'
    BY <1>1, <1>2, ComesThen, MainIsThread
  <1>4. RestartComes'
    <2>1. "send_restart" \in Elems(todo'[s])
      BY <1>2 DEF Pops
    <2> QED BY <2>1 DEF RestartComes, Pending
  <1>5. todo'["main"] = todo["main"]
    BY <1>2, MainIsThread, ServerAssumption DEF Pops
  <1>6. TestInv'
    BY <1>1, <1>2, MainIsThread, OthersKept DEF CoreInv
  <1>7. DecisionInv'
    BY <1>1, <1>3, <1>4, <1>5 DEF CoreInv, DecisionInv, Configured, Pending
  <1>8. ClientInv'
    BY <1>1, <1>3, <1>4, <1>5 DEF CoreInv, ClientInv, Configured, Pending
  <1> QED BY <1>6, <1>7, <1>8 DEF CoreInv

-----------------------------------------------------------------------------
(* The decisions of the main task.                                         *)

(* The steps of the lists its handlers begin with.                         *)
LEMMA BegunElems ==
    /\ Elems(<<"suspend">>) = {"suspend"} /\ Elems(<<"resume">>) = {"resume"}
    /\ Elems(<<"ack">>) = {"ack"} /\ Elems(<<>>) = {}
    /\ Elems(<<"stop", "restart">>) = {"stop", "restart"}
    /\ Elems(<<"start", "ack">>) = {"start", "ack"}
    /\ Elems(<<"stop", "ack">>) = {"stop", "ack"}
  <1>1. \A x, y : Elems(<<x, y>>) = {x, y}
    BY DEF Elems
  <1>2. \A x : Elems(<<x>>) = {x}
    BY DEF Elems
  <1> QED BY <1>1, <1>2, InsertedElems

(* A handler of the idle main task leaves the other threads alone.         *)
LEMMA MainBegins ==
    ASSUME RelayValues, Idle("main"), NEW q \in Begun, Begin("main", q)
    PROVE  /\ Elems(todo["main"]) = {} /\ todo'["main"] = q
           /\ \A x \in Thread \ {"main"} : todo'[x] = todo[x]
           /\ \A s \in Server : todo'[s] = todo[s]
  <1>1. Elems(todo["main"]) = {}
    BY InsertedElems DEF Idle
  <1>2. todo'["main"] = q /\ \A x \in Thread \ {"main"} : todo'[x] = todo[x]
    BY MainIsThread, BegunSteps, BeginStep
  <1> QED BY <1>1, <1>2, MainIsThread, ServerAssumption

(* The server a user wants to try out is not the one of a configuration.   *)
LEMMA CfgBroker ==
    ASSUME NEW c \in Cfg \cup {DefaultCfg}
    PROVE  c.broker # TestBroker
  <1>1. CASE c \in Cfg
    BY <1>1, CfgAssumption
  <1>2. CASE c = DefaultCfg
    BY <1>2, BrokerAssumption DEF DefaultCfg
  <1> QED BY <1>1, <1>2

(* A check that goes on keeps the client under test in good hands.         *)
LEMMA TestKept ==
    ASSUME TestInv, \A s \in Server : todo'[s] = todo[s],
           copy' # TestBroker, UNCHANGED mqtt_client
    PROVE  TestInv'
  BY DEF TestInv, Pending

(* main_task_handle_sig_restart_services announces its second half.        *)
LEMMA RestartServicesStep ==
    ASSUME RelayInv, CoreInv, RestartServices
    PROVE  CoreInv'
  <1>1. /\ Idle("main") /\ Begin("main", <<"stop", "restart">>)
        /\ UNCHANGED <<copy, gw_cfg, cfg_mode, cnt_suspended, mqtt_client>>
    BY DEF RestartServices, Got, config, status, mqtt
  <1>2. /\ Elems(todo["main"]) = {}
        /\ todo'["main"] = <<"stop", "restart">> /\ \A s \in Server : todo'[s] = todo[s]
    BY <1>1, MainBegins DEF RelayInv, Begun
  <1>3. Elems(todo'["main"]) = {"stop", "restart"}
    BY <1>2, BegunElems
  <1>4. RestartComes'
    BY <1>3 DEF RestartComes, Pending
  <1>5. TestInv'
    BY <1>1, <1>2, TestKept DEF CoreInv, TestInv
  <1>6. DecisionInv'
    BY <1>3, <1>4 DEF DecisionInv, Pending
  <1>7. ClientInv'
    BY <1>3, <1>4 DEF ClientInv, Pending
  <1> QED BY <1>5, <1>6, <1>7 DEF CoreInv

(* That half starts MQTT only if the counter and the configuration it      *)
(* looks at say so.                                                        *)
LEMMA RestartMqttStep ==
    ASSUME RelayInv, PlanInv, CoreInv, RestartMqtt
    PROVE  CoreInv'
  <1>1. /\ Doing("main", "restart")
        /\ UNCHANGED <<main_sig, main_cur, gw_cfg, cfg_mode, cnt_suspended, mqtt_client>>
        /\ IF gw_cfg.mqtt /\ cnt_suspended = 0
             THEN copy' = gw_cfg.broker /\ Then("main", <<"start">>)
             ELSE UNCHANGED copy /\ Then("main", <<>>)
    BY DEF RestartMqtt, main, config, status, mqtt
  <1>2. Elems(todo["main"]) = {"restart"} /\ Elems(Tail(todo["main"])) = {}
    BY <1>1, RestartIsLast DEF RelayInv
  <1>3. ~Configured'
    BY <1>1, <1>2 DEF CoreInv, DecisionInv, Pending, Configured
  <1>4. cnt_suspended = 0 => ~cfg_mode
    BY <1>2, SuspendersCount DEF Pending
  <1>5. ASSUME NEW m \in Inserted, Then("main", m)
        PROVE  /\ \A s \in Server : todo'[s] = todo[s]
               /\ Elems(todo'["main"]) = Elems(m)
    <2>1. ~Idle("main")
      BY <1>1 DEF Doing
    <2>2. /\ \A x \in Thread \ {"main"} : todo'[x] = todo[x]
          /\ Elems(todo'["main"]) = Elems(m) \cup Elems(Tail(todo["main"]))
      BY <1>5, <2>1, MainIsThread, ThenStep DEF RelayInv
    <2> QED BY <1>2, <2>2, MainIsThread, ServerAssumption
  <1>6. CASE gw_cfg.mqtt /\ cnt_suspended = 0
    <2>1. copy' = gw_cfg.broker /\ gw_cfg.broker # TestBroker
      BY <1>1, <1>6, CfgBroker DEF RelayInv, RelayValues
    <2>2. <<"start">> \in Inserted /\ Elems(<<"start">>) = {"start"}
      BY InsertedElems DEF Inserted, Step
    <2>3. Elems(todo'["main"]) = {"start"} /\ \A s \in Server : todo'[s] = todo[s]
      BY <1>1, <1>5, <1>6, <2>2
    <2>4. TestInv'
      BY <1>1, <2>1, <2>3, TestKept DEF CoreInv
    <2>5. DecisionInv'
      BY <1>1, <1>4, <1>6, <2>1, <2>3 DEF DecisionInv, Pending
    <2>6. ClientInv'
      BY <1>3, <2>3 DEF ClientInv, Pending
    <2> QED BY <2>4, <2>5, <2>6 DEF CoreInv
  <1>7. CASE ~(gw_cfg.mqtt /\ cnt_suspended = 0)
    <2>1. Elems(todo'["main"]) = {} /\ \A s \in Server : todo'[s] = todo[s]
      BY <1>1, <1>5, <1>7, InsertedElems DEF Inserted
    <2>2. TestInv'
      BY <1>1, <1>7, <2>1, TestKept DEF CoreInv, TestInv
    <2>3. DecisionInv'
      BY <2>1 DEF DecisionInv, Pending
    <2>4. ClientInv'
      BY <1>1, <1>3, <1>7 DEF ClientInv
    <2> QED BY <2>2, <2>3, <2>4 DEF CoreInv
  <1> QED BY <1>6, <1>7

(* What a thread is doing is on its list.                                  *)
LEMMA DoingPending ==
    ASSUME RelayValues, NEW th \in Thread, NEW st, Doing(th, st)
    PROVE  Pending(th, st)
  <1>1. todo[th] \in Seq(Step) /\ todo[th] # <<>> /\ Head(todo[th]) = st
    BY DEF Doing, Idle, RelayValues
  <1>2. 1 \in DOMAIN todo[th] /\ todo[th][1] = st
    BY <1>1
  <1> QED BY <1>2, Zenon DEF Pending, Elems

(* When nobody has suspended relaying and the main task is idle, nobody is *)
(* inside mqtt.c: a check is there only while it suspends.                 *)
LEMMA MutexIsFree ==
    ASSUME RelayInv, PlanInv, Idle("main"), cnt_suspended = 0
    PROVE  mqtt_mutex = "none"
  <1> SUFFICES ASSUME NEW th \in Thread, mqtt_mutex = th PROVE FALSE
    BY DEF RelayInv, RelayValues
  <1>1. Doing(th, "clear") \/ Doing(th, "set_started")
    BY DEF RelayInv, MutexInv
  <1>2. th \in Server
    BY <1>1 DEF Thread, Doing
  <1>3. PICK st \in {"clear", "set_started"} : Doing(th, st)
    BY <1>1
  <1>4. ~Pending(th, "suspend")
    BY <1>3, NotSuspending
  <1>5. Pending(th, st)
    BY <1>3, DoingPending DEF RelayInv
  <1>6. Pending(th, "resume")
    BY <1>2, <1>5 DEF PlanInv
  <1> QED BY <1>2, <1>4, <1>6, SuspendersCount

(* main_task_handle_sig_relaying_mode_changed acts on the counter and the  *)
(* configuration of this moment; the started bit it trusts is right.       *)
LEMMA ModeChangedStep ==
    ASSUME RelayInv, PlanInv, CoreInv, RelayingModeChanged
    PROVE  CoreInv'
  <1>1. /\ Idle("main")
        /\ UNCHANGED <<main_sig, gw_cfg, cfg_mode, cnt_suspended, mqtt_client>>
        /\ main_cur' = main_cur \ {"RELAYING_MODE_CHANGED"}
        /\ IF gw_cfg.mqtt /\ cnt_suspended = 0
             THEN IF started
                    THEN Begin("main", <<"ack">>) /\ UNCHANGED copy
                    ELSE Begin("main", <<"start", "ack">>) /\ copy' = gw_cfg.broker
             ELSE Begin("main", <<"stop", "ack">>) /\ UNCHANGED copy
    BY DEF RelayingModeChanged, Got, config, status, mqtt
  <1>2. Elems(todo["main"]) = {}
    BY <1>1, InsertedElems DEF Idle
  <1>3. cnt_suspended = 0 => ~cfg_mode
    BY <1>2, SuspendersCount DEF Pending
  <1>4. cnt_suspended = 0 => (started <=> mqtt_client # "NULL")
    BY <1>1, MutexIsFree DEF RelayInv, MutexInv, StatusMatchesClient
  <1>5. ASSUME NEW q \in Begun, Begin("main", q)
        PROVE  /\ todo'["main"] = q /\ \A s \in Server : todo'[s] = todo[s]
               /\ RestartComes => RestartComes'
    <2>1. /\ todo'["main"] = q /\ \A s \in Server : todo'[s] = todo[s]
          /\ \A x \in Thread \ {"main"} : todo'[x] = todo[x]
      BY <1>1, <1>5, MainBegins DEF RelayInv
    <2>2. "RESTART_SERVICES" \in main_sig \cup main_cur
            => "RESTART_SERVICES" \in main_sig' \cup main_cur'
      BY <1>1
    <2> QED BY <1>2, <2>1, <2>2, MainIsThread, ComesBegin
  <1>6. CASE gw_cfg.mqtt /\ cnt_suspended = 0 /\ started
    <2>1. /\ Elems(todo'["main"]) = {"ack"} /\ \A s \in Server : todo'[s] = todo[s]
          /\ RestartComes => RestartComes'
      BY <1>1, <1>5, <1>6, BegunElems DEF Begun
    <2>2. TestInv'
      BY <1>1, <1>6, <2>1, TestKept DEF CoreInv, TestInv
    <2>3. DecisionInv'
      BY <2>1 DEF DecisionInv, Pending
    <2>4. ClientInv'
      BY <1>1, <1>4, <1>6, <2>1 DEF CoreInv, ClientInv, Configured
    <2> QED BY <2>2, <2>3, <2>4 DEF CoreInv
  <1>7. CASE gw_cfg.mqtt /\ cnt_suspended = 0 /\ ~started
    <2>1. Elems(todo'["main"]) = {"start", "ack"} /\ \A s \in Server : todo'[s] = todo[s]
      BY <1>1, <1>5, <1>7, BegunElems DEF Begun
    <2>2. copy' = gw_cfg.broker /\ gw_cfg.broker # TestBroker
      BY <1>1, <1>7, CfgBroker DEF RelayInv, RelayValues
    <2>3. ~Configured'
      BY <1>1, <1>4, <1>7 DEF Configured
    <2>4. TestInv'
      BY <1>1, <2>1, <2>2, TestKept DEF CoreInv
    <2>5. DecisionInv'
      BY <1>1, <1>3, <1>7, <2>1, <2>2 DEF DecisionInv, Pending
    <2>6. ClientInv'
      BY <2>1, <2>3 DEF ClientInv, Pending
    <2> QED BY <2>4, <2>5, <2>6 DEF CoreInv
  <1>8. CASE ~(gw_cfg.mqtt /\ cnt_suspended = 0)
    <2>1. /\ Elems(todo'["main"]) = {"stop", "ack"} /\ \A s \in Server : todo'[s] = todo[s]
          /\ RestartComes => RestartComes'
      BY <1>1, <1>5, <1>8, BegunElems DEF Begun
    <2>2. TestInv'
      BY <1>1, <1>8, <2>1, TestKept DEF CoreInv, TestInv
    <2>3. DecisionInv'
      <3>1. cnt_suspended > 0 \/ ~gw_cfg.mqtt
        BY <1>8, SuspendersCount
      <3> QED BY <1>1, <2>1, <3>1 DEF DecisionInv, Pending
    <2>4. ClientInv'
      BY <1>1, <1>8, <2>1 DEF CoreInv, ClientInv, Configured, Pending
    <2> QED BY <2>2, <2>3, <2>4 DEF CoreInv
  <1> QED BY <1>6, <1>7, <1>8

(* Configuration mode promises a restart at its end.                       *)
LEMMA ActivateStep ==
    ASSUME RelayInv, CoreInv, ActivateCfgMode
    PROVE  CoreInv'
  <1> DEFINE q == IF cfg_mode THEN <<>> ELSE <<"suspend">>
  <1>1. /\ Idle("main") /\ Begin("main", q) /\ cfg_mode' = TRUE
        /\ main_cur' = main_cur \ {"ACTIVATE_CFG_MODE"}
        /\ UNCHANGED <<main_sig, copy, gw_cfg, cnt_suspended, mqtt_client>>
    BY DEF ActivateCfgMode, Got, status, mqtt
  <1>2. q \in Begun /\ Elems(q) \subseteq {"suspend"}
    BY BegunElems DEF Begun
  <1> HIDE DEF q
  <1>3. /\ Elems(todo["main"]) = {} /\ Elems(todo'["main"]) \subseteq {"suspend"}
        /\ \A s \in Server : todo'[s] = todo[s]
        /\ \A x \in Thread \ {"main"} : todo'[x] = todo[x]
    BY <1>1, <1>2, MainBegins DEF RelayInv
  <1>4. ModeChangeComes => ModeChangeComes'
    BY <1>1, <1>3, MainIsThread, ComesBegin
  <1>5. TestInv'
    BY <1>1, <1>3, TestKept DEF CoreInv, TestInv
  <1>6. DecisionInv'
    BY <1>3 DEF DecisionInv, Pending
  <1>7. ClientInv'
    BY <1>1, <1>3, <1>4 DEF CoreInv, ClientInv, Configured, Pending
  <1> QED BY <1>5, <1>6, <1>7 DEF CoreInv

(* It keeps the promise, or it goes on.                                    *)
LEMMA DeactivateStep ==
    ASSUME RelayInv, CoreInv, DeactivateCfgMode
    PROVE  CoreInv'
  <1>1. /\ Idle("main") /\ main_cur' = main_cur \ {"DEACTIVATE_CFG_MODE"}
        /\ main_sig \subseteq main_sig'
        /\ UNCHANGED <<copy, gw_cfg, cnt_suspended, mqtt_client>>
    BY DEF DeactivateCfgMode, Got, status, mqtt
  <1>2. Elems(todo["main"]) = {}
    BY <1>1, InsertedElems DEF Idle
  <1>3. CASE cfg_mode /\ ~is_empty
    <2>1. /\ Begin("main", <<"resume">>) /\ ~cfg_mode'
          /\ "RESTART_SERVICES" \in main_sig'
      BY <1>3 DEF DeactivateCfgMode
    <2>2. /\ Elems(todo'["main"]) = {"resume"} /\ \A s \in Server : todo'[s] = todo[s]
          /\ \A x \in Thread \ {"main"} : todo'[x] = todo[x]
      BY <1>1, <2>1, MainBegins, BegunElems DEF RelayInv, Begun
    <2>3. RestartComes'
      BY <2>1 DEF RestartComes
    <2>4. ModeChangeComes => ModeChangeComes'
      BY <1>1, <1>2, <2>2, MainIsThread, ComesBegin
    <2>5. TestInv'
      BY <1>1, <2>2, TestKept DEF CoreInv, TestInv
    <2>6. DecisionInv'
      BY <2>2 DEF DecisionInv, Pending
    <2>7. ClientInv'
      BY <1>1, <1>2, <2>3, <2>4 DEF CoreInv, ClientInv, Configured, Pending
    <2> QED BY <2>5, <2>6, <2>7 DEF CoreInv
  <1>4. CASE ~(cfg_mode /\ ~is_empty)
    <2>1. UNCHANGED <<cfg_mode, main_sig, todo>>
      BY <1>4 DEF DeactivateCfgMode
    <2>2. /\ RestartComes => RestartComes'
          /\ ModeChangeComes => ModeChangeComes'
          /\ LookComes => LookComes'
      BY <1>1, <1>2, <2>1, MainIsThread, ComesBegin
    <2> QED BY <1>1, <2>1, <2>2, CoreKept
  <1> QED BY <1>3, <1>4

(* A configuration is saved in configuration mode only, when nothing that  *)
(* the main task is doing can start MQTT.                                  *)
LEMMA PostStep ==
    ASSUME CfgIsGuarded, RelayInv, PlanInv, CoreInv,
           NEW s \in Server, NEW c \in Cfg, PostRuuviJson(s, c)
    PROVE  CoreInv'
  <1>1. /\ Idle(s) /\ cfg_mode /\ Begin(s, <<"start_timer">>)
        /\ UNCHANGED <<main_sig, main_cur, copy, cfg_mode, cnt_suspended, mqtt_client>>
    BY DEF PostRuuviJson, Install, CfgIsGuarded, main, status, mqtt
  <1>2. s \in Thread /\ s # "main" /\ Elems(todo[s]) = {}
    BY <1>1, MainIsThread, ServerAssumption, InsertedElems DEF Idle
  <1>3. \A x \in Thread \ {s} : todo'[x] = todo[x]
    BY <1>1, <1>2, BegunSteps, BeginStep DEF RelayInv, Begun
  <1>4. todo'["main"] = todo["main"]
    BY <1>2, <1>3, MainIsThread
  <1>5. ModeChangeComes => ModeChangeComes'
    BY <1>1, <1>2, <1>3, ComesBegin
  <1>6. "stop" \in Elems(todo["main"]) => cnt_suspended > 0
    BY <1>1, SuspendersCount DEF PlanInv, Pending
  <1>7. TestInv'
    BY <1>1, <1>2, <1>3, MainIsThread DEF CoreInv, TestInv, Pending
  <1>8. DecisionInv'
    BY <1>1, <1>4, <1>6 DEF CoreInv, DecisionInv, Configured, Pending
  <1>9. ClientInv'
    BY <1>1, <1>4, <1>5 DEF CoreInv, ClientInv, Configured, Pending
  <1> QED BY <1>7, <1>8, <1>9 DEF CoreInv

(* The default configuration, set when the Ethernet cable is connected,    *)
(* has no restart of its own: DefaultInv says who makes the main task look *)
(* once more.                                                              *)
LEMMA SetDefaultStep ==
    ASSUME RelayInv, CoreInv, DefaultInv, SetDefaultConfig
    PROVE  CoreInv'
  <1>1. /\ Idle("main") /\ "SET_DEFAULT_CONFIG" \in main_cur
        /\ main_sig \subseteq main_sig' /\ main_cur' = main_cur \ {"SET_DEFAULT_CONFIG"}
        /\ gw_cfg' = DefaultCfg
        /\ UNCHANGED <<todo, copy, cfg_mode, cnt_suspended, mqtt_client>>
    BY DEF SetDefaultConfig, Got, threads, status, mqtt
  <1>2. ~gw_cfg'.mqtt
    BY <1>1 DEF DefaultCfg
  <1>3. Elems(todo["main"]) = {} /\ Elems(todo'["main"]) = {}
    BY <1>1, InsertedElems DEF Idle
  <1>4. ModeChangeComes => ModeChangeComes'
    BY <1>1 DEF ModeChangeComes, Pending
  <1>5. Downloading' = Downloading
    BY <1>1 DEF Downloading, Pending
  <1>6. LooksAfterDefault /\ Configured => cfg_mode \/ LookComes'
    <2>1. cnt_suspended > 0 /\ Configured => ModeChangeComes
      BY <1>3 DEF CoreInv, ClientInv, Pending
    <2>2. LooksAfterDefault /\ Configured => cfg_mode \/ ModeChangeComes \/ Downloading # {}
      BY <2>1 DEF LooksAfterDefault, ModeChangeComes
    <2> QED BY <1>4, <1>5, <2>2 DEF LookComes
  <1>7. Configured => cfg_mode \/ LookComes'
    BY <1>1, <1>6 DEF DefaultInv, Off
  <1>8. TestInv'
    BY <1>1 DEF CoreInv, TestInv, Pending
  <1>9. DecisionInv'
    BY <1>3 DEF DecisionInv, Pending
  <1>10. ClientInv'
    BY <1>1, <1>2, <1>3, <1>4, <1>7 DEF CoreInv, ClientInv, Configured, Pending
  <1> QED BY <1>8, <1>9, <1>10 DEF CoreInv

-----------------------------------------------------------------------------
(* Every step keeps the invariants.                                        *)
LEMMA CoreNext ==
  CfgIsGuarded /\ RelayInv /\ PlanInv /\ CoreInv /\ DefaultInv /\ [Next]_vars => CoreInv'
  <1> SUFFICES ASSUME CfgIsGuarded, RelayInv, PlanInv, CoreInv, DefaultInv, [Next]_vars
               PROVE  CoreInv'
    OBVIOUS
  <1> USE DEF vars, main, threads, config, status, mqtt, adv
  <1>0. RelayValues /\ StepOrder
    BY DEF RelayInv
  <1>1. ASSUME NEW th \in Thread, Stop(th)
        PROVE  CoreInv'
    BY <1>1, StopStep
  <1>2. ASSUME NEW th \in Thread, StartAlreadyRunning(th)
        PROVE  CoreInv'
    BY <1>2, RunningStep
  <1>3. ASSUME NEW th \in Thread, StartClient(th)
        PROVE  CoreInv'
    BY <1>3, StartStep
  <1>4. ASSUME NEW th \in Thread, StartFails(th)
        PROVE  CoreInv'
    BY <1>4, FailStep
  <1>5. ASSUME NEW th \in Thread, Suspend(th)
        PROVE  CoreInv'
    BY <1>5, SuspendStep
  <1>6. ASSUME NEW th \in Thread, Resume(th)
        PROVE  CoreInv'
    BY <1>6, ResumeStep
  <1>7. ASSUME NEW th \in Thread, Notify(th)
        PROVE  CoreInv'
    BY <1>7, NotifyStep
  <1>8. ASSUME NEW th \in Thread, ClearBits(th)
        PROVE  CoreInv'
    BY <1>0, <1>8, MainIsThread, PlainThen DEF ClearBits, Inserted, Step
  <1>9. ASSUME NEW th \in Thread, SetStarted(th)
        PROVE  CoreInv'
    BY <1>0, <1>9, MainIsThread, PlainThen DEF SetStarted, Inserted, Step
  <1>10. ASSUME NEW th \in Thread, SetCommand(th)
        PROVE  CoreInv'
    BY <1>0, <1>10, MainIsThread, PlainThen DEF SetCommand, Inserted, Step
  <1>11. ASSUME NEW th \in Thread, WaitEnds(th)
        PROVE  CoreInv'
    BY <1>0, <1>11, MainIsThread, PlainThen DEF WaitEnds, Inserted, Step
  <1>12. CASE Acknowledge
    BY <1>0, <1>12, MainIsThread, PlainThen DEF Acknowledge, Inserted, Step
  <1>13. ASSUME NEW s \in Server, StartTimer(s)
        PROVE  CoreInv'
    BY <1>0, <1>13, MainIsThread, PlainThen DEF StartTimer, Inserted, Step
  <1>14. ASSUME NEW s \in Server, SuspendHttp(s)
        PROVE  CoreInv'
    BY <1>0, <1>14, MainIsThread, PlainThen DEF SuspendHttp, Inserted, Step
  <1>15. ASSUME NEW s \in Server, KeepCfg(s)
        PROVE  CoreInv'
    BY <1>0, <1>15, MainIsThread, PlainThen DEF KeepCfg, Inserted, Step
  <1>16. ASSUME NEW s \in Server, ResumeHttp(s)
        PROVE  CoreInv'
    BY <1>16, ResumeHttpStep
  <1>17. ASSUME NEW s \in Server, CheckConcludes(s)
        PROVE  CoreInv'
    BY <1>0, <1>17, MainIsThread, PlainThen DEF CheckConcludes, Inserted, Step
  <1>18. ASSUME NEW s \in Server, SendRestart(s)
        PROVE  CoreInv'
    BY <1>18, SendStep
  <1>19. ASSUME NEW s \in Server, NEW c \in Cfg, ApplyRemoteCfg(s, c)
        PROVE  CoreInv'
    BY <1>19, ApplyStep
  <1>20. ASSUME NEW s \in Server, GetRuuviJson(s)
        PROVE  CoreInv'
    BY <1>0, <1>20, PlainBegin DEF GetRuuviJson, Begun
  <1>21. ASSUME NEW s \in Server, DownloadRemoteCfg(s)
        PROVE  CoreInv'
    BY <1>0, <1>21, PlainBegin DEF DownloadRemoteCfg, Begun
  <1>22. ASSUME NEW s \in Server, CheckMqtt(s)
        PROVE  CoreInv'
    BY <1>0, <1>22, PlainBegin DEF CheckMqtt, Begun
  <1>23. ASSUME NEW s \in Server, NEW c \in Cfg, PostRuuviJson(s, c)
        PROVE  CoreInv'
    BY <1>23, PostStep
  <1>24. CASE ActivateCfgMode
    BY <1>24, ActivateStep
  <1>25. CASE DeactivateCfgMode
    BY <1>25, DeactivateStep
  <1>26. CASE RestartServices
    BY <1>26, RestartServicesStep
  <1>27. CASE RestartMqtt
    BY <1>27, RestartMqttStep
  <1>28. CASE RelayingModeChanged
    BY <1>28, ModeChangedStep
  <1>29. CASE SetDefaultConfig
    BY <1>29, SetDefaultStep
  <1>30. CASE \/ \E x \in Sensor : RecvAdv(x)
              \/ TakeSignals \/ AdvTakeSignals
              \/ HandleRecvAdv \/ PublishAdv \/ HandleMqttConnected
              \/ HandleGwCfg \/ CfgModeTimerFires \/ EthernetConnected
              \/ OnConnected \/ OnDisconnected \/ UNCHANGED vars
    <2>1. /\ UNCHANGED <<todo, copy, gw_cfg, cfg_mode, cnt_suspended, mqtt_client>>
          /\ main_sig \cup main_cur \subseteq main_sig' \cup main_cur'
      BY <1>30 DEF TakeSignals, AdvTakeSignals, HandleRecvAdv, AdvGot, PublishAdv,
         HandleMqttConnected, HandleGwCfg, CfgModeTimerFires, EthernetConnected,
         OnConnected, OnDisconnected, RecvAdv
    <2>2. /\ RestartComes => RestartComes'
          /\ ModeChangeComes => ModeChangeComes'
          /\ LookComes => LookComes'
      BY <2>1 DEF RestartComes, ModeChangeComes, LookComes, Downloading, Pending
    <2> QED BY <2>1, <2>2, CoreKept
  <1> QED
    BY <1>1, <1>2, <1>3, <1>4, <1>5, <1>6, <1>7, <1>8, <1>9, <1>10, <1>11,
       <1>12, <1>13, <1>14, <1>15, <1>16, <1>17, <1>18, <1>19, <1>20,
       <1>21, <1>22, <1>23, <1>24, <1>25, <1>26, <1>27, <1>28, <1>29, <1>30,
       MainIsThread, Zenon DEF Next, MainStep, ThreadStep,
       ServerContinues, ServerBegins, AdvStep, EnvStep

-----------------------------------------------------------------------------
(* The look that follows the default configuration.                        *)

(* Steps of a thread: the announcement of a change stays to come.          *)
LEMMA DefaultThen ==
    ASSUME RelayInv, DefaultInv, UNCHANGED <<main_cur, is_empty, gw_cfg, cfg_mode>>,
           Configured' => Configured \/ Pending("main", "start"),
           main_sig \subseteq main_sig',
           "SET_DEFAULT_CONFIG" \in main_sig' => "SET_DEFAULT_CONFIG" \in main_sig,
           NEW th \in Thread, NEW st, Doing(th, st), NEW m \in Inserted, Then(th, m),
           m = <<"start">> => gw_cfg.mqtt,
           st = "notify" => "RELAYING_MODE_CHANGED" \in main_sig',
           cnt_suspended > 0 => cnt_suspended' > 0 \/ m = Announce,
           st = "resume_http" => (CntHttpSuspended = 1 => m = <<"notify">>) /\ UNCHANGED cnt_suspended
    PROVE  DefaultInv'
  <1>1. Pops(th, st, Elems(m))
    BY DoStep DEF RelayInv
  <1>2. /\ "start" \in Elems(m) => gw_cfg.mqtt
        /\ m \in {Announce, <<"notify">>} => "notify" \in Elems(m)
    BY InsertedElems DEF Inserted, Step
  <1>3. Off => Off'
    <2>1. "start" \in Elems(todo'["main"]) => "start" \in Elems(todo["main"]) \/ gw_cfg.mqtt
      BY <1>1, <1>2, MainIsThread DEF Pops
    <2> QED BY <2>1 DEF Off, Pending
  <1>4. ASSUME "notify" \in Elems(m)
        PROVE  LooksAfterDefault'
    <2>1. "notify" \in Elems(todo'[th])
      BY <1>1, <1>4 DEF Pops
    <2> QED BY <2>1 DEF LooksAfterDefault, Pending
  <1>5. Downloading # {} => LooksAfterDefault'
    <2>1. CASE st # "resume_http"
      <3>1. ASSUME NEW s \in Downloading PROVE s \in Downloading'
        <4>1. /\ s \in Server /\ "resume_http" \in Elems(todo[s])
              /\ "suspend_http" \notin Elems(todo[s])
          BY DEF Downloading, Pending
        <4>2. "resume_http" \in Elems(todo'[s]) /\ "suspend_http" \notin Elems(todo'[s])
          BY <1>1, <2>1, <4>1, MainIsThread DEF Pops
        <4> QED BY <4>1, <4>2 DEF Downloading, Pending
      <3> QED BY <3>1 DEF LooksAfterDefault
    <2>2. CASE st = "resume_http" /\ th \in Server
      <3>1. \/ \E x \in Thread : Pending(x, "notify")'
            \/ cnt_suspended > 0
            \/ Downloading' # {}
        BY <1>1, <1>2, <2>2, LastDownload
      <3> QED BY <2>2, <3>1 DEF LooksAfterDefault
    <2>3. CASE st = "resume_http" /\ th = "main"
      <3>1. ASSUME NEW s \in Downloading PROVE s \in Downloading'
        <4>1. s \in Server /\ todo'[s] = todo[s]
          BY <1>1, <2>3, MainIsThread, ServerAssumption DEF Downloading, Pops
        <4> QED BY <4>1 DEF Downloading, Pending
      <3> QED BY <3>1 DEF LooksAfterDefault
    <2> QED BY <2>1, <2>2, <2>3 DEF Thread
  <1>6. ASSUME NEW x \in Thread, "notify" \in Elems(todo[x])
        PROVE  LooksAfterDefault'
    <2>1. CASE x = th /\ st = "notify"
      BY <2>1 DEF LooksAfterDefault
    <2>2. CASE ~(x = th /\ st = "notify")
      <3>1. "notify" \in Elems(todo'[x])
        BY <1>1, <1>6, <2>2 DEF Pops
      <3> QED BY <3>1 DEF LooksAfterDefault, Pending
    <2> QED BY <2>1, <2>2
  <1>7. LooksAfterDefault => LooksAfterDefault'
    <2>1. cnt_suspended > 0 => LooksAfterDefault'
      BY <1>2, <1>4 DEF LooksAfterDefault
    <2>2. /\ "RELAYING_MODE_CHANGED" \in main_sig => LooksAfterDefault'
          /\ "RELAYING_MODE_CHANGED" \in main_cur /\ "SET_DEFAULT_CONFIG" \notin main_sig
                => LooksAfterDefault'
          /\ cfg_mode => LooksAfterDefault'
      BY DEF LooksAfterDefault
    <2> QED BY <1>5, <1>6, <2>1, <2>2 DEF LooksAfterDefault, Pending
  <1> QED BY <1>3, <1>7 DEF DefaultInv

(* Everything else: an idle thread may begin something.                    *)
LEMMA DefaultKept ==
    ASSUME DefaultInv,
           \A th \in Thread : Elems(todo[th]) = {} \/ todo'[th] = todo[th],
           is_empty' => is_empty,
           "start" \in Elems(todo'["main"]) => "start" \in Elems(todo["main"]) \/ gw_cfg.mqtt,
           gw_cfg'.mqtt => gw_cfg.mqtt, UNCHANGED mqtt_client,
           cfg_mode => cfg_mode' \/ cnt_suspended > 0, UNCHANGED cnt_suspended,
           "SET_DEFAULT_CONFIG" \in main_sig' \cup main_cur' =>
              /\ "SET_DEFAULT_CONFIG" \in main_sig \cup main_cur
              /\ "RELAYING_MODE_CHANGED" \in main_sig =>
                    \/ "RELAYING_MODE_CHANGED" \in main_sig'
                    \/ "RELAYING_MODE_CHANGED" \in main_cur'
                          /\ "SET_DEFAULT_CONFIG" \notin main_sig'
              /\ "RELAYING_MODE_CHANGED" \in main_cur /\ "SET_DEFAULT_CONFIG" \notin main_sig =>
                    "RELAYING_MODE_CHANGED" \in main_cur' /\ "SET_DEFAULT_CONFIG" \notin main_sig'
    PROVE  DefaultInv'
  <1>1. Off => Off'
    BY DEF Off, Configured, Pending
  <1>2. ASSUME NEW x \in Thread, "notify" \in Elems(todo[x])
        PROVE  LooksAfterDefault'
    <2>1. "notify" \in Elems(todo'[x])
      BY <1>2
    <2> QED BY <2>1 DEF LooksAfterDefault, Pending
  <1>3. Downloading \subseteq Downloading'
    BY MainIsThread DEF Downloading, Pending
  <1>4. ASSUME LooksAfterDefault, "SET_DEFAULT_CONFIG" \in main_sig' \cup main_cur'
        PROVE  LooksAfterDefault'
    <2>1. cfg_mode \/ cnt_suspended > 0 \/ Downloading # {} => LooksAfterDefault'
      BY <1>3 DEF LooksAfterDefault
    <2>2. "RELAYING_MODE_CHANGED" \in main_sig
            \/ ("RELAYING_MODE_CHANGED" \in main_cur /\ "SET_DEFAULT_CONFIG" \notin main_sig)
            => LooksAfterDefault'
      BY <1>4 DEF LooksAfterDefault
    <2> QED BY <1>2, <1>4, <2>1, <2>2 DEF LooksAfterDefault, Pending
  <1> QED BY <1>1, <1>4 DEF DefaultInv

(* Every step keeps it.                                                    *)
LEMMA DefaultNext ==
  CfgIsGuarded /\ RelayInv /\ PlanInv /\ DefaultInv /\ [Next]_vars => DefaultInv'
  <1> SUFFICES ASSUME CfgIsGuarded, RelayInv, PlanInv, DefaultInv, [Next]_vars
               PROVE  DefaultInv'
    OBVIOUS
  <1> USE DEF vars, main, threads, config, status, mqtt, adv
  <1>a. Announce # <<>> /\ \A x : Announce # <<x>>
    BY DEF Announce
  <1>1. ASSUME NEW th \in Thread, Stop(th)
        PROVE  DefaultInv'
    BY <1>a, <1>1, MainIsThread, DefaultThen DEF Stop, Inserted, Configured
  <1>2. ASSUME NEW th \in Thread, ClearBits(th)
        PROVE  DefaultInv'
    BY <1>a, <1>2, MainIsThread, DefaultThen DEF ClearBits, Inserted, Configured
  <1>3. ASSUME NEW th \in Thread, StartAlreadyRunning(th)
        PROVE  DefaultInv'
    BY <1>a, <1>3, MainIsThread, DefaultThen DEF StartAlreadyRunning, Inserted,
       Configured
  <1>4. ASSUME NEW th \in Thread, SetStarted(th)
        PROVE  DefaultInv'
    BY <1>a, <1>4, MainIsThread, DefaultThen DEF SetStarted, Inserted, Configured
  <1>5. ASSUME NEW th \in Thread, StartFails(th)
        PROVE  DefaultInv'
    BY <1>a, <1>5, MainIsThread, DefaultThen DEF StartFails, Inserted, Configured
  <1>6. ASSUME NEW th \in Thread, SetCommand(th)
        PROVE  DefaultInv'
    BY <1>a, <1>6, MainIsThread, DefaultThen DEF SetCommand, Inserted, Configured
  <1>7. ASSUME NEW th \in Thread, WaitEnds(th)
        PROVE  DefaultInv'
    BY <1>a, <1>7, MainIsThread, DefaultThen DEF WaitEnds, Inserted, Configured
  <1>8. ASSUME NEW th \in Thread, StartClient(th)
        PROVE  DefaultInv'
    <2>1. Doing(th, "start") /\ mqtt_client' = Wanted(th)
      BY <1>8 DEF StartClient
    <2>2. th = "main" => Pending("main", "start")
      BY <2>1, DoingPending DEF RelayInv
    <2>3. Configured' => Pending("main", "start")
      BY <2>1, <2>2 DEF Configured, Wanted, Thread
    <2> QED BY <1>a, <1>8, <2>3, DefaultThen DEF StartClient, Inserted
  <1>9. ASSUME NEW th \in Thread, Suspend(th)
        PROVE  DefaultInv'
    BY <1>a, <1>9, MainIsThread, DefaultThen, SuspendersCount DEF Suspend, Inserted,
       Configured
  <1>10. ASSUME NEW th \in Thread, Resume(th)
        PROVE  DefaultInv'
    BY <1>a, <1>10, MainIsThread, DefaultThen, SuspendersCount DEF Resume, Inserted,
       Configured
  <1>11. ASSUME NEW th \in Thread, Notify(th)
        PROVE  DefaultInv'
    BY <1>a, <1>11, MainIsThread, DefaultThen DEF Notify, Inserted, Configured
  <1>12. CASE Acknowledge
    BY <1>a, <1>12, MainIsThread, DefaultThen DEF Acknowledge, Inserted, Configured
  <1>13. ASSUME NEW s \in Server, StartTimer(s)
        PROVE  DefaultInv'
    BY <1>a, <1>13, MainIsThread, DefaultThen DEF StartTimer, Inserted, Configured
  <1>14. ASSUME NEW s \in Server, SuspendHttp(s)
        PROVE  DefaultInv'
    BY <1>a, <1>14, MainIsThread, DefaultThen DEF SuspendHttp, Inserted, Configured
  <1>15. ASSUME NEW s \in Server, KeepCfg(s)
        PROVE  DefaultInv'
    BY <1>a, <1>15, MainIsThread, DefaultThen DEF KeepCfg, Inserted, Configured
  <1>16. ASSUME NEW s \in Server, ResumeHttp(s)
        PROVE  DefaultInv'
    BY <1>a, <1>16, MainIsThread, DefaultThen DEF ResumeHttp, Inserted, Configured
  <1>17. ASSUME NEW s \in Server, SendRestart(s)
        PROVE  DefaultInv'
    BY <1>a, <1>17, MainIsThread, DefaultThen DEF SendRestart, Inserted, Configured
  <1>18. ASSUME NEW s \in Server, CheckConcludes(s)
        PROVE  DefaultInv'
    BY <1>a, <1>18, MainIsThread, DefaultThen DEF CheckConcludes, Inserted, Configured
  <1>19. CASE RestartMqtt
    BY <1>a, <1>19, MainIsThread, DefaultThen DEF RestartMqtt, Inserted, Configured
  <1>20. ASSUME NEW s \in Server, NEW c \in Cfg, ApplyRemoteCfg(s, c)
        PROVE  DefaultInv'
    <2>1. Doing(s, "apply") /\ Then(s, <<"send_restart">>) /\ ~is_empty'
      BY <1>20 DEF ApplyRemoteCfg, Install
    <2>2. Pops(s, "apply", Elems(<<"send_restart">>))
      BY <2>1, MainIsThread, DoStep DEF RelayInv, Inserted
    <2>3. "resume_http" \in Elems(todo'[s]) /\ "suspend_http" \notin Elems(todo'[s])
      BY <2>2 DEF Pops, PlanInv, Pending
    <2> QED BY <2>1, <2>3 DEF DefaultInv, LooksAfterDefault, Downloading, Pending
  <1>21. ASSUME NEW s \in Server, NEW c \in Cfg, PostRuuviJson(s, c)
        PROVE  DefaultInv'
    BY <1>21 DEF PostRuuviJson, Install, CfgIsGuarded, DefaultInv, LooksAfterDefault
  <1>22. ASSUME NEW s \in Server, GetRuuviJson(s)
        PROVE  DefaultInv'
    <2>1. /\ Idle(s) /\ \A th \in Thread \ {s} : todo'[th] = todo[th]
      BY <1>22, MainIsThread, BegunSteps, BeginStep DEF GetRuuviJson, RelayInv, Begun
    <2>2. s # "main" /\ Elems(todo[s]) = {}
      BY <2>1, ServerAssumption, InsertedElems DEF Idle
    <2> QED BY <1>22, <2>1, <2>2, MainIsThread, DefaultKept DEF GetRuuviJson
  <1>23. ASSUME NEW s \in Server, DownloadRemoteCfg(s)
        PROVE  DefaultInv'
    <2>1. /\ Idle(s) /\ \A th \in Thread \ {s} : todo'[th] = todo[th]
      BY <1>23, MainIsThread, BegunSteps, BeginStep DEF DownloadRemoteCfg, RelayInv, Begun
    <2>2. s # "main" /\ Elems(todo[s]) = {}
      BY <2>1, ServerAssumption, InsertedElems DEF Idle
    <2> QED BY <1>23, <2>1, <2>2, MainIsThread, DefaultKept DEF DownloadRemoteCfg
  <1>24. ASSUME NEW s \in Server, CheckMqtt(s)
        PROVE  DefaultInv'
    <2>1. /\ Idle(s) /\ \A th \in Thread \ {s} : todo'[th] = todo[th]
      BY <1>24, MainIsThread, BegunSteps, BeginStep DEF CheckMqtt, RelayInv, Begun
    <2>2. s # "main" /\ Elems(todo[s]) = {}
      BY <2>1, ServerAssumption, InsertedElems DEF Idle
    <2> QED BY <1>24, <2>1, <2>2, MainIsThread, DefaultKept DEF CheckMqtt
  <1>25. CASE ActivateCfgMode
    <2>1. Idle("main") /\ Elems(todo["main"]) = {}
      BY <1>25, InsertedElems DEF ActivateCfgMode, Got, Idle
    <2>2. \A x \in Thread \ {"main"} : todo'[x] = todo[x]
      BY <1>25, <2>1, MainBegins DEF ActivateCfgMode, RelayInv, Begun
    <2>3. "start" \in Elems(todo'["main"]) => gw_cfg.mqtt
      BY <1>25, <2>1, MainBegins, BegunElems DEF ActivateCfgMode, RelayInv, Begun
    <2> QED BY <1>25, <2>1, <2>2, <2>3, DefaultKept DEF ActivateCfgMode, Got
  <1>26. CASE RestartServices
    <2>1. Idle("main") /\ Elems(todo["main"]) = {}
      BY <1>26, InsertedElems DEF RestartServices, Got, Idle
    <2>2. \A x \in Thread \ {"main"} : todo'[x] = todo[x]
      BY <1>26, <2>1, MainBegins DEF RestartServices, RelayInv, Begun
    <2>3. "start" \in Elems(todo'["main"]) => gw_cfg.mqtt
      BY <1>26, <2>1, MainBegins, BegunElems DEF RestartServices, RelayInv, Begun
    <2> QED BY <1>26, <2>1, <2>2, <2>3, DefaultKept DEF RestartServices, Got
  <1>27. CASE RelayingModeChanged
    <2>1. Idle("main") /\ Elems(todo["main"]) = {}
      BY <1>27, InsertedElems DEF RelayingModeChanged, Got, Idle
    <2>2. \A x \in Thread \ {"main"} : todo'[x] = todo[x]
      BY <1>27, <2>1, MainBegins DEF RelayingModeChanged, RelayInv, Begun
    <2>3. "start" \in Elems(todo'["main"]) => gw_cfg.mqtt
      BY <1>27, <2>1, MainBegins, BegunElems DEF RelayingModeChanged, RelayInv, Begun
    <2>4. "SET_DEFAULT_CONFIG" \notin main_cur
      BY <1>27 DEF RelayingModeChanged, Got, MainSig
    <2> QED BY <1>27, <2>1, <2>2, <2>3, <2>4, DefaultKept DEF RelayingModeChanged, Got
  <1>28. CASE DeactivateCfgMode
    <2>1. Idle("main") /\ Elems(todo["main"]) = {}
      BY <1>28, InsertedElems DEF DeactivateCfgMode, Got, Idle
    <2>2. cfg_mode => cnt_suspended > 0
      BY <2>1, SuspendersCount DEF Pending
    <2>3. CASE UNCHANGED todo
      BY <1>28, <2>1, <2>2, <2>3, DefaultKept DEF DeactivateCfgMode, Got
    <2>4. CASE Begin("main", <<"resume">>)
      <3>1. /\ \A x \in Thread \ {"main"} : todo'[x] = todo[x]
            /\ Elems(todo'["main"]) = {"resume"}
        BY <2>1, <2>4, MainBegins, BegunElems DEF RelayInv, Begun
      <3> QED BY <1>28, <2>1, <2>2, <3>1, DefaultKept DEF DeactivateCfgMode, Got
    <2> QED BY <1>28, <2>3, <2>4 DEF DeactivateCfgMode
  <1>29. CASE SetDefaultConfig
    BY <1>29, DefaultKept DEF SetDefaultConfig, Got, DefaultCfg
  <1>30. CASE TakeSignals
    BY <1>30, DefaultKept DEF TakeSignals
  <1>31. CASE EthernetConnected
    BY <1>31 DEF EthernetConnected, DefaultInv, Off, Configured, Pending
  <1>32. CASE \/ \E x \in Sensor : RecvAdv(x)
              \/ AdvTakeSignals \/ HandleRecvAdv \/ PublishAdv
              \/ HandleMqttConnected \/ HandleGwCfg \/ CfgModeTimerFires
              \/ OnConnected \/ OnDisconnected \/ UNCHANGED vars
    <2>1. /\ UNCHANGED <<todo, is_empty, gw_cfg, cfg_mode, cnt_suspended, mqtt_client, main_cur>>
          /\ main_sig' \in {main_sig, main_sig \cup {"DEACTIVATE_CFG_MODE"}}
      BY <1>32 DEF AdvTakeSignals, HandleRecvAdv, AdvGot, PublishAdv,
         HandleMqttConnected, HandleGwCfg, CfgModeTimerFires,
         OnConnected, OnDisconnected, RecvAdv
    <2> QED BY <2>1, DefaultKept
  <1> QED
    BY <1>1, <1>2, <1>3, <1>4, <1>5, <1>6, <1>7, <1>8, <1>9, <1>10, <1>11,
       <1>12, <1>13, <1>14, <1>15, <1>16, <1>17, <1>18, <1>19, <1>20,
       <1>21, <1>22, <1>23, <1>24, <1>25, <1>26, <1>27, <1>28, <1>29,
       <1>30, <1>31, <1>32, MainIsThread, Zenon DEF Next, MainStep,
       ThreadStep, ServerContinues, ServerBegins, AdvStep, EnvStep

(* main_loop has just been entered: MQTT is about to be started if the     *)
(* configuration wants it.                                                 *)
LEMMA ServiceInit == Init => PlanInv /\ CoreInv /\ DefaultInv
  <1> SUFFICES ASSUME Init PROVE PlanInv /\ CoreInv /\ DefaultInv
    OBVIOUS
  <1>1. /\ main_sig = {} /\ main_cur = {} /\ ~cfg_mode /\ cnt_suspended = 0
        /\ mqtt_client = "NULL" /\ copy = gw_cfg.broker
        /\ gw_cfg \in Cfg \cup {DefaultCfg}
    BY Zenon DEF Init
  <1>2. \A th \in Thread :
            todo[th] = IF th = "main" /\ gw_cfg.mqtt THEN <<"start">> ELSE <<>>
    BY DEF Init
  <1>3. \A s \in Server : todo[s] = <<>>
    BY <1>2, MainIsThread, ServerAssumption
  <1>4. todo["main"] = IF gw_cfg.mqtt THEN <<"start">> ELSE <<>>
    BY <1>2, MainIsThread
  <1>5. Elems(<<>>) = {} /\ Elems(<<"start">>) = {"start"}
    BY InsertedElems DEF Step
  <1>6. PlanInv
    <2>1. \A x : \A n \in Nat : FromEnd(<<>>, x, n)
      BY DEF FromEnd
    <2>2. FromEnd(<<"start">>, "restart", 0)
      BY DEF FromEnd
    <2> QED BY <1>1, <1>3, <1>4, <1>5, <2>1, <2>2 DEF PlanInv, Pending
  <1>7. TestInv
    BY <1>1, CfgBroker, BrokerAssumption DEF TestInv
  <1>8. DecisionInv
    BY <1>1, <1>4, <1>5 DEF DecisionInv, Pending
  <1>9. ClientInv
    BY <1>1, <1>4, <1>5 DEF ClientInv, Configured, Pending
  <1>10. DefaultInv
    <2>1. is_empty => gw_cfg = DefaultCfg
      BY DEF Init
    <2>2. is_empty => ~gw_cfg.mqtt
      BY <2>1 DEF DefaultCfg
    <2>3. is_empty => Elems(todo["main"]) = {}
      BY <1>4, <1>5, <2>2
    <2> QED BY <1>1, <2>2, <2>3 DEF DefaultInv, Off, Configured, Pending
  <1> QED BY <1>6, <1>7, <1>8, <1>9, <1>10 DEF CoreInv

(* When nothing is to come any more, the client is the configured one.     *)
LEMMA QuietFollows ==
    ASSUME RelayInv, CoreInv
    PROVE  ServicesFollowConfig
  <1> SUFFICES ASSUME Quiet
               PROVE  mqtt_client = IF gw_cfg.mqtt /\ cnt_suspended = 0
                                         /\ gw_cfg.broker # Invalid
                                      THEN gw_cfg.broker ELSE "NULL"
    BY DEF ServicesFollowConfig
  <1>1. \A th \in Thread : Elems(todo[th]) = {}
    BY InsertedElems DEF Quiet, Idle
  <1>2. ~RestartComes /\ ~ModeChangeComes
    BY <1>1, MainIsThread DEF Quiet, RestartComes, ModeChangeComes, Pending
  <1>9. ~LookComes
    BY <1>1, <1>2, MainIsThread DEF LookComes, Downloading, Pending
  <1>3. ~Pending("main", "start") /\ ~Pending("main", "stop")
    BY <1>1, MainIsThread DEF Pending
  <1>4. cnt_suspended \in Nat /\ (cfg_mode => cnt_suspended > 0)
    BY <1>1, MainIsThread, SuspendersCount DEF Pending
  <1>5. mqtt_client # TestBroker
    BY <1>1, MainIsThread DEF CoreInv, TestInv, Pending
  <1>6. mqtt_client \in Broker \cup {"NULL"}
    BY DEF RelayInv, RelayValues
  <1>7. CASE gw_cfg.mqtt /\ cnt_suspended = 0 /\ gw_cfg.broker # Invalid
    <2>1. ~cfg_mode
      BY <1>4, <1>7
    <2>2. Configured
      BY <1>2, <1>3, <1>5, <1>7, <2>1 DEF CoreInv, ClientInv, Configured
    <2> QED BY <1>2, <1>3, <1>7, <1>9, <2>1, <2>2 DEF CoreInv, ClientInv
  <1>8. CASE ~(gw_cfg.mqtt /\ cnt_suspended = 0 /\ gw_cfg.broker # Invalid)
    <2>1. ASSUME Configured PROVE FALSE
      <3>1. cnt_suspended = 0 /\ ~cfg_mode
        BY <1>2, <1>3, <1>4, <2>1 DEF CoreInv, ClientInv
      <3>2. gw_cfg.mqtt /\ mqtt_client = gw_cfg.broker
        BY <1>2, <1>3, <1>9, <2>1, <3>1 DEF CoreInv, ClientInv
      <3>3. mqtt_client # Invalid
        BY <1>6, BrokerAssumption
      <3> QED BY <1>8, <3>1, <3>2, <3>3
    <2> QED BY <1>5, <1>8, <2>1 DEF Configured
  <1> QED BY <1>7, <1>8

(* MQTT follows the configuration: whatever order configurations, checks,  *)
(* suspensions and restarts come in, from any number of HTTP server        *)
(* threads, once all of it has been handled the client runs exactly if     *)
(* mqtt is on and nobody suspends relaying, and with the configured        *)
(* server.  The hypothesis leaves out the two ways of the code not to: a   *)
(* page that saves after configuration mode has ended, which restarts      *)
(* nothing, and a client that cannot be created.                           *)
THEOREM ServicesAreRight ==
    ASSUME CfgIsGuarded
    PROVE  Spec => []ServicesFollowConfig
  <1>1. Init => ServiceInv
    BY ServiceInit DEF ServiceInv, CoreInv
  <1>2. RelayInv /\ ServiceInv /\ [Next]_vars => ServiceInv'
    BY PlanNext, CoreNext, DefaultNext DEF RelayInv, ServiceInv, CoreInv
  <1>3. RelayInv /\ ServiceInv => ServicesFollowConfig
    BY QuietFollows DEF ServiceInv, CoreInv
  <1> QED BY <1>1, <1>2, <1>3, RelayInvariant, PTL DEF Spec

-----------------------------------------------------------------------------
(* The command bit.                                                        *)

(* No handler begins with a command: suspend and resume insert it.         *)
LEMMA BegunWithoutCommand ==
    ASSUME NEW q \in Begun
    PROVE  "command" \notin Elems(q)
  <1>1. ASSUME NEW x \in Step \ {"command"}, q = <<x>>
        PROVE  "command" \notin Elems(q)
    BY <1>1 DEF Elems
  <1>2. ASSUME NEW x \in {"stop", "start"}, NEW y \in {"restart", "ack"}, q = <<x, y>>
        PROVE  "command" \notin Elems(q)
    BY <1>2 DEF Elems
  <1>3. CASE q = <<"suspend_http", "apply", "resume_http">>
    BY <1>3 DEF Elems
  <1>4. CASE q = <<"suspend", "start", "await", "stop", "resume">>
    BY <1>4 DEF Elems
  <1>5. CASE q = <<>>
    BY <1>5 DEF Elems
  <1> QED BY <1>1, <1>2, <1>3, <1>4, <1>5 DEF Begun, Step

(* A step of a thread: whoever sets the bit notifies next.                 *)
LEMMA CommandThen ==
    ASSUME RelayInv, CommandInv, NEW th \in Thread, NEW st, Doing(th, st),
           NEW m \in Inserted, Then(th, m),
           main_sig \cup main_cur \subseteq main_sig' \cup main_cur',
           st = "notify" => "RELAYING_MODE_CHANGED" \in main_sig',
           relaying_cmd' => st = "command" \/ (st # "ack" /\ relaying_cmd)
    PROVE  CommandInv'
  <1>1. Pops(th, st, Elems(m))
    BY DoStep DEF RelayInv
  <1>2. ASSUME NEW x \in Thread, "command" \in Elems(todo'[x])
        PROVE  "notify" \in Elems(todo'[x])
    <2>1. CASE x # th
      BY <1>1, <1>2, <2>1 DEF Pops, CommandInv, Pending
    <2>2. CASE x = th
      <3>1. ~Idle(th)
        BY DEF Doing
      <3>2. "command" \notin Elems(Tail(todo[th]))
        BY <3>1, LaterSteps DEF RelayInv
      <3>3. "command" \in Elems(m)
        BY <1>2, <2>2, <3>1, <3>2, ThenStep DEF RelayInv
      <3>4. "notify" \in Elems(m)
        BY <3>3, InsertedElems DEF Inserted, Step
      <3> QED BY <1>1, <2>2, <3>4 DEF Pops
    <2> QED BY <2>1, <2>2
  <1>3. ASSUME relaying_cmd'
        PROVE  ModeChangeComes' \/ "ack" \in Elems(todo'["main"])
    <2>1. CASE st = "command"
      <3>1. "notify" \in Elems(todo[th])
        BY <1>1, <2>1 DEF Pops, CommandInv, Pending
      <3>2. "notify" \in Elems(todo'[th])
        BY <1>1, <2>1, <3>1 DEF Pops
      <3> QED BY <3>2 DEF ModeChangeComes, Pending
    <2>2. CASE st = "notify"
      BY <2>2 DEF ModeChangeComes
    <2>3. CASE st \notin {"command", "notify"}
      <3>1. st # "ack" /\ relaying_cmd
        BY <1>3, <2>3
      <3>2. CASE ModeChangeComes
        BY <1>1, <2>3, <3>2, ComesThen
      <3>3. CASE "ack" \in Elems(todo["main"])
        BY <1>1, <3>1, <3>3, MainIsThread DEF Pops
      <3> QED BY <3>1, <3>2, <3>3 DEF CommandInv, CommandIsHandled, Pending
    <2> QED BY <2>1, <2>2, <2>3
  <1> QED BY <1>2, <1>3 DEF CommandInv, CommandIsHandled, Pending

(* A handler of an idle thread: the one of the signal acknowledges.        *)
LEMMA CommandBegin ==
    ASSUME RelayInv, CommandInv, NEW th \in Thread, Idle(th),
           NEW q \in Begun, Begin(th, q), UNCHANGED relaying_cmd,
           \/ /\ "RELAYING_MODE_CHANGED" \in main_sig \cup main_cur
                   => "RELAYING_MODE_CHANGED" \in main_sig' \cup main_cur'
           \/ th = "main" /\ "ack" \in Elems(q)
    PROVE  CommandInv'
  <1>1. Elems(todo[th]) = {} /\ todo'[th] = q /\ \A x \in Thread \ {th} : todo'[x] = todo[x]
    BY InsertedElems, BegunSteps, BeginStep DEF Idle, RelayInv
  <1>2. \A x \in Thread : "command" \in Elems(todo'[x]) => "notify" \in Elems(todo'[x])
    BY <1>1, BegunWithoutCommand DEF CommandInv, Pending
  <1>3. CASE th = "main" /\ "ack" \in Elems(q)
    BY <1>1, <1>2, <1>3 DEF CommandInv, CommandIsHandled, Pending
  <1>4. CASE "RELAYING_MODE_CHANGED" \in main_sig \cup main_cur
                   => "RELAYING_MODE_CHANGED" \in main_sig' \cup main_cur'
    <2>1. ModeChangeComes => ModeChangeComes'
      BY <1>1, <1>4, ComesBegin
    <2>2. "ack" \in Elems(todo["main"]) => "ack" \in Elems(todo'["main"])
      BY <1>1, MainIsThread
    <2> QED BY <1>2, <2>1, <2>2 DEF CommandInv, CommandIsHandled, Pending
  <1> QED BY <1>3, <1>4

(* The threads go on with what they were doing.                            *)
LEMMA CommandKept ==
    ASSUME CommandInv, UNCHANGED <<todo, relaying_cmd>>,
           "RELAYING_MODE_CHANGED" \in main_sig \cup main_cur
             => "RELAYING_MODE_CHANGED" \in main_sig' \cup main_cur'
    PROVE  CommandInv'
  BY DEF CommandInv, CommandIsHandled, ModeChangeComes, Pending

(* Every step of the system keeps it.                                      *)
LEMMA CommandNext == RelayInv /\ CommandInv /\ [Next]_vars => CommandInv'
  <1> SUFFICES ASSUME RelayInv, CommandInv, [Next]_vars
               PROVE  CommandInv'
    OBVIOUS
  <1> USE DEF vars, main, threads, config, status, mqtt, adv
  <1>0. relaying_cmd \in BOOLEAN
    BY DEF RelayInv, RelayFlags
  <1>1. ASSUME NEW th \in Thread, Stop(th)
        PROVE  CommandInv'
    BY <1>0, <1>1, CommandThen DEF Stop, Inserted
  <1>2. ASSUME NEW th \in Thread, ClearBits(th)
        PROVE  CommandInv'
    BY <1>0, <1>2, CommandThen DEF ClearBits, Inserted
  <1>3. ASSUME NEW th \in Thread, StartAlreadyRunning(th)
        PROVE  CommandInv'
    BY <1>0, <1>3, CommandThen DEF StartAlreadyRunning, Inserted
  <1>4. ASSUME NEW th \in Thread, StartClient(th)
        PROVE  CommandInv'
    BY <1>0, <1>4, CommandThen DEF StartClient, Inserted
  <1>5. ASSUME NEW th \in Thread, SetStarted(th)
        PROVE  CommandInv'
    BY <1>0, <1>5, CommandThen DEF SetStarted, Inserted
  <1>6. ASSUME NEW th \in Thread, StartFails(th)
        PROVE  CommandInv'
    BY <1>0, <1>6, CommandThen DEF StartFails, Inserted
  <1>7. ASSUME NEW th \in Thread, Suspend(th)
        PROVE  CommandInv'
    BY <1>0, <1>7, CommandThen DEF Suspend, Inserted, Announce
  <1>8. ASSUME NEW th \in Thread, Resume(th)
        PROVE  CommandInv'
    BY <1>0, <1>8, CommandThen DEF Resume, Inserted, Announce
  <1>9. ASSUME NEW th \in Thread, SetCommand(th)
        PROVE  CommandInv'
    BY <1>0, <1>9, CommandThen DEF SetCommand, Inserted
  <1>10. ASSUME NEW th \in Thread, Notify(th)
        PROVE  CommandInv'
    BY <1>0, <1>10, CommandThen DEF Notify, Inserted
  <1>11. ASSUME NEW th \in Thread, WaitEnds(th)
        PROVE  CommandInv'
    BY <1>0, <1>11, CommandThen DEF WaitEnds, Inserted
  <1>12. ASSUME NEW s \in Server, StartTimer(s)
        PROVE  CommandInv'
    BY <1>0, <1>12, MainIsThread, CommandThen DEF StartTimer, Inserted
  <1>13. ASSUME NEW s \in Server, SuspendHttp(s)
        PROVE  CommandInv'
    BY <1>0, <1>13, MainIsThread, CommandThen DEF SuspendHttp, Inserted
  <1>14. ASSUME NEW s \in Server, KeepCfg(s)
        PROVE  CommandInv'
    BY <1>0, <1>14, MainIsThread, CommandThen DEF KeepCfg, Inserted
  <1>15. ASSUME NEW s \in Server, SendRestart(s)
        PROVE  CommandInv'
    BY <1>0, <1>15, MainIsThread, CommandThen DEF SendRestart, Inserted
  <1>16. ASSUME NEW s \in Server, ResumeHttp(s)
        PROVE  CommandInv'
    BY <1>0, <1>16, MainIsThread, CommandThen DEF ResumeHttp, Inserted
  <1>17. ASSUME NEW s \in Server, CheckConcludes(s)
        PROVE  CommandInv'
    BY <1>0, <1>17, MainIsThread, CommandThen DEF CheckConcludes, Inserted
  <1>18. ASSUME NEW s \in Server, NEW c \in Cfg, ApplyRemoteCfg(s, c)
        PROVE  CommandInv'
    BY <1>0, <1>18, MainIsThread, CommandThen DEF ApplyRemoteCfg, Install, Inserted
  <1>19. CASE RestartMqtt
    BY <1>0, <1>19, MainIsThread, CommandThen DEF RestartMqtt, Inserted
  <1>20. CASE Acknowledge
    BY <1>0, <1>20, MainIsThread, CommandThen DEF Acknowledge, Inserted
  <1>21. ASSUME NEW s \in Server, GetRuuviJson(s)
        PROVE  CommandInv'
    BY <1>21, MainIsThread, CommandBegin DEF GetRuuviJson, Begun
  <1>22. ASSUME NEW s \in Server, DownloadRemoteCfg(s)
        PROVE  CommandInv'
    BY <1>22, MainIsThread, CommandBegin DEF DownloadRemoteCfg, Begun
  <1>23. ASSUME NEW s \in Server, CheckMqtt(s)
        PROVE  CommandInv'
    BY <1>23, MainIsThread, CommandBegin DEF CheckMqtt, Begun
  <1>24. ASSUME NEW s \in Server, NEW c \in Cfg, PostRuuviJson(s, c)
        PROVE  CommandInv'
    BY <1>24, MainIsThread, CommandBegin DEF PostRuuviJson, Install, Begun
  <1>25. CASE ActivateCfgMode
    BY <1>25, MainIsThread, CommandBegin DEF ActivateCfgMode, Got, Begun
  <1>26. CASE RestartServices
    BY <1>26, MainIsThread, CommandBegin DEF RestartServices, Got, Begun
  <1>27. CASE DeactivateCfgMode
    <2>1. Idle("main") /\ UNCHANGED relaying_cmd
          /\ main_cur' = main_cur \ {"DEACTIVATE_CFG_MODE"} /\ main_sig \subseteq main_sig'
      BY <1>27 DEF DeactivateCfgMode, Got
    <2>2. CASE Begin("main", <<"resume">>)
      BY <2>1, <2>2, MainIsThread, CommandBegin DEF Begun
    <2>3. CASE UNCHANGED todo
      BY <2>1, <2>3, CommandKept
    <2> QED BY <1>27, <2>2, <2>3 DEF DeactivateCfgMode
  <1>28. CASE RelayingModeChanged
    <2>1. PICK q \in {<<"ack">>, <<"start", "ack">>, <<"stop", "ack">>} : Begin("main", q)
      BY <1>28 DEF RelayingModeChanged
    <2>2. "ack" \in Elems(q) /\ q \in Begun
      BY BegunElems DEF Begun
    <2> QED BY <1>28, <2>1, <2>2, MainIsThread, CommandBegin DEF RelayingModeChanged, Got
  <1>29. CASE \/ \E x \in Sensor : RecvAdv(x)
              \/ TakeSignals \/ SetDefaultConfig \/ AdvTakeSignals
              \/ HandleRecvAdv \/ PublishAdv \/ HandleMqttConnected
              \/ HandleGwCfg \/ CfgModeTimerFires \/ EthernetConnected
              \/ OnConnected \/ OnDisconnected \/ UNCHANGED vars
    <2>1. /\ UNCHANGED <<todo, relaying_cmd>>
          /\ "RELAYING_MODE_CHANGED" \in main_sig \cup main_cur
               => "RELAYING_MODE_CHANGED" \in main_sig' \cup main_cur'
      BY <1>29 DEF TakeSignals, SetDefaultConfig, Got, AdvTakeSignals,
         HandleRecvAdv, AdvGot, EthernetConnected, PublishAdv, HandleMqttConnected,
         HandleGwCfg, CfgModeTimerFires, OnConnected, OnDisconnected, RecvAdv
    <2> QED BY <2>1, CommandKept
  <1> QED
    BY <1>1, <1>2, <1>3, <1>4, <1>5, <1>6, <1>7, <1>8, <1>9, <1>10,
       <1>11, <1>12, <1>13, <1>14, <1>15, <1>16, <1>17, <1>18, <1>19,
       <1>20, <1>21, <1>22, <1>23, <1>24, <1>25, <1>26, <1>27, <1>28,
       <1>29, MainIsThread, Zenon
    DEF Next, MainStep, ThreadStep, ServerContinues, ServerBegins, AdvStep, EnvStep

(* No waiter is forgotten: whenever the command bit of gw_status.c is set, *)
(* the thread that set it is about to notify, the signal is on its way to  *)
(* the main task, or the main task is in the handler that clears the bit,  *)
(* for any number of threads and whatever the environment does.            *)
THEOREM CommandsReachMain == Spec => []CommandIsHandled
  <1>1. Init => CommandInv
    <2>1. SUFFICES ASSUME Init
                   PROVE  ~relaying_cmd /\ \A th \in Thread : "command" \notin Elems(todo[th])
      BY DEF CommandInv, CommandIsHandled, Pending
    <2>2. \A th \in Thread : todo[th] \in {<<>>, <<"start">>}
      BY <2>1 DEF Init
    <2> QED BY <2>1, <2>2, InsertedElems DEF Init, Step
  <1>2. CommandInv => CommandIsHandled
    BY DEF CommandInv
  <1> QED BY <1>1, <1>2, CommandNext, RelayInvariant, PTL DEF Spec

-----------------------------------------------------------------------------
(* One thread that checks brokers.                                         *)

(* Its lists of steps, named after the first one: before and after a       *)
(* suspension, and after the resume at the end.                            *)
AtTimer    == <<"start_timer">>
AtSuspend  == <<"suspend", "start", "await", "stop", "resume">>
AtCommand  == <<"command", "notify", "wait", "start", "await", "stop", "resume">>
AtNotify   == <<"notify", "wait", "start", "await", "stop", "resume">>
AtWait     == <<"wait", "start", "await", "stop", "resume">>
AtStart    == <<"start", "await", "stop", "resume">>
AtStarted  == <<"set_started", "await", "stop", "resume">>
AtAwait    == <<"await", "stop", "resume">>
AtStop     == <<"stop", "resume">>
AtClear    == <<"clear", "resume">>
AtResume   == <<"resume">>
EndCommand == <<"command", "notify", "wait">>
EndNotify  == <<"notify", "wait">>
EndWait    == <<"wait">>

(* The lists of the main task.                                             *)
MStart      == <<"start">>
MStarted    == <<"set_started">>
MAck        == <<"ack">>
MStartAck   == <<"start", "ack">>
MStartedAck == <<"set_started", "ack">>
MStopAck    == <<"stop", "ack">>
MClearAck   == <<"clear", "ack">>

(* These are all of them.                                                  *)
LEMMA PlanNames ==
    /\ CheckPlans = {<<>>, AtTimer, AtSuspend, AtCommand, AtNotify, AtWait,
                      AtStart, AtStarted, AtAwait, AtStop, AtClear, AtResume,
                      EndCommand, EndNotify, EndWait}
    /\ MainPlans = {<<>>, MStart, MStarted, MAck, MStartAck, MStartedAck, MStopAck,
                     MClearAck}
  BY DEF CheckPlans, MainPlans,
         AtTimer, AtSuspend, AtCommand, AtNotify, AtWait, AtStart, AtStarted,
         AtAwait, AtStop, AtClear, AtResume, EndCommand, EndNotify, EndWait,
         MStart, MStarted, MAck, MStartAck, MStartedAck, MStopAck, MClearAck

(* A list, its first step and the list that is left.                       *)
Goes(q, st, r) == q \in Seq(Step) /\ q # <<>> /\ Head(q) = st /\ Tail(q) = r

(* The lists of the thread follow each other.                              *)
LEMMA CheckHeads ==
    /\ Goes(AtTimer, "start_timer", <<>>)
    /\ Goes(AtSuspend, "suspend", AtStart)
    /\ Goes(AtCommand, "command", AtNotify)
    /\ Goes(AtNotify, "notify", AtWait)
    /\ Goes(AtWait, "wait", AtStart)
    /\ Goes(AtStart, "start", AtAwait)
    /\ Goes(AtStarted, "set_started", AtAwait)
    /\ Goes(AtAwait, "await", AtStop)
    /\ Goes(AtStop, "stop", AtResume)
    /\ Goes(AtClear, "clear", AtResume)
    /\ Goes(AtResume, "resume", <<>>)
    /\ Goes(EndCommand, "command", EndNotify)
    /\ Goes(EndNotify, "notify", EndWait)
    /\ Goes(EndWait, "wait", <<>>)
  <1>1. Goes(AtTimer, "start_timer", <<>>)
    BY DEF Goes, Step, AtTimer
  <1>2. Goes(AtSuspend, "suspend", AtStart)
    BY DEF Goes, Step, AtSuspend, AtStart
  <1>3. Goes(AtCommand, "command", AtNotify)
    BY DEF Goes, Step, AtCommand, AtNotify
  <1>4. Goes(AtNotify, "notify", AtWait)
    BY DEF Goes, Step, AtNotify, AtWait
  <1>5. Goes(AtWait, "wait", AtStart)
    BY DEF Goes, Step, AtWait, AtStart
  <1>6. Goes(AtStart, "start", AtAwait)
    BY DEF Goes, Step, AtStart, AtAwait
  <1>7. Goes(AtStarted, "set_started", AtAwait)
    BY DEF Goes, Step, AtStarted, AtAwait
  <1>8. Goes(AtAwait, "await", AtStop)
    BY DEF Goes, Step, AtAwait, AtStop
  <1>9. Goes(AtStop, "stop", AtResume)
    BY DEF Goes, Step, AtStop, AtResume
  <1>10. Goes(AtClear, "clear", AtResume)
    BY DEF Goes, Step, AtClear, AtResume
  <1>11. Goes(AtResume, "resume", <<>>)
    BY DEF Goes, Step, AtResume
  <1>12. Goes(EndCommand, "command", EndNotify)
    BY DEF Goes, Step, EndCommand, EndNotify
  <1>13. Goes(EndNotify, "notify", EndWait)
    BY DEF Goes, Step, EndNotify, EndWait
  <1>14. Goes(EndWait, "wait", <<>>)
    BY DEF Goes, Step, EndWait
  <1> QED BY <1>1, <1>2, <1>3, <1>4, <1>5, <1>6, <1>7, <1>8, <1>9, <1>10,
             <1>11, <1>12, <1>13, <1>14

(* The same for the main task.                                             *)
LEMMA MainHeads ==
    /\ Goes(MStart, "start", <<>>)
    /\ Goes(MStarted, "set_started", <<>>)
    /\ Goes(MAck, "ack", <<>>)
    /\ Goes(MStartAck, "start", MAck)
    /\ Goes(MStartedAck, "set_started", MAck)
    /\ Goes(MStopAck, "stop", MAck)
    /\ Goes(MClearAck, "clear", MAck)
  <1>1. Goes(MStart, "start", <<>>)
    BY DEF Goes, Step, MStart
  <1>2. Goes(MStarted, "set_started", <<>>)
    BY DEF Goes, Step, MStarted
  <1>3. Goes(MAck, "ack", <<>>)
    BY DEF Goes, Step, MAck
  <1>4. Goes(MStartAck, "start", MAck)
    BY DEF Goes, Step, MStartAck, MAck
  <1>5. Goes(MStartedAck, "set_started", MAck)
    BY DEF Goes, Step, MStartedAck, MAck
  <1>6. Goes(MStopAck, "stop", MAck)
    BY DEF Goes, Step, MStopAck, MAck
  <1>7. Goes(MClearAck, "clear", MAck)
    BY DEF Goes, Step, MClearAck, MAck
  <1> QED BY <1>1, <1>2, <1>3, <1>4, <1>5, <1>6, <1>7

(* The steps of the lists of the thread.                                   *)
LEMMA CheckElems ==
    /\ Elems(AtTimer) = {"start_timer"}
    /\ Elems(AtSuspend) = {"suspend", "start", "await", "stop", "resume"}
    /\ Elems(AtCommand) = {"command", "notify", "wait", "start", "await", "stop", "resume"}
    /\ Elems(AtNotify) = {"notify", "wait", "start", "await", "stop", "resume"}
    /\ Elems(AtWait) = {"wait", "start", "await", "stop", "resume"}
    /\ Elems(AtStart) = {"start", "await", "stop", "resume"}
    /\ Elems(AtStarted) = {"set_started", "await", "stop", "resume"}
    /\ Elems(AtAwait) = {"await", "stop", "resume"}
    /\ Elems(AtStop) = {"stop", "resume"}
    /\ Elems(AtClear) = {"clear", "resume"}
    /\ Elems(AtResume) = {"resume"}
    /\ Elems(EndCommand) = {"command", "notify", "wait"}
    /\ Elems(EndNotify) = {"notify", "wait"}
    /\ Elems(EndWait) = {"wait"}
  <1>1. Elems(AtTimer) = {"start_timer"}
    BY DEF Elems, AtTimer
  <1>2. Elems(AtSuspend) = {"suspend", "start", "await", "stop", "resume"}
    BY DEF Elems, AtSuspend
  <1>3. Elems(AtCommand) = {"command", "notify", "wait", "start", "await", "stop", "resume"}
    BY DEF Elems, AtCommand
  <1>4. Elems(AtNotify) = {"notify", "wait", "start", "await", "stop", "resume"}
    BY DEF Elems, AtNotify
  <1>5. Elems(AtWait) = {"wait", "start", "await", "stop", "resume"}
    BY DEF Elems, AtWait
  <1>6. Elems(AtStart) = {"start", "await", "stop", "resume"}
    BY DEF Elems, AtStart
  <1>7. Elems(AtStarted) = {"set_started", "await", "stop", "resume"}
    BY DEF Elems, AtStarted
  <1>8. Elems(AtAwait) = {"await", "stop", "resume"}
    BY DEF Elems, AtAwait
  <1>9. Elems(AtStop) = {"stop", "resume"}
    BY DEF Elems, AtStop
  <1>10. Elems(AtClear) = {"clear", "resume"}
    BY DEF Elems, AtClear
  <1>11. Elems(AtResume) = {"resume"}
    BY DEF Elems, AtResume
  <1>12. Elems(EndCommand) = {"command", "notify", "wait"}
    BY DEF Elems, EndCommand
  <1>13. Elems(EndNotify) = {"notify", "wait"}
    BY DEF Elems, EndNotify
  <1>14. Elems(EndWait) = {"wait"}
    BY DEF Elems, EndWait
  <1> QED BY <1>1, <1>2, <1>3, <1>4, <1>5, <1>6, <1>7, <1>8, <1>9, <1>10,
             <1>11, <1>12, <1>13, <1>14

(* The steps of the lists of the main task.                                *)
LEMMA MainElems ==
    /\ Elems(MStart) = {"start"}
    /\ Elems(MStarted) = {"set_started"}
    /\ Elems(MAck) = {"ack"}
    /\ Elems(MStartAck) = {"start", "ack"}
    /\ Elems(MStartedAck) = {"set_started", "ack"}
    /\ Elems(MStopAck) = {"stop", "ack"}
    /\ Elems(MClearAck) = {"clear", "ack"}
  <1>1. Elems(MStart) = {"start"}
    BY DEF Elems, MStart
  <1>2. Elems(MStarted) = {"set_started"}
    BY DEF Elems, MStarted
  <1>3. Elems(MAck) = {"ack"}
    BY DEF Elems, MAck
  <1>4. Elems(MStartAck) = {"start", "ack"}
    BY DEF Elems, MStartAck
  <1>5. Elems(MStartedAck) = {"set_started", "ack"}
    BY DEF Elems, MStartedAck
  <1>6. Elems(MStopAck) = {"stop", "ack"}
    BY DEF Elems, MStopAck
  <1>7. Elems(MClearAck) = {"clear", "ack"}
    BY DEF Elems, MClearAck
  <1> QED BY <1>1, <1>2, <1>3, <1>4, <1>5, <1>6, <1>7

(* Two lists of the thread with different names are different.             *)
LEMMA CheckPlansDiffer ==
    /\ AtTimer \notin {AtSuspend, AtCommand, AtNotify, AtWait, AtStart, AtStarted,
         AtAwait, AtStop, AtClear, AtResume, EndCommand, EndNotify, EndWait}
    /\ AtSuspend \notin {AtCommand, AtNotify, AtWait, AtStart, AtStarted, AtAwait, AtStop,
         AtClear, AtResume, EndCommand, EndNotify, EndWait}
    /\ AtCommand \notin {AtNotify, AtWait, AtStart, AtStarted, AtAwait, AtStop, AtClear,
         AtResume, EndCommand, EndNotify, EndWait}
    /\ AtNotify \notin {AtWait, AtStart, AtStarted, AtAwait, AtStop, AtClear, AtResume,
         EndCommand, EndNotify, EndWait}
    /\ AtWait \notin {AtStart, AtStarted, AtAwait, AtStop, AtClear, AtResume,
         EndCommand, EndNotify, EndWait}
    /\ AtStart \notin {AtStarted, AtAwait, AtStop, AtClear, AtResume, EndCommand,
         EndNotify, EndWait}
    /\ AtStarted \notin {AtAwait, AtStop, AtClear, AtResume, EndCommand, EndNotify, EndWait}
    /\ AtAwait \notin {AtStop, AtClear, AtResume, EndCommand, EndNotify, EndWait}
    /\ AtStop \notin {AtClear, AtResume, EndCommand, EndNotify, EndWait}
    /\ AtClear \notin {AtResume, EndCommand, EndNotify, EndWait}
    /\ AtResume \notin {EndCommand, EndNotify, EndWait}
    /\ EndCommand \notin {EndNotify, EndWait}
    /\ EndNotify \notin {EndWait}
  <1>1. AtTimer \notin {AtSuspend, AtCommand, AtNotify, AtWait, AtStart, AtStarted,
         AtAwait, AtStop, AtClear, AtResume, EndCommand, EndNotify, EndWait}
    BY DEF AtTimer, AtSuspend, AtCommand, AtNotify, AtWait, AtStart, AtStarted,
      AtAwait, AtStop, AtClear, AtResume, EndCommand, EndNotify, EndWait
  <1>2. AtSuspend \notin {AtCommand, AtNotify, AtWait, AtStart, AtStarted, AtAwait, AtStop,
         AtClear, AtResume, EndCommand, EndNotify, EndWait}
    BY DEF AtSuspend, AtCommand, AtNotify, AtWait, AtStart, AtStarted, AtAwait,
      AtStop, AtClear, AtResume, EndCommand, EndNotify, EndWait
  <1>3. AtCommand \notin {AtNotify, AtWait, AtStart, AtStarted, AtAwait, AtStop, AtClear,
         AtResume, EndCommand, EndNotify, EndWait}
    BY DEF AtCommand, AtNotify, AtWait, AtStart, AtStarted, AtAwait, AtStop,
      AtClear, AtResume, EndCommand, EndNotify, EndWait
  <1>4. AtNotify \notin {AtWait, AtStart, AtStarted, AtAwait, AtStop, AtClear, AtResume,
         EndCommand, EndNotify, EndWait}
    BY DEF AtNotify, AtWait, AtStart, AtStarted, AtAwait, AtStop, AtClear,
      AtResume, EndCommand, EndNotify, EndWait
  <1>5. AtWait \notin {AtStart, AtStarted, AtAwait, AtStop, AtClear, AtResume,
         EndCommand, EndNotify, EndWait}
    BY DEF AtWait, AtStart, AtStarted, AtAwait, AtStop, AtClear, AtResume,
      EndCommand, EndNotify, EndWait
  <1>6. AtStart \notin {AtStarted, AtAwait, AtStop, AtClear, AtResume, EndCommand,
         EndNotify, EndWait}
    BY DEF AtStart, AtStarted, AtAwait, AtStop, AtClear, AtResume, EndCommand,
      EndNotify, EndWait
  <1>7. AtStarted \notin {AtAwait, AtStop, AtClear, AtResume, EndCommand, EndNotify, EndWait}
    BY DEF AtStarted, AtAwait, AtStop, AtClear, AtResume, EndCommand, EndNotify,
      EndWait
  <1>8. AtAwait \notin {AtStop, AtClear, AtResume, EndCommand, EndNotify, EndWait}
    BY DEF AtAwait, AtStop, AtClear, AtResume, EndCommand, EndNotify, EndWait
  <1>9. AtStop \notin {AtClear, AtResume, EndCommand, EndNotify, EndWait}
    BY DEF AtStop, AtClear, AtResume, EndCommand, EndNotify, EndWait
  <1>10. AtClear \notin {AtResume, EndCommand, EndNotify, EndWait}
    BY DEF AtClear, AtResume, EndCommand, EndNotify, EndWait
  <1>11. AtResume \notin {EndCommand, EndNotify, EndWait}
    BY DEF AtResume, EndCommand, EndNotify, EndWait
  <1>12. EndCommand \notin {EndNotify, EndWait}
    BY DEF EndCommand, EndNotify, EndWait
  <1>13. EndNotify \notin {EndWait}
    BY DEF EndNotify, EndWait
  <1> QED BY <1>1, <1>2, <1>3, <1>4, <1>5, <1>6, <1>7, <1>8, <1>9, <1>10, <1>11,
     <1>12, <1>13

(* The same for the main task.                                             *)
LEMMA MainPlansDiffer ==
    /\ MStart \notin {MStarted, MAck, MStartAck, MStartedAck, MStopAck, MClearAck}
    /\ MStarted \notin {MAck, MStartAck, MStartedAck, MStopAck, MClearAck}
    /\ MAck \notin {MStartAck, MStartedAck, MStopAck, MClearAck}
    /\ MStartAck \notin {MStartedAck, MStopAck, MClearAck}
    /\ MStartedAck \notin {MStopAck, MClearAck}
    /\ MStopAck \notin {MClearAck}
  <1>1. MStart \notin {MStarted, MAck, MStartAck, MStartedAck, MStopAck, MClearAck}
    BY DEF MStart, MStarted, MAck, MStartAck, MStartedAck, MStopAck, MClearAck
  <1>2. MStarted \notin {MAck, MStartAck, MStartedAck, MStopAck, MClearAck}
    BY DEF MStarted, MAck, MStartAck, MStartedAck, MStopAck, MClearAck
  <1>3. MAck \notin {MStartAck, MStartedAck, MStopAck, MClearAck}
    BY DEF MAck, MStartAck, MStartedAck, MStopAck, MClearAck
  <1>4. MStartAck \notin {MStartedAck, MStopAck, MClearAck}
    BY DEF MStartAck, MStartedAck, MStopAck, MClearAck
  <1>5. MStartedAck \notin {MStopAck, MClearAck}
    BY DEF MStartedAck, MStopAck, MClearAck
  <1>6. MStopAck \notin {MClearAck}
    BY DEF MStopAck, MClearAck
  <1> QED BY <1>1, <1>2, <1>3, <1>4, <1>5, <1>6

(* What the thread is doing and has still to do, by the name of its list.  *)
LEMMA CheckNamed ==
    ASSUME NEW q \in CheckPlans
    PROVE  /\ q \in Seq(Step)
           /\ q # <<>> /\ Head(q) = "suspend" <=> q = AtSuspend
           /\ q # <<>> /\ Head(q) = "notify" <=> q \in {AtNotify, EndNotify}
           /\ q # <<>> /\ Head(q) = "wait" <=> q \in {AtWait, EndWait}
           /\ q # <<>> /\ Head(q) = "start" <=> q = AtStart
           /\ q # <<>> /\ Head(q) = "set_started" <=> q = AtStarted
           /\ q # <<>> /\ Head(q) = "await" <=> q = AtAwait
           /\ q # <<>> /\ Head(q) = "stop" <=> q = AtStop
           /\ q # <<>> /\ Head(q) = "resume" <=> q = AtResume
           /\ q # <<>> =>
                 Head(q) \notin {"apply", "send_restart", "suspend_http", "resume_http"}
           /\ "wait" \in Elems(q) <=>
                 q \in {AtCommand, AtNotify, AtWait, EndCommand, EndNotify, EndWait}
           /\ "suspend" \in Elems(q) <=> q = AtSuspend
           /\ "resume" \in Elems(q) <=> q \notin {<<>>, AtTimer, EndCommand, EndNotify, EndWait}
  <1>1. q \in {<<>>, AtTimer, AtSuspend, AtCommand, AtNotify, AtWait, AtStart,
             AtStarted, AtAwait, AtStop, AtClear, AtResume, EndCommand,
             EndNotify, EndWait}
    BY PlanNames
  <1>2. Elems(<<>>) = {} /\ <<>> \in Seq(Step)
    BY DEF Elems
  <1>3. q \in Seq(Step)
    BY <1>1, <1>2, CheckHeads, CheckPlansDiffer DEF Goes
  <1>4. q # <<>> /\ Head(q) = "suspend" <=> q = AtSuspend
    BY <1>1, <1>2, CheckHeads, CheckPlansDiffer DEF Goes
  <1>5. q # <<>> /\ Head(q) = "notify" <=> q \in {AtNotify, EndNotify}
    BY <1>1, <1>2, CheckHeads, CheckPlansDiffer DEF Goes
  <1>6. q # <<>> /\ Head(q) = "wait" <=> q \in {AtWait, EndWait}
    BY <1>1, <1>2, CheckHeads, CheckPlansDiffer DEF Goes
  <1>7. q # <<>> /\ Head(q) = "start" <=> q = AtStart
    BY <1>1, <1>2, CheckHeads, CheckPlansDiffer DEF Goes
  <1>8. q # <<>> /\ Head(q) = "set_started" <=> q = AtStarted
    BY <1>1, <1>2, CheckHeads, CheckPlansDiffer DEF Goes
  <1>9. q # <<>> /\ Head(q) = "await" <=> q = AtAwait
    BY <1>1, <1>2, CheckHeads, CheckPlansDiffer DEF Goes
  <1>10. q # <<>> /\ Head(q) = "stop" <=> q = AtStop
    BY <1>1, <1>2, CheckHeads, CheckPlansDiffer DEF Goes
  <1>11. q # <<>> /\ Head(q) = "resume" <=> q = AtResume
    BY <1>1, <1>2, CheckHeads, CheckPlansDiffer DEF Goes
  <1>12. q # <<>>
          => Head(q) \notin {"apply", "send_restart", "suspend_http", "resume_http"}
    BY <1>1, <1>2, CheckHeads, CheckPlansDiffer DEF Goes
  <1>13. "wait" \in Elems(q)
          <=> q \in {AtCommand, AtNotify, AtWait, EndCommand, EndNotify, EndWait}
    <2>1. \A p \in {AtCommand, AtNotify, AtWait, EndCommand, EndNotify, EndWait} : "wait" \in Elems(p)
      BY CheckElems
    <2>2. \A p \in {AtTimer, AtSuspend, AtStart, AtStarted, AtAwait, AtStop,
               AtClear, AtResume} : "wait" \notin Elems(p)
      BY CheckElems
    <2> QED BY <1>1, <1>2, <2>1, <2>2, CheckHeads, CheckPlansDiffer DEF Goes
  <1>14. "suspend" \in Elems(q) <=> q = AtSuspend
    <2>1. \A p \in {AtSuspend} : "suspend" \in Elems(p)
      BY CheckElems
    <2>2. \A p \in {AtTimer, AtCommand, AtNotify, AtWait, AtStart, AtStarted,
               AtAwait, AtStop, AtClear, AtResume, EndCommand, EndNotify,
               EndWait} : "suspend" \notin Elems(p)
      BY CheckElems
    <2> QED BY <1>1, <1>2, <2>1, <2>2, CheckHeads, CheckPlansDiffer DEF Goes
  <1>15. "resume" \in Elems(q)
          <=> q \notin {<<>>, AtTimer, EndCommand, EndNotify, EndWait}
    <2>1. \A p \in {AtSuspend, AtCommand, AtNotify, AtWait, AtStart, AtStarted,
               AtAwait, AtStop, AtClear, AtResume} : "resume" \in Elems(p)
      BY CheckElems
    <2>2. \A p \in {AtTimer, EndCommand, EndNotify, EndWait} : "resume" \notin Elems(p)
      BY CheckElems
    <2> QED BY <1>1, <1>2, <2>1, <2>2, CheckHeads, CheckPlansDiffer DEF Goes
  <1> QED BY <1>3, <1>4, <1>5, <1>6, <1>7, <1>8, <1>9, <1>10, <1>11, <1>12, <1>13, <1>14, <1>15

(* The same for the main task.                                             *)
LEMMA MainNamed ==
    ASSUME NEW q \in MainPlans
    PROVE  /\ q \in Seq(Step)
           /\ "ack" \in Elems(q) <=> q \in {MAck, MStartAck, MStartedAck, MStopAck, MClearAck}
           /\ "start" \in Elems(q) <=> q \in {MStart, MStartAck}
           /\ "stop" \in Elems(q) <=> q = MStopAck
           /\ {"suspend", "resume"} \cap Elems(q) = {}
           /\ q # <<>> => Head(q) \in {"start", "set_started", "stop", "clear", "ack"}
  <1>1. q \in {<<>>, MStart, MStarted, MAck, MStartAck, MStartedAck, MStopAck,
             MClearAck}
    BY PlanNames
  <1>2. Elems(<<>>) = {} /\ <<>> \in Seq(Step)
    BY DEF Elems
  <1> QED BY <1>1, <1>2, MainHeads, MainElems, MainPlansDiffer DEF Goes

(* A list that has the steps of m and the rest of q is what they make.     *)
LEMMA JoinedIs ==
    ASSUME NEW q \in Seq(Step), q # <<>>, NEW m \in Seq(Step), NEW r \in Seq(Step),
           Len(r) = Len(m) + Len(q) - 1,
           \A i \in 1 .. Len(m) : r[i] = m[i],
           \A i \in 2 .. Len(q) : r[Len(m) + i - 1] = q[i]
    PROVE  m \o Tail(q) = r
  <1> DEFINE t == m \o Tail(q)
  <1>1. t \in Seq(Step) /\ Len(t) = Len(r) /\ Len(m) \in Nat /\ Len(q) \in Nat
    BY Concat
  <1>2. \A i \in 1 .. Len(m) : t[i] = r[i]
    BY Concat
  <1>3. ASSUME NEW i \in Len(m) + 1 .. Len(r)
        PROVE  t[i] = r[i]
    <2> DEFINE k == i - Len(m) + 1
    <2>1. k \in 2 .. Len(q) /\ i = Len(m) + k - 1
      BY <1>1
    <2>2. t[i] = q[k]
      BY <1>1, Concat
    <2> HIDE DEF k, t
    <2> QED BY <2>1, <2>2
  <1> HIDE DEF t
  <1>4. \A i \in 1 .. Len(r) : t[i] = r[i]
    BY <1>1, <1>2, <1>3
  <1>5. t = r
    BY <1>1, <1>4
  <1> QED BY <1>5 DEF t

(* The same when one step replaces the first one.                          *)
LEMMA ReplacedIs ==
    ASSUME NEW q \in Seq(Step), q # <<>>, NEW x \in Step, NEW r \in Seq(Step),
           Len(r) = Len(q), r[1] = x, \A i \in 2 .. Len(q) : r[i] = q[i]
    PROVE  <<x>> \o Tail(q) = r
  <1> DEFINE m == <<x>>
  <1>1. m \in Seq(Step) /\ Len(m) = 1 /\ m[1] = x /\ Len(q) \in Nat
    OBVIOUS
  <1> HIDE DEF m
  <1>2. /\ Len(r) = Len(m) + Len(q) - 1
        /\ \A i \in 1 .. Len(m) : r[i] = m[i]
        /\ \A i \in 2 .. Len(q) : r[Len(m) + i - 1] = q[i]
    BY <1>1
  <1>3. m \o Tail(q) = r
    BY <1>1, <1>2, JoinedIs
  <1> QED BY <1>3 DEF m

(* What a step inserts, and what it leaves of the list.                    *)
LEMMA Joined ==
    /\ Announce \o Tail(AtSuspend) = AtCommand
    /\ Announce \o Tail(AtResume) = EndCommand
    /\ <<"clear">> \o Tail(AtStop) = AtClear
    /\ <<"set_started">> \o Tail(AtStart) = AtStarted
    /\ <<"clear">> \o Tail(MStopAck) = MClearAck
    /\ <<"set_started">> \o Tail(MStart) = MStarted
    /\ <<"set_started">> \o Tail(MStartAck) = MStartedAck
  <1>1. Announce \o Tail(AtSuspend) = AtCommand
    <2>1. Announce \in Seq(Step) /\ Len(Announce) = 3
      BY DEF Announce, Step
    <2>2. AtSuspend \in Seq(Step) /\ AtSuspend # <<>> /\ Len(AtSuspend) = 5
      BY DEF AtSuspend, Step
    <2>3. AtCommand \in Seq(Step) /\ Len(AtCommand) = 7
      BY DEF AtCommand, Step
    <2>4. \A i \in 1 .. 3 : AtCommand[i] = Announce[i]
      BY DEF Announce, AtCommand
    <2>5. \A i \in 2 .. 5 : AtCommand[3 + i - 1] = AtSuspend[i]
      BY DEF AtSuspend, AtCommand
    <2>6. /\ Len(AtCommand) = Len(Announce) + Len(AtSuspend) - 1
          /\ \A i \in 1 .. Len(Announce) : AtCommand[i] = Announce[i]
          /\ \A i \in 2 .. Len(AtSuspend) : AtCommand[Len(Announce) + i - 1] = AtSuspend[i]
      BY <2>1, <2>2, <2>3, <2>4, <2>5
    <2> QED BY <2>1, <2>2, <2>3, <2>6, JoinedIs
  <1>2. Announce \o Tail(AtResume) = EndCommand
    <2>1. Announce \in Seq(Step) /\ Len(Announce) = 3
      BY DEF Announce, Step
    <2>2. AtResume \in Seq(Step) /\ AtResume # <<>> /\ Len(AtResume) = 1
      BY DEF AtResume, Step
    <2>3. EndCommand \in Seq(Step) /\ EndCommand = Announce
      BY <2>1 DEF EndCommand, Announce
    <2>4. /\ Len(EndCommand) = Len(Announce) + Len(AtResume) - 1
          /\ \A i \in 1 .. Len(Announce) : EndCommand[i] = Announce[i]
          /\ \A i \in 2 .. Len(AtResume) : EndCommand[Len(Announce) + i - 1] = AtResume[i]
      BY <2>1, <2>2, <2>3
    <2> QED BY <2>1, <2>2, <2>3, <2>4, JoinedIs
  <1>3. <<"clear">> \o Tail(AtStop) = AtClear
    <2>1. AtStop \in Seq(Step) /\ AtStop # <<>> /\ Len(AtStop) = 2 /\ "clear" \in Step
      BY DEF AtStop, Step
    <2>2. AtClear \in Seq(Step) /\ Len(AtClear) = 2 /\ AtClear[1] = "clear"
      BY DEF AtClear, Step
    <2>3. \A i \in 2 .. 2 : AtClear[i] = AtStop[i]
      BY DEF AtStop, AtClear
    <2> QED BY <2>1, <2>2, <2>3, ReplacedIs
  <1>4. <<"set_started">> \o Tail(AtStart) = AtStarted
    <2>1. AtStart \in Seq(Step) /\ AtStart # <<>> /\ Len(AtStart) = 4 /\ "set_started" \in Step
      BY DEF AtStart, Step
    <2>2. AtStarted \in Seq(Step) /\ Len(AtStarted) = 4 /\ AtStarted[1] = "set_started"
      BY DEF AtStarted, Step
    <2>3. \A i \in 2 .. 4 : AtStarted[i] = AtStart[i]
      BY DEF AtStart, AtStarted
    <2> QED BY <2>1, <2>2, <2>3, ReplacedIs
  <1>5. <<"clear">> \o Tail(MStopAck) = MClearAck
    <2>1. MStopAck \in Seq(Step) /\ MStopAck # <<>> /\ Len(MStopAck) = 2 /\ "clear" \in Step
      BY DEF MStopAck, Step
    <2>2. MClearAck \in Seq(Step) /\ Len(MClearAck) = 2 /\ MClearAck[1] = "clear"
      BY DEF MClearAck, Step
    <2>3. \A i \in 2 .. 2 : MClearAck[i] = MStopAck[i]
      BY DEF MStopAck, MClearAck
    <2> QED BY <2>1, <2>2, <2>3, ReplacedIs
  <1>6. <<"set_started">> \o Tail(MStart) = MStarted
    <2>1. MStart \in Seq(Step) /\ MStart # <<>> /\ Len(MStart) = 1 /\ "set_started" \in Step
      BY DEF MStart, Step
    <2>2. MStarted \in Seq(Step) /\ Len(MStarted) = 1 /\ MStarted[1] = "set_started"
      BY DEF MStarted, Step
    <2>3. \A i \in 2 .. 1 : MStarted[i] = MStart[i]
      BY DEF MStart, MStarted
    <2> QED BY <2>1, <2>2, <2>3, ReplacedIs
  <1>7. <<"set_started">> \o Tail(MStartAck) = MStartedAck
    <2>1. MStartAck \in Seq(Step) /\ MStartAck # <<>> /\ Len(MStartAck) = 2 /\ "set_started" \in Step
      BY DEF MStartAck, Step
    <2>2. MStartedAck \in Seq(Step) /\ Len(MStartedAck) = 2 /\ MStartedAck[1] = "set_started"
      BY DEF MStartedAck, Step
    <2>3. \A i \in 2 .. 2 : MStartedAck[i] = MStartAck[i]
      BY DEF MStartAck, MStartedAck
    <2> QED BY <2>1, <2>2, <2>3, ReplacedIs
  <1> QED BY <1>1, <1>2, <1>3, <1>4, <1>5, <1>6, <1>7

(* A step of the thread leads from list to list.                           *)
LEMMA CheckerStep ==
    ASSUME RelayValues, NEW s \in Server, todo[s] \in CheckPlans,
           NEW st, Doing(s, st), NEW m \in Inserted, Then(s, m)
    PROVE  /\ todo'["main"] = todo["main"]
           /\ st \in {"start_timer", "suspend", "command", "notify", "wait", "start",
                      "set_started", "await", "stop", "clear", "resume"}
           /\ st = "start_timer" /\ m = <<>> => todo[s] = AtTimer /\ todo'[s] = <<>>
           /\ st = "suspend" /\ m = Announce => todo[s] = AtSuspend /\ todo'[s] = AtCommand
           /\ st = "command" /\ m = <<>> =>
                 \/ todo[s] = AtCommand /\ todo'[s] = AtNotify
                 \/ todo[s] = EndCommand /\ todo'[s] = EndNotify
           /\ st = "notify" /\ m = <<>> =>
                 \/ todo[s] = AtNotify /\ todo'[s] = AtWait
                 \/ todo[s] = EndNotify /\ todo'[s] = EndWait
           /\ st = "wait" /\ m = <<>> =>
                 \/ todo[s] = AtWait /\ todo'[s] = AtStart
                 \/ todo[s] = EndWait /\ todo'[s] = <<>>
           /\ st = "start" /\ m = <<>> => todo[s] = AtStart /\ todo'[s] = AtAwait
           /\ st = "start" /\ m = <<"set_started">> => todo[s] = AtStart /\ todo'[s] = AtStarted
           /\ st = "set_started" /\ m = <<>> => todo[s] = AtStarted /\ todo'[s] = AtAwait
           /\ st = "await" /\ m = <<>> => todo[s] = AtAwait /\ todo'[s] = AtStop
           /\ st = "stop" /\ m = <<"clear">> => todo[s] = AtStop /\ todo'[s] = AtClear
           /\ st = "clear" /\ m = <<>> => todo[s] = AtClear /\ todo'[s] = AtResume
           /\ st = "resume" /\ m = Announce => todo[s] = AtResume /\ todo'[s] = EndCommand
  <1> DEFINE q == todo[s]
             r == todo'[s]
  <1>1. s \in Thread /\ s # "main"
    BY MainIsThread, ServerAssumption
  <1>2. q \in Seq(Step) /\ q # <<>> /\ Head(q) = st
    BY <1>1 DEF Doing, Idle, RelayValues
  <1>3. r = m \o Tail(q) /\ todo'["main"] = todo["main"]
    BY <1>1, MainIsThread DEF Then, RelayValues
  <1>4. m = <<>> => r = Tail(q)
    BY <1>1, ThenStep DEF Doing
  <1>5. q \in {AtTimer, AtSuspend, AtCommand, AtNotify, AtWait, AtStart, AtStarted, AtAwait,
               AtStop, AtClear, AtResume, EndCommand, EndNotify, EndWait}
    BY <1>2, PlanNames
  <1> HIDE DEF q, r
  <1>6. /\ st = "suspend" => q = AtSuspend
        /\ st = "resume" => q = AtResume
        /\ st = "start" => q = AtStart
        /\ st = "stop" => q = AtStop
        /\ st \in {"start_timer", "suspend", "command", "notify", "wait", "start",
                    "set_started", "await", "stop", "clear", "resume"}
    BY <1>2, <1>5, CheckHeads DEF Goes
  <1>7. CASE m = <<>>
    <2>1. r = Tail(q) /\ m # Announce /\ m # <<"clear">> /\ m # <<"set_started">>
      BY <1>4, <1>7 DEF Announce
    <2> QED BY <1>2, <1>3, <1>5, <2>1, CheckHeads DEF Goes, q, r
  <1>8. CASE m = Announce
    <2>1. m # <<>> /\ m # <<"clear">> /\ m # <<"set_started">>
      BY <1>8 DEF Announce
    <2> QED BY <1>3, <1>8, <1>6, <2>1, Joined DEF q, r
  <1>9. CASE m = <<"clear">>
    <2>1. m # <<>> /\ m # Announce /\ m # <<"set_started">>
      BY <1>9 DEF Announce
    <2> QED BY <1>3, <1>9, <1>6, <2>1, Joined DEF q, r
  <1>10. CASE m = <<"set_started">>
    <2>1. m # <<>> /\ m # Announce /\ m # <<"clear">>
      BY <1>10 DEF Announce
    <2> QED BY <1>3, <1>10, <1>6, <2>1, Joined DEF q, r
  <1>11. CASE m \notin {<<>>, Announce, <<"clear">>, <<"set_started">>}
    BY <1>2, <1>3, <1>5, <1>11, CheckHeads DEF Goes, q, r
  <1> QED BY <1>7, <1>8, <1>9, <1>10, <1>11

(* A step of the main task.                                                *)
LEMMA AnswererStep ==
    ASSUME RelayValues, todo["main"] \in MainPlans,
           NEW st, Doing("main", st), NEW m \in Inserted, Then("main", m)
    PROVE  /\ \A s \in Server : todo'[s] = todo[s]
           /\ st \in {"start", "set_started", "stop", "clear", "ack"}
           /\ st = "start" /\ m = <<>> =>
                 \/ todo["main"] = MStart /\ todo'["main"] = <<>>
                 \/ todo["main"] = MStartAck /\ todo'["main"] = MAck
           /\ st = "start" /\ m = <<"set_started">> =>
                 \/ todo["main"] = MStart /\ todo'["main"] = MStarted
                 \/ todo["main"] = MStartAck /\ todo'["main"] = MStartedAck
           /\ st = "set_started" /\ m = <<>> =>
                 \/ todo["main"] = MStarted /\ todo'["main"] = <<>>
                 \/ todo["main"] = MStartedAck /\ todo'["main"] = MAck
           /\ st = "stop" /\ m = <<"clear">> =>
                 todo["main"] = MStopAck /\ todo'["main"] = MClearAck
           /\ st = "clear" /\ m = <<>> => todo["main"] = MClearAck /\ todo'["main"] = MAck
           /\ st = "ack" /\ m = <<>> => todo["main"] = MAck /\ todo'["main"] = <<>>
  <1> DEFINE q == todo["main"]
             r == todo'["main"]
  <1>1. "main" \in Thread /\ "main" \notin Server
    BY MainIsThread, ServerAssumption
  <1>2. q \in Seq(Step) /\ q # <<>> /\ Head(q) = st
    BY <1>1 DEF Doing, Idle, RelayValues
  <1>3. r = m \o Tail(q) /\ \A s \in Server : todo'[s] = todo[s]
    BY <1>1, MainIsThread DEF Then, RelayValues
  <1>4. m = <<>> => r = Tail(q)
    BY <1>1, ThenStep DEF Doing
  <1>5. q \in {MStart, MStarted, MAck, MStartAck, MStartedAck, MStopAck, MClearAck}
    BY <1>2, PlanNames
  <1> HIDE DEF q, r
  <1>6. CASE m = <<>>
    <2>1. r = Tail(q) /\ m # <<"clear">> /\ m # <<"set_started">>
      BY <1>4, <1>6
    <2> QED BY <1>2, <1>3, <1>5, <2>1, MainHeads DEF Goes, q, r
  <1>7. CASE m = <<"clear">>
    <2>1. m # <<>> /\ m # <<"set_started">>
      BY <1>7
    <2> QED BY <1>2, <1>3, <1>5, <1>7, <2>1, MainHeads, Joined DEF Goes, q, r
  <1>8. CASE m = <<"set_started">>
    <2>1. m # <<>> /\ m # <<"clear">>
      BY <1>8
    <2> QED BY <1>2, <1>3, <1>5, <1>8, <2>1, MainHeads, Joined DEF Goes, q, r
  <1>9. CASE m \notin {<<>>, <<"clear">>, <<"set_started">>}
    BY <1>2, <1>3, <1>5, <1>9, MainHeads DEF Goes, q, r
  <1> QED BY <1>6, <1>7, <1>8, <1>9

(* The lists of a thread that has suspended relaying, the ones after the   *)
(* wait among them; the lists of a main task that answers or starts MQTT.  *)
Waited    == {AtStart, AtStarted, AtAwait, AtStop, AtClear, AtResume}
Suspended == {AtCommand, AtNotify, AtWait} \cup Waited
Answers   == {MAck, MStartAck, MStartedAck, MStopAck, MClearAck}
Starts    == {MStart, MStartAck}

(* CheckInv for the only thread, list by list.                             *)
IsStopped == mqtt_client \in {"NULL", TestBroker} /\ todo["main"] \notin Starts

PhaseInv(s) ==
    /\ ~cfg_mode
    /\ {"ACTIVATE_CFG_MODE", "RESTART_SERVICES"} \cap (main_sig \cup main_cur) = {}
    /\ todo["main"] \in MainPlans /\ todo[s] \in CheckPlans
    /\ ~(Asked /\ todo["main"] \in Answers)
    /\ "RELAYING_MODE_CHANGED" \notin main_sig \cap main_cur
    /\ todo[s] \in {AtNotify, EndNotify} => relaying_cmd
    /\ Asked \/ todo["main"] \in Answers => todo[s] \in {AtWait, EndWait} /\ relaying_cmd
    /\ copy # TestBroker
    /\ mqtt_client = TestBroker => todo[s] \in {AtStarted, AtAwait, AtStop}
    /\ todo[s] = AtWait =>
          /\ ~relaying_cmd => IsStopped
          /\ todo["main"] \in Answers => IsStopped \/ todo["main"] = MStopAck
    /\ todo[s] \in Waited => IsStopped

(* It says the same, before and after a step.                              *)
LEMMA PhaseIs ==
    ASSUME NEW s, Server = {s}
    PROVE  CheckerAlone /\ Handshake /\ AnswerInv => PhaseInv(s)
  <1> SUFFICES ASSUME CheckerAlone, Handshake, AnswerInv
               PROVE  PhaseInv(s)
    OBVIOUS
  <1>1. s \in Server /\ todo["main"] \in MainPlans /\ todo[s] \in CheckPlans
    BY DEF CheckerAlone
  <1>2. /\ Answering <=> todo["main"] \in Answers
        /\ Pending("main", "start") <=> todo["main"] \in Starts
        /\ Pending("main", "stop") <=> todo["main"] = MStopAck
    BY <1>1, MainNamed DEF Answering, Pending, Answers, Starts
  <1>3. Stopped <=> IsStopped
    BY <1>2 DEF Stopped, IsStopped, Configured
  <1>4. /\ Doing(s, "notify") <=> todo[s] \in {AtNotify, EndNotify}
        /\ Doing(s, "wait") <=> todo[s] \in {AtWait, EndWait}
        /\ Doing(s, "set_started") <=> todo[s] = AtStarted
        /\ Doing(s, "await") <=> todo[s] = AtAwait
        /\ Doing(s, "stop") <=> todo[s] = AtStop
    BY <1>1, CheckNamed DEF Doing, Idle
  <1>5. /\ todo[s] = AtWait => Doing(s, "wait") /\ Pending(s, "resume")
        /\ todo[s] \in Waited =>
              Pending(s, "resume") /\ ~Pending(s, "suspend") /\ ~Pending(s, "wait")
    <2>1. /\ Pending(s, "resume") <=> todo[s] \notin {<<>>, AtTimer, EndCommand, EndNotify, EndWait}
          /\ Pending(s, "suspend") <=> todo[s] = AtSuspend
          /\ Pending(s, "wait") <=>
                todo[s] \in {AtCommand, AtNotify, AtWait, EndCommand, EndNotify, EndWait}
      BY <1>1, CheckNamed DEF Pending
    <2>2. <<>> \notin Suspended
      BY CheckHeads DEF Goes, Suspended, Waited
    <2> QED BY <1>4, <2>1, <2>2, CheckPlansDiffer DEF Suspended, Waited
  <1> QED BY <1>1, <1>2, <1>3, <1>4, <1>5 DEF PhaseInv, CheckerAlone, Handshake, AnswerInv

(* The other direction, and SuspendedMeansStopped.                         *)
LEMMA PhaseMeans ==
    ASSUME NEW s, Server = {s}
    PROVE  PhaseInv(s)' => CheckerAlone' /\ Handshake' /\ AnswerInv'
  <1> SUFFICES ASSUME PhaseInv(s)'
               PROVE  CheckerAlone' /\ Handshake' /\ AnswerInv'
    OBVIOUS
  <1>1. s \in Server /\ todo'["main"] \in MainPlans /\ todo'[s] \in CheckPlans
    BY DEF PhaseInv
  <1>2. /\ Answering' <=> todo'["main"] \in Answers
        /\ Pending("main", "start")' <=> todo'["main"] \in Starts
        /\ Pending("main", "stop")' <=> todo'["main"] = MStopAck
    BY <1>1, MainNamed DEF Answering, Pending, Answers, Starts
  <1>3. Stopped' <=> IsStopped'
    BY <1>2 DEF Stopped, IsStopped, Configured
  <1>4. /\ Doing(s, "notify")' <=> todo'[s] \in {AtNotify, EndNotify}
        /\ Doing(s, "wait")' <=> todo'[s] \in {AtWait, EndWait}
        /\ Doing(s, "set_started")' <=> todo'[s] = AtStarted
        /\ Doing(s, "await")' <=> todo'[s] = AtAwait
        /\ Doing(s, "stop")' <=> todo'[s] = AtStop
    BY <1>1, CheckNamed DEF Doing, Idle
  <1>5. /\ Doing(s, "wait")' /\ Pending(s, "resume")' => todo'[s] = AtWait
        /\ Pending(s, "resume")' /\ ~Pending(s, "suspend")' /\ ~Pending(s, "wait")' =>
              todo'[s] \in Waited
    <2>1. todo'[s] \in {<<>>, AtTimer, AtSuspend, AtCommand, AtNotify, AtWait, AtStart, AtStarted,
                        AtAwait, AtStop, AtClear, AtResume, EndCommand, EndNotify, EndWait}
      BY <1>1, PlanNames
    <2> QED BY <1>1, <1>4, <2>1, CheckNamed, CheckPlansDiffer DEF Pending, Waited
  <1>6. CheckerAlone'
    BY <1>1 DEF PhaseInv, CheckerAlone
  <1>7. Handshake'
    BY <1>1, <1>2, <1>4 DEF PhaseInv, Handshake, Asked
  <1>8. AnswerInv'
    BY <1>1, <1>2, <1>3, <1>4, <1>5 DEF PhaseInv, AnswerInv
  <1> QED BY <1>6, <1>7, <1>8

(* The counter is what the list of the only thread says.                   *)
LEMMA OneSuspender ==
    ASSUME RelayInv, NEW s, Server = {s}, PhaseInv(s)
    PROVE  cnt_suspended = IF todo[s] \in Suspended THEN 1 ELSE 0
  <1>1. s \in Server /\ todo["main"] \in MainPlans /\ todo[s] \in CheckPlans /\ ~cfg_mode
    BY DEF PhaseInv
  <1>2. ~Pending("main", "resume")
    BY <1>1, MainNamed DEF Pending
  <1>3. todo[s] \in {<<>>, AtTimer, AtSuspend, AtCommand, AtNotify, AtWait, AtStart, AtStarted,
                     AtAwait, AtStop, AtClear, AtResume, EndCommand, EndNotify, EndWait}
    BY <1>1, PlanNames
  <1>4. Pending(s, "resume") /\ ~Pending(s, "suspend") <=> todo[s] \in Suspended
    <2>1. /\ Pending(s, "resume") <=> todo[s] \notin {<<>>, AtTimer, EndCommand, EndNotify, EndWait}
          /\ Pending(s, "suspend") <=> todo[s] = AtSuspend
          /\ Pending(s, "wait") <=>
                todo[s] \in {AtCommand, AtNotify, AtWait, EndCommand, EndNotify, EndWait}
      BY <1>1, CheckNamed DEF Pending
    <2>2. <<>> \notin Suspended
      BY CheckHeads DEF Goes, Suspended, Waited
    <2> QED BY <1>3, <2>1, <2>2, CheckPlansDiffer DEF Suspended, Waited
  <1>5. Suspenders = IF todo[s] \in Suspended THEN {s} ELSE {}
    BY <1>1, <1>2, <1>4 DEF Suspenders
  <1>6. cnt_suspended = Cardinality(Suspenders)
    BY DEF RelayInv, SuspendInv, SuspensionsBalanced
  <1> QED BY <1>5, <1>6, FS_EmptySet, FS_Singleton

(* The lists that are named are lists of theirs, and none is empty.        *)
LEMMA NamedPlans ==
    /\ {<<>>, AtTimer, AtSuspend, AtCommand, AtNotify, AtWait, AtStart, AtStarted, AtAwait,
        AtStop, AtClear, AtResume, EndCommand, EndNotify, EndWait} \subseteq CheckPlans
    /\ {<<>>, MStart, MStarted, MAck, MStartAck, MStartedAck, MStopAck, MClearAck}
         \subseteq MainPlans
    /\ <<>> \notin {AtTimer, AtSuspend, AtCommand, AtNotify, AtWait, AtStart, AtStarted, AtAwait,
                   AtStop, AtClear, AtResume, EndCommand, EndNotify, EndWait}
    /\ <<>> \notin {MStart, MStarted, MAck, MStartAck, MStartedAck, MStopAck, MClearAck}
  BY PlanNames, CheckHeads, MainHeads DEF Goes

(* The steps of the thread.                                                *)
LEMMA CheckerKeeps ==
    ASSUME RelayInv, NEW s, Server = {s}, PhaseInv(s), "timeout" \notin Event,
           ServerContinues(s)
    PROVE  PhaseInv(s)'
  <1> USE DEF main, threads, config, status, mqtt, adv
  <1>1. /\ s \in Server /\ s # "main"
        /\ RelayValues /\ todo["main"] \in MainPlans /\ todo[s] \in CheckPlans
    BY ServerAssumption DEF PhaseInv, RelayInv
  <1>2. cnt_suspended = IF todo[s] \in Suspended THEN 1 ELSE 0
    BY OneSuspender
  <1>3. CASE Stop(s)
    <2>1. todo'["main"] = todo["main"] /\ todo[s] = AtStop /\ todo'[s] = AtClear
      BY <1>1, <1>3, CheckerStep DEF Stop, Inserted
    <2>2. UNCHANGED <<main_sig, main_cur, copy, cfg_mode, relaying_cmd>> /\ mqtt_client' = "NULL"
      BY <1>3 DEF Stop
    <2> QED BY <2>1, <2>2, NamedPlans, CheckPlansDiffer, BrokerAssumption
            DEF PhaseInv, IsStopped, Asked, Waited
  <1>4. CASE ClearBits(s)
    <2>1. todo'["main"] = todo["main"] /\ todo[s] = AtClear /\ todo'[s] = AtResume
      BY <1>1, <1>4, CheckerStep DEF ClearBits, Inserted
    <2>2. UNCHANGED <<main_sig, main_cur, copy, cfg_mode, relaying_cmd, mqtt_client>>
      BY <1>4 DEF ClearBits
    <2> QED BY <2>1, <2>2, NamedPlans, CheckPlansDiffer DEF PhaseInv, IsStopped, Asked, Waited
  <1>5. CASE StartAlreadyRunning(s) \/ StartFails(s)
    <2>1. todo'["main"] = todo["main"] /\ todo[s] = AtStart /\ todo'[s] = AtAwait
      BY <1>1, <1>5, CheckerStep DEF StartAlreadyRunning, StartFails, Inserted
    <2>2. UNCHANGED <<main_sig, main_cur, copy, cfg_mode, relaying_cmd, mqtt_client>>
      BY <1>5 DEF StartAlreadyRunning, StartFails
    <2> QED BY <2>1, <2>2, NamedPlans, CheckPlansDiffer DEF PhaseInv, IsStopped, Asked, Waited
  <1>6. CASE StartClient(s)
    <2>1. todo'["main"] = todo["main"] /\ todo[s] = AtStart /\ todo'[s] = AtStarted
      BY <1>1, <1>6, CheckerStep DEF StartClient, Inserted
    <2>2. UNCHANGED <<main_sig, main_cur, copy, cfg_mode, relaying_cmd>> /\ mqtt_client' = TestBroker
      BY <1>1, <1>6 DEF StartClient, Wanted
    <2> QED BY <2>1, <2>2, NamedPlans, CheckPlansDiffer DEF PhaseInv, IsStopped, Asked, Waited
  <1>7. CASE SetStarted(s)
    <2>1. todo'["main"] = todo["main"] /\ todo[s] = AtStarted /\ todo'[s] = AtAwait
      BY <1>1, <1>7, CheckerStep DEF SetStarted, Inserted
    <2>2. UNCHANGED <<main_sig, main_cur, copy, cfg_mode, relaying_cmd, mqtt_client>>
      BY <1>7 DEF SetStarted
    <2> QED BY <2>1, <2>2, NamedPlans, CheckPlansDiffer DEF PhaseInv, IsStopped, Asked, Waited
  <1>8. CASE Suspend(s)
    <2>1. todo[s] = AtSuspend
      BY <1>1, <1>8, CheckNamed DEF Suspend, Doing, Idle
    <2>2. cnt_suspended = 0
      BY <1>2, <2>1, CheckPlansDiffer DEF Suspended, Waited
    <2>3. todo'["main"] = todo["main"] /\ todo'[s] = AtCommand
      BY <1>1, <1>8, <2>2, CheckerStep DEF Suspend, Inserted
    <2>4. UNCHANGED <<main_sig, main_cur, copy, cfg_mode, relaying_cmd, mqtt_client>>
      BY <1>8 DEF Suspend
    <2> QED BY <2>1, <2>3, <2>4, NamedPlans, CheckPlansDiffer DEF PhaseInv, IsStopped, Asked, Waited
  <1>9. CASE Resume(s)
    <2>1. todo[s] = AtResume
      BY <1>1, <1>9, CheckNamed DEF Resume, Doing, Idle
    <2>2. cnt_suspended = 1
      BY <1>2, <2>1 DEF Suspended, Waited
    <2>3. todo'["main"] = todo["main"] /\ todo'[s] = EndCommand
      BY <1>1, <1>9, <2>2, CheckerStep DEF Resume, Inserted
    <2>4. UNCHANGED <<main_sig, main_cur, copy, cfg_mode, relaying_cmd, mqtt_client>>
      BY <1>9 DEF Resume
    <2> QED BY <2>1, <2>3, <2>4, NamedPlans, CheckPlansDiffer DEF PhaseInv, IsStopped, Asked, Waited
  <1>10. CASE SetCommand(s)
    <2>1. /\ todo'["main"] = todo["main"]
          /\ \/ todo[s] = AtCommand /\ todo'[s] = AtNotify
             \/ todo[s] = EndCommand /\ todo'[s] = EndNotify
      BY <1>1, <1>10, CheckerStep DEF SetCommand, Inserted
    <2>2. UNCHANGED <<main_sig, main_cur, copy, cfg_mode, mqtt_client>> /\ relaying_cmd'
      BY <1>10 DEF SetCommand
    <2> QED BY <2>1, <2>2, NamedPlans, CheckPlansDiffer DEF PhaseInv, IsStopped, Asked, Waited
  <1>11. CASE Notify(s)
    <2>1. /\ todo'["main"] = todo["main"]
          /\ \/ todo[s] = AtNotify /\ todo'[s] = AtWait
             \/ todo[s] = EndNotify /\ todo'[s] = EndWait
      BY <1>1, <1>11, CheckerStep DEF Notify, Inserted
    <2>2. /\ UNCHANGED <<main_cur, copy, cfg_mode, relaying_cmd, mqtt_client>>
          /\ main_sig' = main_sig \cup {"RELAYING_MODE_CHANGED"}
      BY <1>11 DEF Notify
    <2>3. ~Asked /\ todo["main"] \notin Answers /\ relaying_cmd
      BY <2>1, CheckPlansDiffer DEF PhaseInv
    <2> QED BY <2>1, <2>2, <2>3, NamedPlans, CheckPlansDiffer
            DEF PhaseInv, IsStopped, Asked, Waited
  <1>12. CASE WaitEnds(s)
    <2>1. /\ todo'["main"] = todo["main"]
          /\ \/ todo[s] = AtWait /\ todo'[s] = AtStart
             \/ todo[s] = EndWait /\ todo'[s] = <<>>
      BY <1>1, <1>12, CheckerStep DEF WaitEnds, Inserted
    <2>2. UNCHANGED <<main_sig, main_cur, copy, cfg_mode, mqtt_client>> /\ ~relaying_cmd /\ ~relaying_cmd'
      BY <1>1, <1>12 DEF WaitEnds
    <2> QED BY <2>1, <2>2, NamedPlans, CheckPlansDiffer DEF PhaseInv, IsStopped, Asked, Waited
  <1>13. CASE StartTimer(s)
    <2>1. todo'["main"] = todo["main"] /\ todo[s] = AtTimer /\ todo'[s] = <<>>
      BY <1>1, <1>13, CheckerStep DEF StartTimer, Inserted
    <2>2. UNCHANGED <<main_sig, main_cur, copy, cfg_mode, relaying_cmd, mqtt_client>>
      BY <1>13 DEF StartTimer
    <2> QED BY <2>1, <2>2, NamedPlans, CheckPlansDiffer DEF PhaseInv, IsStopped, Asked, Waited
  <1>14. CASE CheckConcludes(s)
    <2>1. todo'["main"] = todo["main"] /\ todo[s] = AtAwait /\ todo'[s] = AtStop
      BY <1>1, <1>14, CheckerStep DEF CheckConcludes, Inserted
    <2>2. UNCHANGED <<main_sig, main_cur, copy, cfg_mode, relaying_cmd, mqtt_client>>
      BY <1>14 DEF CheckConcludes
    <2> QED BY <2>1, <2>2, NamedPlans, CheckPlansDiffer DEF PhaseInv, IsStopped, Asked, Waited
  <1>15. CASE \/ SuspendHttp(s) \/ KeepCfg(s) \/ SendRestart(s) \/ ResumeHttp(s)
              \/ \E c \in Cfg : ApplyRemoteCfg(s, c)
    <2>1. PICK st \in {"apply", "send_restart", "suspend_http", "resume_http"} : Doing(s, st)
      BY <1>15 DEF SuspendHttp, KeepCfg, SendRestart, ResumeHttp, ApplyRemoteCfg
    <2> QED BY <1>1, <2>1, CheckNamed DEF Doing, Idle
  <1> QED BY <1>3, <1>4, <1>5, <1>6, <1>7, <1>8, <1>9, <1>10, <1>11, <1>12, <1>13, <1>14, <1>15
          DEF ServerContinues, ThreadStep

(* The steps of the main task.                                             *)
LEMMA AnswererKeeps ==
    ASSUME RelayInv, NEW s, Server = {s}, PhaseInv(s), MainStep
    PROVE  PhaseInv(s)'
  <1> USE DEF main, threads, config, status, mqtt, adv
  <1>1. /\ s \in Server /\ s # "main"
        /\ RelayValues /\ todo["main"] \in MainPlans /\ todo[s] \in CheckPlans /\ ~cfg_mode
    BY ServerAssumption DEF PhaseInv, RelayInv
  <1>2. cnt_suspended = IF todo[s] \in Suspended THEN 1 ELSE 0
    BY OneSuspender
  <1>3. gw_cfg.broker # TestBroker
    BY <1>1, CfgBroker DEF RelayValues
  <1>4. CASE Stop("main")
    <2>1. todo'[s] = todo[s] /\ todo["main"] = MStopAck /\ todo'["main"] = MClearAck
      BY <1>1, <1>4, AnswererStep DEF Stop, Inserted
    <2>2. UNCHANGED <<main_sig, main_cur, copy, cfg_mode, relaying_cmd>> /\ mqtt_client' = "NULL"
      BY <1>4 DEF Stop
    <2> QED BY <2>1, <2>2, NamedPlans, CheckPlansDiffer, MainPlansDiffer, BrokerAssumption
            DEF PhaseInv, IsStopped, Asked, Waited, Answers, Starts
  <1>5. CASE ClearBits("main")
    <2>1. todo'[s] = todo[s] /\ todo["main"] = MClearAck /\ todo'["main"] = MAck
      BY <1>1, <1>5, AnswererStep DEF ClearBits, Inserted
    <2>2. UNCHANGED <<main_sig, main_cur, copy, cfg_mode, relaying_cmd, mqtt_client>>
      BY <1>5 DEF ClearBits
    <2> QED BY <2>1, <2>2, NamedPlans, CheckPlansDiffer, MainPlansDiffer
            DEF PhaseInv, IsStopped, Asked, Waited, Answers, Starts
  <1>6. CASE StartAlreadyRunning("main") \/ StartFails("main")
    <2>1. /\ todo'[s] = todo[s]
          /\ \/ todo["main"] = MStart /\ todo'["main"] = <<>>
             \/ todo["main"] = MStartAck /\ todo'["main"] = MAck
      BY <1>1, <1>6, AnswererStep DEF StartAlreadyRunning, StartFails, Inserted
    <2>2. UNCHANGED <<main_sig, main_cur, copy, cfg_mode, relaying_cmd, mqtt_client>>
      BY <1>6 DEF StartAlreadyRunning, StartFails
    <2> QED BY <2>1, <2>2, NamedPlans, CheckPlansDiffer, MainPlansDiffer
            DEF PhaseInv, IsStopped, Asked, Waited, Answers, Starts
  <1>7. CASE StartClient("main")
    <2>1. /\ todo'[s] = todo[s]
          /\ \/ todo["main"] = MStart /\ todo'["main"] = MStarted
             \/ todo["main"] = MStartAck /\ todo'["main"] = MStartedAck
      BY <1>1, <1>7, AnswererStep DEF StartClient, Inserted
    <2>2. UNCHANGED <<main_sig, main_cur, copy, cfg_mode, relaying_cmd>> /\ mqtt_client' = copy
      BY <1>7 DEF StartClient, Wanted
    <2> QED BY <2>1, <2>2, NamedPlans, CheckPlansDiffer, MainPlansDiffer
            DEF PhaseInv, IsStopped, Asked, Waited, Answers, Starts
  <1>8. CASE SetStarted("main")
    <2>1. /\ todo'[s] = todo[s]
          /\ \/ todo["main"] = MStarted /\ todo'["main"] = <<>>
             \/ todo["main"] = MStartedAck /\ todo'["main"] = MAck
      BY <1>1, <1>8, AnswererStep DEF SetStarted, Inserted
    <2>2. UNCHANGED <<main_sig, main_cur, copy, cfg_mode, relaying_cmd, mqtt_client>>
      BY <1>8 DEF SetStarted
    <2> QED BY <2>1, <2>2, NamedPlans, CheckPlansDiffer, MainPlansDiffer
            DEF PhaseInv, IsStopped, Asked, Waited, Answers, Starts
  <1>9. CASE Acknowledge
    <2>1. todo'[s] = todo[s] /\ todo["main"] = MAck /\ todo'["main"] = <<>>
      BY <1>1, <1>9, AnswererStep DEF Acknowledge, Inserted
    <2>2. UNCHANGED <<main_sig, main_cur, copy, cfg_mode, mqtt_client>> /\ ~relaying_cmd'
      BY <1>9 DEF Acknowledge
    <2>3. todo[s] \in {AtWait, EndWait} /\ ~Asked
      BY <2>1 DEF PhaseInv, Answers
    <2>4. todo[s] = AtWait => mqtt_client \in {"NULL", TestBroker}
      BY <2>1, MainPlansDiffer DEF PhaseInv, Answers, IsStopped
    <2> QED BY <2>1, <2>2, <2>3, <2>4, NamedPlans, CheckPlansDiffer, MainPlansDiffer
            DEF PhaseInv, IsStopped, Asked, Waited, Answers, Starts
  <1>10. CASE \/ Suspend("main") \/ Resume("main") \/ SetCommand("main")
              \/ Notify("main") \/ WaitEnds("main") \/ RestartMqtt
    <2>1. PICK st \in {"suspend", "resume", "command", "notify", "wait", "restart"} :
             Doing("main", st)
      BY <1>10 DEF Suspend, Resume, SetCommand, Notify, WaitEnds, RestartMqtt
    <2> QED BY <1>1, <2>1, MainNamed DEF Doing, Idle
  <1>11. CASE RelayingModeChanged
    <2>1. /\ Idle("main") /\ "RELAYING_MODE_CHANGED" \in main_cur
          /\ main_cur' = main_cur \ {"RELAYING_MODE_CHANGED"}
          /\ UNCHANGED <<main_sig, cfg_mode, relaying_cmd, mqtt_client>>
      BY <1>11 DEF RelayingModeChanged, Got
    <2>2. todo[s] \in {AtWait, EndWait} /\ relaying_cmd /\ "RELAYING_MODE_CHANGED" \notin main_sig
      BY <2>1 DEF PhaseInv, Asked
    <2>3. ASSUME NEW q \in {<<"ack">>, <<"start", "ack">>, <<"stop", "ack">>}, Begin("main", q)
          PROVE  todo'["main"] = q /\ todo'[s] = todo[s]
      <3>1. q \in Begun
        BY DEF Begun
      <3> QED BY <1>1, <2>1, <2>3, <3>1, MainBegins
    <2>4. \/ todo'["main"] = MStopAck /\ UNCHANGED copy
          \/ /\ todo'["main"] \in {MAck, MStartAck} /\ cnt_suspended = 0
             /\ copy' \in {copy, gw_cfg.broker}
      BY <1>11, <2>3 DEF RelayingModeChanged, MAck, MStartAck, MStopAck
    <2>5. todo'[s] = todo[s]
      BY <1>11, <2>3 DEF RelayingModeChanged
    <2>6. cnt_suspended = 0 => todo[s] = EndWait
      BY <1>2, <2>2 DEF Suspended
    <2>7. todo'["main"] \in MainPlans /\ copy' # TestBroker
      BY <1>3, <2>4, NamedPlans DEF PhaseInv
    <2>8. todo[s] = AtWait => todo'["main"] = MStopAck
      BY <2>4, <2>6, CheckPlansDiffer
    <2>9. ~Asked'
      BY <2>1, <2>2 DEF Asked
    <2> QED BY <2>1, <2>2, <2>5, <2>7, <2>8, <2>9, CheckPlansDiffer, MainPlansDiffer
            DEF PhaseInv, IsStopped, Waited
  <1>12. CASE ActivateCfgMode \/ RestartServices
    BY <1>12 DEF ActivateCfgMode, RestartServices, Got, PhaseInv
  <1>13. CASE DeactivateCfgMode \/ SetDefaultConfig \/ TakeSignals
    <2>1. /\ UNCHANGED <<todo, copy, cfg_mode, relaying_cmd, mqtt_client>>
          /\ main_sig' \cup main_cur' \subseteq main_sig \cup main_cur \cup {"DEACTIVATE_CFG_MODE"}
      BY <1>1, <1>13 DEF DeactivateCfgMode, SetDefaultConfig, TakeSignals, Got
    <2>2. Asked' => Asked
      BY <2>1 DEF Asked
    <2>3. "RELAYING_MODE_CHANGED" \notin main_sig' \cap main_cur'
      BY <1>1, <1>13 DEF DeactivateCfgMode, SetDefaultConfig, TakeSignals, Got, PhaseInv
    <2> QED BY <2>1, <2>2, <2>3 DEF PhaseInv, IsStopped
  <1> QED BY <1>4, <1>5, <1>6, <1>7, <1>8, <1>9, <1>10, <1>11, <1>12, <1>13
          DEF MainStep, ThreadStep

(* A handler of the thread begins.                                         *)
LEMMA CheckerBegins ==
    ASSUME RelayInv, NEW s, Server = {s}, PhaseInv(s), {"cfg_mode", "remote"} \cap Event = {},
           ServerBegins(s)
    PROVE  PhaseInv(s)'
  <1> USE DEF main, threads, config, status, mqtt, adv
  <1>1. s \in Server /\ s # "main" /\ RelayValues /\ s \in Thread /\ "main" \in Thread
    BY ServerAssumption, MainIsThread DEF RelayInv
  <1>2. PICK q \in {AtTimer, AtSuspend} : Begin(s, q)
    BY DEF ServerBegins, GetRuuviJson, PostRuuviJson, DownloadRemoteCfg, CheckMqtt,
           AtTimer, AtSuspend
  <1>3. todo'[s] = q /\ todo'["main"] = todo["main"]
    BY <1>1, <1>2, CheckHeads, BeginStep DEF Goes
  <1>4. todo[s] = <<>> /\ UNCHANGED <<main_sig, main_cur, copy, cfg_mode, relaying_cmd, mqtt_client>>
    BY DEF ServerBegins, GetRuuviJson, PostRuuviJson, DownloadRemoteCfg, CheckMqtt, Install, Idle
  <1> QED BY <1>3, <1>4, NamedPlans, CheckPlansDiffer DEF PhaseInv, IsStopped, Asked, Waited

(* CheckInv is kept by every step of the system.                           *)
LEMMA CheckNext == RelayInv /\ CheckInv /\ [Next]_vars => CheckInv'
  <1> SUFFICES ASSUME RelayInv, CheckInv, [Next]_vars, OneChecker
               PROVE  CheckerAlone' /\ Handshake' /\ AnswerInv'
    BY DEF CheckInv, OneChecker
  <1>1. PICK s \in Server : Server = {s}
    BY DEF OneChecker
  <1>2. {"cfg_mode", "remote", "timeout"} \cap Event = {} /\ PhaseInv(s)
    BY <1>1, PhaseIs DEF OneChecker, CheckInv
  <1>3. CASE MainStep
    BY <1>1, <1>2, <1>3, AnswererKeeps, PhaseMeans
  <1>4. CASE ServerContinues(s)
    BY <1>1, <1>2, <1>4, CheckerKeeps, PhaseMeans
  <1>5. CASE ServerBegins(s)
    BY <1>1, <1>2, <1>5, CheckerBegins, PhaseMeans
  <1>6. CASE AdvStep \/ EnvStep \/ UNCHANGED vars
    <2>1. /\ UNCHANGED <<todo, copy, cfg_mode, relaying_cmd, mqtt_client, main_cur>>
          /\ main_sig \subseteq main_sig'
          /\ main_sig' \subseteq main_sig \cup {"DEACTIVATE_CFG_MODE", "SET_DEFAULT_CONFIG"}
      BY <1>6 DEF AdvStep, EnvStep, vars, main, threads, config, status, mqtt, adv,
         AdvTakeSignals, HandleRecvAdv, AdvGot, EthernetConnected, PublishAdv,
         HandleMqttConnected, HandleGwCfg, CfgModeTimerFires, OnConnected, OnDisconnected, RecvAdv
    <2>2. PhaseInv(s)'
      BY <1>2, <2>1 DEF PhaseInv, IsStopped, Asked
    <2> QED BY <1>1, <2>2, PhaseMeans
  <1> QED BY <1>1, <1>3, <1>4, <1>5, <1>6 DEF Next

(* It holds in the beginning.                                              *)
LEMMA CheckInit == Init => CheckInv
  <1> SUFFICES ASSUME Init, OneChecker
               PROVE  CheckerAlone /\ Handshake /\ AnswerInv
    BY DEF CheckInv
  <1>1. "main" \notin Server /\ "main" \in Thread /\ Server \subseteq Thread
    BY ServerAssumption, MainIsThread
  <1>2. todo["main"] \in {<<>>, MStart} /\ \A s \in Server : todo[s] = <<>>
    BY <1>1 DEF Init, MStart
  <1>3. CheckerAlone
    BY <1>2, NamedPlans DEF CheckerAlone, Init
  <1>4. ~Answering /\ ~Asked
    BY <1>2, NamedPlans, MainNamed, MainPlansDiffer DEF Answering, Pending, Asked, Init
  <1>5. \A s \in Server : \A st \in Step : ~Doing(s, st) /\ ~Pending(s, st)
    BY <1>2, InsertedElems DEF Doing, Idle, Pending
  <1>6. copy # TestBroker /\ mqtt_client # TestBroker
    <2>1. gw_cfg \in Cfg \cup {DefaultCfg}
      BY DEF Init
    <2> QED BY <2>1, CfgBroker, BrokerAssumption DEF Init
  <1>7. Handshake
    BY <1>4, <1>5 DEF Handshake, Asked, Step
  <1>8. AnswerInv
    BY <1>4, <1>5, <1>6 DEF AnswerInv, Step
  <1> QED BY <1>3, <1>7, <1>8

(* What the invariant is for.                                              *)
LEMMA CheckMeansStopped ==
    ASSUME RelayInv, CheckInv, OneChecker
    PROVE  SuspendedMeansStopped
  <1>1. PICK s \in Server : Server = {s}
    BY DEF OneChecker
  <1>2. PhaseInv(s)
    BY <1>1, PhaseIs DEF CheckInv
  <1>3. todo[s] \in CheckPlans
    BY <1>2 DEF PhaseInv
  <1>4. (Doing(s, "start") => todo[s] = AtStart) /\ (Doing(s, "await") => todo[s] = AtAwait)
    BY <1>3, CheckNamed DEF Doing, Idle
  <1>5. todo[s] \in {AtStart, AtAwait} => mqtt_client \in {"NULL", TestBroker}
    BY <1>2 DEF PhaseInv, Waited, IsStopped
  <1>6. todo[s] = AtStart => mqtt_client # TestBroker
    BY <1>2, CheckPlansDiffer DEF PhaseInv
  <1> QED BY <1>1, <1>4, <1>5, <1>6 DEF SuspendedMeansStopped

(* gw_status_suspend_relaying with flag_wait_until_relaying_stopped keeps  *)
(* its word: while the only HTTP server thread tries out a broker, no      *)
(* client of the saved configuration exists, whatever configurations are   *)
(* saved and whatever MQTT does meanwhile, provided that the main task     *)
(* answers in time and that neither configuration mode nor a download of   *)
(* the configuration starts MQTT behind its back.                          *)
THEOREM SuspensionStopsMqtt ==
    ASSUME OneChecker
    PROVE  Spec => []SuspendedMeansStopped
  <1>1. RelayInv /\ CheckInv => SuspendedMeansStopped
    BY CheckMeansStopped
  <1> QED BY <1>1, CheckInit, CheckNext, RelayInvariant, PTL DEF Spec
=============================================================================
