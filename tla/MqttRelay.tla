------------------------------ MODULE MqttRelay -----------------------------
(***************************************************************************)
(* The MQTT side of the gateway: the client (mqtt.c), its status bits and  *)
(* the suspend counter (gw_status.c), the main task that starts and stops  *)
(* it around configuration mode, configuration changes and suspensions     *)
(* (main_loop.c), the adv_mqtt task that publishes received reports        *)
(* (adv_mqtt_*.c), and the HTTP server thread, which saves configurations  *)
(* and tries out a broker with a client of its own (http_check_mqtt.c).    *)
(*                                                                         *)
(* A thread that executes a handler has a list of steps still to do,       *)
(* todo[th]; the steps are cut where another thread can see the middle:    *)
(* around the mutex of mqtt.c, and between the suspend counter, the        *)
(* command bit and the notification of gw_status.c.                        *)
(***************************************************************************)
EXTENDS Integers, Sequences, FiniteSets

CONSTANTS
    Broker,      \* MQTT servers with a usable address
    Invalid,     \* an empty server name or port 0
    DefaultBroker, \* the server of the default configuration
    TestBroker,  \* the server a user asks the gateway to try out
    Cfg,         \* configurations a user or a remote server may install
    Server,      \* HTTP server threads
    Sensor,      \* sensors whose reports are received
    Event        \* bound: what the environment does

CfgRecord == [mqtt : BOOLEAN, instant : BOOLEAN, broker : Broker \cup {Invalid}]

ASSUME BrokerAssumption ==
    /\ Invalid \notin Broker /\ "NULL" \notin Broker \cup {Invalid}
    /\ TestBroker \in Broker /\ DefaultBroker \in Broker \ {TestBroker}
ASSUME CfgAssumption == Cfg \subseteq CfgRecord /\ \A c \in Cfg : c.broker # TestBroker
ASSUME ServerAssumption == {"main", "none"} \cap Server = {} /\ IsFiniteSet(Server)
ASSUME SensorAssumption == IsFiniteSet(Sensor)
ASSUME EventAssumption ==
    Event \subseteq {"cfg_mode", "save", "late_save", "remote", "ethernet", "check",
                     "connect", "timeout", "no_memory"}

Thread == {"main"} \cup Server

(* main_task_sig_e, the signals that touch MQTT or the configuration mode. *)
MainSig ==
    [ACTIVATE_CFG_MODE |-> 7, DEACTIVATE_CFG_MODE |-> 8, RESTART_SERVICES |-> 9,
     SET_DEFAULT_CONFIG |-> 14, RELAYING_MODE_CHANGED |-> 17]

(* adv_mqtt_sig_e; GW_CFG stands for the three signals that make the task  *)
(* read the configuration again.                                           *)
AdvSig == [RECV_ADV |-> 1, MQTT_CONNECTED |-> 2, GW_CFG |-> 4]

(* The default configuration: MQTT is off, the interval 0.                 *)
DefaultCfg == [mqtt |-> FALSE, instant |-> TRUE, broker |-> DefaultBroker]

VARIABLES
    main_sig,        \* signals sent to the main task
    main_cur,        \* the snapshot the main task is handling
    todo,            \* todo[th]: steps left of what thread th is executing
    copy,            \* server in the main task's copy of the configuration
    gw_cfg,
    is_empty,        \* g_gw_cfg_is_empty: the gateway was never configured
    cfg_mode,        \* GW_STATUS_CFG_MODE
    cfg_mode_timer,  \* g_p_timer_sig_deactivate_cfg_mode is running
    cnt_suspended,   \* cnt_relaying_via_mqtt_suspended
    relaying_cmd,    \* GW_STATUS_MQTT_RELAYING_CMD_BIT
    mqtt_mutex,      \* holder of g_mqtt_mutex
    mqtt_client,     \* p_mqtt_client: "NULL" or the server it talks to
    started,         \* GW_STATUS_MQTT_STARTED_BIT
    connected,       \* GW_STATUS_MQTT_CONNECTED_BIT
    adv_sig,         \* signals sent to the adv_mqtt task
    adv_cur,
    adv_pc,
    instant_mode,    \* flag_mqtt_instant_mode_active of the cache
    list3            \* sensors in retransmission list 3

main    == <<main_sig, main_cur>>
threads == <<todo, copy>>
config  == <<gw_cfg, is_empty, cfg_mode, cfg_mode_timer>>
status  == <<cnt_suspended, relaying_cmd>>
mqtt    == <<mqtt_mutex, mqtt_client, started, connected>>
adv     == <<adv_sig, adv_cur, adv_pc, instant_mode, list3>>
vars    == <<main, threads, config, status, mqtt, adv>>

Step == {"stop", "clear", "start", "set_started", "restart", "ack",
         "suspend", "resume", "command", "notify", "wait", "await",
         "start_timer", "suspend_http", "apply", "send_restart", "resume_http"}

Elems(s) == {s[i] : i \in DOMAIN s}

RelayFlags ==
    /\ is_empty \in BOOLEAN /\ cfg_mode \in BOOLEAN /\ cfg_mode_timer \in BOOLEAN
    /\ relaying_cmd \in BOOLEAN
    /\ started \in BOOLEAN /\ connected \in BOOLEAN
    /\ instant_mode \in BOOLEAN

RelayValues ==
    /\ main_sig \subseteq DOMAIN MainSig /\ main_cur \subseteq DOMAIN MainSig
    /\ todo \in [Thread -> Seq(Step)]
    /\ copy \in Broker \cup {Invalid}
    /\ gw_cfg \in Cfg \cup {DefaultCfg}
    /\ mqtt_mutex \in Thread \cup {"none"}
    /\ mqtt_client \in Broker \cup {"NULL"}
    /\ adv_sig \subseteq DOMAIN AdvSig /\ adv_cur \subseteq DOMAIN AdvSig
    /\ adv_pc \in {"loop", "publish"}
    /\ list3 \in Seq(Sensor)

TypeOK ==
    /\ RelayFlags /\ RelayValues
    /\ cnt_suspended \in 0 .. Cardinality(Thread)
    /\ Len(list3) <= Cardinality(Sensor)

(* main_loop has just been entered: it starts MQTT if it is configured.    *)
Init ==
    /\ main_sig = {} /\ main_cur = {}
    /\ is_empty \in BOOLEAN
    /\ IF is_empty THEN gw_cfg = DefaultCfg ELSE gw_cfg \in Cfg
    /\ todo = [th \in Thread |->
                 IF th = "main" /\ gw_cfg.mqtt THEN <<"start">> ELSE <<>>]
    /\ copy = gw_cfg.broker
    /\ cfg_mode = FALSE /\ cfg_mode_timer = FALSE
    /\ cnt_suspended = 0 /\ relaying_cmd = FALSE
    /\ mqtt_mutex = "none" /\ mqtt_client = "NULL"
    /\ started = FALSE /\ connected = FALSE
    /\ adv_sig = {"GW_CFG"} /\ adv_cur = {} /\ adv_pc = "loop"
    /\ instant_mode = FALSE
    /\ list3 = <<>>

-----------------------------------------------------------------------------
(* Steps of a thread.                                                      *)

Idle(th) == todo[th] = <<>>
Doing(th, step) == ~Idle(th) /\ Head(todo[th]) = step

(* The current step is done; the steps in more come before the others.     *)
Then(th, more) == todo' = [todo EXCEPT ![th] = more \o Tail(@)]
Begin(th, steps) == todo' = [todo EXCEPT ![th] = steps]

(* mqtt_app_stop: under the mutex the client is destroyed first and the    *)
(* status bits are cleared then, when no callback can set them any more.   *)
Stop(th) ==
    /\ Doing(th, "stop") /\ mqtt_mutex = "none"
    /\ mqtt_mutex' = th
    /\ mqtt_client' = "NULL"
    /\ Then(th, <<"clear">>)
    /\ UNCHANGED <<main, copy, config, status, started, connected, adv>>

(* Mutant: the started bit survives.                                       *)
ClearBitsKeepsStarted(th) ==
    /\ Doing(th, "clear")
    /\ mqtt_mutex' = "none"
    /\ connected' = FALSE
    /\ Then(th, <<>>)
    /\ UNCHANGED <<main, copy, config, status, started, mqtt_client, adv>>

ClearBits(th) ==
    /\ Doing(th, "clear")
    /\ mqtt_mutex' = "none"
    /\ started' = FALSE /\ connected' = FALSE
    /\ Then(th, <<>>)
    /\ UNCHANGED <<main, copy, config, status, mqtt_client, adv>>

(* The server mqtt_app_start is called with: mqtt_app_start_with_gw_cfg    *)
(* copied it before it locked the mutex.                                   *)
Wanted(th) == IF th = "main" THEN copy ELSE TestBroker

(* mqtt_app_start: "MQTT client is already running".                       *)
StartAlreadyRunning(th) ==
    /\ Doing(th, "start") /\ mqtt_mutex = "none"
    /\ mqtt_client # "NULL"
    /\ Then(th, <<>>)
    /\ UNCHANGED <<main, copy, config, status, mqtt, adv>>

(* mqtt_app_start_internal: the client exists and may connect before the   *)
(* started bit is set.                                                     *)
StartClient(th) ==
    /\ Doing(th, "start") /\ mqtt_mutex = "none"
    /\ mqtt_client = "NULL" /\ Wanted(th) # Invalid
    /\ mqtt_mutex' = th
    /\ mqtt_client' = Wanted(th)
    /\ connected' = FALSE
    /\ Then(th, <<"set_started">>)
    /\ UNCHANGED <<main, copy, config, status, started, adv>>

SetStarted(th) ==
    /\ Doing(th, "set_started")
    /\ started' = TRUE
    /\ mqtt_mutex' = "none"
    /\ Then(th, <<>>)
    /\ UNCHANGED <<main, copy, config, status, mqtt_client, connected, adv>>

(* "Invalid MQTT parameters", or the client could not be created.          *)
StartFails(th) ==
    /\ Doing(th, "start") /\ mqtt_mutex = "none"
    /\ mqtt_client = "NULL"
    /\ Wanted(th) = Invalid \/ "no_memory" \in Event
    /\ connected' = FALSE
    /\ Then(th, <<>>)
    /\ UNCHANGED <<main, copy, config, status, mqtt_mutex, mqtt_client, started, adv>>

(* gw_status_suspend_relaying and gw_status_resume_relaying, the MQTT      *)
(* counter under its mutex: only a change from or to zero is announced.    *)
Announce == <<"command", "notify", "wait">>

Suspend(th) ==
    /\ Doing(th, "suspend")
    /\ cnt_suspended' = cnt_suspended + 1
    /\ Then(th, IF cnt_suspended = 0 THEN Announce ELSE <<>>)
    /\ UNCHANGED <<main, copy, config, relaying_cmd, mqtt, adv>>

Resume(th) ==
    /\ Doing(th, "resume")
    /\ cnt_suspended' = IF cnt_suspended = 0 THEN 0 ELSE cnt_suspended - 1
    /\ Then(th, IF cnt_suspended = 1 THEN Announce ELSE <<>>)
    /\ UNCHANGED <<main, copy, config, relaying_cmd, mqtt, adv>>

SetCommand(th) ==
    /\ Doing(th, "command")
    /\ relaying_cmd' = TRUE
    /\ Then(th, <<>>)
    /\ UNCHANGED <<main, copy, config, cnt_suspended, mqtt, adv>>

(* event_mgr_notify(EVENT_MGR_EV_RELAYING_MODE_CHANGED).                   *)
Notify(th) ==
    /\ Doing(th, "notify")
    /\ main_sig' = main_sig \cup {"RELAYING_MODE_CHANGED"}
    /\ Then(th, <<>>)
    /\ UNCHANGED <<main_cur, copy, config, status, mqtt, adv>>

(* gw_status_suspend_http_relaying and its counterpart leave the MQTT      *)
(* counter alone; cnt_relaying_via_http_suspended is that counter plus the *)
(* threads between the two.  The wait for adv_post is part of AdvPost.     *)
Pending(th, step) == step \in Elems(todo[th])

Downloading == {s \in Server : Pending(s, "resume_http") /\ ~Pending(s, "suspend_http")}

CntHttpSuspended == cnt_suspended + Cardinality(Downloading)

SuspendHttp(s) ==
    /\ Doing(s, "suspend_http")
    /\ Then(s, IF CntHttpSuspended = 0 THEN <<"notify">> ELSE <<>>)
    /\ UNCHANGED <<main, copy, config, status, mqtt, adv>>

ResumeHttp(s) ==
    /\ Doing(s, "resume_http")
    /\ Then(s, IF CntHttpSuspended = 1 THEN <<"notify">> ELSE <<>>)
    /\ UNCHANGED <<main, copy, config, status, mqtt, adv>>

(* The main task does not wait, the HTTP server does, for 15 s at most.    *)
WaitEnds(th) ==
    /\ Doing(th, "wait")
    /\ th = "main" \/ ~relaying_cmd \/ "timeout" \in Event
    /\ Then(th, <<>>)
    /\ UNCHANGED <<main, copy, config, status, mqtt, adv>>

-----------------------------------------------------------------------------
(* The main task.                                                          *)

TakeSignals ==
    /\ Idle("main") /\ main_cur = {} /\ main_sig # {}
    /\ main_cur' = main_sig
    /\ main_sig' = {}
    /\ UNCHANGED <<threads, config, status, mqtt, adv>>

Got(s) ==
    /\ Idle("main")
    /\ s \in main_cur /\ \A x \in main_cur : MainSig[s] <= MainSig[x]
    /\ main_cur' = main_cur \ {s}

(* Mutant: configuration mode is entered again while it is active.         *)
ActivateCfgModeAgain ==
    /\ Got("ACTIVATE_CFG_MODE")
    /\ cfg_mode' = TRUE
    /\ Begin("main", <<"suspend">>)
    /\ UNCHANGED <<main_sig, copy, gw_cfg, is_empty, cfg_mode_timer, status, mqtt, adv>>

ActivateCfgMode ==
    /\ Got("ACTIVATE_CFG_MODE")
    /\ cfg_mode' = TRUE
    /\ Begin("main", IF cfg_mode THEN <<>> ELSE <<"suspend">>)
    /\ UNCHANGED <<main_sig, copy, gw_cfg, is_empty, cfg_mode_timer, status, mqtt, adv>>

(* Mutant: leaving configuration mode only resumes relaying.               *)
DeactivateWithoutRestart ==
    /\ Got("DEACTIVATE_CFG_MODE")
    /\ cfg_mode_timer' = FALSE
    /\ cfg_mode' = (cfg_mode /\ is_empty)
    /\ Begin("main", IF cfg_mode /\ ~is_empty THEN <<"resume">> ELSE <<>>)
    /\ UNCHANGED <<main_sig, copy, gw_cfg, is_empty, status, mqtt, adv>>

(* The timer is stopped in any case.  An empty configuration keeps the     *)
(* mode; otherwise the services are restarted, CFG_MODE_DEACTIVATED is     *)
(* sent and relaying is resumed.                                           *)
DeactivateCfgMode ==
    /\ Got("DEACTIVATE_CFG_MODE")
    /\ cfg_mode_timer' = FALSE
    /\ IF cfg_mode /\ ~is_empty
         THEN /\ cfg_mode' = FALSE
              /\ main_sig' = main_sig \cup {"RESTART_SERVICES"}
              /\ adv_sig' = adv_sig \cup {"GW_CFG"}
              /\ Begin("main", <<"resume">>)
         ELSE UNCHANGED <<cfg_mode, main_sig, adv_sig, todo>>
    /\ UNCHANGED <<copy, gw_cfg, is_empty, status, mqtt, adv_cur, adv_pc, instant_mode, list3>>

(* main_task_handle_sig_restart_services: stop, then start if wanted.      *)
RestartServices ==
    /\ Got("RESTART_SERVICES")
    /\ Begin("main", <<"stop", "restart">>)
    /\ UNCHANGED <<main_sig, copy, config, status, mqtt, adv>>

RestartMqtt ==
    /\ Doing("main", "restart")
    /\ IF gw_cfg.mqtt /\ cnt_suspended = 0
         THEN copy' = gw_cfg.broker /\ Then("main", <<"start">>)
         ELSE UNCHANGED copy /\ Then("main", <<>>)
    /\ UNCHANGED <<main, config, status, mqtt, adv>>

(* The Ethernet cable was connected before the gateway was configured.     *)
SetDefaultConfig ==
    /\ Got("SET_DEFAULT_CONFIG")
    /\ gw_cfg' = DefaultCfg
    /\ is_empty' = FALSE
    /\ adv_sig' = IF gw_cfg = DefaultCfg THEN adv_sig ELSE adv_sig \cup {"GW_CFG"}
    /\ main_sig' = main_sig \cup {"DEACTIVATE_CFG_MODE"}
    /\ UNCHANGED <<threads, cfg_mode, cfg_mode_timer, status, mqtt, adv_cur, adv_pc, instant_mode, list3>>

(* Mutant: the command is acknowledged before it is carried out.           *)
RelayingModeChangedAcksFirst ==
    /\ Got("RELAYING_MODE_CHANGED")
    /\ IF gw_cfg.mqtt /\ cnt_suspended = 0
         THEN IF started
                THEN Begin("main", <<"ack">>) /\ UNCHANGED copy
                ELSE Begin("main", <<"ack", "start">>) /\ copy' = gw_cfg.broker
         ELSE Begin("main", <<"ack", "stop">>) /\ UNCHANGED copy
    /\ UNCHANGED <<main_sig, config, status, mqtt, adv>>

(* main_task_handle_sig_relaying_mode_changed.                             *)
RelayingModeChanged ==
    /\ Got("RELAYING_MODE_CHANGED")
    /\ IF gw_cfg.mqtt /\ cnt_suspended = 0
         THEN IF started
                THEN Begin("main", <<"ack">>) /\ UNCHANGED copy
                ELSE Begin("main", <<"start", "ack">>) /\ copy' = gw_cfg.broker
         ELSE Begin("main", <<"stop", "ack">>) /\ UNCHANGED copy
    /\ UNCHANGED <<main_sig, config, status, mqtt, adv>>

(* Mutant: the acknowledgement is forgotten when MQTT has been started.    *)
AcknowledgeStopped ==
    /\ Doing("main", "ack")
    /\ relaying_cmd' = (relaying_cmd /\ started)
    /\ Then("main", <<>>)
    /\ UNCHANGED <<main, copy, config, cnt_suspended, mqtt, adv>>

(* gw_status_clear_mqtt_relaying_cmd.                                      *)
Acknowledge ==
    /\ Doing("main", "ack")
    /\ relaying_cmd' = FALSE
    /\ Then("main", <<>>)
    /\ UNCHANGED <<main, copy, config, cnt_suspended, mqtt, adv>>

CfgModeTimerFires ==
    /\ cfg_mode_timer
    /\ cfg_mode_timer' = FALSE
    /\ main_sig' = main_sig \cup {"DEACTIVATE_CFG_MODE"}
    /\ UNCHANGED <<main_cur, threads, gw_cfg, is_empty, cfg_mode, status, mqtt, adv>>

(* ethernet_connection_ok_cb with an empty configuration.                  *)
EthernetConnected ==
    /\ "ethernet" \in Event
    /\ is_empty /\ "SET_DEFAULT_CONFIG" \notin main_sig
    /\ main_sig' = main_sig \cup {"SET_DEFAULT_CONFIG"}
    /\ UNCHANGED <<main_cur, threads, config, status, mqtt, adv>>

-----------------------------------------------------------------------------
(* The HTTP server.                                                        *)

Install(c) ==
    /\ c \in Cfg /\ c # gw_cfg
    /\ gw_cfg' = c
    /\ is_empty' = FALSE
    /\ adv_sig' = adv_sig \cup {"GW_CFG"}
    /\ UNCHANGED <<main, copy, cfg_mode, cfg_mode_timer, status, mqtt, adv_cur, adv_pc,
                   instant_mode, list3>>

(* GET ruuvi.json sends the request to the main task and starts the timer  *)
(* in the calling thread (the button does the same in the reset task).     *)
GetRuuviJson(s) ==
    /\ "cfg_mode" \in Event
    /\ Idle(s)
    /\ main_sig' = main_sig \cup {"ACTIVATE_CFG_MODE"}
    /\ Begin(s, <<"start_timer">>)
    /\ UNCHANGED <<main_cur, copy, config, status, mqtt, adv>>

StartTimer(s) ==
    /\ Doing(s, "start_timer")
    /\ cfg_mode_timer' = TRUE
    /\ Then(s, <<>>)
    /\ UNCHANGED <<main, copy, gw_cfg, is_empty, cfg_mode, status, mqtt, adv>>

(* POST ruuvi.json, from a page that was opened with GET ruuvi.json.  The  *)
(* handler does not look at the mode: "late_save" is a page left open      *)
(* until configuration mode has ended.                                     *)
PostRuuviJson(s, c) ==
    /\ "save" \in Event
    /\ Idle(s)
    /\ cfg_mode \/ "late_save" \in Event
    /\ Install(c)
    /\ Begin(s, <<"start_timer">>)

(* http_server_gw_cfg_download_and_update: relaying via HTTP is suspended  *)
(* for the download.                                                       *)
DownloadRemoteCfg(s) ==
    /\ "remote" \in Event
    /\ Idle(s)
    /\ Begin(s, <<"suspend_http", "apply", "resume_http">>)
    /\ UNCHANGED <<main, copy, config, status, mqtt, adv>>

(* The configuration of the remote server differs: services are restarted. *)
ApplyRemoteCfg(s, c) ==
    /\ Doing(s, "apply")
    /\ Install(c)
    /\ Then(s, <<"send_restart">>)

(* The download failed or nothing has changed.                             *)
KeepCfg(s) ==
    /\ Doing(s, "apply")
    /\ Then(s, <<>>)
    /\ UNCHANGED <<main, copy, config, status, mqtt, adv>>

SendRestart(s) ==
    /\ Doing(s, "send_restart")
    /\ main_sig' = main_sig \cup {"RESTART_SERVICES"}
    /\ Then(s, <<>>)
    /\ UNCHANGED <<main_cur, copy, config, status, mqtt, adv>>

(* validate_url with http_check_mqtt: suspend, try the broker with a       *)
(* client of its own, stop that client, resume.                            *)
CheckMqtt(s) ==
    /\ "check" \in Event
    /\ Idle(s)
    /\ Begin(s, <<"suspend", "start", "await", "stop", "resume">>)
    /\ UNCHANGED <<main, copy, config, status, mqtt, adv>>

(* The broker answered, or the time is over.                               *)
CheckConcludes(s) ==
    /\ Doing(s, "await")
    /\ Then(s, <<>>)
    /\ UNCHANGED <<main, copy, config, status, mqtt, adv>>

-----------------------------------------------------------------------------
(* mqtt_event_handler, called in the task of the client while it exists.   *)

OnConnected ==
    /\ "connect" \in Event
    /\ mqtt_client # "NULL" /\ ~connected
    /\ connected' = TRUE
    /\ adv_sig' = adv_sig \cup {"MQTT_CONNECTED"}
    /\ UNCHANGED <<main, threads, config, status, mqtt_mutex, mqtt_client, started,
                   adv_cur, adv_pc, instant_mode, list3>>

(* MQTT_EVENT_DISCONNECTED or MQTT_EVENT_ERROR.                            *)
OnDisconnected ==
    /\ mqtt_client # "NULL" /\ connected
    /\ connected' = FALSE
    /\ UNCHANGED <<main, threads, config, status, mqtt_mutex, mqtt_client, started, adv>>

-----------------------------------------------------------------------------
(* The adv_mqtt task.                                                      *)

AdvTakeSignals ==
    /\ adv_pc = "loop" /\ adv_cur = {} /\ adv_sig # {}
    /\ adv_cur' = adv_sig
    /\ adv_sig' = {}
    /\ UNCHANGED <<main, threads, config, status, mqtt, adv_pc, instant_mode, list3>>

AdvGot(s) ==
    /\ adv_pc = "loop"
    /\ s \in adv_cur /\ \A x \in adv_cur : AdvSig[s] <= AdvSig[x]
    /\ adv_cur' = adv_cur \ {s}
    /\ UNCHANGED <<main, threads, config, status, mqtt>>

MayPublish == connected /\ cnt_suspended = 0 /\ instant_mode

(* adv_mqtt_handle_sig_recv_adv takes one report out of the table.         *)
HandleRecvAdv ==
    /\ AdvGot("RECV_ADV")
    /\ IF MayPublish /\ list3 # <<>>
         THEN list3' = Tail(list3) /\ adv_pc' = "publish"
         ELSE UNCHANGED <<list3, adv_pc>>
    /\ UNCHANGED <<adv_sig, instant_mode>>

(* Mutant: the task does not wake itself up for the rest of the list.      *)
PublishAdvOnce ==
    /\ adv_pc = "publish" /\ mqtt_mutex = "none"
    /\ adv_pc' = "loop"
    /\ UNCHANGED <<main, threads, config, status, mqtt, adv_sig, adv_cur, instant_mode, list3>>

(* mqtt_publish_adv under the mutex; without a client the report is lost.  *)
(* The task wakes itself up as long as the list is not empty.              *)
PublishAdv ==
    /\ adv_pc = "publish" /\ mqtt_mutex = "none"
    /\ adv_pc' = "loop"
    /\ adv_sig' = IF list3 = <<>> THEN adv_sig ELSE adv_sig \cup {"RECV_ADV"}
    /\ UNCHANGED <<main, threads, config, status, mqtt, adv_cur, instant_mode, list3>>

(* mqtt_publish_connect: the retained "online" message, under the mutex.   *)
HandleMqttConnected ==
    /\ AdvGot("MQTT_CONNECTED")
    /\ mqtt_mutex = "none"
    /\ UNCHANGED <<adv_sig, adv_pc, instant_mode, list3>>

HandleGwCfg ==
    /\ AdvGot("GW_CFG")
    /\ instant_mode' = (gw_cfg.mqtt /\ gw_cfg.instant)
    /\ UNCHANGED <<adv_sig, adv_pc, list3>>

(* adv_post_send_report stored a report and notified the task.             *)
RecvAdv(x) ==
    /\ list3' = IF x \in Elems(list3) THEN list3 ELSE Append(list3, x)
    /\ adv_sig' = adv_sig \cup {"RECV_ADV"}
    /\ <<list3', adv_sig'>> # <<list3, adv_sig>>
    /\ UNCHANGED <<main, threads, config, status, mqtt, adv_cur, adv_pc, instant_mode>>

-----------------------------------------------------------------------------
ThreadStep(th) ==
    \/ Stop(th) \/ ClearBits(th)
    \/ StartAlreadyRunning(th) \/ StartClient(th) \/ SetStarted(th) \/ StartFails(th)
    \/ Suspend(th) \/ Resume(th) \/ SetCommand(th) \/ Notify(th) \/ WaitEnds(th)

MainStep ==
    \/ TakeSignals
    \/ ActivateCfgMode \/ DeactivateCfgMode
    \/ RestartServices \/ RestartMqtt
    \/ SetDefaultConfig
    \/ RelayingModeChanged \/ Acknowledge
    \/ ThreadStep("main")

ServerContinues(s) ==
    \/ ThreadStep(s)
    \/ StartTimer(s)
    \/ SuspendHttp(s) \/ KeepCfg(s) \/ SendRestart(s) \/ ResumeHttp(s)
    \/ \E c \in Cfg : ApplyRemoteCfg(s, c)
    \/ CheckConcludes(s)

ServerBegins(s) ==
    \/ GetRuuviJson(s)
    \/ \E c \in Cfg : PostRuuviJson(s, c)
    \/ DownloadRemoteCfg(s)
    \/ CheckMqtt(s)

AdvStep ==
    \/ AdvTakeSignals \/ HandleRecvAdv \/ PublishAdv
    \/ HandleMqttConnected \/ HandleGwCfg

EnvStep ==
    \/ CfgModeTimerFires \/ EthernetConnected
    \/ OnConnected \/ OnDisconnected
    \/ \E x \in Sensor : RecvAdv(x)

Next ==
    \/ MainStep
    \/ \E s \in Server : ServerContinues(s) \/ ServerBegins(s)
    \/ AdvStep
    \/ EnvStep

Spec == Init /\ [][Next]_vars

(* The scheduler runs every task that can go on.  Nothing is assumed of    *)
(* the network, the users and the sensors.                                 *)
Fairness ==
    /\ WF_vars(MainStep)
    /\ WF_vars(AdvStep)
    /\ \A s \in Server : WF_vars(ServerContinues(s))

FairSpec == Spec /\ Fairness

-----------------------------------------------------------------------------
(* Correctness.                                                            *)

(* Whenever nobody is inside mqtt.c, the started bit, which the main task  *)
(* reads without the mutex, says whether there is a client, and no status  *)
(* of a destroyed client is left: a callback that comes while the client   *)
(* is being stopped must not survive it.                                   *)
StatusMatchesClient ==
    mqtt_mutex = "none" =>
        /\ started <=> mqtt_client # "NULL"
        /\ connected => mqtt_client # "NULL"

(* Those who have suspended relaying and not resumed it yet.               *)
Suspenders ==
    {s \in Server : Pending(s, "resume") /\ ~Pending(s, "suspend")}
      \cup {th \in {"main"} : Pending(th, "resume") \/ (cfg_mode /\ ~Pending(th, "suspend"))}

(* The suspend counter is exactly the number of suspenders, configuration  *)
(* mode counting once however often it is requested, extended or left.     *)
SuspensionsBalanced == cnt_suspended = Cardinality(Suspenders)

(* Together the invariants are inductive.  What a thread has half done in  *)
(* mqtt.c, or has just suspended, is its first step: nothing plans it      *)
(* ahead.  Relaying is resumed at the very end.                            *)
Ordered(q) ==
    \A i \in 1 .. Len(q) :
        /\ q[i] \in {"clear", "set_started", "suspend", "suspend_http", "command"} => i = 1
        /\ q[i] \in {"resume", "resume_http"} => i = Len(q)

StepOrder == \A th \in Thread : Ordered(todo[th])

(* Who holds the mutex of mqtt.c, and what it leaves half done.            *)
MutexInv ==
    /\ StatusMatchesClient
    /\ \A th \in Thread :
          /\ mqtt_mutex = th <=> Doing(th, "clear") \/ Doing(th, "set_started")
          /\ Doing(th, "clear") => mqtt_client = "NULL"
          /\ Doing(th, "set_started") => mqtt_client # "NULL"

(* A thread that is about to suspend relaying will resume it; the main     *)
(* task does so for configuration mode.                                    *)
SuspendInv ==
    /\ SuspensionsBalanced
    /\ \A s \in Server : Pending(s, "suspend") => Pending(s, "resume")
    /\ Pending("main", "suspend") => cfg_mode
    /\ Pending("main", "resume") => ~cfg_mode

(* A sensor is at most once in the list.                                   *)
ListInv ==
    /\ Len(list3) = Cardinality(Elems(list3))
    /\ \A i, j \in 1 .. Len(list3) : list3[i] = list3[j] => i = j

RelayInv ==
    /\ RelayFlags /\ RelayValues /\ StepOrder
    /\ MutexInv /\ SuspendInv /\ ListInv

(* ServicesFollowConfig needs that a configuration is installed while      *)
(* configuration mode is on or with a restart of the services, and that    *)
(* the client can be created.                                              *)
CfgIsGuarded == {"late_save", "no_memory"} \cap Event = {}

(* Then a restart, or a look at the counter, is still to come for each     *)
(* change that the client does not follow yet.                             *)
RestartComes ==
    \/ "RESTART_SERVICES" \in main_sig \cup main_cur
    \/ Pending("main", "restart")
    \/ \E s \in Server : Pending(s, "send_restart")

ModeChangeComes ==
    \/ "RELAYING_MODE_CHANGED" \in main_sig \cup main_cur
    \/ \E th \in Thread : Pending(th, "notify")

(* A download ends with a look as well.                                    *)
LookComes == ModeChangeComes \/ Downloading # {}

(* The order of the steps: a check stops its client just before it         *)
(* resumes; the main task restarts last and suspends alone.                *)
FromEnd(q, step, n) == \A i \in 1 .. Len(q) : q[i] = step => i = Len(q) - n

PlanInv ==
    /\ FromEnd(todo["main"], "restart", 0)
    /\ Pending("main", "suspend") => Elems(todo["main"]) = {"suspend"}
    /\ ~(Pending("main", "start") /\ Pending("main", "restart"))
    /\ \A s \in Server :
          /\ FromEnd(todo[s], "stop", 1)
          /\ Pending(s, "start") => Pending(s, "stop")
          /\ Pending(s, "apply") => Pending(s, "resume_http")
          /\ \A st \in {"stop", "clear", "set_started"} : Pending(s, st) => Pending(s, "resume")

(* The client under test belongs to a thread that will stop it.            *)
TestInv ==
    /\ copy # TestBroker
    /\ mqtt_client = TestBroker =>
          \E s \in Server : Pending(s, "stop") /\ Pending(s, "resume") /\ ~Pending(s, "suspend")

Configured == mqtt_client \notin {"NULL", TestBroker}

(* What the main task is about to do is still right, or will be corrected. *)
DecisionInv ==
    /\ Pending("main", "start") =>
          /\ ~cfg_mode
          /\ (gw_cfg.mqtt /\ copy = gw_cfg.broker) \/ RestartComes
          /\ cnt_suspended > 0 => ModeChangeComes
    /\ Pending("main", "stop") =>
          cnt_suspended > 0 \/ ~gw_cfg.mqtt \/ ModeChangeComes \/ RestartComes
    /\ Pending("main", "restart") /\ ~Pending("main", "stop") => ~Configured

ClientInv ==
    /\ Configured => \/ gw_cfg.mqtt /\ mqtt_client = gw_cfg.broker
                     \/ ~gw_cfg.mqtt /\ (LookComes \/ Pending("main", "stop"))
                     \/ RestartComes \/ cfg_mode
    /\ Configured /\ cnt_suspended > 0 => ModeChangeComes \/ Pending("main", "stop")
    /\ mqtt_client = "NULL" /\ gw_cfg.mqtt /\ gw_cfg.broker # Invalid /\ cnt_suspended = 0 =>
          ModeChangeComes \/ RestartComes \/ cfg_mode \/ Pending("main", "start")

(* The default configuration switches MQTT off without a restart: it is    *)
(* off already, or a look at the counter comes after the change.           *)
Off == ~gw_cfg.mqtt /\ ~Configured /\ ~Pending("main", "start")

LooksAfterDefault ==
    \/ cfg_mode \/ cnt_suspended > 0 \/ Downloading # {}
    \/ \E th \in Thread : Pending(th, "notify")
    \/ "RELAYING_MODE_CHANGED" \in main_sig
    \/ "RELAYING_MODE_CHANGED" \in main_cur /\ "SET_DEFAULT_CONFIG" \notin main_sig

DefaultInv ==
    /\ is_empty => Off
    /\ "SET_DEFAULT_CONFIG" \in main_sig \cup main_cur => Off \/ LooksAfterDefault

ServiceInv == CfgIsGuarded => PlanInv /\ TestInv /\ DecisionInv /\ ClientInv /\ DefaultInv

(* The command bit is never left set with nobody about to clear it.        *)
CommandIsHandled == relaying_cmd => ModeChangeComes \/ Pending("main", "ack")

CommandInv ==
    /\ CommandIsHandled
    /\ \A th \in Thread : Pending(th, "command") => Pending(th, "notify")

(* SuspendedMeansStopped needs that one thread checks brokers, that nobody *)
(* else makes the main task look at the counter or restart the services,   *)
(* and that the main task answers before the timeout.                      *)
OneChecker ==
    (\E s \in Server : Server = {s}) /\ {"cfg_mode", "remote", "timeout"} \cap Event = {}

(* Then these are the lists of the main task and of the thread.            *)
MainPlans ==
    {<<>>, <<"start">>, <<"set_started">>, <<"ack">>,
     <<"start", "ack">>, <<"set_started", "ack">>, <<"stop", "ack">>, <<"clear", "ack">>}

CheckPlans ==
    {<<>>, <<"start_timer">>,
     <<"suspend", "start", "await", "stop", "resume">>,
     <<"command", "notify", "wait", "start", "await", "stop", "resume">>,
     <<"notify", "wait", "start", "await", "stop", "resume">>,
     <<"wait", "start", "await", "stop", "resume">>,
     <<"start", "await", "stop", "resume">>,
     <<"set_started", "await", "stop", "resume">>,
     <<"await", "stop", "resume">>,
     <<"stop", "resume">>, <<"clear", "resume">>, <<"resume">>,
     <<"command", "notify", "wait">>, <<"notify", "wait">>, <<"wait">>}

CheckerAlone ==
    /\ ~cfg_mode
    /\ {"ACTIVATE_CFG_MODE", "RESTART_SERVICES"} \cap (main_sig \cup main_cur) = {}
    /\ todo["main"] \in MainPlans
    /\ \A s \in Server : todo[s] \in CheckPlans

(* The main task looks at the counter only while the thread waits for it.  *)
Asked == "RELAYING_MODE_CHANGED" \in main_sig \cup main_cur
Answering == Pending("main", "ack")

Handshake ==
    /\ ~(Asked /\ Answering)
    /\ "RELAYING_MODE_CHANGED" \notin main_sig \cap main_cur
    /\ \A s \in Server :
          /\ Doing(s, "notify") => relaying_cmd
          /\ Asked \/ Answering => Doing(s, "wait") /\ relaying_cmd

(* The answer to a suspension means that MQTT is stopped and stays so.     *)
Stopped == ~Configured /\ ~Pending("main", "start")

AnswerInv ==
    /\ copy # TestBroker
    /\ \A s \in Server :
          /\ mqtt_client = TestBroker =>
                Doing(s, "set_started") \/ Doing(s, "await") \/ Doing(s, "stop")
          /\ Doing(s, "wait") /\ Pending(s, "resume") =>
                /\ ~relaying_cmd => Stopped
                /\ Answering => Stopped \/ Pending("main", "stop")
          /\ Pending(s, "resume") /\ ~Pending(s, "suspend") /\ ~Pending(s, "wait") => Stopped

CheckInv == OneChecker => CheckerAlone /\ Handshake /\ AnswerInv

(* Nobody has anything left to do.                                         *)
Quiet == main_sig \cup main_cur = {} /\ \A th \in Thread : Idle(th)

(* When everything has been handled, MQTT runs exactly if the current      *)
(* configuration wants it and nobody has suspended it, and it talks to the *)
(* server of the current configuration, whatever order configurations,     *)
(* checks, suspensions and restarts came in.                               *)
ServicesFollowConfig ==
    Quiet => mqtt_client = IF gw_cfg.mqtt /\ cnt_suspended = 0 /\ gw_cfg.broker # Invalid
                             THEN gw_cfg.broker ELSE "NULL"

(* gw_status_suspend_relaying(flag_wait_until_relaying_stopped = true) of  *)
(* a server thread returns when MQTT has been stopped, so that the check   *)
(* that follows watches its own client and not the one of the saved        *)
(* configuration.                                                          *)
SuspendedMeansStopped ==
    \A s \in Server :
        /\ Doing(s, "start") => mqtt_client = "NULL"
        /\ Doing(s, "await") => mqtt_client \in {"NULL", TestBroker}

(* A thread that waits for the main task's acknowledgement gets it without *)
(* the 15 s timeout.                                                       *)
MqttWaitersAreReleased ==
    \A s \in Server : Doing(s, "wait") ~> ~Doing(s, "wait")

Due(x) == x \in Elems(list3)

(* Once a report has woken the task up and publishing stays possible,      *)
(* every report of the list is taken, not only the first, even if no       *)
(* further advertisement is received.                                      *)
DueReportsAreTaken ==
    \A x \in Sensor :
        []((Due(x) /\ "RECV_ADV" \in adv_sig /\ []MayPublish) => <>~Due(x))
=============================================================================
