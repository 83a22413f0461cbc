------------------------------ MODULE AdvPost -------------------------------
(***************************************************************************)
(* The adv_post task (adv_post_task.c, adv_post_signals.c,                 *)
(* adv_post_async_comm.c), the single asynchronous HTTP request it shares  *)
(* with the HTTP server thread (http.c, http_post_advs.c), and the         *)
(* suspend/resume protocol through which other threads make it stop        *)
(* relaying (gw_status.c).                                                 *)
(*                                                                         *)
(* The task waits for signals, takes a snapshot of all the pending ones    *)
(* and handles them in the order of their numbers.  A handler is one       *)
(* action, cut where another thread can observe the middle of it:          *)
(* DO_ASYNC_COMM between finishing a transfer and starting the next, and   *)
(* RELAYING_MODE_CHANGED between reading the suspend counter and           *)
(* acknowledging the command.                                              *)
(***************************************************************************)
EXTENDS Integers, FiniteSets

CONSTANTS
    Cfg,         \* configurations a user may save
    Client,      \* threads that suspend relaying, wait, work and resume
    Server,      \* those that handle an incoming HTTP connection meanwhile
    CfgMode,     \* those that suspend and resume without waiting
    ExtSig,      \* bound: external signals that occur
    MaxBatch,    \* bound: reports in one periodic MQTT batch
    AllowTimeout \* whether the 15 s wait for the acknowledgement may expire

(* What the task sends: advertisements to the Ruuvi cloud (1) and to the   *)
(* custom server (2), statistics, and periodic MQTT batches.               *)
HttpJob == {"advs1", "advs2", "stats"}
Job == HttpJob \cup {"mqtt"}

(* The fields of gw_cfg the task looks at.                                 *)
CfgRecord == [advs1 : BOOLEAN, advs2 : BOOLEAN, stats : BOOLEAN,
              mqtt : BOOLEAN, periodic : BOOLEAN, ssl : BOOLEAN, ntp : BOOLEAN]

ASSUME CfgAssumption == Cfg \subseteq CfgRecord
ASSUME ClientAssumption ==
    /\ Server \subseteq Client
    /\ CfgMode \subseteq Client
    /\ Server \cap CfgMode = {}
    /\ {"adv_post", "none"} \cap Client = {}
    /\ IsFiniteSet(Client)
ASSUME ExtSigAssumption ==
    ExtSig \subseteq {"NETWORK_CONNECTED", "NETWORK_DISCONNECTED", "TIME_SYNCHRONIZED"}
ASSUME BatchAssumption == MaxBatch \in Nat
ASSUME TimeoutAssumption == AllowTimeout \in BOOLEAN

(* adv_post_sig_e, without the signals that only feed watchdogs, LEDs or   *)
(* the advertisement table.                                                *)
SigNum ==
    [NETWORK_DISCONNECTED |-> 1, NETWORK_CONNECTED |-> 2, TIME_SYNCHRONIZED |-> 3,
     RETRANSMIT |-> 4, RETRANSMIT2 |-> 5, RETRANSMIT_MQTT |-> 6,
     SEND_STATISTICS |-> 7, DO_ASYNC_COMM |-> 8, RELAYING_MODE_CHANGED |-> 9,
     GW_CFG_READY |-> 12, GW_CFG_CHANGED_RUUVI |-> 13, CFG_MODE_DEACTIVATED |-> 16]

Sig == DOMAIN SigNum

SigOf ==
    [advs1 |-> "RETRANSMIT", advs2 |-> "RETRANSMIT2", stats |-> "SEND_STATISTICS",
     mqtt |-> "RETRANSMIT_MQTT"]

(* The order in which adv_post_do_async_comm looks at the need flags.      *)
Rank == [advs1 |-> 1, advs2 |-> 2, stats |-> 3, mqtt |-> 4]

VARIABLES
    sig,                    \* signals sent and not yet taken
    cur,                    \* sig_events: the snapshot being handled
    ap_pc,                  \* where in a handler the task is
    flag_network_connected,
    flag_use_timestamps,
    flag_relaying_enabled,
    flag_async_comm_in_progress,
    flag_need_to_send,      \* flag_need_to_send_<job>
    adv_post_action,        \* g_adv_post_action
    mqtt_reports,           \* g_p_adv_post_reports_mqtt with its index, or NULL
    async_timer,            \* the one-shot DO_ASYNC_COMM timer is running
    timers,                 \* jobs whose periodic timer is running
    cfg,                    \* gw_cfg as last saved
    time_synchronized,      \* time_is_synchronized()
    mqtt_connected,         \* gw_status_is_mqtt_connected()
    http_sema,              \* thread that holds p_http_async_sema
    http_mutex,             \* holder of the incoming connection mutex
    http_mutex_active,      \* the HTTP server takes that mutex
    cnt_suspended,          \* cnt_relaying_via_http_suspended
    relaying_cmd,           \* GW_STATUS_HTTP_RELAYING_CMD_BIT
    pc,                     \* pc[c]: what client thread c is doing
    fault                   \* the assertion that stopped the firmware

task   == <<sig, cur, ap_pc>>
flags  == <<flag_network_connected, flag_use_timestamps, flag_relaying_enabled,
            flag_async_comm_in_progress, flag_need_to_send>>
comm   == <<adv_post_action, mqtt_reports>>
clocks == <<async_timer, timers>>
env    == <<cfg, time_synchronized, mqtt_connected>>
http   == <<http_sema, http_mutex, http_mutex_active>>
status == <<cnt_suspended, relaying_cmd, pc>>
vars   == <<task, flags, comm, clocks, env, http, status, fault>>

NULL == [num |-> 0, idx |-> -1]

PostFlags ==
    /\ flag_network_connected \in BOOLEAN
    /\ flag_use_timestamps \in BOOLEAN
    /\ flag_relaying_enabled \in BOOLEAN
    /\ flag_async_comm_in_progress \in BOOLEAN
    /\ async_timer \in BOOLEAN
    /\ time_synchronized \in BOOLEAN
    /\ mqtt_connected \in BOOLEAN
    /\ http_mutex_active \in BOOLEAN
    /\ relaying_cmd \in BOOLEAN

TypeOK ==
    /\ PostFlags
    /\ sig \subseteq Sig
    /\ cur \subseteq Sig
    /\ ap_pc \in {"loop", "start", "ack"}
    /\ flag_need_to_send \in [Job -> BOOLEAN]
    /\ adv_post_action \in Job \cup {"none"}
    /\ mqtt_reports \in [num : 0 .. MaxBatch, idx : -1 .. MaxBatch]
    /\ timers \subseteq Job
    /\ cfg \in Cfg
    /\ http_sema \in Client \cup {"adv_post", "none"}
    /\ http_mutex \in Client \cup {"adv_post", "none"}
    /\ cnt_suspended \in 0 .. Cardinality(Client)
    /\ pc \in [Client -> {"idle", "connected", "suspend", "suspend_notify", "suspend_wait",
                          "work", "check", "post",
                          "resume", "resume_notify", "resume_wait"}]
    /\ fault \in {"none", "sema_busy", "poll_other", "abort_other", "unlock_other"}

(* adv_post_task after registration, with GW_CFG_READY on its way.         *)
Init ==
    /\ sig = {"GW_CFG_READY"}
    /\ cur = {}
    /\ ap_pc = "loop"
    /\ flag_network_connected = FALSE
    /\ flag_use_timestamps = FALSE
    /\ flag_relaying_enabled = TRUE
    /\ flag_async_comm_in_progress = FALSE
    /\ flag_need_to_send = [j \in Job |-> FALSE]
    /\ adv_post_action = "none"
    /\ mqtt_reports = NULL
    /\ async_timer = FALSE
    /\ timers = {}
    /\ cfg \in Cfg
    /\ time_synchronized = FALSE
    /\ mqtt_connected = FALSE
    /\ http_sema = "none"
    /\ http_mutex = "none"
    /\ http_mutex_active = FALSE
    /\ cnt_suspended = 0
    /\ relaying_cmd = FALSE
    /\ pc = [c \in Client |-> "idle"]
    /\ fault = "none"

-----------------------------------------------------------------------------
(* A failed assertion stops the firmware: nothing happens after it.        *)
Running == fault = "none"

(* The task's loop.                                                        *)

(* os_signal_wait_with_timeout returns every pending signal.               *)
TakeSignals ==
    /\ Running
    /\ ap_pc = "loop" /\ cur = {} /\ sig # {}
    /\ cur' = sig
    /\ sig' = {}
    /\ UNCHANGED <<ap_pc, flags, comm, clocks, env, http, status, fault>>

(* os_signal_num_get_next: the lowest number left in the snapshot.         *)
Got(s) ==
    /\ Running
    /\ ap_pc = "loop"
    /\ s \in cur /\ \A x \in cur : SigNum[s] <= SigNum[x]
    /\ cur' = cur \ {s}

HandleNetworkDisconnected ==
    /\ Got("NETWORK_DISCONNECTED")
    /\ flag_network_connected' = FALSE
    /\ UNCHANGED <<sig, ap_pc, flag_use_timestamps, flag_relaying_enabled, flag_async_comm_in_progress, flag_need_to_send,
                   comm, clocks, env, http, status, fault>>

(* adv_post_restart_pending_retransmissions relaunches the timers of the   *)
(* HTTP jobs that are due; a relaunched timer is running.                  *)
RestartPending == timers' = timers \cup {j \in HttpJob : flag_need_to_send[j]}

HandleNetworkConnected ==
    /\ Got("NETWORK_CONNECTED")
    /\ flag_network_connected' = TRUE
    /\ RestartPending
    /\ UNCHANGED <<sig, ap_pc, flag_use_timestamps, flag_relaying_enabled, flag_async_comm_in_progress, flag_need_to_send,
                   async_timer, comm, env, http, status, fault>>

(* The first synchronisation also clears the advertisement table, which    *)
(* is not part of this module.                                             *)
HandleTimeSynchronized ==
    /\ Got("TIME_SYNCHRONIZED")
    /\ RestartPending
    /\ UNCHANGED <<sig, ap_pc, flag_network_connected, flag_use_timestamps,
                   flag_relaying_enabled, flag_async_comm_in_progress, flag_need_to_send,
                   async_timer, comm, env, http, status, fault>>

(* Mutant: a timer that still runs is taken to mean that its target is     *)
(* enabled.                                                                *)
HandleRetransmitOfAnyTarget(j) ==
    /\ Got(SigOf[j])
    /\ flag_need_to_send' = [flag_need_to_send EXCEPT ![j] = @ \/ flag_relaying_enabled]
    /\ sig' = IF flag_relaying_enabled THEN sig \cup {"DO_ASYNC_COMM"} ELSE sig
    /\ UNCHANGED <<ap_pc, flag_network_connected, flag_use_timestamps, flag_relaying_enabled,
                   flag_async_comm_in_progress, comm, clocks, env, http, status, fault>>

(* The four handlers of a periodic timer: RETRANSMIT, RETRANSMIT2,         *)
(* RETRANSMIT_MQTT and SEND_STATISTICS.                                    *)
HandleRetransmit(j) ==
    /\ Got(SigOf[j])
    /\ IF flag_relaying_enabled /\ cfg[j]
         THEN /\ flag_need_to_send' = [flag_need_to_send EXCEPT ![j] = TRUE]
              /\ sig' = sig \cup {"DO_ASYNC_COMM"}
         ELSE UNCHANGED <<flag_need_to_send, sig>>
    /\ UNCHANGED <<ap_pc, flag_network_connected,
                   flag_use_timestamps, flag_relaying_enabled,
                   flag_async_comm_in_progress, comm, clocks, env, http,
                   status, fault>>

(* adv_post_on_gw_cfg_change: start or stop the periodic timers, mark the  *)
(* enabled HTTP jobs as due and poll.  The MQTT flag is left as it is.     *)
OnGwCfgChange ==
    /\ flag_use_timestamps' = cfg.ntp
    /\ timers' = {j \in HttpJob : cfg[j]}
                   \cup (IF cfg.mqtt /\ cfg.periodic THEN {"mqtt"} ELSE {})
    /\ flag_need_to_send' =
          [j \in Job |-> IF j \in HttpJob THEN cfg[j] ELSE flag_need_to_send[j]]
    /\ async_timer' = TRUE

HandleGwCfgChanged(s) ==
    /\ s \in {"GW_CFG_READY", "GW_CFG_CHANGED_RUUVI"} /\ Got(s)
    /\ OnGwCfgChange
    /\ http_mutex_active' = (cfg.mqtt /\ cfg.ssl /\ (cfg.advs1 \/ cfg.advs2))
    /\ UNCHANGED <<sig, ap_pc, flag_network_connected,
                   flag_relaying_enabled, flag_async_comm_in_progress, comm, env,
                   http_sema, http_mutex, status, fault>>

HandleCfgModeDeactivated ==
    /\ Got("CFG_MODE_DEACTIVATED")
    /\ OnGwCfgChange
    /\ UNCHANGED <<sig, ap_pc, flag_network_connected,
                   flag_relaying_enabled, flag_async_comm_in_progress, comm, env,
                   http, status, fault>>

-----------------------------------------------------------------------------
(* adv_post_do_async_comm, first half: the transfer in progress.           *)

HttpInProgress == flag_async_comm_in_progress /\ adv_post_action # "mqtt"
MqttInProgress == flag_async_comm_in_progress /\ adv_post_action = "mqtt"

(* Nothing is in progress.                                                 *)
NothingInProgress ==
    /\ Got("DO_ASYNC_COMM")
    /\ ~flag_async_comm_in_progress
    /\ ap_pc' = "start"
    /\ UNCHANGED <<sig, flags, comm, clocks, env, http, status, fault>>

(* http_async_poll asserts that the calling task is the one that took the  *)
(* semaphore last.  It is not when a check in the server's thread has      *)
(* turned a batch in progress into an HTTP transfer (CheckPostsAdvs).      *)
PollAsserts ==
    /\ Got("DO_ASYNC_COMM")
    /\ HttpInProgress /\ http_sema # "adv_post"
    /\ fault' = "poll_other"
    /\ UNCHANGED <<sig, ap_pc, flags, comm, clocks, env, http, status>>

Polled == Got("DO_ASYNC_COMM") /\ HttpInProgress /\ http_sema = "adv_post"

(* Mutant: an unfinished request does not restart the timer.               *)
PollAgainStopsTimer ==
    /\ Polled
    /\ UNCHANGED <<sig, ap_pc, flags, comm, clocks, env, http, status, fault>>

(* http_async_poll: esp_http_client_perform returns ESP_ERR_HTTP_EAGAIN.   *)
PollAgain ==
    /\ Polled
    /\ async_timer' = TRUE
    /\ UNCHANGED <<sig, ap_pc, flags, comm, timers, env, http, status, fault>>

(* Mutant: a request made during the transfer survives it.                 *)
PollDoneKeepsNeed ==
    /\ Polled
    /\ timers' = timers \cup ({adv_post_action} \cap {"advs1", "advs2"})
    /\ http_sema' = "none"
    /\ adv_post_action' = "none"
    /\ http_mutex' = "none"
    /\ flag_async_comm_in_progress' = FALSE
    /\ ap_pc' = "start"
    /\ UNCHANGED <<sig, flag_network_connected, flag_use_timestamps,
                   flag_relaying_enabled, flag_need_to_send, mqtt_reports, async_timer,
                   env, http_mutex_active, status, fault>>

(* http_async_poll: the request has ended, well or not.  The timer of the  *)
(* advertisements' target is relaunched in both cases.                     *)
PollDone ==
    /\ Polled
    /\ timers' = timers \cup ({adv_post_action} \cap {"advs1", "advs2"})
    /\ http_sema' = "none"
    /\ flag_need_to_send' = [flag_need_to_send EXCEPT ![adv_post_action] = FALSE]
    /\ adv_post_action' = "none"
    /\ http_mutex' = "none"
    /\ flag_async_comm_in_progress' = FALSE
    /\ ap_pc' = "start"
    /\ UNCHANGED <<sig, flag_network_connected, flag_use_timestamps,
                   flag_relaying_enabled, mqtt_reports, async_timer, env,
                   http_mutex_active, status, fault>>

(* Mutant: the end of the batch is not noticed.                            *)
PublishOneUnbounded ==
    /\ Got("DO_ASYNC_COMM")
    /\ MqttInProgress
    /\ mqtt_reports' = [mqtt_reports EXCEPT !.idx = @ + 1]
    /\ async_timer' = TRUE
    /\ UNCHANGED <<sig, ap_pc, flags, adv_post_action, timers, env, http, status, fault>>

(* adv_post_do_async_comm_in_progress_mqtt publishes one report and the    *)
(* batch is not finished.                                                  *)
PublishOne ==
    /\ Got("DO_ASYNC_COMM")
    /\ MqttInProgress
    /\ mqtt_reports.idx + 1 < mqtt_reports.num
    /\ mqtt_reports' = [mqtt_reports EXCEPT !.idx = @ + 1]
    /\ async_timer' = TRUE
    /\ UNCHANGED <<sig, ap_pc, flags, adv_post_action, timers, env, http,
                   status, fault>>

(* Mutant: the batch is freed but the transfer is not marked as finished.  *)
PublishDoneKeepsFlag ==
    /\ Got("DO_ASYNC_COMM")
    /\ MqttInProgress
    /\ mqtt_reports' = NULL
    /\ ap_pc' = "start"
    /\ UNCHANGED <<sig, flags, adv_post_action, clocks, env, http, status, fault>>

(* The last report was published, or publishing failed and the rest of the *)
(* batch is dropped.                                                       *)
PublishDone ==
    /\ Got("DO_ASYNC_COMM")
    /\ MqttInProgress
    /\ mqtt_reports' = NULL
    /\ flag_async_comm_in_progress' = FALSE
    /\ ap_pc' = "start"
    /\ UNCHANGED <<sig, flag_network_connected, flag_use_timestamps,
                   flag_relaying_enabled, flag_need_to_send, adv_post_action, clocks,
                   env, http, status, fault>>

-----------------------------------------------------------------------------
(* adv_post_do_async_comm, second half: start the first job that is due.   *)

Due(j) ==
    /\ flag_relaying_enabled
    /\ flag_need_to_send[j]
    /\ \A k \in Job : Rank[k] < Rank[j] => ~flag_need_to_send[k]

NothingToStart ==
    /\ Running
    /\ ap_pc = "start"
    /\ \A j \in Job : ~Due(j)
    /\ ap_pc' = "loop"
    /\ UNCHANGED <<sig, cur, flags, comm, clocks, env, http, status, fault>>

TimeIsReady == flag_use_timestamps => time_synchronized

HttpMayStart == flag_network_connected /\ TimeIsReady /\ http_mutex = "none"

(* What starting a job has in common: the handler returns, and the timer   *)
(* will call it again.                                                     *)
Starting(j) ==
    /\ Running
    /\ ap_pc = "start" /\ Due(j)
    /\ ap_pc' = "loop"
    /\ async_timer' = TRUE
    /\ UNCHANGED <<cur, flag_network_connected, flag_use_timestamps,
                   flag_relaying_enabled, timers, env, http_mutex_active,
                   status>>

(* adv_post_do_async_comm_send_statistics finds statistics switched off.   *)
CancelStatistics ==
    /\ Starting("stats")
    /\ ~cfg.stats
    /\ flag_need_to_send' = [flag_need_to_send EXCEPT !["stats"] = FALSE]
    /\ UNCHANGED <<sig, flag_async_comm_in_progress, comm, http_sema, http_mutex, fault>>

Wanted(j) == j = "stats" => cfg.stats

(* No network, no time, or an incoming connection is being handled.        *)
PostponeHttp(j) ==
    /\ Starting(j)
    /\ Wanted(j) /\ ~HttpMayStart
    /\ UNCHANGED <<sig, flag_async_comm_in_progress, flag_need_to_send, comm, http_sema,
                   http_mutex, fault>>

(* The request is under way: the mutex and the semaphore are held until it *)
(* is polled to its end or aborted.                                        *)
StartHttp(j) ==
    /\ Starting(j)
    /\ Wanted(j) /\ HttpMayStart
    /\ http_sema = "none"
    /\ http_mutex' = "adv_post"
    /\ http_sema' = "adv_post"
    /\ adv_post_action' = j
    /\ flag_async_comm_in_progress' = TRUE
    /\ flag_need_to_send' = [flag_need_to_send EXCEPT ![j] = FALSE]
    /\ UNCHANGED <<sig, mqtt_reports, fault>>

(* Mutant: a failed start does not give the mutex back.                    *)
StartHttpFailsKeepsMutex(j) ==
    /\ Starting(j)
    /\ Wanted(j) /\ HttpMayStart
    /\ adv_post_action' = "none"
    /\ http_mutex' = "adv_post"
    /\ UNCHANGED <<sig, flag_async_comm_in_progress, flag_need_to_send, mqtt_reports,
                   http_sema, fault>>

(* No memory, no client, or the connection fails at once: everything taken *)
(* is given back and the job stays due.                                    *)
StartHttpFails(j) ==
    /\ Starting(j)
    /\ Wanted(j) /\ HttpMayStart
    /\ adv_post_action' = "none"
    /\ UNCHANGED <<sig, flag_async_comm_in_progress, flag_need_to_send, mqtt_reports,
                   http_sema, http_mutex, fault>>

(* http_post_advs, http_post_stat: assert(0) when the semaphore is taken.  *)
StartHttpAsserts(j) ==
    /\ Starting(j)
    /\ Wanted(j) /\ HttpMayStart
    /\ http_sema # "none"
    /\ fault' = "sema_busy"
    /\ UNCHANGED <<sig, flag_async_comm_in_progress, flag_need_to_send, comm, http_sema,
                   http_mutex>>

(* adv_post_do_async_comm_start_sending_periodic_mqtt: without MQTT, a     *)
(* network or a connection the request is dropped, not postponed.          *)
MqttOff == ~cfg.mqtt \/ ~flag_network_connected \/ ~mqtt_connected

CancelMqtt ==
    /\ Starting("mqtt")
    /\ MqttOff
    /\ flag_need_to_send' = [flag_need_to_send EXCEPT !["mqtt"] = FALSE]
    /\ UNCHANGED <<sig, flag_async_comm_in_progress, comm, http_sema, http_mutex, fault>>

PostponeMqtt ==
    /\ Starting("mqtt")
    /\ ~MqttOff /\ ~TimeIsReady
    /\ UNCHANGED <<sig, flag_async_comm_in_progress, flag_need_to_send, comm, http_sema,
                   http_mutex, fault>>

(* The batch is taken from retransmission list 3; the handler also sends   *)
(* itself the signal, beside the timer.                                    *)
StartMqtt(n) ==
    /\ Starting("mqtt")
    /\ ~MqttOff /\ TimeIsReady
    /\ mqtt_reports' = [num |-> n, idx |-> 0]
    /\ adv_post_action' = "mqtt"
    /\ flag_async_comm_in_progress' = TRUE
    /\ flag_need_to_send' = [flag_need_to_send EXCEPT !["mqtt"] = FALSE]
    /\ sig' = sig \cup {"DO_ASYNC_COMM"}
    /\ UNCHANGED <<http_sema, http_mutex, fault>>

StartMqttFails ==
    /\ Starting("mqtt")
    /\ ~MqttOff /\ TimeIsReady
    /\ adv_post_action' = "none"
    /\ UNCHANGED <<sig, flag_async_comm_in_progress, flag_need_to_send, mqtt_reports,
                   http_sema, http_mutex, fault>>

-----------------------------------------------------------------------------
(* adv_post_handle_sig_relaying_mode_changed.                              *)

(* http_abort_any_req_during_processing asserts that a request in progress *)
(* belongs to the calling task; http_server_mutex_unlock of a mutex that   *)
(* another task holds is an assertion of the kernel, of a free mutex a     *)
(* failed call.                                                            *)
AbortFault ==
    IF http_sema \notin {"none", "adv_post"} THEN "abort_other"
    ELSE IF http_mutex \notin {"none", "adv_post"} THEN "unlock_other"
    ELSE "none"

(* Mutant: the transfer in progress is left to finish.                     *)
NoAbort ==
    /\ cnt_suspended # 0 /\ flag_async_comm_in_progress
    /\ UNCHANGED <<async_timer, flag_async_comm_in_progress, http_sema, http_mutex, fault>>

AbortTransfer ==
    /\ cnt_suspended # 0 /\ flag_async_comm_in_progress
    /\ async_timer' = FALSE
    /\ flag_async_comm_in_progress' = FALSE
    /\ fault' = AbortFault
    /\ IF AbortFault = "none"
         THEN http_sema' = "none" /\ http_mutex' = "none"
         ELSE UNCHANGED <<http_sema, http_mutex>>

HandleRelayingModeChanged ==
    /\ Got("RELAYING_MODE_CHANGED")
    /\ flag_relaying_enabled' = (cnt_suspended = 0)
    /\ ap_pc' = "ack"
    /\ \/ AbortTransfer
       \/ /\ cnt_suspended = 0 \/ ~flag_async_comm_in_progress
          /\ UNCHANGED <<async_timer, flag_async_comm_in_progress, http_sema, http_mutex,
                         fault>>
    /\ UNCHANGED <<sig, flag_network_connected, flag_use_timestamps, flag_need_to_send,
                   comm, timers, env, http_mutex_active, status>>

(* Mutant: only the suspension of relaying is acknowledged.                *)
AcknowledgeStopOnly ==
    /\ Running
    /\ ap_pc = "ack"
    /\ relaying_cmd' = (relaying_cmd /\ flag_relaying_enabled)
    /\ ap_pc' = "loop"
    /\ UNCHANGED <<sig, cur, flags, comm, clocks, env, http, cnt_suspended, pc, fault>>

(* gw_status_clear_http_relaying_cmd.                                      *)
Acknowledge ==
    /\ Running
    /\ ap_pc = "ack"
    /\ relaying_cmd' = FALSE
    /\ ap_pc' = "loop"
    /\ UNCHANGED <<sig, cur, flags, comm, clocks, env, http, cnt_suspended,
                   pc, fault>>

-----------------------------------------------------------------------------
(* gw_status_suspend_relaying and gw_status_resume_relaying, as called by  *)
(* the threads that want the network or the memory for themselves.         *)

At(c, from, to) == Running /\ pc[c] = from /\ pc' = [pc EXCEPT ![c] = to]

(* External: the HTTP server accepts a connection under the mutex adv_post *)
(* may have told it to use.                                                *)
Accept(c) ==
    /\ c \in Server
    /\ At(c, "idle", "connected")
    /\ http_mutex_active => http_mutex = "none"
    /\ http_mutex' = IF http_mutex_active THEN c ELSE http_mutex
    /\ UNCHANGED <<task, flags, comm, clocks, env, http_sema,
                   http_mutex_active, cnt_suspended, relaying_cmd, fault>>

(* External: the connection is finished and the mutex released.            *)
Close(c) ==
    /\ At(c, "connected", "idle")
    /\ http_mutex' = IF http_mutex = c THEN "none" ELSE http_mutex
    /\ UNCHANGED <<task, flags, comm, clocks, env, http_sema,
                   http_mutex_active, cnt_suspended, relaying_cmd, fault>>

Rest(c) == IF c \in Server THEN "connected" ELSE "idle"

(* The counter, under its mutex; only the first suspension notifies, and   *)
(* only the one that notifies waits.                                       *)
Suspend(c) ==
    /\ At(c, Rest(c), IF cnt_suspended = 0 THEN "suspend" ELSE "work")
    /\ cnt_suspended' = cnt_suspended + 1
    /\ UNCHANGED <<task, flags, comm, clocks, env, http, relaying_cmd, fault>>

(* gw_status_set_http_relaying_cmd.                                        *)
SetCommand(c) ==
    /\ \/ At(c, "suspend", "suspend_notify")
       \/ At(c, "resume", "resume_notify")
    /\ relaying_cmd' = TRUE
    /\ UNCHANGED <<task, flags, comm, clocks, env, http, cnt_suspended, fault>>

(* event_mgr_notify(EVENT_MGR_EV_RELAYING_MODE_CHANGED).                   *)
Notify(c) ==
    /\ \/ At(c, "suspend_notify", IF c \in CfgMode THEN "work" ELSE "suspend_wait")
       \/ At(c, "resume_notify", IF c \in CfgMode THEN Rest(c) ELSE "resume_wait")
    /\ sig' = sig \cup {"RELAYING_MODE_CHANGED"}
    /\ UNCHANGED <<cur, ap_pc, flags, comm, clocks, env, http, cnt_suspended,
                   relaying_cmd, fault>>

(* gw_status_wait_after_relaying_mode_changed.                             *)
WaitEnds(c) ==
    /\ At(c, "suspend_wait", "work") \/ At(c, "resume_wait", Rest(c))
    /\ ~relaying_cmd
    /\ UNCHANGED <<task, flags, comm, clocks, env, http, cnt_suspended,
                   relaying_cmd, fault>>

WaitTimesOut(c) ==
    /\ AllowTimeout
    /\ At(c, "suspend_wait", "work") \/ At(c, "resume_wait", Rest(c))
    /\ relaying_cmd
    /\ UNCHANGED <<task, flags, comm, clocks, env, http, cnt_suspended,
                   relaying_cmd, fault>>

(* http_check_post_advs, http_check_mqtt: the server thread uses the one   *)
(* asynchronous request itself, and asserts that it is free.               *)
Check(c) ==
    /\ c \in Server
    /\ Running /\ pc[c] = "work"
    /\ IF http_sema = "none"
         THEN At(c, "work", "check") /\ http_sema' = c /\ UNCHANGED fault
         ELSE fault' = "sema_busy" /\ UNCHANGED <<pc, http_sema>>
    /\ UNCHANGED <<task, flags, comm, clocks, env, http_mutex,
                   http_mutex_active, cnt_suspended, relaying_cmd>>

(* http_check_post_advs goes through http_send_advs_internal, which sets   *)
(* the task's own g_adv_post_action from the server's thread.  A check of  *)
(* another server, and one that fails before it, does not get here.        *)
CheckPostsAdvs(c) ==
    /\ At(c, "check", "post")
    /\ adv_post_action' = "advs2"
    /\ UNCHANGED <<task, flags, mqtt_reports, clocks, env, http, cnt_suspended,
                   relaying_cmd, fault>>

CheckEnds(c) ==
    /\ At(c, "check", "work") \/ At(c, "post", "work")
    /\ http_sema' = "none"
    /\ UNCHANGED <<task, flags, comm, clocks, env, http_mutex,
                   http_mutex_active, cnt_suspended, relaying_cmd, fault>>

(* Mutant: the counter is compared before it is decremented.               *)
ResumeOffByOne(c) ==
    /\ At(c, "work", IF cnt_suspended = 0 THEN "resume" ELSE Rest(c))
    /\ cnt_suspended' = cnt_suspended - 1
    /\ sig' = IF c \in CfgMode THEN sig \cup {"CFG_MODE_DEACTIVATED"} ELSE sig
    /\ UNCHANGED <<cur, ap_pc, flags, comm, clocks, env, http, relaying_cmd, fault>>

(* gw_status_resume_relaying; leaving the configuration mode first sends   *)
(* EVENT_MGR_EV_CFG_MODE_DEACTIVATED.                                      *)
Resume(c) ==
    /\ At(c, "work", IF cnt_suspended = 1 THEN "resume" ELSE Rest(c))
    /\ cnt_suspended' = cnt_suspended - 1
    /\ sig' = IF c \in CfgMode THEN sig \cup {"CFG_MODE_DEACTIVATED"} ELSE sig
    /\ UNCHANGED <<cur, ap_pc, flags, comm, clocks, env, http, relaying_cmd,
                   fault>>

-----------------------------------------------------------------------------
(* External events.                                                        *)

Send(s) ==
    /\ Running
    /\ s \notin sig
    /\ sig' = sig \cup {s}
    /\ UNCHANGED <<cur, ap_pc, flags, comm, http, status, fault>>

(* A periodic timer fires.                                                 *)
TimerFires(j) ==
    /\ j \in timers
    /\ Send(SigOf[j])
    /\ UNCHANGED <<clocks, env>>

(* The one-shot timer fires.                                               *)
AsyncTimerFires ==
    /\ Running /\ async_timer
    /\ async_timer' = FALSE
    /\ sig' = sig \cup {"DO_ASYNC_COMM"}
    /\ UNCHANGED <<cur, ap_pc, flags, comm, timers, env, http, status, fault>>

NetworkChanges(s) ==
    /\ s \in ExtSig \ {"TIME_SYNCHRONIZED"}
    /\ Send(s)
    /\ UNCHANGED <<clocks, env>>

TimeIsSynchronized ==
    /\ "TIME_SYNCHRONIZED" \in ExtSig
    /\ time_synchronized' = TRUE
    /\ Send("TIME_SYNCHRONIZED")
    /\ UNCHANGED <<clocks, cfg, mqtt_connected>>

(* mqtt_app starts a client only for a configuration that uses MQTT.       *)
MqttConnects(b) ==
    /\ Running
    /\ b => cfg.mqtt
    /\ mqtt_connected # b
    /\ mqtt_connected' = b
    /\ UNCHANGED <<task, flags, comm, clocks, cfg, time_synchronized, http,
                   status, fault>>

(* A user saves another configuration.                                     *)
SaveCfg(c) ==
    /\ Running /\ c # cfg
    /\ cfg' = c
    /\ sig' = sig \cup {"GW_CFG_CHANGED_RUUVI"}
    /\ UNCHANGED <<cur, ap_pc, flags, comm, clocks, time_synchronized, mqtt_connected, http, status, fault>>

-----------------------------------------------------------------------------
DoAsyncComm ==
    \/ NothingInProgress
    \/ PollAsserts \/ PollAgain \/ PollDone
    \/ PublishOne \/ PublishDone

StartJob ==
    \/ NothingToStart
    \/ CancelStatistics
    \/ \E j \in HttpJob : \/ PostponeHttp(j)    \/ StartHttp(j)
                          \/ StartHttpFails(j)  \/ StartHttpAsserts(j)
    \/ CancelMqtt \/ PostponeMqtt \/ StartMqttFails
    \/ \E n \in 0 .. MaxBatch : StartMqtt(n)

TaskStep ==
    \/ TakeSignals
    \/ HandleNetworkDisconnected
    \/ HandleNetworkConnected
    \/ HandleTimeSynchronized
    \/ \E j \in Job : HandleRetransmit(j)
    \/ \E s \in Sig : HandleGwCfgChanged(s)
    \/ HandleCfgModeDeactivated
    \/ DoAsyncComm
    \/ StartJob
    \/ HandleRelayingModeChanged
    \/ Acknowledge

Continue(c) == SetCommand(c) \/ Notify(c) \/ WaitEnds(c)

ClientStep(c) ==
    \/ Accept(c) \/ Close(c)
    \/ Suspend(c) \/ Continue(c) \/ WaitTimesOut(c)
    \/ Check(c) \/ CheckPostsAdvs(c) \/ CheckEnds(c) \/ Resume(c)

EnvStep ==
    \/ \E j \in Job : TimerFires(j)
    \/ AsyncTimerFires
    \/ \E s \in Sig : NetworkChanges(s)
    \/ TimeIsSynchronized
    \/ \E b \in BOOLEAN : MqttConnects(b)
    \/ \E c \in Cfg : SaveCfg(c)

Next == TaskStep \/ EnvStep \/ \E c \in Client : ClientStep(c)

Spec == Init /\ [][Next]_vars

(***************************************************************************)
(* The scheduler runs the task while it has signals and the timers fire;   *)
(* a client that has started to suspend or resume goes on with it.  A      *)
(* request ends because esp_http_client has a timeout, and starting one    *)
(* does not fail for ever.                                                 *)
(***************************************************************************)
Fairness ==
    /\ WF_vars(TaskStep)
    /\ WF_vars(AsyncTimerFires)
    /\ \A j \in Job : WF_vars(TimerFires(j))
    /\ \A c \in Client : WF_vars(Continue(c))
    /\ SF_vars(PollDone)
    /\ \A j \in HttpJob : SF_vars(StartHttp(j))

FairSpec == Spec /\ Fairness

-----------------------------------------------------------------------------
(* Correctness.                                                            *)

(* An MQTT batch whose kind a check overwrote: the task takes it for an    *)
(* HTTP transfer.                                                          *)
BatchOverwritten == adv_post_action = "advs2" /\ mqtt_reports # NULL

(* The task holds the connection mutex and the semaphore of the one        *)
(* asynchronous request together, and only while it has an HTTP transfer   *)
(* in progress, over every path that starts, polls, fails or aborts one.   *)
(* A transfer that it takes for one of HTTP without holding them is always *)
(* a batch whose kind was overwritten by a check.                          *)
HttpRequestOwned ==
    /\ http_mutex = "adv_post" <=> http_sema = "adv_post"
    /\ http_sema = "adv_post" => HttpInProgress
    /\ HttpInProgress => http_sema = "adv_post" \/ BatchOverwritten

(* A transfer in progress is always polled again: the task never waits     *)
(* with a transfer open and neither the signal nor the timer pending.      *)
TransferIsPolled ==
    Running /\ flag_async_comm_in_progress =>
        async_timer \/ "DO_ASYNC_COMM" \in sig \cup cur

(* assert(NULL != g_p_adv_post_reports_mqtt) of                            *)
(* adv_post_do_async_comm_in_progress_mqtt, and the report it publishes is *)
(* one of the batch.  Only a batch that was empty when it was read has no  *)
(* such report; the code publishes its zeroed element 0 all the same.      *)
MqttBatchValid ==
    MqttInProgress =>
        /\ mqtt_reports # NULL
        /\ mqtt_reports.idx < mqtt_reports.num \/ mqtt_reports.num = 0

Notifying(c) == pc[c] \in {"suspend", "suspend_notify", "resume", "resume_notify"}

(* Once every change of the suspend counter has been notified and handled, *)
(* the task's copy of it is right: no order of concurrent suspensions and  *)
(* resumptions leaves relaying off for good, or on while it is suspended.  *)
RelayingFollowsCounter ==
    \/ "RELAYING_MODE_CHANGED" \in sig \cup cur
    \/ \E c \in Client : Notifying(c)
    \/ flag_relaying_enabled <=> cnt_suspended = 0

(* The command bit is never left set with nobody about to clear it, which  *)
(* would make every later suspension run into its 15 s timeout.            *)
CommandIsHandled ==
    relaying_cmd =>
        \/ "RELAYING_MODE_CHANGED" \in sig \cup cur
        \/ ap_pc = "ack"
        \/ \E c \in Client : pc[c] \in {"suspend_notify", "resume_notify"}

(* When gw_status_suspend_relaying(true) has returned, adv_post has no     *)
(* HTTP transfer in progress and starts none until relaying is resumed.    *)
SuspendedMeansQuiet ==
    \A c \in Client \ CfgMode : pc[c] \in {"work", "check", "post"} =>
        ~HttpInProgress /\ ~flag_relaying_enabled

(* A target that was switched off gets no advertisements once the change   *)
(* of the configuration has been handled, whatever timers, signals and     *)
(* transfers of it there were at that moment: a finished transfer          *)
(* relaunches the timer of its target without looking at the               *)
(* configuration.                                                          *)
PostToEnabledTarget ==
    \A j \in {"advs1", "advs2"} :
        ~flag_async_comm_in_progress /\ flag_async_comm_in_progress'
            /\ adv_post_action' = j =>
          cfg[j] \/ "GW_CFG_CHANGED_RUUVI" \in sig \cup cur

NoPostToDisabledTarget == [][PostToEnabledTarget]_vars

(* The comment in http_post_advs: "this function should only be called     *)
(* from a single thread", asserted there with assert(0).                   *)
OneHttpRequestAtATime == fault # "sema_busy"

(* http_async_poll: "it's allowed to call only from thread %s", the thread *)
(* that started the request; asserted there.                               *)
PolledByOwner == fault # "poll_other"

(* A thread that waits for the acknowledgement gets it without the help of *)
(* the timeout.                                                            *)
WaitersAreReleased ==
    \A c \in Client : pc[c] \in {"suspend_wait", "resume_wait"} ~> pc[c] \in {Rest(c), "work"}

(* While the network, the time and relaying stay available and the         *)
(* configuration stays the same, every due post is eventually started.     *)
Undisturbed(j) ==
    /\ flag_network_connected /\ TimeIsReady
    /\ cnt_suspended = 0 /\ cfg[j]

DuePostsAreStarted ==
    \A j \in HttpJob :
        <>[]Undisturbed(j) => [](flag_need_to_send[j] => <>~flag_need_to_send[j])

-----------------------------------------------------------------------------
(* Why the invariants hold: what they need beside each other.              *)

(* The counter is the number of threads between a suspension and the       *)
(* matching resumption.                                                    *)
Holding == {"suspend", "suspend_notify", "suspend_wait", "work", "check", "post"}

Suspenders == {c \in Client : pc[c] \in Holding}

CounterExact == cnt_suspended = Cardinality(Suspenders)

(* Nothing is in progress when a job is started; the semaphore is held by  *)
(* the thread that checks a server, or by the task (HttpRequestOwned).     *)
RequestInv ==
    /\ HttpRequestOwned
    /\ ap_pc = "start" => ~flag_async_comm_in_progress
    /\ \A c \in Client : pc[c] \in {"check", "post"} <=> http_sema = c

BatchInv ==
    MqttInProgress =>
        \/ mqtt_reports.idx \in 0 .. (mqtt_reports.num - 1)
        \/ mqtt_reports.num = 0 /\ mqtt_reports.idx = 0

(* A post is due only to a target that is enabled or was just disabled.    *)
DueInv ==
    \A j \in HttpJob :
        flag_need_to_send[j] => cfg[j] \/ "GW_CFG_CHANGED_RUUVI" \in sig \cup cur

(* The periodic timer of every enabled target runs, or the configuration   *)
(* is still to be read.                                                    *)
CfgComes == {"GW_CFG_READY", "GW_CFG_CHANGED_RUUVI"} \cap (sig \cup cur) # {}

TimedInv ==
    /\ \A j \in HttpJob : cfg[j] => j \in timers \/ CfgComes
    /\ cfg.mqtt /\ cfg.periodic => "mqtt" \in timers \/ CfgComes

(* A due post is not forgotten.  An aborted transfer stops the one-shot    *)
(* timer, and only the periodic one makes the task look at the post again. *)
DuePostIsTimed == \A j \in HttpJob : flag_need_to_send[j] => j \in timers \/ CfgComes

(* Relaying is switched off together with the transfer in progress.        *)
OffInv == ~flag_relaying_enabled => ~flag_async_comm_in_progress

PostInv ==
    /\ TypeOK
    /\ CounterExact
    /\ RequestInv
    /\ TransferIsPolled
    /\ BatchInv
    /\ DueInv
    /\ TimedInv
    /\ OffInv
    /\ CommandIsHandled
    /\ RelayingFollowsCounter

(* One thread suspends relaying, waits for the acknowledgement and gets it *)
(* before its timeout.                                                     *)
OneSuspender == (\E c : Client = {c}) /\ CfgMode = {} /\ ~AllowTimeout

(* Then what is left of the last command follows from where the thread is. *)
Command(set, pending, acking, enabled) ==
    /\ relaying_cmd <=> set
    /\ "RELAYING_MODE_CHANGED" \in sig \cup cur <=> pending
    /\ ap_pc = "ack" <=> acking
    /\ flag_relaying_enabled <=> enabled

OneSuspenderInv ==
    \A c \in Client :
        /\ pc[c] \in {"idle", "connected", "suspend"} => Command(FALSE, FALSE, FALSE, TRUE)
        /\ pc[c] = "suspend_notify" => Command(TRUE, FALSE, FALSE, TRUE)
        /\ pc[c] = "suspend_wait" =>
              \/ Command(TRUE, TRUE, FALSE, TRUE)
              \/ Command(TRUE, FALSE, TRUE, FALSE)
              \/ Command(FALSE, FALSE, FALSE, FALSE)
        /\ pc[c] \in {"work", "check", "post", "resume"} => Command(FALSE, FALSE, FALSE, FALSE)
        /\ pc[c] = "resume_notify" => Command(TRUE, FALSE, FALSE, FALSE)
        /\ pc[c] = "resume_wait" =>
              \/ Command(TRUE, TRUE, FALSE, FALSE)
              \/ Command(TRUE, FALSE, TRUE, TRUE)
              \/ Command(FALSE, FALSE, FALSE, TRUE)
        /\ "RELAYING_MODE_CHANGED" \notin sig \cap cur
        /\ HttpInProgress => http_sema = "adv_post"
        /\ OneHttpRequestAtATime /\ PolledByOwner
=============================================================================
