# Ruuvi Gateway firmware: TLA+ models, checks and proofs

This directory specifies the ESP32 firmware of the Ruuvi Gateway (`src/main`):
TLA+ modules translated from the C code, TLC configurations that check them on
small instances, and TLAPS proofs of the properties that matter most.
`PROJECT.json` lists the components, the runs, the mutants each property was
tried against, the source lines behind every definition, the hazards and the
theorems.

## 1. The system

The gateway receives Bluetooth advertisements of sensors from an nRF52 radio
over a UART, keeps the latest one of each sensor in a table, and relays them to
up to three targets: the Ruuvi cloud over HTTP, a custom HTTP server, and an
MQTT broker. A web user interface, served by the gateway, configures it.

### Tasks and what they share

| Task | Code | Woken by |
|---|---|---|
| UART receive | `adv_post.c` | bytes from the nRF52 |
| `adv_post` | `adv_post_task.c`, `adv_post_signals.c`, `adv_post_async_comm.c` | signals: timers, events, itself |
| `adv_mqtt` | `adv_mqtt_task.c`, `adv_mqtt_signals.c` | signals: a new report, events, itself |
| MQTT client | esp-mqtt, callbacks in `mqtt.c` | the network |
| HTTP server | esp32-wifi-manager, callbacks in `http_server_cb*.c` | connections |
| main | `main_loop.c` | signals: timers, buttons, events |
| `time_task`, `reset_task`, LED task, firmware update task | one file each | signals |

They share the advertisement table (a mutex inside `adv_table.c`), the
configuration (`gw_cfg.c`, a recursive mutex) and its caches
(`adv_post_cfg_cache.c`, `adv_mqtt_cfg_cache.c`), the one asynchronous HTTP
request (`http.c`, a semaphore), the HTTP server's connection mutex, the status
bits and the suspend counters (`gw_status.c`), and the event manager
(`event_mgr.c`), which turns an event into a callback or a signal per subscriber.

### Inventory

| Component | State | Operations | What is hard | What makes it correct |
|---|---|---|---|---|
| Advertisement table (`adv_table.c`) | 100 elements, each in a hash chain, in up to three retransmission lists and in the history list | put, drain of a list, head of list 3, history, statistics, clear | long sequences of calls; an element reused while chained elsewhere; early exits that rely on an order | lists and flags agree; a sensor is found; every report is due at each target once; the oldest is evicted; history and statistics miss nothing |
| `adv_post` task | need flags, the transfer in progress, timers, copies of configuration and relaying state | one handler per signal | signals of different senders in any order; transfers cut in polls; one timer drives everything | no transfer left open, no post to a disabled target, due posts are sent |
| Asynchronous HTTP request (`http.c`, `http_post_advs.c`, `http_post_stat.c`, `http_check_mqtt.c`) | semaphore, its owner, client handle | start, poll, abort, check | every failure path must give back semaphore and mutex; two threads use it | owned by at most one, released by its owner |
| Suspension of relaying (`gw_status.c`) | two counters, two command bits | suspend, resume, with or without waiting | counter and bit are changed under different locks than they are read; a 15 s timeout | quiet after suspending, relaying after the last resume, no waiter left behind |
| Reception (`adv_post.c`) | counter of advertisements, cached filter | parse, filter, stamp, store, wake `adv_mqtt` | the time source may step or be switched | history order |
| `adv_mqtt` task | instant mode flag | receive, connected, configuration changes | a lost wake-up; a client that is stopped between two looks at it | list 3 is drained as long as MQTT is connected |
| MQTT client (`mqtt.c`) | client handle, connection flags | start, stop, event callback | callbacks against stop and restart | status bits follow the connection |
| Main task (`main_loop.c`) | timers, configuration mode, Ethernet and Wi-Fi start | one handler per signal | deferred starts, services restarted around a change | configuration mode ends; services match the configuration |
| Event manager (`event_mgr.c`) | list of subscribers per event | subscribe, unsubscribe, notify | unsubscribing during a notification | everybody subscribed is notified |
| Network watchdog (`network_timeout.c`) | time of the last success | update, check | wrap-around of ticks | restarts after an hour without success and not before |
| Firmware update (`fw_update.c`, `nrf52fw.c`) | stage, percentage, OTA partition | download, write, verify, switch, update of the nRF52 | failure between two steps, reboot in the middle | a broken image is never started; relaying resumes |
| LEDs (`leds*.c`) | three small state machines | events of buttons, network, nRF52 | priorities | the pattern shows the state |
| Time (`time_task.c`), reset (`reset_task.c`, `reset_info.c`) | SNTP state; pending reboot | start and stop around network events; button | events out of order | SNTP runs while the network does |
| Configuration (`gw_cfg*.c`, `settings.c`, `ruuvi_nvs.c`) | the configuration, defaults, flash copy | update, compare, save, notify | crash between save and notify | what is saved is what is active |
| Text formats (`http_json.c`, `gw_cfg_json_*.c`, `mqtt_json.c`) | none | generate, parse | text, not state | outside this development |

## 2. Modules

| Module | Models | Runs |
|---|---|---|
| `AdvTable` | `adv_table.c` | through `MCAdvTable` |
| `AdvRelay` | what the table promises its three readers (abstract) | refinement, run `adv_table` |
| `MCAdvTable` | instances of `AdvTable` | `adv_table`, `adv_history` |
| `AdvTableProofs`, `AdvRelayProofs` | theorems about `AdvTable`; that it implements `AdvRelay` | TLAPS |
| `AdvPost` | the `adv_post` task, the shared HTTP request, suspension | through `MCAdvPost` |
| `MCAdvPost` | configurations for `AdvPost` | `adv_post`, `adv_request`, `adv_clients`, `adv_live`, `adv_two_threads` |
| `AdvPostProofs` | theorems about `AdvPost` | TLAPS |
| `MqttRelay` | the MQTT client and its status, `adv_mqtt`, configuration mode and service restarts of the main task, the HTTP server's saves and checks | through `MCMqttRelay` |
| `MCMqttRelay` | configurations for `MqttRelay` | `mqtt_service`, `mqtt_check` |
| `MqttRelayProofs`, `MqttServiceProofs` | theorems about `MqttRelay`; that MQTT follows the configuration | TLAPS |
| `FwUpdate` | firmware update, start-up, rollback, the nRF52's firmware, the LED state machine | through `MCFwUpdate` |
| `MCFwUpdate` | instance of `FwUpdate` | `fw_update`, `fw_auto_confirm` |
| `FwUpdateProofs` | theorems about `FwUpdate` | TLAPS |
| `GwCfgStore` | the configuration in RAM and in flash, its mutex, the events it sends | through `TimeSync` |
| `TimeSync` | the tasks that follow the configuration's time settings, composed with `GwCfgStore` (EXTENDS) | through `MCServices` |
| `NetTimeout` | the network watchdog | through `MCServices` |
| `MCServices` | instances of `TimeSync` and `NetTimeout` | `services` |
| `TimeSyncProofs`, `NetTimeoutProofs` | theorems about `GwCfgStore` and `TimeSync`; about `NetTimeout` | TLAPS |

Definitions named `Mutant: ...` in a comment are variants of the definition that
follows; no specification uses them. Each property was shown to fail under one.

### AdvTable

The array of elements becomes functions from the element number. Hash chains are
sets (their order is never observed, `HashConsistent` gives at most one match),
the retransmission lists are sequences, the history list a function from position
to element. Every public function holds the table's mutex from start to end, so
each is one action. A payload is a member of `Data`, of which `ExtData` are the
longer ones that the discard rule of `adv_table_check_if_adv_must_be_discarded`
prefers; `data_len = 0` is `NoData`. `out` records what the last call returned.
`clock` is the source of time stamps, moved forward by `Tick`.

| Code | Action |
|---|---|
| `adv_table_put`: unknown sensor / changed report / discarded report | `PutNew` / `PutUpdate` / `PutDiscard` |
| `adv_table_read_retransmission_list<N>_and_clear` | `ReadListAndClear(t)` |
| `adv_table_read_retransmission_list3_head` and `_is_empty` | `ReadListHead` |
| `adv_table_history_read` | `HistoryRead` |
| `adv_table_statistics_read` | `StatisticsRead` |
| `adv_table_clear` | `Clear` |

One assumption is taken from outside: between two clears the time stamps do not
go back. The gateway uses either the wall clock after NTP synchronisation or its
counter of advertisements, and clears the table when it switches between them;
an NTP correction backwards breaks it, and the history order with it (hazard
`adv_post.c:399`). That the table never holds both kinds is `TableKind` of
`TimeSync`; that the wall clock does not go back stays an assumption.

### AdvRelay

The latest accepted report of at most `MAX_ADVS_TABLE` sensors, for each target the
set of sensors it still has to read, and the batch the latest call handed over. A
stored report becomes due everywhere; a read takes all due reports, or one of the
MQTT target's; a sensor loses its place only to a new one when the table is full; a
clear forgets everything. There are no elements, hash chains, flags, order or
history: `AdvTable!ImplementsRelay` maps the table onto it. What this means for a target
is stated on the abstract level and proved of the table: a due report is handed over
unless its sensor loses its place (`NothingLost`), only once and in its latest version
(`HandedOnce`), every new report becomes due everywhere (`NewsIsDue`), and only known
sensors are due (`DueAreKnown`).

### AdvPost

The task waits for signals, takes all the pending ones and handles them by number.
A handler is one action, cut where another thread sees the middle: `DO_ASYNC_COMM`
between ending a transfer and starting the next (`ap_pc = "start"`), and
`RELAYING_MODE_CHANGED` between reading the suspend counter and clearing the command
bit (`ap_pc = "ack"`).

| Code | Actions |
|---|---|
| `adv_post_task` loop | `TakeSignals`, `Got` |
| network, time, timer, configuration handlers | `HandleNetworkConnected`, `HandleNetworkDisconnected`, `HandleTimeSynchronized`, `HandleRetransmit(j)`, `HandleGwCfgChanged(s)`, `HandleCfgModeDeactivated` |
| `adv_post_do_async_comm_in_progress`, `http_async_poll` | `NothingInProgress`; `Polled`: `PollAsserts`, `PollAgain`, `PollDone`; `PublishOne`, `PublishDone` |
| the four `start` functions | `PostponeHttp`, `StartHttp`, `StartHttpFails`, `StartHttpAsserts`, `CancelStatistics`, `CancelMqtt`, `PostponeMqtt`, `StartMqtt`, `StartMqttFails`, `NothingToStart` |
| `adv_post_handle_sig_relaying_mode_changed` | `HandleRelayingModeChanged`, `Acknowledge` |
| `gw_status_suspend_relaying`, `gw_status_resume_relaying` in another thread | `Suspend`, `SetCommand`, `Notify`, `WaitEnds`, `WaitTimesOut`, `Resume` |
| `http_check_post_advs`, `http_check_mqtt` | `Check`, `CheckPostsAdvs`, `CheckEnds` |

A `Client` is a thread that suspends relaying, works and resumes: the HTTP server
(`Server`), which also accepts its connection under a mutex and uses the shared
request, or the main task in configuration mode (`CfgMode`), which does not wait.
A check of an HTTP server goes through `http_send_advs_internal`, which sets the kind of
adv_post's own transfer from the server's thread: `CheckPostsAdvs` writes
`adv_post_action`, whatever the task has in progress.
An assertion that stops the firmware is recorded in `fault`, after which nothing
happens. External parts (signals and timers of esp_wrappers, the HTTP server of the
wifi manager, the MQTT connection) are modelled from how this code uses them.

Data is abstracted to what the control depends on: a configuration is seven
Booleans, a request ends or does not, an MQTT batch is its length and index, and a
periodic timer runs or does not. Left out are the watchdog, LED and `STOP` signals,
timer periods, and the contents of what is sent.

### MqttRelay

The main task and the HTTP server call the same functions of `mqtt.c` and
`gw_status.c`, so a thread is modelled by the list of steps it still has to do,
`todo[th]`. A handler writes its list (`RestartServices`: stop, then decide whether to
start), and a step may put further ones in front (raising the suspend counter from
zero: set the command bit, notify, wait). The cuts are where another thread sees the
middle: around the mutex of `mqtt.c`, between creating the client and setting the
started bit, between destroying it and clearing the bits, between counter, command bit
and notification, and between reading a configuration and starting with it (`copy`).

| Code | Actions |
|---|---|
| `mqtt_app_stop` | `Stop`, `ClearBits` |
| `mqtt_app_start`, `mqtt_app_start_internal` | `StartAlreadyRunning`, `StartClient`, `SetStarted`, `StartFails` |
| `mqtt_event_handler` | `OnConnected`, `OnDisconnected` (also for errors) |
| suspend and resume of `gw_status.c` | `Suspend`, `Resume`, `SetCommand`, `Notify`, `WaitEnds`; HTTP only: `SuspendHttp`, `ResumeHttp` |
| `main_loop` and its handlers | `TakeSignals`, `ActivateCfgMode`, `DeactivateCfgMode`, `RestartServices` with `RestartMqtt`, `SetDefaultConfig`, `RelayingModeChanged` with `Acknowledge` |
| the timer that ends configuration mode | `StartTimer`, `CfgModeTimerFires` |
| GET and POST of `ruuvi.json` | `GetRuuviJson`, `PostRuuviJson` |
| `http_server_gw_cfg_download_and_update` | `DownloadRemoteCfg`, `ApplyRemoteCfg` or `KeepCfg`, `SendRestart` |
| `validate_url` with `http_check_mqtt` | `CheckMqtt`, `CheckConcludes` |
| `ethernet_connection_ok_cb` | `EthernetConnected` |
| `adv_mqtt` task | `AdvTakeSignals`, `HandleRecvAdv` with `PublishAdv`, `HandleMqttConnected`, `HandleGwCfg` |
| `adv_post_send_report` | `RecvAdv`: the report is in list 3 and the task is notified |

A configuration is whether MQTT is on, whether every report is sent at once, and the
server. `Event` says what the environment does in an instance: `save` is a POST while
configuration mode is on, `late_save` one from a page left open longer, `timeout` a
15 s wait that ends without acknowledgement, `no_memory` a client that cannot be
created. The HTTP counter is not a variable: it is the MQTT counter plus the threads
inside an HTTP-only suspension. Left out are WPS, Wi-Fi and Ethernet themselves, the
timers of firmware and remote configuration checks, the firmware update, and the error
code a failed connection leaves behind (only `http_check_mqtt` reads it, to word its
answer). The retry timer of `adv_mqtt` is dead code: with QoS 0 an output buffer is
always available.

### FwUpdate

The flash has two slots, each with an application, a web-interface file system and a
file system with the nRF52's firmware; a partition holds the release it was written
from, or `Bad` while it is erased or partly written. Flash, otadata and the nRF52's own
flash survive a reset, everything else is cleared by it (`ClearRam`). `pc` is what the
one thread that matters does next: boot loader, `main_task_init`, `app_main`, the main
loop, or `fw_update_task`. A step ends where the flash has changed, so that power may
be lost there.

| Code | Actions |
|---|---|
| boot loader and otadata (external), `fw_update_read_flash_info` | `Bootloader`, `ActiveEntry`, `RollbackPossible`, `RollbackAndReboot` |
| `main_task_init`, `app_main` | `InitSucceeds`, `InitFails`, `AppMain` |
| erasing the settings with the CONFIGURE button | `ConfigureButtonHeld`, `EraseSettings`, `ConfigureButtonReleased` |
| `nrf52fw_update_fw_if_necessary` | `NrfCheck`, `NrfErase`, `NrfWrite`, `NrfWriteVersion`, `NrfFails` |
| `fw_update_run` | `FwUpdateRun`, `SecondUpdate` |
| `fw_update_do_actions`, `fw_update_task` | `EspOtaBegin`, `EspOtaWrite`, `EraseFatfsGwui`, `WriteFatfsGwui`, `EraseFatfsNrf52`, `WriteFatfsNrf52`, `SetBootPartition`, `FinishUpdate`, `UpdateFails` |
| `fw_update_mark_app_valid_cancel_rollback` | `MarkAppValid`, in `AppMain` and `CommunicationSucceeds` |
| `gateway_restart`, power | `GatewayRestart`, `PowerLoss`, `PowerCycle` |
| `leds_task`, `leds_ctrl.c` | `LedsTask` with the table `LedsCtrl`; `Panic` |

Every stage may fail wherever the code checks for it. `unconfirmed`,
`forcedRollback` and the two counters are history that only properties and bounds
read. A request for an update is assumed to come after `leds_task` has handled what
start-up sent. A second request may come at every step of the first, those of the nRF52
included (`SecondUpdate`), and makes `leds_task` assert. With the LEDs in `NRF52_FAILURE`
it would instead run a second update task next to the first; that is not modelled.

### GwCfgStore

`writer` is the call that holds the configuration's mutex, with the stage it is in:
`gw_cfg_set` announces the change, assigns it, saves it, and unlocks. Resets and faults
may come between any two stages.

| Code | Actions |
|---|---|
| `ruuvi_init_gw_cfg`, `settings_get_from_flash` | `SettingsGetFromFlash`, `SettingsUnreadable`, `GwCfgUpdateAtBoot` |
| `gw_cfg_update_*`, `gw_cfg_set` | `GwCfgUpdate`, `GwCfgAssign`, `FinishSave`; `GwCfgUpdateFwUpdateUrl` |
| `settings_save_to_flash` and below | `SettingsSave`, `SettingsSaveFails`, `NvsErase`, `SettingsRewrite`, `SettingsRewriteFails` |
| `event_mgr_notify` | `Notify` |
| a reset | `StoreReset` |

The Ethernet and Wi-Fi sections of a configuration are set and saved by the same code
and left out. `kept`, `lost`, `failed` and `events` are history.

### TimeSync

Extends the store with `time_task` (SNTP runs or not, the flag that time is
synchronised), with the part of `adv_post` that copies the time setting into its cache
and clears the table, and with the reception of a report under the cache's mutex. The
table is the set of the kinds of time stamp in it: time, counter, zero.

| Code | Actions |
|---|---|
| `time_task` | `TimeTaskInit`, `TakeSignals("time")`, `TimeOnConnected`, `TimeOnDisconnected`, `TimeOnCfgChanged` |
| the SNTP callback | `SntpSynchronized`, `SntpBadTimestamp` |
| the network and `main_task_handle_sig_network_reconnect` | `LinkUp`, `LinkDown`, `MainReconnect` |
| `adv_post_on_gw_cfg_change`, time signal | `AdvOnCfg`, `AdvTakesCache`, `AdvReleasesCache`, `AdvClearsTable`, `AdvOnTimeSynchronized` |
| `adv_post_send_report` | `ReceiveReport`, `PutReport` |

`fallback` says that the gateway runs on Ethernet although its configuration says Wi-Fi,
because no Wi-Fi network is configured (`network_subsystem.c:257`). It is fixed from the
start: changing it takes a change of the network settings, which are not modelled.
`MainReconnect` has the two branches of `main_loop.c:523-541`: the configured link is
stopped and started, the fallback is left alone. `LinkUp` does not wait for `time_task`:
when the link is back before the task has taken the signal of its loss, both are in one
snapshot and are handled by number, the connection first. `missed` is history: it is set
in these two cases, when SNTP has been stopped, or will be, with no connection ahead that
starts it.

### NetTimeout

The tick count modulo 2^W, the tick of the last success and the timer of `adv_post`
that compares them. `silence` counts the ticks since the last success without wrapping,
to state what the comparison should mean. It shares no state with `TimeSync`;
`MCServices` checks both in one run, as alternatives and not as a product.

## 3. Runs

| Run | Instance | Shows |
|---|---|---|
| `adv_table` | 2 elements, 3 sensors (2 collide), 3 payloads, targets 2 and 3, no time | `TypeOK`, `ListsConsistent`, `HashConsistent`, `ImplementsRelay` |
| `adv_history` | 3 elements, 4 interchangeable sensors in one bucket, time 0..1 | `HistoryConsistent`, `HistoryExact`, `StatisticsExact`, `SamplesReported`, `EvictsOldestOnly` |
| `adv_post` | the task alone; configurations switch between the cloud with periodic MQTT and NTP, and statistics; the network comes and goes, time gets synchronised | `TransferIsPolled`, `NoPostToDisabledTarget` |
| `adv_request` | one server thread, timeouts allowed, cloud and periodic MQTT over TLS, batches up to 2 | `TypeOK`, `MqttBatchValid`, `HttpRequestOwned` |
| `adv_clients` | a server thread and configuration mode, timeouts allowed | `RelayingFollowsCounter`, `CommandIsHandled` |
| `adv_live` | both HTTP targets, one server thread | `SuspendedMeansQuiet`, `DuePostsAreStarted`, `WaitersAreReleased` |
| `adv_two_threads` (violation) | as `adv_clients` | the second suspender reaches `assert(0)` on the shared request |
| `mqtt_service` | MQTT off or one of two brokers; configuration mode, saves, remote configurations, broker checks, timeouts | `TypeOK`, `SuspensionsBalanced`, `ServicesFollowConfig` |
| `mqtt_check` | instant publishing, or periodic without a server name; two sensors, checks, connections, Ethernet, failing starts | `StatusMatchesClient`, `SuspendedMeansStopped`, `MqttWaitersAreReleased`, `DueReportsAreTaken` |
| `fw_update` | two releases, up to two updates, one power loss at any step; factory gateways with and without `fatfs_nrf52_2`, with and without an older release in slot 1 | `FwTypeOK`, `BootsCompleteRelease`, `NrfVersionHonest`, `NrfReadyMatches`, `NotDead`, `LedsAssertOnlyOnSecondUpdate`, `BootCompletes` |
| `fw_auto_confirm` (violation) | as `fw_update`, one update | an auto-updated image is confirmed without any communication |
| `services` | four configurations; start without configuration, with the old BLOB or with NTP off; on the configured link or the fallback; two updates, resets, faults or losses of the network; ticks of 4 bits | `TimeTypeOK`, `ConfigDurable`, `RunningConfigStored`, `CfgReachesTasks`, `TableKind`, `SntpNotForgotten`, `RestartsOnSilence` |

**Bounds.** Two elements and three sensors are the least with which a table is full,
an element is reused, and a sensor returns after its eviction; a third element is
needed for a move from the middle of the history list. Sensors that collide and one
that does not exercise both cases of the hash chains. Target 3 is read both ways
(drain and head), target 1 or 2 only drained; the lists do not interact, so two
suffice. Time up to 1 gives equal and different stamps; `MaxSamples` caps the counter
that only statistics reset; samples are counted and reported in `adv_history`, where
reports have stamps other than 0. In `AdvPost` the state is finite by itself apart from
the batch length: batches of 0 to 2 reports include the empty one, the one interrupted
before its end and the one published completely. `adv_post` has two configurations that
share no target, so that a change switches off what is due, in progress or requested by a
timer; its batches are empty, those with reports are in `adv_request`. In `adv_post` a
connection is announced again only after a disconnection, and at most two changes of the
network wait to be handled (`AnnouncedOnce`). `adv_post` and `adv_request` identify states
that differ only in what the task was sending before its last transfer ended (`LiveState`):
every start sets it again before anything reads it. In `adv_request` a wait that times out
lets the thread check a server while a batch is in progress. One server thread and one configuration mode are the callers that
can really overlap: the HTTP server handles one request at a time. `MqttRelay` is finite
as it is; its instances differ in what the environment may do, since all events at once
exceed what TLC finishes in minutes. Two brokers besides the default and the tested one
are needed to see a client left over from an earlier configuration; two sensors to see a
report left in the list behind the one that was published. In `FwUpdate` two updates are
needed for an update of a slot that was updated before and for one whose predecessor is
not confirmed yet; failures and restarts are unbounded, a power loss adds only the
points where nothing else can interrupt the code. In `services` two events are the
least for a fault in the middle of an update, two updates that share one signal, or a
change of settings that meets a loss of the network; the four configurations are the
default, one that differs in each NTP setting, and one that differs in something else.
A timeout of 9 and a period of 3 ticks of 4 bits wrap around in the middle of a silence.

**Deadlock** is not checked in the table runs (the clock ends) nor where a `fault`
stops the firmware. It is checked in `fw_update` and `services`.

**Symmetry** is used for the sensors of `adv_history` only, where all of them share
one bucket and no temporal formula other than an action property is checked, and for
the two brokers of `mqtt_service`, an invariant check.

**Fairness** (`AdvPost!Fairness`). Weak: the scheduler runs the task while it can
step, timers fire, a thread inside suspend or resume goes on. Strong: `PollDone`,
because esp_http_client has a timeout, so polling cannot answer "again" for ever;
`StartHttp`, an assumption on the environment: memory and server come back. Without
the last one a failing cloud target starves the custom server, since the flags are
looked at in a fixed order and a failed start leaves the flag set.

`MqttRelay!Fairness` is weak fairness of the main task, of `adv_mqtt` and of a server
thread that has begun something: the scheduler runs them. Nothing is assumed of the
network, of users, of sensors or of the 15 s timeout. The wait for the MQTT mutex is
inside the steps; it is free again and again because its holder's next step has no
other condition.

`FwUpdate!FwFairSpec` is weak fairness of the thread's next step, where a failure of the
operation counts as a step, and of `leds_task`. Nothing is assumed of users, servers or
downloads; power losses are finitely many. `services` needs no fairness:
`SntpNotForgotten` says that no state with nothing left to do has SNTP stopped, but for the
two cases of `missed`.

## 4. What the checks found

Disagreements, each with a run:

- `adv_two_threads`: `gw_status_suspend_relaying(true)` waits only in the thread that
  raises the counter from zero. When configuration mode has just suspended relaying,
  a server thread goes on at once and `http_check_post_advs` may find the request in
  use and assert.
- `fw_auto_confirm`: `fw_update_task` writes the flag that postpones the confirmation
  after the boot partition has been switched and the nRF52 step is done. When that step
  fails, or power is lost during it, the next start-up finds no flag and confirms the
  new image at once, although `ruuvi_gateway_main.c:609` leaves that to the first
  successful communication.

Observations without a run of their own. Relaying and MQTT:

- `adv_post_handle_sig_relaying_mode_changed` unlocks the HTTP server's mutex whatever
  kind of transfer it aborts, also for an MQTT batch, which does not hold it
  (`adv_post_signals.c:192`);
- the main task reads the counter at the start of
  `main_task_handle_sig_relaying_mode_changed` and clears the command bit at its end
  (`main_loop.c:611`). An HTTP-only suspension shortly before a broker check makes it
  acknowledge the check's suspension unseen; `http_check_mqtt` then finds the client
  "already running", reports the connection of the saved broker and stops that client.
  `SuspendedMeansStopped` is therefore checked, and proved, for one server thread without
  configuration mode and remote configurations (`OneChecker`, section 5); saves, also
  late ones, do no harm;
- `main_loop.c:335` stops a timer that a newer request for configuration mode has just
  started; the mode then stays on, and relaying suspended, until somebody opens the page
  again;
- `adv_table.c:183` says that a sensor is inserted "if the retransmission list is not
  full"; the code has no such condition and needs none, since an element is in each
  list at most once (`ListsConsistent`);
- aborting a periodic MQTT batch does not free `g_p_adv_post_reports_mqtt`;
- an empty MQTT batch still publishes element 0 of the buffer, which is zeroed
  (`adv_post_async_comm.c:296`): the one case in which the index is not below the length
  (`MqttBatchValid`);
- a check of an HTTP server overwrites the kind of adv_post's transfer
  (`http_post_advs.c:246` with `adv_post_async_comm.c:453`). When a periodic MQTT batch is
  in progress, because the checking thread has not waited or its wait has timed out, the
  task takes the batch for an HTTP transfer at its next poll, and `http_async_poll` stops
  the firmware: "it's allowed to call only from thread ..." (`http.c:641`). It takes a
  server thread beside configuration mode, or a wait that times out; with the invariant
  `PolledByOwner` TLC shows either. `HttpRequestOwned` says that this is the only
  transfer the task does not own, `OneSuspenderIsSafe` that one thread answered in time
  never brings it about;
- a report with time stamp 0, which the counter-based clock gives before the first counted
  advertisement, ends the statistics (`adv_table.c:426`): it and all behind it are left
  out (`StatisticsExact` and `SamplesReported` speak of stamps other than 0);
- a post in progress when its target is switched off goes on to its end, and relaunches
  the timer of its target (`NoPostToDisabledTarget` is about posts started afterwards);
- a request made by the timer during a post is dropped when the post ends, which is
  also what keeps the first target from starving the second;
- a batch is taken from the table before its post is started, and is lost if the
  start fails;
- the relaying handler reads the counter first and clears the command bit last, so a
  command in between is acknowledged early; the signal that follows repairs the
  state, but the waiter has gone on (`RelayingFollowsCounter` holds,
  `SuspendedMeansQuiet` only for a single suspender);
- `ServicesFollowConfig` needs that saves happen in configuration mode and that a client
  can be created: a late save is never followed by a restart of the services
  (`main_loop.c:345`), and nothing retries a start that had no memory. A default
  configuration, installed when Ethernet comes up on an unconfigured gateway, has no
  restart of its own either; it is right only because the end of what made the gateway
  look unconfigured always sends a relaying mode signal afterwards (`DefaultInv`);
- a restart of services during a broker check stops the client under test, and the
  user is told of a timeout;
- after a resume or a reconnection, list 3 waits for the next received advertisement;
- `mqtt.c:628` tests `p_mqtt_cfg` where `p_mqtt_cli_cfg` is meant;
- the deferred Ethernet timer is deleted and its pointer cleared (`main_loop.c:341`)
  while other threads may still stop it;
- `validate_url.c:1124` and `http_server_cb_on_post.c:159` return without resuming;
- `adv_post_timers_stop_timer_sig_network_watchdog` is never called.

Firmware update and start-up:

- a rollback after a failure at start-up looks only at the application of the other slot:
  if an interrupted update has overwritten its file systems, it runs with them
  (`BootsCompleteRelease` excludes this case);
- an update started while an auto-updated image waits for its confirmation is refused by
  `esp_ota_begin_patched`; the restart that follows rolls the image back;
- with an old partition table without `fatfs_nrf52_2` the update overwrites the nRF52
  file system of the running slot;
- nothing keeps a second update from being requested during the first, at any of its
  steps; the assertion of `leds_task` resets the gateway (`LedsAssertOnlyOnSecondUpdate`);
- the reset task and the network watchdog may restart the gateway during an update;
  what is on flash survives it (`BootsCompleteRelease`).

Configuration and time:

- an NVS that is full is erased before the write is repeated; a reset or a second failure
  in between loses the configuration (`ConfigDurable` excludes it);
- a configuration that cannot be read at start-up for lack of memory is overwritten by
  the BLOB or by an empty one;
- the BLOB is never erased: `settings.c:344` passes a handle that is already closed;
- a save that fails is not reported, and the gateway runs with a configuration that the
  next start-up will not load;
- `gw_cfg.c:533` returns without unlocking the mutex;
- a POST reads the configuration, changes it and writes it back without the mutex
  (`http_server_cb_on_post.c:57`): an update in between is overwritten;
- new NTP settings on the fallback Ethernet stop SNTP, and no reconnection follows that
  would start it again (`main_loop.c:523`), although a comment says that "time_task_sntp_start
  will be called by handler of EVENT_MGR_EV_WIFI_CONNECTED or EVENT_MGR_EV_ETH_CONNECTED"
  (`time_task.c:177`). SNTP stays stopped until the link is lost, the settings change
  otherwise, or the gateway restarts;
- a link that is lost and back before `time_task` runs leaves SNTP stopped as well: the two
  signals are handled by number, the connection first. Without `missed`, which stands for
  these two, TLC finds `SntpNotForgotten` violated by each of them, and with it by nothing
  else;
- the flag that time is synchronised may stay set after SNTP has been stopped, when the
  callback runs between the stop and the reset of the flag;
- the table is cleared at the first synchronisation to "remove all accumulated data with
  zero timestamps": there is none of that kind (`TableKind`).

## 5. Proofs

Every invariant and action property of the passing runs is also a theorem, for
every value of the constants that satisfies the named `ASSUME`s of the module. The proof
of each module has the same shape: an inductive invariant that is the conjunction of
named parts, defined at the end of the component's module; one lemma per action, or per
action and part; and a last step that combines them. `PROJECT.json` lists the theorems
with the property each one states.

| Module | Theorems | For every |
|---|---|---|
| `AdvTableProofs` | `TableIsConsistent` (the inductive invariant), `TypeCorrect`, `ListsAreConsistent`, `HashIsConsistent`, `HistoryIsConsistent`, `HistoryIsExact`, `StatisticsAreExact`, `EvictionIsLru`, `SamplesAreReported` | number of elements, sensors, payloads, hash function, set of targets |
| `AdvRelayProofs` | `TableImplementsRelay`: the table implements the abstract relay; `RelayedExactlyOnce` and `TableBoundsRelay`: what its readers get from that | the same |
| `AdvPostProofs` | `PostTypeCorrect`, `RequestIsOwned`, `TransfersArePolled`, `BatchIsValid`, `CommandsAreHandled`, `RelayingIsRight`, `NoPostAfterDisabling`, `DuePostsAreTimed`, `OneSuspenderIsSafe` | finite set of suspending threads, set of configurations, batch length |
| `MqttRelayProofs` | `RelayTypeCorrect`, `SuspensionsAreBalanced`, `StatusIsTrue` | finite set of server threads and of sensors, brokers, configurations, selection of events |
| `MqttServiceProofs` | `CommandsReachMain`, `ServicesAreRight` under `CfgIsGuarded`, `SuspensionStopsMqtt` under `OneChecker` | the same |
| `FwUpdateProofs` | `FwTypeCorrect`, `UpdateIsAtomic`, `AlwaysBootable`, `NrfVersionIsHonest`, `NrfReadyIsTrue`, `LedsAssertionsHold` | set of releases, number of updates and power losses |
| `TimeSyncProofs` | `TimeTypeCorrect`, `ConfigIsDurable`, `RunningConfigIsStored`, `TasksHaveConfig`, `TableHasOneKind`, `SntpIsNotForgotten` | set of configurations, number of events |
| `NetTimeoutProofs` | `WatchdogMeasuresSilence` | width of the tick counter, timeout, period |

**Assumptions.** `AdvTable`: at least one element, `NoData` and `NoMac` outside their
sets, the hash maps sensors to buckets, the MQTT target is a target. `AdvPost`: server
threads and configuration mode are different, finitely many threads. `MqttRelay`: no
configuration names the broker under test, which stands for one the user is only
trying; finitely many threads and sensors. `FwUpdate`: `Bad` is no release.
`GwCfgStore`: the NTP settings are Booleans. `NetTimeout`: the timeout and one period
together stay below the range of the counter (one hour and some minutes against the 49
days of 32 bits); that `2 ^ W` is a natural number is stated as an assumption because
the provers know no exponentiation. TLC evaluates all of them.

Three theorems have a hypothesis about the environment, and each is needed:

- `OneSuspenderIsSafe` assumes `OneSuspender`: one thread that suspends and is
  acknowledged before its timeout. With two threads the run `adv_two_threads` shows the
  failing assertion.
- `ServicesAreRight` assumes `CfgIsGuarded`: no save after the end of configuration mode
  and no client that cannot be created. Adding either event to `mqtt_service` makes TLC
  find a violation (section 4). Everything else may happen, in any number of threads:
  configuration mode, remote configurations, broker checks, Ethernet, timeouts.
- `SuspensionStopsMqtt` assumes `OneChecker`: one server thread, answered before its
  timeout, no configuration mode and no download of a remote configuration. With any one
  of these, or a second thread, TLC finds a violation: the main task then acknowledges a
  suspension it has not looked at (section 4), or nobody waits for it. Saves, also late
  ones, connections and their losses, Ethernet and clients that cannot be created are
  allowed.

### The arguments

**`AdvTable`** (`Inv`). None of the properties is inductive alone. That a list holds no
element twice needs that flags mean membership. That a sensor is in one bucket only
needs that an element is unchained from the bucket of the address it still holds, hence
that every chained element sits in the bucket of its address and that flags mean being
chained. That eviction takes the oldest report needs the history list sorted, free
elements last, and a permutation, and these need that no stamp is ahead of the clock and
that free elements carry stamp 0. The same order makes the early exits of the history and
statistics reads complete: `HistoryIsExact` and `StatisticsAreExact` show that behind the
first element that ends the loop no other belongs to the answer. The list facts are
lemmas about `MoveToHead` (a permutation that keeps the order of the others) and about
dropping a prefix of a sequence.

**`AdvRelay`**. The mapping gives each sensor the data of the element that is chained for
it. With `Inv` that element is unique, so the mapping is a function; one lemma per action
shows the abstract step it makes: a put, a put that takes the place of the evicted
sensor, a read of everything due or of one report, a clear, or nothing. That the abstract
table is full when the concrete one evicts is a count: sensors and chained elements are in
bijection, and free elements are last in the history list, so a used last element means
that all are used. `RelayedExactlyOnce` and `TableBoundsRelay` follow from the mapped
steps alone: each abstract action keeps the promise, and the mapped state has its types.

**`AdvPost`** (`PostInv`). Ownership of the request (`RequestInv`) is tied to the place of
every thread and to the kind of transfer in progress, which a check may overwrite only for
a batch; the index of a batch in progress is below its length or the batch is empty
(`BatchInv`); a due post belongs to an enabled target or a change of configuration is
pending (`DueInv`); `CounterExact` counts the threads inside a suspension. `TimedInv`
keeps the periodic timer of every enabled target running or a configuration to be read
ahead; with `DueInv` it gives `DuePostIsTimed`, which matters because aborting a transfer
stops the one-shot timer, and only the periodic one makes the task look at the post again.
`RelayingFollowsCounter` and `CommandIsHandled` are inductive next to these: every change
of the counter that the task has not seen has a command bit, a notification or a signal
on its way. `OneSuspenderInv` adds, for a single thread, which of command bit, signal and
acknowledgement is outstanding at each place of the thread; the shared request is then
never met in use, and a check never meets a transfer whose kind it could overwrite.

**`MqttRelay`** (`RelayInv`). The steps a thread has still to do come in a fixed order
(`StepOrder`); from it follow who holds the mutex of `mqtt.c` and what the client and the
bits are while it is held (`MutexInv`), and that the counter is the number of threads with
a resume ahead, plus configuration mode (`SuspendInv`).

**`ServicesAreRight`** (`ServiceInv`). When everything has been handled, the last decision
whether to start must have been taken with what is still true. So for every fact the
client does not follow yet, something that will look again is on its way: a restart of the
services (a signal, a planned step, a server thread about to send it), or a look at the
suspend counter (a command bit, a notification, a signal). `PlanInv` says which steps
thread lists may hold, `TestInv` that a client of the broker under test lives only inside a
suspension, `DecisionInv` that a decision taken from an older configuration or counter is
followed by another, `ClientInv` that a client with the wrong server, or none where one is
wanted, is too, and `DefaultInv` that this also holds for the default configuration, which
comes without a restart.

**`CommandsReachMain`** (`CommandInv`). A command bit is set by a thread that has its
notification still ahead; the notification becomes a signal, and the signal the planned
clearing. Two commands may share one signal: the bit is cleared once for both.

**`SuspensionStopsMqtt`** (`CheckInv`). The lists of the main task and of the thread are
among the few in `MainPlans` and `CheckPlans` (`CheckerAlone`). `Handshake`: the main task
has the counter to look at, or the bit to clear, only while the thread waits with the bit
set, so an answer is always the answer to the latest change. `AnswerInv`: when the bit has
been cleared after a suspension MQTT is stopped, and no start is planned, until the
thread resumes; the only client in between is the thread's own, with the broker under
test. The proof goes list by list: every list is one phase of the thread, and every action
is shown to keep the phase or to move to one of its successors.

**`FwUpdate`** (`FwInv`). The slot that the boot loader picks next, and the one it
falls back to while the first is not confirmed, hold a complete release at every step
(`BootInv`); an update writes the slot that is neither, part by part (`WriteInv`). `SomeApp` keeps one bootable
application through every rollback; `NrfInv` ties the version register to the steps of the
nRF52's update; `LedsInv` lists, for each stage, the signals `leds_task` may still have to
handle and the states it can meet them in.

**`GwCfgStore` and `TimeSync`** (`TsInv`). `DurableInv` and `RunningInv` say at each stage
of a save what is in RAM, in flash, and promised to the user; `TimeHasCfg`, `AdvHasCfg`
that a task whose copy is old has a signal pending, or the call that will make the change
has announced it and still holds the mutex; `CacheInv` that a report is stamped by the
setting under which it took the cache's mutex; `SntpInv` that a running link without SNTP has a start
ahead, after the handling of any loss, unless it was `missed`.

**`NetTimeout`** (`WdInv`). The tick count is the last success plus the silence, wrapped at
most once, because a check comes before the silence can exceed timeout and period.

### Only model-checked

The five liveness properties (`DuePostsAreStarted`, `WaitersAreReleased`,
`MqttWaitersAreReleased`, `DueReportsAreTaken`, `BootCompletes`): fairness and `ENABLED`
are out of the prover's reach. For the first three the part that is safety is proved,
namely that whoever is waited for has been told: `DuePostsAreTimed` and
`TransfersArePolled`, `CommandsAreHandled`, and `CommandsReachMain`.

## 6. Plan

Every invariant and action property is proved.

Models still worth writing: the rewrite of the partition table, the HTTP and MQTT sides of a suspension in one composition
(`AdvPost` with `MqttRelay`); the timers of firmware and remote configuration checks, the
deferred Ethernet start and WPS of the main task.

## 7. Not modelled

`POST /init_storage` erases the sector of the partition table and writes it again
(`partition_table.c:38`), trying up to ten times. Without power in between, or after ten
failures, there is no partition table and nothing starts. `FwUpdate` takes the table as
given; the operation is on request of a user, not part of an update.

Text formats (JSON, URLs, base64), cryptography, flash and UART drivers, the Wi-Fi
manager and Ethernet driver, and the SWD programming of the nRF52: they are pure
functions on text or hardware input and output. The same holds for `http_download.c`,
whose result is the success or failure of a stage in `FwUpdate` and `MqttRelay`, for the
patterns of `leds_ctrl2.c`, which has no assertion and drives nothing else, and for
`reset_info.c`. `validate_url.c` and the remaining server callbacks keep no state of
their own beyond the suspension, which `AdvPost` and `MqttRelay` have. `components/` is
ESP-IDF and third-party code, modelled only as far as `main/` uses it. Memory exhaustion
is modelled only as the failure of the call that allocates.
