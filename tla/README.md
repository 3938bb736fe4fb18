# SmartLoad gateway: verification project

TLA+ models, TLC configurations and TLAPS proofs for the firmware in `src/`: an
ESP32 gateway (ESP-IDF, FreeRTOS) between a SmartLoad fuel dispenser on an RS485
Modbus RTU line and two cloud services, Azure IoT Hub over MQTT and an HTTP
backend. The repository has no design documents; the models are taken from the
C code, and what "should" hold from its comments, log messages, headers and the
evident intent of its locks and checks.

## 1. Inventory

### Tasks

| Task | Code | What it does |
|---|---|---|
| `app_main` | `src/main.c` | sets everything up, starts the tasks, returns |
| `quick_test` | `main.c:738` | at boot: polls the dispenser up to 20 times, then runs one full batch |
| `telemetry_task` | `main.c:645` | waits for the quick test, then reads the status and sends it, for ever |
| `cloud_init` | `main.c:718` | connects to Azure once, with the stored credentials |
| `azure_bg` | `azure_iot.c:600` | renews the session (token, link), drains pending telemetry |
| `smartload_http_task` | `smartload_http.c:659` | posts queued payloads, pulls the connection and the configuration |
| esp-mqtt client task | `mqtt_mgr.c:40`, `azure_iot.c:562` | MQTT events, twin documents, direct methods |
| event task | `wifi_mgr.c:163` | Wi-Fi events |
| `ota_task` | `ota.c:76` | one firmware update, then a restart |

### Components

| Component | State | Operations | Correct means |
|---|---|---|---|
| Modbus RTU master | UART, DE/RE pins, `handle->lock` | FC03 read, FC10 write | exclusive use of the bus; `ESP_OK` only for an answer to this request; every call returns; bus released |
| SmartLoad protocol | none of its own; the registers of the dispenser | authorize, auth_batch, read_status, commands | a command acts on the parameters written for it |
| Application (`main.c`) | `s_modbus_lock`, `s_quick_test_done`, `s_runtime_cfg`, `s_active_azure_cfg` | quick test, telemetry round, direct methods, `on_http_connection_update` | jobs are indivisible and end; telemetry starts |
| Azure session | `s` and `s_mutex` of `azure_iot.c`; client, flag and event bits of `mqtt_mgr.c` | init, connect, disconnect, publish, background round, events | client, credentials and topic agree; no client freed under a publish; no deadlock; the session comes back |
| Pending telemetry | numbered files, `s.pending_seq` | save, drain | what is reported as queued is not lost; the queue drains |
| HTTP uplink | queue of 4, failure files, `s_http_failure_seq` | send, post with retries, store a failure, rotate | one fate per payload; a bounded store; order kept |
| Connection pull | `s_conn_lookup_done`, `s_cached_connection_applied`, `s_device_id`, NVS keys | pull, cached fallback, report | what is used is in flash; at most one report per boot |
| Credentials | three NVS keys, two JSON files and an older third, each in flash and on the SD card | save, load at boot, `clear_sd` | a boot finds one whole set, not an older one than a successful save left |
| Storage, storage manager | files, `s_lock` | read, write, list, remove, rotate | modelled as its callers use it |
| Runtime configuration | `s_runtime_cfg`, a copy in `azure_iot.c`, five NVS keys, a file | twin document, config pull, `azure_iot_init`, load at boot | no update is lost; the copies agree; a boot finds what was saved |
| Wi-Fi manager | `s_connected`, `s_ever_connected`, `s_retry_count`, event bits; two NVS keys, a file | connect, events, save | the station comes back; SSID and password belong together |
| OTA | `s_running` | compare versions, update, restart | one update at a time; only for a request that names a newer version |
| NVS manager | none | read and write one key | each call is atomic and may fail |
| LoRa, board | hardware set-up | | not modelled |
| `http_client`, `mqtt_client`, `smartload_mqtt` | | | earlier versions; nothing reachable from `app_main` calls them |

### How they interact

- `telemetry_task`, `quick_test` and the client task (direct methods) share the
  dispenser through `s_modbus_lock`, taken for a whole job, and below it
  `handle->lock`, taken for one Modbus call.
- `telemetry_task` hands each payload to `azure_iot_publish_telemetry` (MQTT, then
  HTTP, then a pending file) and to `smartload_http_send` (queue, then a failure
  file).
- `smartload_http_task` reports a pulled identity to `main.c`
  (`on_http_connection_update`), which disconnects and connects the session under
  `s_cloud_lock`; `cloud_init` does the same at boot without it, `azure_bg` at any
  time under `s_mutex` alone.
- The twin callback and the config pull replace the runtime configuration of
  `main.c` and the copy in `azure_iot.c`, which `azure_iot_init` refills from a
  snapshot; `s_runtime_lock` covers one copy, never a whole update.
- `app_main` waits up to 30 s for Wi-Fi and then starts the cloud tasks, whatever
  came of it; `cloud_init` and the report look at Wi-Fi once, the HTTP task in every
  round.
- `ota_task` and the `reboot` method restart the device without waiting for any task.
- The client task runs direct methods inside its event handler, and
  `esp_mqtt_client_stop` waits for that handler: a lock held across it could close
  a circle.

### What is hard

Answers on the serial line that outlive their call; jobs of several calls that fail in
the middle; three tasks that open and close one session; `azure_iot_init`, which clears
the state the other tasks use without their lock; files that two tasks number, list,
remove and write in separate steps; resets between the writes of one record; copies of
one record that are written one after the other and read in a fixed order; a
configuration with four copies and three writers; a link that drops at the one moment
somebody looks; retries of what may already have been done. `PROJECT.json` lists each
place with its line and the properties that watch it.

## 2. The modules

| Module | Models | State in the code |
|---|---|---|
| `ModbusCall` | what a caller of the driver may rely on: an abstract specification | |
| `ModbusRtu` | the driver, with the line and the slave as its environment | `lock` is `handle->lock`, `de` the pins, `rx` the UART driver's buffer; `pc` the place in `send_frame`/`receive_frame` |
| `AtomicJobs` | a job as one block of writes on the dispenser: an abstract specification | |
| `SmartloadApp` | the three tasks of `main.c` that use the dispenser, and `smartload_protocol` | `lock` is `s_modbus_lock`, `phase` and `polls` the quick test, `done` is `s_quick_test_done` |
| `AzureSession` | `azure_iot.c` over `mqtt_mgr.c` and their callers | `creds`, `topic`, `connected`, `stopping`, `token` are fields of `s`; `mconn`, `bits` belong to `mqtt_mgr.c`; `active` is `s_active_azure_cfg` |
| `PendingTelemetry` | `save_pending_payload` and `drain_pending_payloads` | `seq` is `s.pending_seq`, `files` the directory |
| `HttpUplink` | `smartload_http_send`, the queue, the POSTs, `storage_manager_store_http_failure` and the rotation | `queue` is `s_queue`, `seq` is `s_http_failure_seq`, `stage` the place in the store |
| `ConnectionPull` | `smartload_http_process_connection_pull` and the cached connection | `done`, `cached`, `deviceId` are the statics, `nvsId`, `nvsConn` the keys |
| `WifiMgr` | `wifi_mgr.c`: the connect at boot, the event handler behind its queue, the save | `connected`, `ever`, `retries`, `bits` are its statics, `events` the event queue, `wifiNvs`, `wifiFile` what it stores |
| `Device` | the boot: composes `WifiMgr` and `ConnectionPull` (`INSTANCE`) with `cloud_init`, the HTTP task and `on_http_connection_update` | `identity` is `azure_cfg` of `cloud_init`, `session` stands for the client |
| `CredentialStore` | `app_config_save_azure`, `app_config_load_azure` and `clear_sd` | `nvs` the three keys, `file` the files on both media, `pc`, `name` the place in a save, `boot` in the load |
| `RuntimeConfig` | `s_runtime_cfg`, twin, config pull and `azure_iot_init`, `app_config_save_runtime`, `app_config_load_runtime` | `main` is `s_runtime_cfg`, `azure` is `s.runtime_cfg`, `local` the copies on the stacks |
| `Ota` | `ota.c` | `firmware` the running version, `target` the argument of the task, `Running` is `s_running` |
| `UpdatedTelemetry` | composes `PendingTelemetry` and `Ota`: the restart after an update finds the telemetry anywhere | |

Each `MC...` module extends one of them with the instances for TLC. The theorems about
a module are in the module named after it with `Proofs` at the end: `ModbusRtuProofs`,
`SmartloadAppProofs`, `AzureSessionProofs`, `HttpUplinkProofs`, `RuntimeConfigProofs`,
`CredentialStoreProofs`, `UpdatedTelemetryProofs` (also for `PendingTelemetry` and `Ota`)
and `DeviceProofs` (also for `WifiMgr` and `ConnectionPull`). One layer
supports the next by what it has been shown to do: a Modbus call in `SmartloadApp`
has the three outcomes `ModbusCall` allows (done, failed, failed although carried
out); `MaxUpdates = 1` in `AzureSession` and `reported` in `RuntimeConfig` are
`ToldOnce` of `ConnectionPull`; the methods `AzureSession` runs inside an event end by
`EveryJobEnds`; a session whose client was started once (`Device`) comes back by
`Recovers`.

Definitions named `X_Something`, marked "Mutant", are variants of `X` with a
plausible mistake. They are used by no specification; `PROJECT.json` pairs each
with the property it breaks.

Grain: a step is what happens between two points where another task can be
noticed: taking or giving a lock, one call of the UART, NVS, file or MQTT library,
one field or record written without a lock where a reader may see the half-done
state (`azure_iot_init`, `++s_http_failure_seq`). A save to a file is two steps where what
lies between matters, emptying it and filling it; elsewhere one, after which, or after
a reset that comes then, the file may be torn.

Some variables hold history and decide nothing: `told` and `reports` of `ConnectionPull`
(by which `Device` sees that a report was made), `maybe` and `ripped` of `WifiMgr`,
`missed` in `Device`; `crowd`, `alone`, `mixed`, `given`,
`dirty`, `wiped` and `kept` in `RuntimeConfig`; `allowed`, `period`, `success`, `early`
and `stale` in `CredentialStore`.

## 3. What the runs show

| Run | Bounds | Shows |
|---|---|---|
| `modbus_ontime` | 2 tasks, 2 calls, 2 registers, 6 requests | the driver implements `ModbusCall` when answers do not outlive their call |
| `modbus_late` | 2 tasks, 2 calls, 3 requests | late answers, UART failures: exclusion, half duplex, well-founded `ESP_OK`, calls that return |
| `jobs` | 1 triple, 1 batch, 1 writing method of four kinds beside the quick test, 2 polls, 1 reset | indivisible jobs, parameters, batches, progress |
| `session` | 3 identities, one that cannot be signed for, 1 update, 1 failure beside those of its key | agreement of the identities, a client that is stable under a publish, no deadlock, recovery |
| `pending` | 3 messages, scans of 2, 3 failures, 1 reset or update, 1 `azure_iot_init`; 5 versions of up to 3 fields | nothing queued is lost until the counter is cleared; the queue drains; updates only for newer names |
| `pending_reboot` | 2 messages, 1 reset | **finding**: a queued payload is overwritten after a reset |
| `uplink` | 4 payloads, queue of 1, 2 tries, 1 file kept, 2 failures, 1 reset | one fate each, bounded store, order, progress, newest failures kept by a single writer |
| `uplink_race` | 3 payloads, 3 files kept, one place taken by `/http_config.json` | **finding**: two tasks store under one name |
| `device` | 3 networks, one with a long SSID and password, 1 Wi-Fi save of any or of an empty SSID, 2 + 1 ids, every form of answer, 2 failures, 1 reset | what is used is stored; told once; saved Wi-Fi credentials come back; the station and the session come; but for named exceptions |
| `pull_id` | proper answers only, 1 failure | **finding**: the Azure id becomes the HTTP id |
| `creds` | 2 savers, 3 saves or `clear_sd`, 4 kinds of boards, 1 failure, 2 resets | a boot finds whole, current credentials, but for named exceptions |
| `config` | `device_params` and a number, 2 updates, 1 failure, 1 reset | copies that agree again, no lost update, a boot that finds what was saved |

Why the bounds are enough. Two calls suffice for an answer to outlive its call and meet
the next; two tasks for every conflict over a lock. The proofs of section 5 cover every
bound for all that is not liveness. In `jobs` the registers begin with contents no
request wrote: they stand for whatever an earlier job, of this boot or of one before,
left, so one writing method beside the quick test meets every mixture, and the values of
its own parameters need no alternative. Limits of the code (125 and 123 registers, queue
of 4, 3 tries, 20 polls, 10 joins, scans of 16, 8 and 4 files) are scaled down so that
they are reached; the code compares against them in one place each. In `session` a key
that cannot sign fails without counting as a failure: with one more the boot connect can
time out, or the link drop, and the renewal fail in one behaviour. In `uplink` no other
file has the prefix of the failures; `/http_config.json` is in `uplink_race`, and the
proofs of `StoreBounded` and `NewestKeptByOne` are for either case. Two resets in
`creds` let the second boot work on what the first one repaired, and three saves let one
overlap two; in `config` the two updates and the two `azure_iot_init` make four writers,
of which any may overlap. A string and a number are the kinds of fields there are, and
`device_params` is the string that a pull may empty, so that NVS hides no file at the
next boot, which stands there as an empty object.

Deadlock is checked where the system has no rest state (`jobs`); elsewhere
a bounded supply of calls, messages or saves comes to an end, and the cfg says so.

The exceptions are part of the properties, and each is real behaviour of the code,
which a run without it shows:

- `SettledIdentity`: a connect whose token could not be signed returns before the client
  is touched, though `azure_iot_init` has replaced credentials and topic by then
  (`azure_iot.c:678`): the client of before goes on beside them, until a connect gets a
  token. `Recovers` excepts an identity whose key can sign none.
- `QueuedSurvives`: a flash that loses a part of a file in `fclose`, or in a short `fread`,
  without an error (`storage.c:231`, `:263`).
- `OnlyNewerRequested` is about the name in the request: `ota.c:83` logs it, and nothing
  compares it with the version of the image, which may be older.
- `BootsWithSavedWifi`: an error on one of the two Wi-Fi keys is only logged; a save with an
  empty SSID, or with a string longer than the buffers of the load (`wifi_mgr.c:276`), is
  not what the next boot reads.
- `NewestKeptByOne`: `/http_config.json` has the prefix of the failure files
  (`storage.c:118`), takes the place of one and may be removed with them.
- `BootsWithWhatWasSaved`: an empty `device_params` comes back from the file as `{}`.
- `LoadsWhatWasSaved` (`Forgiven`): a device with credentials in NVS only has no second
  copy, a card whose copy could not be opened, or that `clear_sd` left half cleared,
  keeps an older one and is read first, and `/config.json`, which no save touches, is
  still read when the others are missing.
- `StaysConnected`, `ReachesCloud`: a station that failed before it was ever connected, or
  whose `esp_wifi_connect` returned an error (`Deaf`), is not started again, and a report
  that came to nothing is not repeated (`ReachesCloud`).

### Fairness

Tasks are scheduled by priority on FreeRTOS and none of them spins, so a task that can
go on does (weak fairness of its steps). A mutex is handed to the waiting task of the
highest priority; no task takes one in a loop without blocking in between, so a waiting
task gets it sooner or later (strong fairness of `TakeLock` and of the session steps).
Waits of the code have timeouts: 1 s for the UART, 15 s for the MQTT connection, 30 s
for Wi-Fi, the HTTP timeout; they are steps. A client that keeps trying is let in once
failures stop, which their bound makes happen; so is a station whose credentials are
right. The event task handles what the Wi-Fi driver posted. Nothing obliges the cloud to
call methods, hand out identities or send data.

## 4. Findings

`PROJECT.json` quotes the lines; each is the counterexample of a run.

1. Pending telemetry: `s.pending_seq` starts again after a reset and the next save
   overwrites a file that was reported as queued (`azure_iot.c:219`).
2. Failed HTTP payloads: `++s_http_failure_seq` in two tasks gives both the same
   file (`storage_manager.c:80`).
3. HTTP identity: the fallback to the cached connection stores the Azure device id
   as the HTTP id, which the comment at `smartload_http.c:93` excludes (line 476).

Other disagreements were met while modelling and are not the subject of a run: the 404
"Method not handled" for methods that acted and failed (`azure_iot.c:559`), the ignored
result behind "Azure credentials saved" (`:515`), the quick test that goes on although
no readiness poll succeeded (`main.c:747`), the topic that `azure_iot_init` may change
between the check and the publish (`:643`), the reconnect for an identity that did not
change (`main.c:443`), the pins left driving after a failed `uart_write_bytes`
(`modbus_rtu.c:191`), the image whose version nobody compares (`ota.c:83`), the network
with an SSID of 32 bytes that is saved with `ESP_OK` in the first of the sources and yet
not loaded (`wifi_mgr.c:276`, against "first non-empty wins" in `wifi_mgr.h:9`), the
token failure that leaves the old client beside new credentials (`azure_iot.c:678`).

## 5. What is proved

Every invariant and every action property of the passing runs, and both refinements,
are theorems of the specifications: for every value of the constants, and so for every
bound of section 3. `tlapm` checks every proof to its last leaf; no fact is assumed but
the `ConstantsAssumption` of each module (in `RuntimeConfig` also `NoneAssumption`), which
TLC evaluates in the module's run. These say that the marks (the free mutex, the missing
file, the torn content, no identity) are none of the values they are marks beside, that
the bounds are numbers, and what the code fixes:

| Module | Assumed of the constants, beyond marks and bounds |
|---|---|
| `ModbusRtu` | there is a request; register addresses are numbers; the limits are at most 125 and 123 |
| `SmartloadApp` | the methods are jobs other than the poll; parameters fit a register, and the two halves of a preset do; at least one poll |
| `AzureSession` | the identity the boot finds, and those that cannot be signed for, are among the identities |
| `HttpUplink` | queue and tries at least 1; the rotation after a failed write keeps no more than the first one; at most one other file has the prefix, and there is room for it |
| `PendingTelemetry` | a scan looks at one file at least |
| `WifiMgr`, `ConnectionPull` | the first network, and those with long strings, are among the networks; the answers are of the forms the parsers meet (`ConstantsOK`, which `Device` assumes) |
| `RuntimeConfig` | a twin sets some of the fields; those that hold an object are strings; every field has one key, in any order; no field is both a string and a number |
| `CredentialStore` | the savers are among the HTTP and the client task; the factory's credentials are some |

| Module | Theorem | States |
|---|---|---|
| `ModbusRtuProofs` | `TypeCorrect`, `Invariance` | `TypeOK`; the inductive invariant |
| | `HalfDuplexHolds`, `OkWasAnsweredHolds` | `HalfDuplex`, `OkWasAnswered` |
| | `OkMeansTakenHolds`, `Refinement` (assume `~LateReplies`) | `OkMeansTaken`, `ImplementsModbusCall` |
| | `BusReleasedHolds` (assumes `~UartFaults`) | `BusReleased` |
| `SmartloadAppProofs` | `TypeCorrect`, `Invariance` | `TypeOK`; the inductive invariant |
| | `ActsAsAskedHolds`, `RunningExplainedHolds` | `ActsAsAsked`, `RunningExplained` |
| | `ImplementsAtomicJobsHolds` | `ImplementsAtomicJobs` |
| `AzureSessionProofs` | `TypeCorrect`, `Invariance` | `TypeOK`; the inductive invariant |
| | `SettledIdentityHolds`, `ClientStableHolds` | `SettledIdentity`, `ClientStable` |
| `UpdatedTelemetryProofs` | `DeviceTypeCorrect` | `DeviceTypeOK` |
| | `QueuedSurvivesHolds`, `DeviceQueuedSurvives` | `QueuedSurvivesUntilReset` of the telemetry alone, and with updates |
| | `OnlyNewerRequestedHolds` | `OnlyNewerRequested` |
| `HttpUplinkProofs` | `TypeCorrect` | `TypeOK` |
| | `OneFateHolds`, `ArrivesInOrderHolds` | `OneFate`, `ArrivesInOrder` |
| | `StoreBoundedHolds`, `NewestKeptByOneHolds` | `StoreBounded`, `NewestKeptByOne` |
| `DeviceProofs` | `TypeCorrect` | `TypeOK` |
| | `ToldIsStoredHolds`, `ToldOnceHolds` | `ToldIsStored`, `ToldOnce` |
| | `BootsWithSavedWifiHolds` | `BootsWithSavedWifi` |
| `RuntimeConfigProofs` | `TypeCorrect`, `Invariance` | `TypeOK`; the inductive invariant |
| | `CopiesAgreeHolds`, `NothingLostHolds` | `CopiesAgree`, `NothingLost` |
| | `BootsWithWhatWasSavedHolds` | `BootsWithWhatWasSaved` |
| `CredentialStoreProofs` | `TypeCorrect`, `Invariance` | `TypeOK`; the inductive invariant |
| | `LoadsWhatWasSavedHolds` | `LoadsWhatWasSaved` |

Few of the properties are inductive as they stand. Each module has an inductive
invariant `IInv` (in `HttpUplinkProofs` a growing one: `PathInv`, then `Strong`, then
what one theorem needs), the conjunction of parts that are proved to survive every
action, one lemma per action or per part:

- **Modbus.** That `ESP_OK` was earned depends on where the frame in the receive buffer
  came from, and this on what was on the line before. `LockInv`: the lock is held by the
  task inside the critical section, and the pins follow its place there; `IdInv`: an
  identifier names one call; `LineInv`: an undamaged frame, on the line or in the buffer,
  answers a begun call, carried out unless the answer is an exception; `WindowInv`: between
  the flush and the return, the flush was this call's and the buffer holds only what came
  after it. With `~LateReplies`, `WindowInv` adds that what is on the line belongs to the
  call that holds the lock, from which `OkMeansTaken` and the refinement follow.
- **Jobs.** That a command acts on its own parameters needs the registers call by call.
  `TaskInv`: the mutex is held by the task whose job runs, and a job that waits has not
  begun; `PollInv`, `CountInv`: who polls, and how many jobs there can be; `ArgInv`: the
  registers an authorization has come past hold what it was given; `LogInv`, `RunInv`: the
  last START is of a job that may leave the batch on, or has its STOP still to come.
  `Halves` and `Rejoined` are the facts on quotient and remainder that make `Join` undo
  `Split`. The refinement adds `BlockInv`: the log is the writes of jobs that have returned
  and then, at its end, the first ones of the job that runs. `AtomicJobs` sees only the
  former (`Committed`), so every call is a stutter, the return is `Perform`, a request is
  `Ask`, and a reset, which lets the cut-off writes appear, is `Crash`. `Counts` follows
  each job's script and says how many of its writes lie behind each call.
- **Session.** `SettledIdentity` speaks of rest; `SignedInv` of the way there: who has
  signed a token finds the credentials as it signed them, or another task is on its way
  to connect with the new ones. `SettledIdentity` is itself inductive beside it: a
  connect without a token is remembered (`unsigned`) until one gets it. `LockInv` and
  `SendInv` put the publish inside `s_mutex`.
- **Pending telemetry.** `NumbersInv`: while the counter is not cleared, the number a save is
  about to use is known to nobody else; so (`DrainInv`) the file that is delivered and
  removed is still the one that was read. With resets both are false, which is finding 1.
- **OTA.** `TargetInv`: what is asked for is newer than what runs, whenever both versions fit
  the code's integers.
- **HTTP uplink.** `FateInv`: a payload is on its way or settled, never both; `OrderInv` and
  `TriesInv` relate queue, hand and service; `BoundInv` counts the files that are due and
  what each rotation under way will leave, as both tasks may have listed before either
  removes; `NewestInv`: with one writer numbers are new, and what is removed has enough
  newer files. `OldestAreOld` is the lemma on the rotation; it rests on cardinalities.
- **Device.** `QueueInv`: what the event queue may hold, for each state of the driver (two
  events at most); `LoadInv`: a save under way has written the keys it has come past;
  `PullInv`: nothing was reported before the lookup ended, and what is about to be reported
  is in flash.
- **Configuration.** `OverlapInv`: an update that is marked as alone is alone (`OneActor`);
  `CopyInv`, `GivenInv`, `WrittenInv`: what such an update has made of the two copies, of the
  values given, of the keys; `KeptInv`: each field of each copy holds what a boot may find.
- **Credentials.** `ProgressInv`: how far each save is; `FlashInv`, `CardInv`: how new and how
  sound that leaves each file, by the number of failures; `BootInv`, `KeysInv`: what a boot
  that has passed a place knows of it. Every part is shown to survive four kinds of step:
  one of `storage_write`, one outside it, one of the boot, a reset.

Model-checked only:

- liveness (`EveryCallReturns`, `EveryJobEnds`, `TelemetryStarts`, `CallsEnd`, `Recovers`,
  `QueueDrains`, `EverySendSettles`, `StaysConnected`, `ReachesCloud`), which rests on
  fairness and `ENABLED` and is out of the prover's reach;
- the absence of deadlock (`jobs`), for the same reason;
- the three findings, which are counterexamples;
- that the layers fit (section 2): each theorem is about one specification, and that the
  calls of `SmartloadApp` are those of `ModbusRtu` is not stated in the logic.

## 6. What is not modelled, and why

- Bytes: CRC, frame layout, JSON, tokens and URLs. Frames are damaged or not, files
  whole or torn, answers of one form or another.
- Boards that drive DE and RE otherwise than together, or always high.
- The rates of the tasks: that the pulls wait for an empty queue, or that a drain
  ends before the next.
- The network in `AzureSession` (taken as up; failures are those of the client). `Device`
  models the network, and of the session only that its client was started.
- The MQTT outbox of a client that is destroyed: `PendingTelemetry` takes a publish
  that returned an id as delivered, as the code does.
- Modification times in `HttpUplink`: the order of the writes, which is what they are
  between two resets.
- The order in which `clear_sd` meets `/config.json`: it goes with the last of the other
  two. Nobody writes it.
- What `read_status` converts and telemetry contains, the HTTP settings of `app_config`
  (read once at boot, saved by nobody), the answers to direct methods, and the methods
  that only list files.
- `s_mutex` of `azure_iot.c` is created by whoever finds none (`azure_iot.c:638`), which two
  first callers of `azure_iot_init` might both do; the model has one from the start.
- The client that a failed `mqtt_mgr_init` or `mqtt_mgr_connect` leaves behind: it was never
  started, and is taken as none.
- A station that is associated and never gets an address, and NVS reads that fail for
  another reason than a buffer that is too small.
- Strings of `wifi_credentials` longer than those of any network, and quotes in them, which
  make a `/wifi.json` that does not parse; the same for the runtime file, whose text
  `app_config_save_runtime` cuts at 512 bytes and which takes `device_params` as it is.
- A POST that timed out and reaches the service after the next one: `ArrivesInOrder` takes
  a request as received by the time it times out, or never.
- `/http_config.json` and its loss: of the file there is only the place it takes in the
  rotation.
- A card that is inserted or removed between two boots.
- Late answers above the driver: the three outcomes of a call in `SmartloadApp` are those of
  `ModbusRtu` with answers in time (`~LateReplies`). With late ones a read may return what
  an earlier one asked for, and a write be taken as done.
- A boot that never starts `azure_bg` again: `QueueDrains` assumes a task that drains, which
  there is once a session was opened in that boot.
- LoRa and the board set-up: straight-line code that writes hardware registers once at
  boot and shares no state with the rest; the components nothing calls
  (`http_client`, `mqtt_client`, `smartload_mqtt`).

## 7. Plan

The components with logic of their own are modelled, and their safety is proved. What is
left:

1. `Ota`: that `Newer` orders the versions (two versions are never each newer than the
   other), as a lemma about `Newer`.
2. The layers: that a call of `SmartloadApp` has the outcomes `ModbusCall` allows, as a
   refinement of a shared list of outcomes.
