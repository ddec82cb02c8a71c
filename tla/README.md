# TLA+ verification of the hot tub controller

This directory models the firmware of the ESP32-S3 hot tub controller in TLA+, checks the models with TLC on small
instances and proves the most important results with TLAPS for every value of the constants. `PROJECT.json` lists
components, runs, mutants (small plausible bugs that a property must detect), the source lines every definition
stands for, hazards and theorems.

    tlc -workers 2 -config HotTubControl.cfg MCHotTubControl   # a run: configuration and module
    tlapm HotTubControlProofs.tla                              # the proofs of one module

## 1. The system

An ESP32-S3 (FreeRTOS, two cores) switches heater and pump of a tub by a water temperature. Browsers talk to it over
WebSockets, phones over BLE; both send JSON commands. Settings live in NVS (flash), web assets in LittleFS, and the
firmware updates itself over HTTPS.

| Component | State | Operations | Talks to |
|---|---|---|---|
| Control loop (`hot_tub_controller.c`) | task locals: `auto_started_pump`, `was_heating`, `heat_lockout`, two timers | one pass per second | shared state, watchdog |
| Shared state (`hot_tub_struct_io.c`) | `hottub_ctl` under `s_mutex` | a getter and setter per field, snapshot get/set | loop, sensor, commands, persistence, publisher |
| JSON commands (`hot_tub_callbacks.c`) | none | a get and a set per field | shared state; called by web server and BLE |
| Sensor (`hot_tub_ds18b20.c`) | driver handle | read and store; pause while an update runs | shared state, OTA flag |
| Persistence (`hot_tub_controller_nvs.c`) | dirty queue of length one | mark, debounce, save, load | shared state, NVS |
| App watchdog (`app_watchdog.c`) | slots, required and seen masks under a mutex | register, unregister, feed | every long-running task; TWDT, RTC WDT |
| Web server (`web_server.c`) | table of 4 clients with generation, failures, in-flight flag, under `s_ws_mutex` | track, untrack, broadcast, complete a send | esp_http_server, publisher, OTA progress |
| OTA manager (`ota_manager.c`) | in-progress flag under a spinlock; flash | reserve, download storage and firmware, note boot, mark ready | web server, BLE, NVS, boot loader |
| NVS storage (`nvs_storage.c`) | credentials, boot failure counter | get, set, increment, reset | OTA manager, Wi-Fi manager |
| BLE service (`ble_service.c`) | connection handle, message counter, pending OTA flag | advertise, GAP events, GATT writes, OTA requests, long messages, provisioning results | OTA manager, Wi-Fi manager, NimBLE |
| Status publisher (`hot_tub_callbacks.c`) | `sample_sequence` | number, stamp and broadcast the status each second | shared state, web server |
| Wi-Fi manager (`wifi_manager.c`) | work queue of 6; flags for station, fallback access point, provisioning, retry | events, retry timer, provision with rollback | NVS, BLE, web server |
| JSON service (`json_service.c`, `json_rpc.c`) | registry grown with `realloc` | register, dispatch, CRC envelope | all command handlers |
| Start-up (`app_controller.c`, `app_main.c`) | none | start each component in order, stop at the first error | all |
| NTP, system status, RGB LED, PSRAM allocator, simulation | small | periodic or wrappers | |
| Browser UI (`littlefs/www/js`) | socket and its timers, sample tracker, chart | reconnect, keepalive, close a silent socket, draw samples | web server |

What makes it hard:

- *Interleaving.* Loop, sensor, two command contexts, persistence and publisher share `hottub_ctl`; the mutex covers
  single accesses only. The loop reads a snapshot, decides, sets two fields and writes the *whole* snapshot back.
- *Stale references.* A WebSocket client is a socket number, which the HTTP server reuses; a BLE message is cut for an MTU
  read before its first frame.
- *Failure.* Power may fail in the middle of a save or an update; locks time out; downloads break off.
- *Time.* Purges, lockout, debounce, retry-after, watchdog quorum.

What makes each component correct, in short: the heater burns only over a running pump, after a pre-purge, and is followed
by a cool-down; the filter follows the water; settings that last are saved, and never garbage; the RTC watchdog is fed only
when all tasks are alive and then always; each browser gets each broadcast at most once and is not blocked for ever, hears
from the tub again after any disturbance while there is a place for it, and draws no line over a loss; a BLE message that
ends is whole; an update never leaves the device without something to boot; the Wi-Fi manager returns to the saved network
or to its access point whatever the router does, and uses the credentials that are in flash.

## 2. The modules

| Module | Models | Companion |
|---|---|---|
| `HotTubControl` | loop, shared state, commands, sensor | `HotTubControlProofs` |
| `HeatingCycle` | abstract specification: what the loop promises second by second, and when it promises nothing | refined by `HotTubControl` |
| `HotTubHistory` | `HotTubControl` with history variables | `HotTubControlProofs` |
| `MCHotTubControl` | `HotTubHistory` with a negative number for TLC | |
| `TemperatureFilter` | sensor, filter and write-back, with the arithmetic | `ControllerStateProofs` |
| `SettingsPersistence` | saving and loading, power failures | `ControllerStateProofs` |
| `AppWatchdog` | slots, masks, quorum | `AppWatchdogProofs` |
| `WsClients` | the WebSocket table and its two broadcasters | `WsClientsProofs` |
| `BrowserFeed` | one browser's socket and timers, composed with `WsClients` | `WsClientsProofs` |
| `StatusPage` | the status feed from the publisher to the chart | `StatusPageProofs` |
| `MCStatusPage` | a constant with a negative number for TLC | |
| `BleService` | link, advertising, requests, long messages | `BleServiceProofs` |
| `OtaUpdate` | updates, boots, rollback | `OtaUpdateProofs` |
| `WifiManager` | station, fallback access point, retries, provisioning | `WifiManagerProofs` |
| `MCWifiManager` | the symmetry of the networks for TLC | |

**HotTubControl.** Each access to `hottub_ctl` is a critical section and so one step. A pass is `Sample` (snapshot and
the whole decision, which touches only locals), `WriteHeater`, `WritePump`, `WriteBack`; commands and readings happen
between any two. The decision is the composition of the stages of the source: `BeginCycle`, `Interlock`,
`AutoControl` (with `HeatingRequest`), `DetectFallingEdge`, `PostPurge`. Numbers are tenths. A lock that times out is a
stuttering step for the snapshot and `ctl' = ctl` for the write-back. Heater and pump are fields: the firmware drives no
GPIO from them yet, so the published fields are the outputs. `temperature_filter` is here "something between the old
value and the reading"; `TemperatureFilter` has the rounding, with both outcomes at a tie because the float error of
alpha decides it. Every command that writes the loop's inputs is an action there too, the one that overwrites the reading
of the water included (`SetWaterTemp`); in `HotTubControl` a reading may already be any value.

**HeatingCycle.** What the loop promises about burning. The length of a cool-down is checked in auto mode only, so the
abstract cycle has a bit `manual`: a burn that ends in a pass with auto mode on owes a cool-down of 1 to 20 s, one that ends
in a pass with auto mode off owes what the client asked for, down to none. `Settle` is the end of a pass. The refinement
mapping reads the mode off `wasHeating` and the two timers; a timer below zero, which never ends, owes nothing.

**SettingsPersistence.** A setting is a value of the whole struct. Setters write and mark in two steps, because the mark
is sent after the unlock. `LoadDefaults` is possible although a blob is stored: any NVS error takes that path.

**AppWatchdog.** Every entry point runs under one mutex, so each is one step. `registered`, `reported` and `rtc` are
history. A task of `Unsubscribable` may fail to be added to the TWDT, after which its slot stays active.

**WsClients.** The HTTP server is external: sessions start, end without notice, and its queue of work runs in order
between handlers. A broadcast is claimed, checked, sent and completed in separate steps. `resting` stands for the 1.5 s
after a failure; the 30 s without success are the Boolean `stalled`. The table's lock may not be had in 100 ms: a client is
then not tracked (`TrackTimesOut`), not untracked (which is `Drop`), or not cleared (`ClearTimesOut`), and nobody tries again.

**BrowserFeed.** The browser's steps are steps of the server's (`connect` is an `Accept`, a keepalive a `HandlerCalled`) or
leave it alone, so that `FeedSpec` implements `Spec` of `WsClients`. `fed` says that a broadcast has come since the last
keepalive; `dead` is a link of which the server has not noticed that it is gone. A keepalive is answered with or without a
place in the table, so the stale timer closes a live link only when something went wrong (`CloseSilent`). Everything that may
go wrong costs one of `MaxFaults`, and so does a client that joins and a broadcast of the updater: two broadcasters that are
slow for ever can keep one client marked in flight whenever the other looks, which real ones, with a second between two
rounds, do not. The keepalives of a client that stays are free.

**StatusPage.** What the browser sees of a sample is its number and its time; `boot` and `count` identify it for the
property. The wire loses nothing by itself: the publisher passes over a client that is busy or gone, and a close loses what
is on its way. `Pause` is a second without a number, in an update or for want of memory to build the status. Clocks count
seconds, and points are at twice their time so that the middle of a gap is a number.

**BleService.** A message is its length. Load and store of `s_tx_msg_id` are two steps, and so is each frame; the MTU is
read once, when the message begins, and the stack cuts a frame to the MTU of the connection it leaves on. `twin` and `same`
are history: whether another message under way has the same number, and whether the client is still the one the message was
measured for. The client is external and puts frames of a number together. `start_advertising` may fail although host and
controller are in step: the call is logged and not tried again (l.276, l.283, l.296). `refused` says that the last call ended
so, and `Reachable` asks for a link or an advertisement unless it did. The flag for compact status and the status published
for display are left out.

**OtaUpdate.** Images are abstracted to whether they are complete and whether they work. The boot loader is external:
it boots the selected slot, and an image stays pending until it is marked, as `ota_manager_note_boot` assumes.
(ESP-IDF's own boot loader gives up on a pending image after its first restart already, which only helps.)
`RollbackEnabled` is the option of ESP-IDF that makes images pending; the firmware is built without it, and one run has it so.
A boot note that fails, or any later error of `app_start`, leaves a device that idles (`NoteBootFails`, `StartFails`). An
image is confirmed in two steps, the counter and then the mark, so that power may fail in between. ESP-IDF refuses two things
the code relies on: a rollback without another valid image, and an update while the running image is pending.

**WifiManager.** Four contexts: the worker with its queue, the event handler, the retry timer and the BLE host's call of
`wifi_manager_provision`. `s_mutex` covers the flags only, so a critical section is one step and so is each call of the
queue, of the event group and of the driver; `worker` names the place between two of them. A call of
`schedule_sta_attempt` is three steps of its caller (decide, enqueue, undo). The pair of "valid" flag and credentials is
one value, `None` when invalid. The Wi-Fi driver is external: it is in a mode, with a configured network and a link; it
posts events in order, which the handler takes later. `esp_wifi_connect` may be refused, a connection may fail and a link
may drop at any time. Stop, set mode, set configuration and start in a row are one step, for only the driver notices what
is between them. A driver whose configuration failed is `refused`: the code logs it and goes on, and what the driver then
does is unknown, so `DriverMatchesFlags` says nothing of it. A failed save leaves the old record in flash. Event bits
that are cleared before anybody reads them are not kept (`Watched`). An address that never comes counts as a failed
connection, which is kinder than the driver: the code has no timeout for it outside a trial.

## 3. The runs

| Run | Configuration | Shows |
|---|---|---|
| `control_loop` | `MCHotTubControl`: 2 readings, run times of 2 s and -1 s, 0.9M states | `HeaterInterlock`, `PurgesDrivePump`, `LockoutHolds`, `PrePurgeServed`, `ManualModeStopsHeater`, `DemandIsServed`; refinement of `HeatingCycle` |
| `manual_shutoff` | `HotTubHistory`: 3 readings, valid run times | *violated*: the user's OFF is overwritten |
| `temperature_filter` | 0.0 to 1.2 degrees | `Approaches`, `FollowsWater` |
| `app_watchdog` | 4 tasks, 3 slots | `MasksAgree`, `OneSlotPerTask`, `RtcFeedMeansAllReported`, `HealthyTasksFeedRtc` |
| `settings_persistence` | 2 clients, 2 settings | `NeverSavesZeroes`, `LastingSettingIsSaved` |
| `ws_clients` | `BrowserFeed`: 2 sockets, 1 slot, 2 broadcasters, 31k states | `InflightIsExact`, `SendsComplete`, `FeedResumes` |
| `status_page` | 6 seconds, 2 boots, 1.2M states | `NoLineAcrossAGap`, `TimeGoesForward` |
| `ble_service` | 3 tasks, 2 numbers, 0.8M states | `EndMeansAll`, `AcknowledgedFirst`, `Reachable` |
| `ota_update` | rollback on | `SurvivesPowerLoss`, `ReservationIsExact`, `RollbackIsReady`, `UpdatesEnd` |
| `ota_no_rollback` | rollback off, as in `sdkconfig` | *violated*: a broken image is booted for ever |
| `wifi_manager` | 2 networks, a queue of 1, 7.2M states | `MarksAreBacked`, `DriverMatchesFlags`, `CredentialsMatchFlash` |
| `wifi_station_stuck` | 1 network, no provisioning | *violated*: a link lost at the end of a retry is never retried |

Bounds, and why they are enough:

- `control_loop`: one reading below and one above the two thresholds. The run times start with the default of two seconds, so
  that a purge has a first and a last one; a post-run time of -1 s is corrected in auto mode and taken as it is in manual mode.
  `RunCap` equals the longest pre-purge. Liveness needs a small instance; what a reading between the thresholds, a longer
  pre-purge or any other run time adds to the safety properties is in the proofs, which cover all of them.
- `TemperatureFilter` works in integers; twelve tenths cross the tie and the dead band in both directions. The proofs
  have no bound.
- Four tasks over three slots: refusal, release and reuse. `APP_WATCHDOG_MAX_TASKS` is larger and the code uniform in it.
- `ws_clients`: two sockets over one slot stand for twelve over four: the table is full with one other client, and socket and
  slot are used again while a send of their last owner is under way. `FailureLimit` 3 stands for 30: a session found gone
  counts two failures, so 2 would close it at once. Two faults: the other client comes and one thing goes wrong, or one goes
  wrong in the recovery from another. No behaviour with two faults uses up `MaxGeneration = 12`. That no client has two slots
  (`OneSlotPerSocket`) needs two of them, and is proved for any number.
- `status_page`: numbers wrap at 7 and the device may start near it, so that a wrap happens within six seconds; more
  seconds pass than a gap takes, and the chart of three points drops some. `MaxTime < SequenceModulus` keeps a gap of exactly
  one wrap out: in the code that would be 2^32 samples. The clock is right or a second slow, in any order, and unset at first.
- `ble_service`: a message of 60 bytes fits the larger MTU, takes three chunks with the smaller one, the last of them empty
  because the real header is shorter than the 32 bytes counted for it, and none with the default. Two numbers for three
  senders, so that two may draw the same one and a third cannot begin.
- `wifi_manager`: two networks, for the one in use and the one on offer; all attempts are two, so that there are a first
  and a last; a queue of one instead of six, so that it is often full, with every mark taken back. `MaxEvents = 2` is the
  most that one step posts; a driver whose event loop is full waits. `wifi_station_stuck` has room in the queue and nobody
  who interferes, so that nothing but the lost disconnection is to blame.
- `BootFailureLimit = 3`, as in the code; the counter stops at the limit it is compared with.

Fairness, and why the code justifies it: the control loop is a priority-6 task woken every second; sensor and clients are
not fair (they may be broken or silent), except in `TemperatureFilter`, where `FollowsWater` is about a working sensor:
there a reading is stored between passes again and again, because a pass takes a small part of the second. Strong fairness
of a write-back, a snapshot or a commit means that a lock held for the copy of a struct is not missed for ever, and flash
does not fail for ever. Registered tasks feed each second. The HTTP server's task runs its queue. The browser's timers are
weakly fair; its connect, its open and its keepalives strongly, since the server's task is again and again free to take
them; so is the purge of an idle session that `lru_purge_enable` asks for when a connection finds no socket. The NimBLE
host's task finishes its handlers, and nothing else of BLE is fair: a client may stay away or keep its link for ever. The
tasks of the Wi-Fi manager run, and a connection under way ends one way or the other. OTA downloads time out after 60 s, so
an update goes on or is abandoned. A device that is off boots again, and firmware that crashes does.

## 4. The proofs

All of them hold for every value of the constants under the named `ASSUME`s of the modules, and are by an inductive
invariant: `Init => IInv`, `IInv /\ [Next]_vars => IInv'`, `IInv => property`.

- `HotTubControlProofs`. `IInv == TypeOK /\ PurgesDrivePump /\ HeaterInterlock`. `PurgesDrivePump` is needed because a
  falling edge may only cancel a pre-purge if none can overlap the cool-down. Each stage of the decision has a lemma.
  Results: `TypeCorrect`, `HeaterIsInterlocked`, `PurgesAlwaysDrivePump`, `LockoutAlwaysHolds`. `PrePurgeIsServed`
  is about `HotTubHistory` and adds `PurgeInv`: a pre-purge under way has had the seconds it has counted down, and a pump
  that the loop owns without one has not stood still since the heater burnt, or is in a cool-down of negative length. It
  assumes `CapIsEnough`, since `RunCap` bounds only the exploration, and nothing about the run times. Nor does the refinement
  `LoopImplementsHeatingCycle`: the run times are arbitrary numbers, `VerifiedRunTimes` bounds what a pass in auto mode makes
  of them, and `PassRefines` maps each pass to one step of `HeatingCycle`, whose end is `Settle`. `LockoutAlwaysHolds` looks
  at one pass at a time: what a locked-out pass may do, and what it must have seen to end the lockout.
- `ControllerStateProofs`, about the two small modules on the controller's state. Of `TemperatureFilter`:
  `FilterStaysInRange`, `FilterApproaches`, by bounds on the rounded weighted mean. Of `SettingsPersistence`:
  `SettingsTypeCorrect`, `ZeroesAreNeverSaved`; the strengthening `QuietUntilLoaded` says that before the settings are
  loaded no task runs that could save or copy them.
- `AppWatchdogProofs`. `TypeCorrect`, `NoTaskTwice`, `MasksAlwaysAgree`; `RtcFeedIsHonest` under `QuorumAll`.
- `OtaUpdateProofs`. `TypeCorrect`, `UpdatesSurvivePowerLoss`, `ReservationsAreExact` and `RollbackIsAlwaysReady`, with or
  without rollback. `BootInOrder` ties the jobs to a mounted storage and a complete running image; `UpdateInOrder` says that
  the selected slot is the running one until an update is over, which is why erasing the other slot is safe; `BootsCounted`,
  whose the count in NVS is: once a boot is noted, a count that is not zero belongs to the running, pending image.
- `WifiManagerProofs`. `TypeCorrect`, strengthened by `Trying`: while a trial connects it has attempts left and knows where
  to go with an address. The type invariant is taken apart, and each part has a lemma. `CredentialsAreKept`, strengthened
  by `Remembers`: until a provisioning is committed or undone its `previous` are the credentials in use, and between the
  save and the commit flash already holds the new ones. `FlagsKept` says which steps change the credentials in use.
  `MarksAreAlwaysBacked`: the invariant is inductive as it stands, together with `Trying`. `QueuedKept` says that only
  `Receive` takes work from the queue, and the `...Marks` lemmas are the table of what each action makes of the four flags.
  `DriverAlwaysMatches`, strengthened by `DriverFollows`: what the flags, the driver and the locals of a trial owe each other at
  every place of the worker, for instance that a candidate saved to flash is the network the station is configured with.
- `WsClientsProofs`. `FeedImplementsServer` first: every step of the composition is a step of the server or leaves it alone,
  so the invariant is about `WsClients` only. `InflightIsExact` counts, and counting does not induct in this prover, so the
  invariant has sets instead: the sends of a client that wait in the queue and the broadcasters that hold one are none
  (`NoneWaits`, `NoneHolds`) or a singleton. `Dated` is what makes reuse of a number harmless: nothing under way carries a
  generation that has not been given out, so a client tracked anew has no sends. `Sound` keeps a closed client from failing
  again. Results: `TypeCorrect`, `NoSocketTwice`, `OneSendInFlight`.
- `BleServiceProofs`. `InOrder` says how far a message is at each of its places, in particular that the bytes sent are at
  least the chunks sent times the room that the longest header leaves, so that after the last chunk none are missing
  (`TotalCovers`) and none are read past the end (`TakenAdvances`); `Followed`, that a client which stays has got exactly those
  bytes, because its MTU only grows; `TwinsKnown`, that tasks under one number know it; `RequestsOK`, that a task that has not
  been told does not answer. Results: `TypeCorrect`, `EndAlwaysMeansAll`, `AcknowledgementsComeFirst`.
- `StatusPageProofs`. The wire carries the samples of one run of the device in order (`WireInOrder`); the tracker knows the
  newest point of the chart (`TrackerKnowsLast`), and unless it has been told of a disconnection, what is to come is of the
  same run and later (`TrackerInOrder`). A run is no longer than the time (`ShortRuns`), so that with
  `MaxTime < SequenceModulus` (2^32 seconds in the code) two numbers in succession are two samples in succession. Results:
  `TypeCorrect`, `LinesAreHonest`, `ChartIsSorted`.

Only model-checked: liveness (`DemandIsServed`, `ManualModeStopsHeater`, `FollowsWater`, `HealthyTasksFeedRtc`,
`LastingSettingIsSaved`, `SendsComplete`, `FeedResumes`, `Reachable`, `UpdatesEnd`), which is out of the prover's reach. Every
other property of a passing run has a theorem.

## 5. Where code and comments disagree

Three disagreements are runs (`findings` of `PROJECT.json`): a lost pump-off command, a station that nobody reconnects, and
an update to broken firmware in the configuration that is built ("automatic rollback protection", `partitions.csv:6-7`).
Others met while modelling; where a model makes these steps, the properties are stated so that they hold in spite of them:

- `hot_tub_controller.c:311`: the pre-purge timer is decremented before the test of l.318, so that a pump switched off
  in its last second does not lock auto-heating out (comment l.317-323).
- `:362`: a heater that a client lights has no pre-purge. When it goes out while the loop owns the pump, the loop lights it
  again straight out of the cool-down, however short, and logs "Pre-purge complete". `PrePurgeServed` therefore
  asks for the pre-purge or for a pump that has not stood still since the heater burnt.
- `:321`: a shutoff releases the pump, so that after the cool-down it stays on (comment l.404, "Shut down pump when
  post_purge expires").
- `:392`: run times are verified in auto mode only. In manual mode a post-run time below 1 s gives no cool-down (log
  text l.394), a negative one a timer that is never 0 again, so that l.345 never heats. `HeatingCycle` promises a cool-down
  only to a burn that ends in auto mode, and `HeatDemand` excludes the timer that never ends.
- `:307`: the filter is called with a constant, and the setting `lowPassFilterAlpha` (`hot_tub_struct_io.c:713`) has no
  effect. Rounding stops the average up to half a degree from the water (comment l.224).
- `:125`: any NVS error, not only "not found" (l.120), replaces the stored settings with the defaults.
- `:417`: the write-back loses a setting that a client changed during the pass.
- `app_watchdog.c:270`: a failed subscription keeps its slot, and the quorum is then not "equivalent to 'all registered
  tasks are healthy'" (README of the component, l.124).
- `wifi_manager.c:627`: the bits are cleared before the driver is stopped, so an address of the old network can pass for
  the candidate's: "Credentials are saved to NVS only after the station connects and obtains an IP address"
  (`ble_service/README.md:59`).
- `:536`, `:580`: the rollback clears `s_provisioning_active` before `finish_provisioning` does, at l.597. A request that
  is accepted in between loses its mark, runs unprotected, and further ones are accepted with it; `MarksAreBacked` is
  therefore stated in one direction only, that a mark is backed, not that all work is marked.
- `:248`: when the queue is full the attempt is dropped, and only the next event of the driver makes another.
- `web_server.c:484`: the table has 4 places (l.69) and the server 12 sockets (l.59). A client that finds the table full is
  only logged: it stays connected without a broadcast, and the answers to its keepalives (l.681-696) keep its stale timer
  quiet (`ws_manager.js:107-110`), although "all connected WebSocket clients" (l.841) are meant. `FeedResumes` has the premise
  `~FullOfOthers` for this reason; without it TLC finds such a client.
- `:460`: a client on a reused socket number is not tracked anew and may be cleared with its predecessor, so that
  for up to a keepalive (5 s) no broadcast reaches it.
- `app_controller.c:49`: when the boot counter cannot be read or written (`ota_manager.c:384`, l.395) start-up ends, and the
  device idles with neither servers nor heating until somebody restarts it; nothing of that is in a document.
- `ble_service.c:276`, `:283`, `:296`: advertising that is refused is not tried again, and the tub cannot be found until the
  host is reset (`refused` of `BleService`).
- `ble_service.c:1076-1080`: the worker may finish a trial before the host sends its "accepted", so the terminal result can
  come first (`ble_service/README.md:57`); for updates the task waits to be told (`AcknowledgedFirst`).
- `:1079`: a provisioning that fails for want of memory is reported as `invalid_credentials`.
- `:195`: on connection the MTU is still 23, so that a summary longer than a frame ends after its BEGIN (l.1340); it is the
  one on subscription that arrives, if the client has raised its MTU by then. One that never does gets no long answer.
- `:1326`: two tasks may draw one number, and a client cannot tell their chunks apart; and an answer goes to whoever is
  connected when it is ready.
- `hot_tub_controller.c:417`: the start time that NTP corrects (`ntp_time_sync.c:59`) is undone by a write-back under way.
- `littlefs/www/js/callbacks.js`: handlers read keys of replies that `hot_tub_callbacks.c` does not send; outside the models.

## 6. Not modelled

- System status, RGB LED, PSRAM allocator, simulation (commented out), GPIO and 1-Wire drivers, forms and progress bars of
  the page: nothing to interleave or remember.
- JSON service: parsing, and a registry that `json_service_register_command` grows with `realloc` and without a lock while
  the servers dispatch through it (`app_controller.c:75-89` starts them first). That the accesses can coincide is plain from
  the order of start-up, and what a reader of freed memory does is not defined: a model would add nothing to this sentence.
- Start-up of sensor and controller: calls made once, in order, the first failure ending them. The sensor task starts before
  `hot_tub_controller_init` creates the mutex and clears the state, so its first readings fail or are cleared; a control task
  that the watchdog refuses deletes itself and nothing restarts it.
- NTP: a retry loop over library calls; what it does to the clock is `SynchroniseClock` of `StatusPage`.
- `managed_components/`: LittleFS, cJSON and drivers are vendored and external here. They are most of the repository's C and
  none of its own logic, which is why the map covers a large part of the firmware and a small part of the lines.
