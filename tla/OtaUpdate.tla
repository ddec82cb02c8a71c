------------------------------ MODULE OtaUpdate ------------------------------
(***************************************************************************)
(* Updates over the air (ota_manager.c, nvs_storage.c), from the requests  *)
(* of web and BLE clients to the boot of the new image (app_controller.c,  *)
(* mount_littlefs of web_server.c).  There are two application slots, each *)
(* with a storage partition of web assets.  Power may fail at any moment.  *)
(*                                                                         *)
(* The boot loader and the ota_data partition belong to ESP-IDF and are    *)
(* external, modelled as ota_manager_note_boot counts on them: the         *)
(* selected image boots, and it stays pending until it is marked.          *)
(***************************************************************************)
EXTENDS Integers

CONSTANTS
  RollbackEnabled,  \* CONFIG_BOOTLOADER_APP_ROLLBACK_ENABLE
  BootFailureLimit  \* BOOT_FAILURE_LIMIT

ASSUME OtaAssumption ==
  /\ RollbackEnabled \in BOOLEAN
  /\ BootFailureLimit \in Nat \ {0}

Slots == {0, 1}
Other(s) == 1 - s
NotMounted == 2
Requesters == {"web", "ble"}

(* An application is missing, half written, or complete: one that starts,  *)
(* or one that crashes before its servers are up.  A storage image may be  *)
(* complete and yet lack the index page: "bare".                           *)
Complete == {"good", "broken"}
Apps == Complete \cup {"none", "partial"}
Storages == {"none", "partial", "bare", "site"}

VARIABLES
  app,           \* contents of ota_0 and ota_1
  storage,       \* contents of storage_0 and storage_1
  selected,      \* the slot that boots next
  ota_state,     \* of ota_0 and ota_1: pending is ESP_OTA_IMG_PENDING_VERIFY
  boot_failures, \* the counter in NVS
  phase,         \* how far app_start has come
  running,       \* the slot that booted
  mounted,       \* the slot whose storage is mounted, or NotMounted
  in_progress,   \* s_ota_update_in_progress
  ble_pending,   \* s_ble_ota_request_pending
  job            \* what each requester's update task is doing

flash == <<app, storage, selected, ota_state, boot_failures>>
booted == <<phase, running, mounted>>
jobs == <<in_progress, ble_pending, job>>
vars == <<flash, booted, jobs>>

-----------------------------------------------------------------------------
(* As flashed over USB. *)
Init ==
  /\ app = [s \in Slots |-> IF s = 0 THEN "good" ELSE "none"]
  /\ storage = [s \in Slots |-> IF s = 0 THEN "site" ELSE "none"]
  /\ selected = 0
  /\ ota_state = [s \in Slots |-> "valid"]
  /\ boot_failures = 0
  /\ phase = "off"
  /\ running = 0
  /\ mounted = NotMounted
  /\ in_progress = FALSE
  /\ ble_pending = FALSE
  /\ job = [r \in Requesters |-> "none"]

Off ==
  /\ phase' = "off"
  /\ mounted' = NotMounted
  /\ in_progress' = FALSE
  /\ ble_pending' = FALSE
  /\ job' = [r \in Requesters |-> "none"]

(* Power fails, or the firmware crashes. *)
Restart ==
  /\ phase # "off"
  /\ Off
  /\ UNCHANGED <<flash, running>>

Boot ==
  /\ phase = "off"
  /\ phase' = "booting"
  /\ running' = selected
  /\ UNCHANGED <<flash, mounted, jobs>>

(* esp_ota_check_rollback_is_possible *)
RollbackPossible ==
  /\ app[Other(running)] \in Complete
  /\ ota_state[Other(running)] # "invalid"

(* The image is given up, if there is another and the flash can be written. *)
RollBack ==
  /\ selected' = Other(running)
  /\ ota_state' = [ota_state EXCEPT ![running] = "invalid"]
  /\ Off

GoOn ==
  /\ phase' = "starting"
  /\ UNCHANGED <<selected, ota_state, mounted, jobs>>

NoteBoot(count) ==
  /\ phase = "booting"
  /\ boot_failures' = count
  /\ \/ boot_failures' >= BootFailureLimit /\ RollbackPossible /\ RollBack
     \/ GoOn
  /\ UNCHANGED <<app, storage, running>>

(* The count in NVS goes no further here than the limit it is compared to. *)
OneMore(n) == IF n < BootFailureLimit THEN n + 1 ELSE n

(* Mutants of BootCount: it is counted past the limit; a boot that is not  *)
(* counted does not reset the counter.                                     *)
BootCountTwice == IF ota_state[running] = "pending" THEN boot_failures + 2 ELSE 0
BootCountKept ==
  IF ota_state[running] = "pending" THEN OneMore(boot_failures) ELSE boot_failures

BootCount == IF ota_state[running] = "pending" THEN OneMore(boot_failures) ELSE 0

(* Counts the boots of an image that awaits verification and rolls it back *)
(* at the limit, if there is another; any other boot resets the counter.   *)
ota_manager_note_boot == NoteBoot(BootCount)

(* The counter cannot be read, written or committed: app_start gives up,   *)
(* and the device idles until it is restarted.                             *)
NoteBootFails ==
  /\ phase = "booting"
  /\ phase' = "failed"
  /\ boot_failures' \in {boot_failures, BootCount}
  /\ UNCHANGED <<app, storage, selected, ota_state, running, mounted, jobs>>

(* The storage of the running slot, or the other one if that has no index. *)
mount_littlefs ==
  /\ phase = "starting"
  /\ app[running] = "good"
  /\ IF \E s \in Slots : storage[s] = "site"
     THEN /\ mounted' = IF storage[running] = "site" THEN running ELSE Other(running)
          /\ phase' = "serving"
     ELSE phase' = "failed" /\ UNCHANGED mounted
  /\ UNCHANGED <<flash, running, jobs>>

(* ota_manager_mark_app_ready: first the counter, then the image. *)
ResetBootFailures ==
  /\ phase = "serving"
  /\ phase' = "confirming"
  /\ boot_failures' = 0
  /\ UNCHANGED <<app, storage, selected, ota_state, running, mounted, jobs>>

MarkValid ==
  /\ phase = "confirming"
  /\ phase' = "ready"
  /\ ota_state' = [ota_state EXCEPT ![running] = "valid"]
  /\ UNCHANGED <<app, storage, selected, boot_failures, running, mounted, jobs>>

(* app_start gives up on an error of anything it starts, or of the two     *)
(* steps above; the servers it started stay up.                            *)
StartFails ==
  /\ phase \in {"starting", "serving", "confirming"}
  /\ phase' = "failed"
  /\ UNCHANGED <<flash, running, mounted, jobs>>

-----------------------------------------------------------------------------
(* Requests come in once the servers are up. *)
Serving == mounted # NotMounted
Step(r, from, to) == job[r] = from /\ job' = [job EXCEPT ![r] = to]

(* ota_manager_reserve tests and sets under a spinlock. *)
ota_manager_reserve == ~in_progress /\ in_progress' = TRUE

(* Mutant of WebRequest: the reservation does not test the flag. *)
WebRequestUnreserved ==
  /\ Serving
  /\ Step("web", "none", "reserved")
  /\ in_progress' = TRUE
  /\ UNCHANGED <<flash, booted, ble_pending>>

(* A web request reserves in the handler; its task may then fail to start, *)
(* which releases again and is no step here.                               *)
WebRequest ==
  /\ Serving
  /\ Step("web", "none", "reserved")
  /\ ota_manager_reserve
  /\ UNCHANGED <<flash, booted, ble_pending>>

(* A BLE request only looks; its task reserves later. *)
BleRequest ==
  /\ Serving
  /\ ~ble_pending /\ ~in_progress
  /\ Step("ble", "none", "queued")
  /\ ble_pending' = TRUE
  /\ UNCHANGED <<flash, booted, in_progress>>

BleStarts ==
  /\ Step("ble", "queued", "reserved")
  /\ ota_manager_reserve
  /\ UNCHANGED <<flash, booted, ble_pending>>

BleFindsBusy ==
  /\ Step("ble", "queued", "report")
  /\ in_progress
  /\ UNCHANGED <<flash, booted, in_progress, ble_pending>>

(* It reports to the client before it takes another request. *)
BleReports ==
  /\ Step("ble", "report", "none")
  /\ ble_pending' = FALSE
  /\ UNCHANGED <<flash, booted, in_progress>>

Ended(r) == job' = [job EXCEPT ![r] = IF r = "ble" THEN "report" ELSE "none"]

(* Mutant of End: a web task does not release. *)
EndUnreleased(r) == Ended(r) /\ in_progress' = (r = "web")

(* The update ends, whatever the reason, and is released. *)
End(r) == Ended(r) /\ in_progress' = FALSE

(* The manifest or the request is refused, or nothing is to be updated.    *)
Abandon(r) ==
  /\ job[r] \in {"reserved", "storage", "firmware"}
  /\ End(r)
  /\ UNCHANGED <<flash, booted, ble_pending>>

(* Mutant of EraseStorage: a mounted partition is erased as well. *)
EraseMountedStorage(r) ==
  /\ Step(r, "reserved", "storage")
  /\ storage' = [storage EXCEPT ![Other(running)] = "partial"]
  /\ UNCHANGED <<app, selected, ota_state, boot_failures, booted, in_progress, ble_pending>>

(* The storage of the slot to be updated, unless it is mounted. *)
EraseStorage(r) ==
  /\ Step(r, "reserved", "storage")
  /\ mounted # Other(running)
  /\ storage' = [storage EXCEPT ![Other(running)] = "partial"]
  /\ UNCHANGED <<app, selected, ota_state, boot_failures, booted, in_progress, ble_pending>>

(* Only the length of the image is verified. *)
WriteStorage(r, image) ==
  /\ Step(r, "storage", "firmware")
  /\ storage' = [storage EXCEPT ![Other(running)] = image]
  /\ UNCHANGED <<app, selected, ota_state, boot_failures, booted, in_progress, ble_pending>>

(* esp_https_ota: while it writes, the slot holds no complete image.  It   *)
(* refuses to begin while the running image itself awaits verification.    *)
EraseFirmware(r) ==
  /\ job[r] = "firmware"
  /\ ota_state[running] # "pending"
  /\ app[Other(running)] # "partial"
  /\ app' = [app EXCEPT ![Other(running)] = "partial"]
  /\ UNCHANGED <<storage, selected, ota_state, boot_failures, booted, jobs>>

InstallFirmware(r, image) ==
  /\ Step(r, "firmware", "restart")
  /\ app[Other(running)] = "partial"
  /\ app' = [app EXCEPT ![Other(running)] = image]
  /\ selected' = Other(running)
  /\ ota_state' = [ota_state EXCEPT ![Other(running)] =
                     IF RollbackEnabled THEN "pending" ELSE "valid"]
  /\ UNCHANGED <<storage, boot_failures, booted, in_progress, ble_pending>>

RestartIntoUpdate(r) ==
  /\ job[r] = "restart"
  /\ Off
  /\ UNCHANGED <<flash, running>>

(* ota_manager_run_github_ota, step by step. *)
Update(r) ==
  \/ Abandon(r)
  \/ EraseStorage(r)
  \/ \E image \in {"bare", "site"} : WriteStorage(r, image)
  \/ EraseFirmware(r)
  \/ \E image \in Complete : InstallFirmware(r, image)
  \/ RestartIntoUpdate(r)

Start ==
  \/ Boot
  \/ ota_manager_note_boot \/ NoteBootFails
  \/ mount_littlefs
  \/ ResetBootFailures \/ MarkValid
  \/ StartFails
Request == WebRequest \/ BleRequest
BleTask == BleStarts \/ BleFindsBusy \/ BleReports

Next ==
  \/ Restart \/ Start \/ Request \/ BleTask
  \/ \E r \in Requesters : Update(r)

(* Broken firmware that got past the count of its boot. *)
Crash == Restart /\ phase = "starting" /\ app[running] = "broken"

(* Broken firmware crashes and the device boots again; downloads time out, *)
(* so that a task goes on.                                                 *)
Fairness ==
  /\ WF_vars(Boot)
  /\ WF_vars(Crash)
  /\ WF_vars(BleTask)
  /\ \A r \in Requesters : WF_vars(Update(r))

Spec == Init /\ [][Next]_vars /\ Fairness
-----------------------------------------------------------------------------
(* Type invariant. *)
TypeOK ==
  /\ app \in [Slots -> Apps]
  /\ storage \in [Slots -> Storages]
  /\ selected \in Slots
  /\ ota_state \in [Slots -> {"valid", "pending", "invalid"}]
  /\ boot_failures \in 0 .. BootFailureLimit
  /\ phase \in {"off", "booting", "starting", "serving", "confirming", "ready", "failed"}
  /\ running \in Slots
  /\ mounted \in Slots \cup {NotMounted}
  /\ in_progress \in BOOLEAN
  /\ ble_pending \in BOOLEAN
  /\ job \in [Requesters ->
       {"none", "queued", "reserved", "storage", "firmware", "restart", "report"}]

(* Whenever power fails, the slot that boots next holds a complete image,  *)
(* and an update never writes the file system the servers are using, so    *)
(* one with the web assets is always left ("it leaves the currently        *)
(* mounted storage untouched", README of ota_manager).                     *)
SurvivesPowerLoss ==
  /\ app[selected] \in Complete
  /\ mounted # NotMounted => storage[mounted] = "site"
  /\ \E s \in Slots : storage[s] = "site"

(* "Only one OTA request can run at a time across BLE and web clients",    *)
(* and the flag that pauses the temperature sensor is set exactly while    *)
(* one runs.                                                               *)
Active(r) == job[r] \notin {"none", "queued", "report"}
ReservationIsExact ==
  /\ in_progress <=> \E r \in Requesters : Active(r)
  /\ ~(Active("web") /\ Active("ble"))
  /\ ble_pending <=> job["ble"] # "none"

(* Updates end, and temperatures are read again. *)
UpdatesEnd == []<>(~in_progress)

(* An image that was installed and has not booted.  (With the power off,   *)
(* the image a rollback has selected is one that has.)                     *)
NotYetBooted ==
  selected # running /\ (phase # "off" \/ ota_state[selected] = "pending")

(* An image is given up for its own boots only: none is counted before its *)
(* first, whatever became of the image before it or of the start that      *)
(* installed it.  And while an image awaits verification, the image it     *)
(* came from is still there to be rolled back to.                          *)
RollbackIsReady ==
  /\ NotYetBooted => boot_failures = 0
  /\ \A s \in Slots : ota_state[s] = "pending" =>
       app[Other(s)] \in Complete /\ ota_state[Other(s)] = "valid"

(* "safe over-the-air (OTA) updates with automatic rollback protection"    *)
(* (partitions.csv): when the device starts again and again, it is not     *)
(* always with firmware that crashes before it is ready.                   *)
BrokenFirmwareIsRolledBack == []<>(phase = "starting") => []<>(app[selected] = "good")
=============================================================================
