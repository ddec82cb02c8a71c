--------------------------- MODULE OtaUpdateProofs ---------------------------
(***************************************************************************)
(* What an update may do to the flash and to the reservations, whatever    *)
(* the boot loader's setting and the boot failure limit.                   *)
(***************************************************************************)
EXTENDS OtaUpdate, TLAPS

(* Nothing serves, and nothing is being updated, before the storage is     *)
(* mounted; the running image is complete once it counts its boot.         *)
BootInOrder ==
  /\ phase \in {"off", "booting", "starting"} => mounted = NotMounted
  /\ mounted = NotMounted => \A r \in Requesters : job[r] = "none"
  /\ phase # "off" => app[running] \in Complete

(* The slot that boots next is the running one until an update is over;    *)
(* an update that erased a storage partition did not erase the mounted one. *)
UpdateInOrder ==
  /\ phase # "off" /\ selected # running => \E r \in Requesters : job[r] = "restart"
  /\ \A r \in Requesters : job[r] = "storage" => mounted # Other(running)
  /\ \A r \in Requesters : job[r] = "restart" => selected # running

(* What boots has not been given up; once a boot is noted, a count that is *)
(* not zero is the running image's own, and it is zero before that image   *)
(* is marked valid.                                                        *)
BootsCounted ==
  /\ ota_state[selected] # "invalid"
  /\ phase # "off" => ota_state[running] # "invalid"
  /\ (phase = "starting" \/ mounted # NotMounted) /\ ota_state[running] # "pending" =>
       boot_failures = 0
  /\ phase = "confirming" => boot_failures = 0

OrderInv == TypeOK /\ ReservationIsExact /\ SurvivesPowerLoss /\ BootInOrder /\ UpdateInOrder

IInv == OrderInv /\ RollbackIsReady /\ BootsCounted

(* Initially the slot flashed over USB is complete and nothing runs.       *)
LEMMA InitEstablishes == Init => IInv
<1> SUFFICES ASSUME Init PROVE IInv
  OBVIOUS
<1> USE DEF Init, Slots, Requesters, NotMounted, Complete
<1>1. TypeOK
  <2>1. /\ app \in [Slots -> Apps] /\ storage \in [Slots -> Storages]
        /\ ota_state \in [Slots -> {"valid", "pending", "invalid"}]
    BY DEF Apps, Storages
  <2>2. job \in [Requesters ->
               {"none", "queued", "reserved", "storage", "firmware", "restart", "report"}]
    OBVIOUS
  <2>3. boot_failures \in 0 .. BootFailureLimit
    BY OtaAssumption
  <2> QED
    BY <2>1, <2>2, <2>3 DEF TypeOK
<1>2. app[0] = "good" /\ storage[0] = "site" /\ \A r \in Requesters : job[r] = "none"
  OBVIOUS
<1>3. ReservationIsExact
  BY <1>2 DEF ReservationIsExact, Active
<1>4. SurvivesPowerLoss
  BY <1>2 DEF SurvivesPowerLoss
<1>5. BootInOrder /\ UpdateInOrder
  BY <1>2 DEF BootInOrder, UpdateInOrder
<1>6. RollbackIsReady /\ BootsCounted
  BY DEF RollbackIsReady, NotYetBooted, BootsCounted
<1> QED
  BY <1>1, <1>3, <1>4, <1>5, <1>6 DEF IInv, OrderInv

(* A start, a restart, or a request keeps files and jobs in order. *)
LEMMA StartsAndRequestsPreserve ==
  ASSUME OrderInv, Restart \/ Start \/ Request \/ BleTask
  PROVE  OrderInv'
<1> USE OtaAssumption
    DEF OrderInv, TypeOK, ReservationIsExact, Active, SurvivesPowerLoss, BootInOrder, UpdateInOrder,
        Slots, Apps, Complete, Storages, Requesters, NotMounted, Other,
        flash, booted, jobs
<1>1. CASE Restart
  BY <1>1 DEF Restart, Off
<1>2. CASE Boot
  BY <1>2 DEF Boot
<1>3. CASE ota_manager_note_boot \/ NoteBootFails
  <2>1. boot_failures' \in 0 .. BootFailureLimit
    BY <1>3 DEF ota_manager_note_boot, NoteBoot, NoteBootFails, BootCount, OneMore
  <2>2. CASE NoteBoot(BootCount) /\ RollbackPossible /\ RollBack
    <3>1. /\ selected' = Other(running) /\ app[Other(running)] \in Complete
          /\ phase' = "off" /\ mounted' = NotMounted /\ in_progress' = FALSE /\ ble_pending' = FALSE
          /\ job' = [r \in Requesters |-> "none"] /\ UNCHANGED <<app, storage, running>>
      BY <2>2 DEF NoteBoot, RollBack, RollbackPossible, Off
    <3>2. ota_state' \in [Slots -> {"valid", "pending", "invalid"}]
      BY <2>2 DEF RollBack
    <3>3. /\ job' \in [Requesters ->
               {"none", "queued", "reserved", "storage", "firmware", "restart", "report"}]
          /\ in_progress' \in BOOLEAN /\ ble_pending' \in BOOLEAN
      BY <3>1
    <3>4. /\ app' \in [Slots -> Apps] /\ storage' \in [Slots -> Storages]
          /\ selected' \in Slots /\ running' \in Slots /\ mounted' \in Slots \cup {NotMounted}
      BY <3>1
    <3>5. TypeOK'
      BY <2>1, <3>1, <3>2, <3>3, <3>4
    <3> QED
      BY <3>1, <3>5
  <2>3. CASE NoteBoot(BootCount) /\ GoOn
    BY <2>1, <2>3 DEF NoteBoot, GoOn
  <2>4. CASE NoteBootFails
    BY <2>1, <2>4 DEF NoteBootFails
  <2> QED
    BY <1>3, <2>2, <2>3, <2>4 DEF ota_manager_note_boot, NoteBoot
<1>4. CASE mount_littlefs
  BY <1>4 DEF mount_littlefs
<1>5. CASE ResetBootFailures \/ MarkValid
  BY <1>5 DEF ResetBootFailures, MarkValid
<1>6. CASE StartFails
  BY <1>6 DEF StartFails
<1>7. CASE WebRequest
  BY <1>7 DEF WebRequest, Serving, Step, ota_manager_reserve
<1>8. CASE BleRequest
  BY <1>8 DEF BleRequest, Serving, Step
<1>9. CASE BleStarts
  BY <1>9 DEF BleStarts, Step, ota_manager_reserve
<1>10. CASE BleFindsBusy
  BY <1>10 DEF BleFindsBusy, Step
<1>11. CASE BleReports
  <2> USE <1>11 DEF BleReports, Step
  <2>1. TypeOK'
    OBVIOUS
  <2>2. ReservationIsExact' /\ SurvivesPowerLoss'
    OBVIOUS
  <2>3. BootInOrder' /\ UpdateInOrder'
    OBVIOUS
  <2> QED
    BY <2>1, <2>2, <2>3
<1> HIDE DEF OrderInv
<1>12. CASE Start
  BY <1>2, <1>3, <1>4, <1>5, <1>6, <1>12 DEF Start
<1>13. CASE Request
  BY <1>7, <1>8, <1>13 DEF Request
<1>14. CASE BleTask
  BY <1>9, <1>10, <1>11, <1>14 DEF BleTask
<1> QED
  BY <1>1, <1>12, <1>13, <1>14

(* A step of an update keeps files and jobs in order. *)
LEMMA UpdatesPreserve ==
  ASSUME OrderInv, NEW r \in Requesters, Update(r)
  PROVE  OrderInv'
<1> USE OtaAssumption
    DEF OrderInv, TypeOK, ReservationIsExact, Active, SurvivesPowerLoss, BootInOrder, UpdateInOrder,
        Slots, Apps, Complete, Storages, Requesters, NotMounted, Other,
        flash, booted, jobs
<1>1. CASE Abandon(r)
  <2> USE <1>1 DEF Abandon, End, Ended
  <2>1. /\ Active(r) /\ ~in_progress' /\ \A q \in Requesters \ {r} : ~Active(q)
        /\ job'[r] \in {"none", "report"} /\ (r = "web" => job'[r] = "none")
        /\ (r = "ble" => job'[r] = "report")
        /\ \A q \in Requesters \ {r} : job'[q] = job[q]
    OBVIOUS
  <2>2. TypeOK'
    OBVIOUS
  <2>3. ReservationIsExact'
    BY <2>1
  <2>4. SurvivesPowerLoss' /\ BootInOrder'
    BY <2>1
  <2>5. UpdateInOrder'
    BY <2>1
  <2> QED
    BY <2>2, <2>3, <2>4, <2>5
<1>2. CASE EraseStorage(r)
  BY <1>2 DEF EraseStorage, Step
<1>3. CASE \E image \in {"bare", "site"} : WriteStorage(r, image)
  BY <1>3 DEF WriteStorage, Step
<1>4. CASE EraseFirmware(r)
  BY <1>4 DEF EraseFirmware
<1>5. CASE \E image \in Complete : InstallFirmware(r, image)
  BY <1>5 DEF InstallFirmware, Step
<1>6. CASE RestartIntoUpdate(r)
  BY <1>6 DEF RestartIntoUpdate, Off
<1> QED
  BY <1>1, <1>2, <1>3, <1>4, <1>5, <1>6 DEF Update

(* The boot loader's states and the counter, step by step: those that      *)
(* change neither, and those that do.                                      *)
LEMMA OtherStepsKeepCount ==
  ASSUME IInv,
         UNCHANGED <<selected, ota_state, boot_failures, running>>,
         UNCHANGED app \/ (ota_state[running] # "pending"
                            /\ app' = [app EXCEPT ![Other(running)] = "partial"]),
         phase # "off",
         \/ phase' \in {"off", "failed"} /\ mounted' \in {mounted, NotMounted}
         \/ phase' = phase /\ mounted' = mounted
  PROVE  RollbackIsReady' /\ BootsCounted'
<1> QED
  BY DEF IInv, OrderInv, TypeOK, RollbackIsReady, NotYetBooted, BootsCounted, Slots, Complete,
         Apps, Other

LEMMA BootsPreserveCount ==
  ASSUME IInv, Restart \/ Start
  PROVE  RollbackIsReady' /\ BootsCounted'
<1> USE OtaAssumption
    DEF IInv, OrderInv, TypeOK, BootInOrder, UpdateInOrder, RollbackIsReady, NotYetBooted,
        BootsCounted, Slots, Complete, Apps, Requesters, NotMounted, Other, flash, booted, jobs
<1>1. CASE Restart
  BY <1>1 DEF Restart, Off
<1>2. CASE Boot
  BY <1>2 DEF Boot
<1>3. CASE NoteBoot(BootCount) /\ RollbackPossible /\ RollBack
                 /\ boot_failures' >= BootFailureLimit
  <2>1. ota_state[running] # "pending" => boot_failures' = 0
    BY <1>3 DEF NoteBoot, BootCount
  <2>2. ota_state[running] = "pending"
    BY <1>3, <2>1
  <2>3. /\ selected' = Other(running) /\ running' = running /\ app' = app
        /\ phase' = "off" /\ mounted' = NotMounted
        /\ ota_state' = [ota_state EXCEPT ![running] = "invalid"]
    BY <1>3 DEF NoteBoot, RollBack, Off
  <2> QED
    BY <2>2, <2>3
<1>4. CASE NoteBoot(BootCount) /\ GoOn
  <2>1. /\ selected' = selected /\ running' = running /\ ota_state' = ota_state
        /\ app' = app /\ phase' = "starting" /\ phase = "booting"
        /\ boot_failures' = BootCount
    BY <1>4 DEF NoteBoot, GoOn
  <2>2. selected = running
    BY <2>1
  <2>3. ota_state[running] # "pending" => boot_failures' = 0
    BY <2>1 DEF BootCount
  <2> QED
    BY <2>1, <2>2, <2>3
<1>5. CASE NoteBootFails
  <2>1. /\ selected' = selected /\ running' = running /\ ota_state' = ota_state
        /\ app' = app /\ phase' = "failed" /\ phase = "booting" /\ mounted' = NotMounted
    BY <1>5 DEF NoteBootFails
  <2>2. selected = running
    BY <2>1
  <2> QED
    BY <2>1, <2>2
<1>6. CASE mount_littlefs
  BY <1>6 DEF mount_littlefs
<1>7. CASE ResetBootFailures
  BY <1>7 DEF ResetBootFailures
<1>8. CASE MarkValid
  BY <1>8 DEF MarkValid
<1>9. CASE StartFails
  BY <1>9 DEF StartFails
<1>10. CASE ota_manager_note_boot
  BY <1>3, <1>4, <1>10 DEF ota_manager_note_boot, NoteBoot
<1> QED
  BY <1>1, <1>2, <1>5, <1>6, <1>7, <1>8, <1>9, <1>10 DEF Start

LEMMA UpdatesPreserveCount ==
  ASSUME IInv, NEW r \in Requesters, Update(r)
  PROVE  RollbackIsReady' /\ BootsCounted'
<1>1. phase # "off" /\ mounted # NotMounted
  <2>1. job[r] # "none"
    BY DEF Update, Abandon, EraseStorage, WriteStorage, EraseFirmware, InstallFirmware,
           RestartIntoUpdate, Step
  <2> QED
    BY <2>1 DEF IInv, OrderInv, BootInOrder
<1>2. CASE Abandon(r)
  BY <1>1, <1>2, OtherStepsKeepCount DEF Abandon, flash, booted
<1>3. CASE EraseStorage(r) \/ \E image \in {"bare", "site"} : WriteStorage(r, image)
  BY <1>1, <1>3, OtherStepsKeepCount DEF EraseStorage, WriteStorage, booted
<1>4. CASE EraseFirmware(r)
  BY <1>1, <1>4, OtherStepsKeepCount DEF EraseFirmware, booted
<1>5. CASE \E image \in Complete : InstallFirmware(r, image)
  <2>1. PICK image \in Complete :
          /\ job[r] = "firmware" /\ app[Other(running)] = "partial"
          /\ app' = [app EXCEPT ![Other(running)] = image]
          /\ selected' = Other(running)
          /\ ota_state' = [ota_state EXCEPT ![Other(running)] =
                              IF RollbackEnabled THEN "pending" ELSE "valid"]
          /\ UNCHANGED <<boot_failures, phase, running, mounted>>
    BY <1>5 DEF InstallFirmware, Step, booted
  <2>2. /\ running \in Slots /\ Other(running) \in Slots /\ Other(running) # running
        /\ Other(Other(running)) = running
    BY DEF IInv, OrderInv, TypeOK, Slots, Other
  <2>3. ota_state[running] = "valid" /\ boot_failures = 0 /\ app[running] \in Complete
    BY <1>1, <2>1, <2>2
       DEF IInv, OrderInv, TypeOK, RollbackIsReady, BootsCounted, BootInOrder, Complete
  <2> QED
    BY <1>1, <2>1, <2>2, <2>3
       DEF IInv, OrderInv, TypeOK, RollbackIsReady, NotYetBooted, BootsCounted, Slots, Other
<1>6. CASE RestartIntoUpdate(r)
  BY <1>1, <1>6, OtherStepsKeepCount DEF RestartIntoUpdate, Off, flash
<1> QED
  BY <1>2, <1>3, <1>4, <1>5, <1>6 DEF Update

LEMMA RequestsPreserveCount ==
  ASSUME IInv, Request \/ BleTask \/ UNCHANGED vars
  PROVE  RollbackIsReady' /\ BootsCounted'
<1>1. UNCHANGED flash /\ UNCHANGED booted
  BY DEF Request, WebRequest, BleRequest, BleTask, BleStarts, BleFindsBusy, BleReports, vars
<1> QED
  BY <1>1 DEF IInv, RollbackIsReady, NotYetBooted, BootsCounted, flash, booted

LEMMA StutteringPreserves == ASSUME OrderInv, UNCHANGED vars PROVE OrderInv'
  BY DEF OrderInv, TypeOK, ReservationIsExact, Active, SurvivesPowerLoss, BootInOrder,
         UpdateInOrder, vars, flash, booted, jobs

LEMMA Invariance == Spec => []IInv
<1>1. IInv /\ [Next]_vars => OrderInv'
  BY StartsAndRequestsPreserve, UpdatesPreserve, StutteringPreserves DEF Next, IInv
<1>2. IInv /\ [Next]_vars => RollbackIsReady' /\ BootsCounted'
  BY BootsPreserveCount, UpdatesPreserveCount, RequestsPreserveCount DEF Next
<1>3. IInv /\ [Next]_vars => IInv'
  BY <1>1, <1>2 DEF IInv
<1> QED
  BY <1>3, InitEstablishes, PTL DEF Spec

(* Type correctness; the counter never passes the limit. *)
THEOREM TypeCorrect == Spec => []TypeOK
<1>1. IInv => TypeOK
  BY DEF IInv, OrderInv
<1> QED
  BY <1>1, Invariance, PTL

(* Power may fail at any step of an update: the slot that boots next holds *)
(* a complete image, and the mounted storage keeps its web assets.         *)
THEOREM UpdatesSurvivePowerLoss == Spec => []SurvivesPowerLoss
<1>1. IInv => SurvivesPowerLoss
  BY DEF IInv, OrderInv
<1> QED
  BY <1>1, Invariance, PTL

(* One update at a time, over web and BLE, and the flag says so.           *)
THEOREM ReservationsAreExact == Spec => []ReservationIsExact
<1>1. IInv => ReservationIsExact
  BY DEF IInv, OrderInv
<1> QED
  BY <1>1, Invariance, PTL

(* For every limit, with and without the boot loader's rollback: a new     *)
(* image has all its boots before it, and one that awaits verification has *)
(* a complete, valid image to be rolled back to.                           *)
THEOREM RollbackIsAlwaysReady == Spec => []RollbackIsReady
<1>1. IInv => RollbackIsReady
  BY DEF IInv
<1> QED
  BY <1>1, Invariance, PTL
=============================================================================
