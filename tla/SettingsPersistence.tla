------------------------- MODULE SettingsPersistence -------------------------
(***************************************************************************)
(* Saving the settings in flash (hot_tub_controller_nvs.c): the setters of *)
(* clients and of the control loop write hottub_ctl and then mark it dirty *)
(* through a queue of length one; a task drains the queue, waits for the   *)
(* debounce interval and saves a snapshot.  Power may fail at any moment;  *)
(* a boot loads the blob or, when it cannot, saves the defaults.           *)
(***************************************************************************)
EXTENDS Integers

CONSTANTS
  Settings,    \* what a client may make of hottub_ctl
  Default,     \* the defaults of hot_tub_globals.h
  Clients      \* the tasks that run JSON commands: Wi-Fi, BLE

ASSUME SettingsAssumption == Default \in Settings

Zero == "zero"      \* a zeroed HotTubController_t
NoBlob == "none"    \* nothing stored under the key
Values == Settings \cup {Zero}

ASSUME NotSettings == Zero \notin Settings /\ NoBlob \notin Values

VARIABLES
  power,   \* "off", "zeroed" (the state cleared, nothing loaded yet), "on"
  mem,     \* hottub_ctl
  nvs,     \* the committed blob
  dirty,   \* s_persistence_queue holds a notification
  saving,  \* the persistence task: "wait", "debounce" or "commit"
  blob,    \* its copy of the state
  copy,    \* the control loop's snapshot
  loop,    \* the control loop: "wait", "set" (setters to call) or "write back"
  marking  \* clients that have written mem and not marked it yet

vars == <<power, mem, nvs, dirty, saving, blob, copy, loop, marking>>

-----------------------------------------------------------------------------
Init ==
  /\ power = "off"
  /\ mem = Zero
  /\ nvs = NoBlob
  /\ dirty = FALSE
  /\ saving = "wait"
  /\ blob = Zero
  /\ copy = Zero
  /\ loop = "wait"
  /\ marking = {}

(* Everything but the flash is lost. *)
PowerFails ==
  /\ power' = "off"
  /\ mem' = Zero
  /\ dirty' = FALSE
  /\ saving' = "wait"
  /\ blob' = Zero
  /\ copy' = Zero
  /\ loop' = "wait"
  /\ marking' = {}
  /\ UNCHANGED nvs

(* The mutex, the persistence task and its queue exist; memset. *)
ZeroState ==
  /\ power = "off"
  /\ power' = "zeroed"
  /\ mem' = Zero
  /\ UNCHANGED <<nvs, dirty, saving, blob, copy, loop, marking>>

(* Mutant of LoadSettings: a missing blob is applied like any other.       *)
LoadUnchecked ==
  /\ power = "zeroed"
  /\ power' = "on"
  /\ mem' = nvs
  /\ UNCHANGED <<nvs, dirty, saving, blob, copy, loop, marking>>

LoadSettings ==
  /\ power = "zeroed"
  /\ nvs # NoBlob
  /\ power' = "on"
  /\ mem' = nvs
  /\ UNCHANGED <<nvs, dirty, saving, blob, copy, loop, marking>>

(* No blob, or an NVS call that fails although there is one: the defaults  *)
(* are set, each setter marks, and they are saved at once, which may fail. *)
LoadDefaults ==
  /\ power = "zeroed"
  /\ power' = "on"
  /\ mem' = Default
  /\ dirty' = TRUE
  /\ nvs' \in {Default, nvs}
  /\ UNCHANGED <<saving, blob, copy, loop, marking>>

-----------------------------------------------------------------------------
(* A setter writes under the lock and marks after it.                      *)
ClientWrites(c, v) ==
  /\ power = "on"
  /\ c \notin marking
  /\ mem' = v
  /\ marking' = marking \cup {c}
  /\ UNCHANGED <<power, nvs, dirty, saving, blob, copy, loop>>

(* A full queue already stands for every change so far. *)
ClientMarks(c) ==
  /\ c \in marking
  /\ dirty' = TRUE
  /\ marking' = marking \ {c}
  /\ UNCHANGED <<power, mem, nvs, saving, blob, copy, loop>>

LoopSnapshot ==
  /\ power = "on"
  /\ loop = "wait"
  /\ loop' = "set"
  /\ copy' = mem
  /\ UNCHANGED <<power, mem, nvs, dirty, saving, blob, marking>>

(* Mutant of LoopSets: the loop's setters do not mark.                     *)
LoopSetsQuietly ==
  /\ loop = "set"
  /\ loop' = "write back"
  /\ UNCHANGED <<power, mem, nvs, dirty, saving, blob, copy, marking>>

(* set_heater_on and set_pump_state: outputs, which are no settings, but   *)
(* both mark.                                                              *)
LoopSets ==
  /\ loop = "set"
  /\ loop' = "write back"
  /\ dirty' = TRUE
  /\ UNCHANGED <<power, mem, nvs, saving, blob, copy, marking>>

(* snapshot_set does not mark; it may time out. *)
LoopWritesBack ==
  /\ loop = "write back"
  /\ loop' = "wait"
  /\ mem' \in {copy, mem}
  /\ UNCHANGED <<power, nvs, dirty, saving, blob, copy, marking>>

ControlLoop == LoopSnapshot \/ LoopSets \/ LoopWritesBack

-----------------------------------------------------------------------------
Drain ==
  /\ saving = "wait"
  /\ dirty
  /\ dirty' = FALSE
  /\ saving' = "debounce"
  /\ UNCHANGED <<power, mem, nvs, blob, copy, loop, marking>>

(* Mutant of Snapshot: its result is not checked, so that a lock timeout   *)
(* saves a zeroed struct.                                                  *)
SnapshotUnchecked ==
  /\ saving = "debounce"
  /\ saving' = "commit"
  /\ blob' \in {mem, Zero}
  /\ UNCHANGED <<power, mem, nvs, dirty, copy, loop, marking>>

Snapshot ==
  /\ saving = "debounce"
  /\ saving' = "commit"
  /\ blob' = mem
  /\ UNCHANGED <<power, mem, nvs, dirty, copy, loop, marking>>

Commit ==
  /\ saving = "commit"
  /\ saving' = "wait"
  /\ nvs' = blob
  /\ blob' = Zero
  /\ UNCHANGED <<power, mem, dirty, copy, loop, marking>>

(* The lock times out, or an NVS call fails: logged, and not tried again. *)
SaveFails ==
  /\ saving \in {"debounce", "commit"}
  /\ saving' = "wait"
  /\ blob' = Zero
  /\ UNCHANGED <<power, mem, nvs, dirty, copy, loop, marking>>

Boot == ZeroState \/ LoadSettings \/ LoadDefaults
Client ==
  \E c \in Clients : ClientMarks(c) \/ \E v \in Settings : ClientWrites(c, v)
Persistence == Drain \/ Snapshot \/ Commit \/ SaveFails

Next == PowerFails \/ Boot \/ Client \/ ControlLoop \/ Persistence

(* The tasks run; flash and lock do not fail for ever, and a loop that     *)
(* writes back every second does not always meet the lock taken.           *)
Fairness ==
  /\ WF_vars(Boot)
  /\ WF_vars(ControlLoop)
  /\ WF_vars(Persistence)
  /\ SF_vars(Snapshot)
  /\ SF_vars(Commit)

Spec == Init /\ [][Next]_vars /\ Fairness
-----------------------------------------------------------------------------
(* Type invariant.                                                         *)
TypeOK ==
  /\ power \in {"off", "zeroed", "on"}
  /\ mem \in Values
  /\ nvs \in Values \cup {NoBlob}
  /\ dirty \in BOOLEAN
  /\ saving \in {"wait", "debounce", "commit"}
  /\ blob \in Values
  /\ copy \in Values
  /\ loop \in {"wait", "set", "write back"}
  /\ marking \subseteq Clients

(* The cleared struct of a boot never reaches the flash, nor the loop: no  *)
(* task acts on the state between the memset and the load, and a save that *)
(* got no snapshot writes nothing.                                         *)
NeverSavesZeroes ==
  /\ nvs # Zero
  /\ power = "on" => mem # Zero
  /\ loop # "wait" => copy # Zero
  /\ saving = "commit" => blob # Zero

(* A setting that lasts reaches the flash, although a failed save is not   *)
(* retried and the write-back marks nothing: each pass of the control loop *)
(* marks the state dirty again.                                            *)
LastingSettingIsSaved ==
  \A v \in Settings : <>[](power = "on" /\ mem = v) => <>[](nvs = v)
=============================================================================
