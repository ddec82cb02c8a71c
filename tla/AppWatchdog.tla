----------------------------- MODULE AppWatchdog -----------------------------
(***************************************************************************)
(* The watchdog shared by the firmware's tasks (app_watchdog.c).  A task   *)
(* registers into a slot and is subscribed to the task watchdog (TWDT); the *)
(* RTC watchdog behind it is fed when enough registered tasks have fed.    *)
(* Every entry point runs under one mutex, so each is one step; a lock     *)
(* that times out makes the call do nothing, which is a stuttering step.   *)
(***************************************************************************)
EXTENDS Integers

CONSTANTS
  Tasks,       \* the tasks that may use the watchdog
  NoTask,      \* the handle of a free slot
  SlotCount,   \* APP_WATCHDOG_MAX_TASKS
  QuorumAll,   \* quorum_policy: all registered tasks, or any
  Unsubscribable \* tasks the TWDT may fail to add (no memory)

ASSUME WatchdogAssumption ==
  /\ NoTask \notin Tasks
  /\ SlotCount \in Nat
  /\ QuorumAll \in BOOLEAN

VARIABLES
  slot,       \* s_slots: who holds each slot, and whether the TWDT has it
  required,   \* s_required_feed_mask, as a set of slots
  seen,       \* s_seen_feed_mask
  registered, \* history: tasks whose registration returned ESP_OK
  reported,   \* history: tasks that fed since the RTC watchdog was last fed
  rtc         \* history: flips whenever the RTC watchdog is fed

vars == <<slot, required, seen, registered, reported, rtc>>

Slots == 1 .. SlotCount
Free == [handle |-> NoTask, subscribed |-> FALSE]
Active(slots) == {i \in Slots : slots[i].handle # NoTask}
Held(t) == {i \in Slots : slot[i].handle = t}

-----------------------------------------------------------------------------
Init ==
  /\ slot = [i \in Slots |-> Free]
  /\ required = {}
  /\ seen = {}
  /\ registered = {}
  /\ reported = {}
  /\ rtc = 0

(* Mutant of refresh_required_feed_mask_locked: stale feeds stay seen. *)
RefreshKeepingSeen == required' = Active(slot') /\ seen' = seen

refresh_required_feed_mask_locked ==
  /\ required' = Active(slot')
  /\ seen' = seen \cap required'

(* esp_task_wdt_add of a slot that is not subscribed yet. *)
subscribe_task_locked(i, t, added) ==
  IF slot[i].handle = t /\ slot[i].subscribed
  THEN added
  ELSE added \/ t \in Unsubscribable

(* Mutant of Register: a task that registers again takes another slot. *)
RegisterAnew(t, i, added) ==
  /\ slot[i] = Free
  /\ slot' = [slot EXCEPT ![i] = [handle |-> t, subscribed |-> added]]
  /\ refresh_required_feed_mask_locked
  /\ registered' = IF added THEN registered \cup {t} ELSE registered
  /\ UNCHANGED <<reported, rtc>>

(* The task's own slot, or the first free one; after a failed subscription *)
(* the slot stays taken, and required.                                     *)
Register(t, i, added) ==
  /\ i \in Held(t) \/ (Held(t) = {} /\ slot[i] = Free
                        /\ \A j \in Slots : slot[j] = Free => i <= j)
  /\ subscribe_task_locked(i, t, added)
  /\ slot' = [slot EXCEPT ![i] = [handle |-> t, subscribed |-> added]]
  /\ refresh_required_feed_mask_locked
  /\ registered' = IF added THEN registered \cup {t} ELSE registered
  /\ UNCHANGED <<reported, rtc>>

Unregister(t, i) ==
  /\ i \in Held(t)
  /\ slot' = [slot EXCEPT ![i] = Free]
  /\ refresh_required_feed_mask_locked
  /\ registered' = registered \ {t}
  /\ reported' = reported \ {t}
  /\ UNCHANGED rtc

(* Mutants of Quorum: the policies are swapped; a mask of one, the first   *)
(* slot alone, is taken for an empty one.                                  *)
QuorumSwapped(s) ==
  /\ required # {}
  /\ IF QuorumAll THEN s \cap required # {} ELSE required \subseteq s
QuorumNotLone(s) ==
  /\ required \notin {{}, {1}}
  /\ IF QuorumAll THEN required \subseteq s ELSE s \cap required # {}

Quorum(s) ==
  /\ required # {}
  /\ IF QuorumAll THEN required \subseteq s ELSE s \cap required # {}

(* Mutant of Feed: the bit of the slot before is set. *)
FeedShifted(t, i) ==
  /\ i \in Held(t)
  /\ slot[i].subscribed
  /\ IF Quorum(seen \cup {i - 1})
     THEN seen' = {} /\ reported' = {} /\ rtc' = 1 - rtc
     ELSE seen' = seen \cup {i - 1} /\ reported' = reported \cup {t} /\ UNCHANGED rtc
  /\ UNCHANGED <<slot, required, registered>>

(* A feed of a task that is subscribed; any other is an error that changes *)
(* nothing.                                                                *)
Feed(t, i) ==
  /\ i \in Held(t)
  /\ slot[i].subscribed
  /\ IF Quorum(seen \cup {i})
     THEN seen' = {} /\ reported' = {} /\ rtc' = 1 - rtc
     ELSE seen' = seen \cup {i} /\ reported' = reported \cup {t} /\ UNCHANGED rtc
  /\ UNCHANGED <<slot, required, registered>>

FeedCurrentTask(t) == \E i \in Slots : Feed(t, i)

Next ==
  \E t \in Tasks :
    \/ \E i \in Slots, added \in BOOLEAN : Register(t, i, added)
    \/ \E i \in Slots : Unregister(t, i)
    \/ FeedCurrentTask(t)

(* A registered task's loop feeds every second, for as long as it runs.    *)
Spec == Init /\ [][Next]_vars /\ \A t \in Tasks : WF_vars(FeedCurrentTask(t))
-----------------------------------------------------------------------------
(* Type invariant: the masks name slots, the slots hold tasks.             *)
TypeOK ==
  /\ slot \in [Slots -> [handle : Tasks \cup {NoTask}, subscribed : BOOLEAN]]
  /\ required \subseteq Slots
  /\ seen \subseteq Slots
  /\ registered \subseteq Tasks
  /\ reported \subseteq Tasks
  /\ rtc \in {0, 1}

(* The masks agree with the slots through every register, unregister and   *)
(* reuse of a slot: a feed is only remembered of the task that now holds   *)
(* the slot, and only of one the TWDT watches as well.                     *)
MasksAgree ==
  /\ required = Active(slot)
  /\ \A i \in seen : i \in required /\ slot[i].subscribed /\ slot[i].handle \in reported

(* No task takes two slots of the quorum, however often it registers.      *)
OneSlotPerTask ==
  \A i, j \in Active(slot) : slot[i].handle = slot[j].handle => i = j

(* "the RTC WDT is fed only after every currently registered task has fed  *)
(* at least once since the last RTC feed" (README), under QUORUM_ALL.      *)
RtcFeedMeansAllReported ==
  [][rtc' # rtc =>
       \E t \in registered : \A i \in Active(slot) :
         slot[i].handle \in reported \cup {t}]_vars

(* The quorum is "equivalent to 'all registered tasks are healthy'": tasks *)
(* that registered and keep feeding keep the RTC watchdog fed, unless a    *)
(* registration that failed half way left a slot of the quorum behind.     *)
Registered(R) == registered = R /\ \A i \in Active(slot) : slot[i].handle \in R
HealthyTasksFeedRtc ==
  \A R \in SUBSET Tasks \ {{}} : <>[]Registered(R) => []<><<rtc' # rtc>>_vars
=============================================================================
