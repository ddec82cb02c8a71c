-------------------------- MODULE AppWatchdogProofs --------------------------
(* Proofs about AppWatchdog for any tasks and any number of slots. *)
EXTENDS AppWatchdog, TLAPS

(* A slot the TWDT has belongs to a task that was told it is registered.   *)
SubscribedIsRegistered ==
  \A i \in Slots : slot[i].subscribed => slot[i].handle \in registered

(* The inductive invariant: a feed remembered of a slot is one of the task *)
(* in it only because a task has one slot.                                 *)
IInv == TypeOK /\ MasksAgree /\ OneSlotPerTask /\ SubscribedIsRegistered

SlotRecord == [handle : Tasks \cup {NoTask}, subscribed : BOOLEAN]

(* A change of one slot, as the operations make it.                        *)
LEMMA SlotUpdate ==
  ASSUME TypeOK, NEW i \in Slots, NEW r \in SlotRecord,
         slot' = [slot EXCEPT ![i] = r]
  PROVE  /\ slot' \in [Slots -> SlotRecord]
         /\ slot'[i] = r
         /\ \A j \in Slots : j # i => slot'[j] = slot[j]
  BY DEF TypeOK, SlotRecord

LEMMA InitIInv == Init => IInv
<1>. SUFFICES ASSUME Init PROVE IInv
  OBVIOUS
<1>1. \A i \in Slots : slot[i] = Free
  BY DEF Init
<1>2. Free.handle = NoTask /\ ~Free.subscribed /\ Free \in SlotRecord
  BY DEF Free, SlotRecord
<1>3. slot \in [Slots -> SlotRecord]
  BY <1>2 DEF Init
<1>4. TypeOK
  BY <1>3 DEF Init, TypeOK, SlotRecord
<1>5. Active(slot) = {}
  BY <1>1, <1>2 DEF Active
<1>6. MasksAgree /\ OneSlotPerTask
  BY <1>5 DEF Init, MasksAgree, OneSlotPerTask
<1>7. SubscribedIsRegistered
  BY <1>1, <1>2 DEF SubscribedIsRegistered
<1>. QED
  BY <1>4, <1>6, <1>7 DEF IInv

LEMMA RegisterIInv ==
  ASSUME IInv, NEW t \in Tasks, NEW i \in Slots, NEW added \in BOOLEAN,
         Register(t, i, added)
  PROVE  IInv'
<1>. DEFINE r == [handle |-> t, subscribed |-> added]
<1>1. /\ i \in Held(t) \/ (Held(t) = {} /\ slot[i] = Free)
      /\ slot' = [slot EXCEPT ![i] = r]
      /\ required' = Active(slot') /\ seen' = seen \cap required'
      /\ registered' = IF added THEN registered \cup {t} ELSE registered
      /\ reported' = reported /\ rtc' = rtc
      /\ IF slot[i].handle = t /\ slot[i].subscribed
         THEN added ELSE added \/ t \in Unsubscribable
  BY DEF Register, refresh_required_feed_mask_locked, subscribe_task_locked
<1>2. r \in SlotRecord /\ r.handle = t /\ r.subscribed = added /\ t # NoTask
  BY WatchdogAssumption DEF SlotRecord
<1>3. TypeOK /\ MasksAgree /\ OneSlotPerTask /\ SubscribedIsRegistered
  BY DEF IInv
<1>. HIDE DEF r
<1>4. /\ slot' \in [Slots -> SlotRecord] /\ slot'[i] = r
      /\ \A j \in Slots : j # i => slot'[j] = slot[j]
  BY <1>1, <1>2, <1>3, SlotUpdate
<1>5. Active(slot') = Active(slot) \cup {i}
  BY <1>2, <1>4 DEF Active
<1>6. TypeOK'
  BY <1>1, <1>3, <1>4 DEF TypeOK, Active, SlotRecord
<1>7. MasksAgree'
  <2>. SUFFICES ASSUME NEW j \in seen'
                PROVE  j \in required' /\ slot'[j].subscribed /\ slot'[j].handle \in reported'
    BY <1>1 DEF MasksAgree
  <2>1. j \in seen /\ j \in required' /\ j \in Slots
    BY <1>1, <1>3 DEF TypeOK
  <2>2. slot[j].subscribed /\ slot[j].handle \in reported /\ j \in Active(slot)
    BY <1>3, <2>1 DEF MasksAgree
  <2>3. CASE j = i
    <3>1. slot[i].handle # NoTask
      BY <2>2, <2>3 DEF Active
    <3>2. slot[i].handle = t
      BY <1>1, <3>1 DEF Held, Free
    <3>3. added
      BY <1>1, <2>2, <2>3, <3>2
    <3>. QED
      BY <1>1, <1>2, <1>4, <2>1, <2>2, <2>3, <3>2, <3>3
  <2>4. CASE j # i
    BY <1>1, <1>4, <2>1, <2>2, <2>4
  <2>. QED
    BY <2>3, <2>4
<1>8. OneSlotPerTask'
  <2>. SUFFICES ASSUME NEW j \in Active(slot'), NEW k \in Active(slot'),
                       slot'[j].handle = slot'[k].handle
                PROVE  j = k
    BY DEF OneSlotPerTask
  <2>1. \A m \in Slots : m # i => slot[m].handle # t
    <3>1. CASE Held(t) = {}
      BY <3>1 DEF Held
    <3>2. CASE i \in Held(t)
      BY <1>2, <1>3, <3>2 DEF Held, OneSlotPerTask, Active
    <3>. QED
      BY <1>1, <3>1, <3>2
  <2>. QED
    BY <1>2, <1>3, <1>4, <1>5, <2>1 DEF OneSlotPerTask, Active
<1>9. SubscribedIsRegistered'
  BY <1>1, <1>2, <1>3, <1>4 DEF SubscribedIsRegistered
<1>. QED
  BY <1>6, <1>7, <1>8, <1>9 DEF IInv

LEMMA UnregisterIInv ==
  ASSUME IInv, NEW t \in Tasks, NEW i \in Slots, Unregister(t, i)
  PROVE  IInv'
<1>1. /\ slot[i].handle = t /\ slot' = [slot EXCEPT ![i] = Free]
      /\ required' = Active(slot') /\ seen' = seen \cap required'
      /\ registered' = registered \ {t} /\ reported' = reported \ {t} /\ rtc' = rtc
  BY DEF Unregister, refresh_required_feed_mask_locked, Held
<1>2. Free \in SlotRecord /\ Free.handle = NoTask /\ ~Free.subscribed /\ t # NoTask
  BY WatchdogAssumption DEF SlotRecord, Free
<1>3. TypeOK /\ MasksAgree /\ OneSlotPerTask /\ SubscribedIsRegistered
  BY DEF IInv
<1>4. /\ slot' \in [Slots -> SlotRecord] /\ slot'[i] = Free
      /\ \A j \in Slots : j # i => slot'[j] = slot[j]
  BY <1>1, <1>2, <1>3, SlotUpdate
<1>5. Active(slot') = Active(slot) \ {i} /\ i \in Active(slot)
  BY <1>1, <1>2, <1>4 DEF Active
<1>6. TypeOK'
  BY <1>1, <1>3, <1>4 DEF TypeOK, Active, SlotRecord
<1>7. \A j \in Active(slot) : j # i => slot[j].handle # t
  BY <1>1, <1>3, <1>5 DEF OneSlotPerTask
<1>8. MasksAgree'
  BY <1>1, <1>3, <1>4, <1>5, <1>7 DEF MasksAgree, TypeOK, Active
<1>9. OneSlotPerTask'
  BY <1>3, <1>4, <1>5 DEF OneSlotPerTask, Active
<1>10. SubscribedIsRegistered'
  <2>. SUFFICES ASSUME NEW j \in Slots, slot'[j].subscribed
                PROVE  slot'[j].handle \in registered'
    BY DEF SubscribedIsRegistered
  <2>1. j # i
    BY <1>2, <1>4
  <2>2. slot[j].handle \in registered
    BY <1>3, <1>4, <2>1 DEF SubscribedIsRegistered
  <2>3. slot[j].handle # t
    BY <1>1, <1>2, <1>3, <2>1 DEF OneSlotPerTask, Active
  <2>. QED
    BY <1>1, <1>4, <2>1, <2>2, <2>3
<1>. QED
  BY <1>6, <1>8, <1>9, <1>10 DEF IInv

LEMMA FeedIInv ==
  ASSUME IInv, NEW t \in Tasks, NEW i \in Slots, Feed(t, i)
  PROVE  IInv'
<1>1. /\ slot[i].handle = t /\ slot[i].subscribed
      /\ UNCHANGED <<slot, required, registered>>
      /\ \/ seen' = {} /\ reported' = {} /\ rtc' = 1 - rtc
         \/ seen' = seen \cup {i} /\ reported' = reported \cup {t} /\ rtc' = rtc
  BY DEF Feed, Held
<1>2. TypeOK /\ MasksAgree /\ OneSlotPerTask /\ SubscribedIsRegistered /\ t # NoTask
  BY WatchdogAssumption DEF IInv
<1>3. TypeOK'
  BY <1>1, <1>2 DEF TypeOK
<1>4. MasksAgree'
  BY <1>1, <1>2 DEF MasksAgree, Active
<1>5. OneSlotPerTask' /\ SubscribedIsRegistered'
  BY <1>1, <1>2 DEF OneSlotPerTask, SubscribedIsRegistered, Active
<1>. QED
  BY <1>3, <1>4, <1>5 DEF IInv

LEMMA NextIInv == IInv /\ [Next]_vars => IInv'
<1>. SUFFICES ASSUME IInv, [Next]_vars PROVE IInv'
  OBVIOUS
<1>1. CASE UNCHANGED vars
  BY <1>1 DEF vars, IInv, TypeOK, MasksAgree, OneSlotPerTask, SubscribedIsRegistered, Active
<1>. QED
  BY <1>1, RegisterIInv, UnregisterIInv, FeedIInv DEF Next, FeedCurrentTask

-----------------------------------------------------------------------------
LEMMA Inductive == Spec => []IInv
<1>1. IInv /\ [Next]_vars => IInv'
  BY NextIInv
<1>. QED
  BY InitIInv, <1>1, PTL DEF Spec

(* Type correctness, for any tasks and any number of slots. *)
THEOREM TypeCorrect == Spec => []TypeOK
<1>1. IInv => TypeOK
  BY DEF IInv
<1>. QED
  BY Inductive, <1>1, PTL

(* No task is counted twice in a quorum: it has one slot, however often it *)
(* registers (app_watchdog_register_current_task).                         *)
THEOREM NoTaskTwice == Spec => []OneSlotPerTask
<1>1. IInv => OneSlotPerTask
  BY DEF IInv
<1>. QED
  BY Inductive, <1>1, PTL

(* For any tasks and any number of slots, the masks agree with the slots.  *)
THEOREM MasksAlwaysAgree == Spec => []MasksAgree
<1>1. IInv => MasksAgree
  BY DEF IInv
<1>. QED
  BY Inductive, <1>1, PTL

(* Under QUORUM_ALL the RTC watchdog is never fed while a registered task  *)
(* has not fed since it last was.                                          *)
THEOREM RtcFeedIsHonest ==
  ASSUME QuorumAll
  PROVE  Spec => RtcFeedMeansAllReported
<1>1. ASSUME IInv, Next, rtc' # rtc
      PROVE  \E t \in registered : \A i \in Active(slot) :
               slot[i].handle \in reported \cup {t}
  <2>1. PICK t \in Tasks, i \in Slots : Feed(t, i)
    BY <1>1 DEF Next, Register, Unregister, FeedCurrentTask
  <2>2. slot[i].handle = t /\ slot[i].subscribed /\ Quorum(seen \cup {i})
    BY <1>1, <2>1 DEF Feed, Held
  <2>3. t \in registered
    BY <1>1, <2>2 DEF IInv, SubscribedIsRegistered
  <2>4. Active(slot) \subseteq seen \cup {i}
    BY <1>1, <2>2 DEF Quorum, IInv, MasksAgree
  <2>5. \A j \in seen : slot[j].handle \in reported
    BY <1>1 DEF IInv, MasksAgree
  <2>. QED
    BY <2>2, <2>3, <2>4, <2>5
<1>2. IInv /\ [Next]_vars =>
        [rtc' # rtc => \E t \in registered : \A i \in Active(slot) :
           slot[i].handle \in reported \cup {t}]_vars
  BY <1>1
<1>. QED
  BY Inductive, <1>2, PTL DEF Spec, RtcFeedMeansAllReported
=============================================================================
