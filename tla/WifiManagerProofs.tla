-------------------------- MODULE WifiManagerProofs --------------------------
(***************************************************************************)
(* What the worker, the event handler, the timer and the BLE service keep  *)
(* of the Wi-Fi manager's state, whatever the networks, the length of the  *)
(* queue and the numbers of attempts.                                      *)
(***************************************************************************)
EXTENDS WifiManager, TLAPS

WorkTypes == {"connect", "fallback", "provision", "retry", "refresh"}
WorkItems == [type : WorkTypes, network : Credentials]
EventNames == {"start", "disconnected", "got_ip"}

(* What Enqueue, Dequeue and Post do to the types of the two queues. *)
LEMMA AppendType ==
  ASSUME queue \in Seq(WorkItems), NEW w \in WorkItems, HasRoom, Len(queue) <= QueueLength
  PROVE  /\ Append(queue, w) \in Seq(WorkItems)
         /\ Len(Append(queue, w)) <= QueueLength
BY WifiAssumption DEF HasRoom

LEMMA TailType ==
  ASSUME queue \in Seq(WorkItems), queue # <<>>, Len(queue) <= QueueLength
  PROVE  /\ Tail(queue) \in Seq(WorkItems)
         /\ Len(Tail(queue)) <= QueueLength
         /\ Head(queue) \in WorkItems
BY WifiAssumption

LEMMA PostType ==
  ASSUME events \in Seq(EventNames), NEW new \in Seq(EventNames), Post(new)
  PROVE  events' \in Seq(EventNames)
BY DEF Post

LEMMA EventSequences ==
  /\ <<>> \in Seq(EventNames)
  /\ \A e \in EventNames : <<e>> \in Seq(EventNames)
  /\ Dropped \in Seq(EventNames)
<1>1. <<>> \in Seq(EventNames)
  OBVIOUS
<1>2. ASSUME NEW e \in EventNames PROVE <<e>> \in Seq(EventNames)
  OBVIOUS
<1>3. "disconnected" \in EventNames
  BY DEF EventNames
<1> QED
  BY <1>1, <1>2, <1>3 DEF Dropped

(* A start of the driver announces at most a lost connection and a station. *)
LEMMA RestartType ==
  ASSUME events \in Seq(EventNames), NEW mode \in {"AP", "STA", "APSTA"},
         NEW config \in Credentials, Restart(mode, config)
  PROVE  /\ events' \in Seq(EventNames)
         /\ driver' = Running(mode, config)
<1>1. "start" \in EventNames
  BY DEF EventNames
<1>2. CASE mode = "AP"
  <2>1. Dropped \o <<>> \in Seq(EventNames)
    BY EventSequences
  <2> QED
    BY <1>2, <2>1, PostType DEF Restart
<1>3. CASE mode # "AP"
  <2>1. <<"start">> \in Seq(EventNames)
    BY <1>1, EventSequences
  <2>2. Dropped \o <<"start">> \in Seq(EventNames)
    BY <2>1, EventSequences
  <2> QED
    BY <1>3, <2>2, PostType DEF Restart
<1> QED
  BY <1>2, <1>3

-----------------------------------------------------------------------------
(* The type invariant, in parts. *)
FlagRecords ==
  [sta_enabled : BOOLEAN, ap_enabled : BOOLEAN, provisioning_active : BOOLEAN,
   active_credentials : Credentials, ap_fallback_active : BOOLEAN,
   ap_fallback_pending : BOOLEAN, sta_attempt_pending : BOOLEAN,
   fallback_retry_pending : BOOLEAN, sta_connect_attempts : 0 .. StationAttempts,
   sta_connected : BOOLEAN]

FlagsType == flags \in FlagRecords

QueueType == queue \in Seq(WorkItems) /\ Len(queue) <= QueueLength

Places == {"idle", "retry"} \cup StationPlaces \cup TrialPlaces
            \cup ProvisioningPlaces \cup RetryPlaces

Trials ==
  [network : Credentials, previous : Credentials, fallback : BOOLEAN,
   attempts : 0 .. ProvisionAttempts + RetryAttempts,
   then : {"idle", "leave AP", "save", "resume station"}]

WorkerType == worker \in Places /\ trial \in Trials

Drivers == [mode : {"AP", "STA", "APSTA", "off", "refused"}, config : Credentials,
            link : {"down", "connecting", "up"}]

DriverType == driver \in Drivers /\ events \in Seq(EventNames)

RestType ==
  /\ bits \subseteq {"got_ip", "disconnected"}
  /\ handler \in {"idle", "got_ip", "disconnected"}
  /\ timer \in {"idle", "send", "full"}
  /\ requester \in [at : {"idle", "send", "full"}, network : Credentials]
  /\ scheduling \in [Callers -> {"idle", "called", "connect", "fallback", "full"}]
  /\ stored \in Credentials

LEMMA TypeParts ==
  TypeOK <=> FlagsType /\ QueueType /\ WorkerType /\ DriverType /\ RestType
BY DEF TypeOK, FlagsType, FlagRecords, QueueType, WorkerType, DriverType, RestType, Places, Trials, Drivers,
       WorkItems, WorkTypes, EventNames

LEMMA InitType == Init => TypeOK
<1> SUFFICES ASSUME NEW c \in Credentials, InitWith(c) PROVE TypeOK
  BY DEF Init
<1> USE WifiAssumption DEF InitWith
<1>1. None \in Credentials
  BY DEF Credentials
<1>2. FlagsType
  BY DEF FlagsType, FlagRecords
<1>3. QueueType
  BY DEF QueueType
<1>4. WorkerType
  BY <1>1 DEF WorkerType, Places, Trials, NoTrial
<1>5. DriverType
  <2>1. events \in Seq(EventNames)
    BY EventSequences DEF EventNames
  <2>2. driver \in Drivers
    BY <1>1 DEF Drivers, Running
  <2> QED
    BY <2>1, <2>2 DEF DriverType
<1>6. RestType
  BY <1>1 DEF RestType, NoRequest
<1> QED
  BY <1>2, <1>3, <1>4, <1>5, <1>6, TypeParts

(* The flags together with the credentials in use, which most steps keep. *)
FlagsWith(c) == {f \in FlagRecords : f.active_credentials = c}

(* Flags are set one at a time. *)
LEMMA SetFlag ==
  ASSUME NEW c, NEW f \in FlagsWith(c), NEW b \in BOOLEAN
  PROVE  /\ [f EXCEPT !.sta_enabled = b] \in FlagsWith(c)
         /\ [f EXCEPT !.ap_enabled = b] \in FlagsWith(c)
         /\ [f EXCEPT !.provisioning_active = b] \in FlagsWith(c)
         /\ [f EXCEPT !.ap_fallback_active = b] \in FlagsWith(c)
         /\ [f EXCEPT !.ap_fallback_pending = b] \in FlagsWith(c)
         /\ [f EXCEPT !.sta_attempt_pending = b] \in FlagsWith(c)
         /\ [f EXCEPT !.fallback_retry_pending = b] \in FlagsWith(c)
         /\ [f EXCEPT !.sta_connected = b] \in FlagsWith(c)
BY DEF FlagRecords, FlagsWith

LEMMA SetCredentials ==
  ASSUME NEW f \in FlagRecords, NEW c \in Credentials
  PROVE  [f EXCEPT !.active_credentials = c] \in FlagsWith(c)
BY DEF FlagRecords, FlagsWith

LEMMA SetAttempts ==
  ASSUME NEW c, NEW f \in FlagsWith(c), NEW n \in 0 .. StationAttempts
  PROVE  [f EXCEPT !.sta_connect_attempts = n] \in FlagsWith(c)
BY DEF FlagRecords, FlagsWith

LEMMA SetFlags ==
  ASSUME NEW c, NEW f \in FlagsWith(c)
  PROVE  /\ Calm(f) \in FlagsWith(c)
         /\ Afresh(f) \in FlagsWith(c)
         /\ \A ap \in BOOLEAN : Serving(f, ap) \in FlagsWith(c)
<1>1. Calm(f) \in FlagsWith(c)
  BY SetFlag, Zenon DEF Calm
<1>2. Afresh(f) \in FlagsWith(c)
  <2>1. 0 \in 0 .. StationAttempts
    BY WifiAssumption
  <2> QED
    BY <1>1, <2>1, SetAttempts DEF Afresh
<1>3. ASSUME NEW ap \in BOOLEAN PROVE Serving(f, ap) \in FlagsWith(c)
  <2>1. (~ap) \in BOOLEAN
    OBVIOUS
  <2> QED
    BY <2>1, SetFlag, Zenon DEF Serving
<1> QED
  BY <1>1, <1>2, <1>3

(* The flags keep their types in every step, and only the end of a        *)
(* provisioning changes the credentials in use.                            *)
LEMMA FlagsKept ==
  TypeOK /\ [Next]_vars =>
    \/ flags' \in FlagsWith(flags.active_credentials)
    \/ ProvisionCommit /\ flags' \in FlagsWith(trial.network)
    \/ RollbackFlags /\ flags' \in FlagsWith(trial.previous)
<1> DEFINE Same == FlagsWith(flags.active_credentials)
           Changed == \/ ProvisionCommit /\ flags' \in FlagsWith(trial.network)
                      \/ RollbackFlags /\ flags' \in FlagsWith(trial.previous)
<1> SUFFICES ASSUME flags \in FlagRecords, trial \in Trials, [Next]_vars
             PROVE  flags' \in Same \/ Changed
  BY TypeParts DEF FlagsType, WorkerType
<1> flags \in Same
  BY DEF FlagsWith
<1>a. /\ flags.sta_connect_attempts \in 0 .. StationAttempts
      /\ flags.sta_connected \in BOOLEAN
      /\ flags.active_credentials \in Credentials
  BY DEF FlagRecords
<1>b. trial.previous \in Credentials /\ trial.network \in Credentials
  BY DEF Trials
<1>c. ASSUME NEW b \in BOOLEAN
      PROVE  /\ [flags EXCEPT !.provisioning_active = b] \in Same
             /\ [flags EXCEPT !.fallback_retry_pending = b] \in Same
             /\ [flags EXCEPT !.sta_connected = b] \in Same
  BY SetFlag
<1>1. CASE UNCHANGED vars
  BY <1>1 DEF vars
<1>2. ASSUME NEW p \in Callers, schedule_sta_attempt(p) PROVE flags' \in Same
  <2>1. CASE ScheduleDecide(p)
    <3>1. (flags.sta_connect_attempts >= StationAttempts) \in BOOLEAN
      OBVIOUS
    <3>2. [flags EXCEPT !.sta_attempt_pending = TRUE,
                        !.ap_fallback_pending = flags.sta_connect_attempts >= StationAttempts] \in Same
      BY <3>1, SetFlag, Zenon
    <3> QED
      BY <2>1, <3>2 DEF ScheduleDecide
  <2>2. CASE ScheduleEnqueue(p)
    BY <2>2 DEF ScheduleEnqueue
  <2>3. CASE ScheduleUndo(p)
    BY <2>3, SetFlags DEF ScheduleUndo
  <2> QED
    BY <1>2, <2>1, <2>2, <2>3 DEF schedule_sta_attempt
<1>3. CASE Handler
  <2>1. CASE StationStart \/ SetBit
    BY <2>1 DEF StationStart, SetBit
  <2>2. CASE StationDisconnected
    BY <1>c, <2>2 DEF StationDisconnected
  <2>3. CASE StationGotIp
    BY <1>c, <2>3, SetFlags DEF StationGotIp
  <2> QED
    BY <1>2, <1>3, <2>1, <2>2, <2>3 DEF Handler, Callers
<1>4. CASE Timer
  BY <1>4, <1>c DEF Timer, TimerFires, TimerEnqueue, TimerUndo
<1>5. CASE Requester
  BY <1>5, <1>c DEF Requester, RequestEnqueue, RequestUndo, wifi_manager_provision
<1>6. CASE Driver
  BY <1>6 DEF Driver, Connects, FailsToConnect, Drops, LinkChanges, AccessPointClient
<1>7. CASE Provisioning
  <2>1. CASE ProvisionBegin
    <3>1. (flags.ap_fallback_active \/ flags.active_credentials = None) \in BOOLEAN
      OBVIOUS
    <3>2. [flags EXCEPT !.sta_enabled = TRUE,
                        !.ap_enabled = flags.ap_fallback_active
                                         \/ flags.active_credentials = None] \in Same
      BY <3>1, SetFlag, Zenon
    <3> QED
      BY <2>1, <3>2, SetFlags DEF ProvisionBegin
  <2>2. CASE ProvisionCommit
    <3>1. [flags EXCEPT !.active_credentials = trial.network] \in FlagsWith(trial.network)
      BY <1>b, SetCredentials
    <3>2. flags' \in FlagsWith(trial.network)
      BY <2>2, <3>1, SetFlags DEF ProvisionCommit
    <3> QED
      BY <2>2, <3>2
  <2>3. CASE RollbackFlags
    <3>1. ReturnsToAp \in BOOLEAN /\ (flags.sta_connected /\ ~ReturnsToAp) \in BOOLEAN
      BY DEF ReturnsToAp
    <3>2. [flags EXCEPT !.active_credentials = trial.previous] \in FlagsWith(trial.previous)
      BY <1>b, SetCredentials
    <3>3. [flags EXCEPT !.active_credentials = trial.previous, !.provisioning_active = TRUE,
                        !.sta_connected = @ /\ ~ReturnsToAp] \in FlagsWith(trial.previous)
      BY <3>1, <3>2, SetFlag, Zenon
    <3>4. flags' \in FlagsWith(trial.previous)
      BY <2>3, <3>1, <3>3, SetFlags DEF RollbackFlags
    <3> QED
      BY <2>3, <3>4
  <2>4. CASE RollbackDone \/ finish_provisioning
    BY <1>c, <2>4 DEF RollbackDone, finish_provisioning
  <2>5. CASE ProvisionClear \/ ProvisionReconfigure \/ RollbackConfigure \/ RollbackStart
    BY <2>5 DEF ProvisionClear, ProvisionReconfigure, RollbackConfigure, RollbackStart
  <2>6. ASSUME NEW ok \in BOOLEAN, ProvisionLeaveAp(ok) \/ ProvisionSave(ok)
        PROVE  flags' \in Same
    BY <2>6 DEF ProvisionLeaveAp, ProvisionSave
  <2> QED
    BY <1>7, <2>1, <2>2, <2>3, <2>4, <2>5, <2>6 DEF Provisioning
<1>8. CASE Retry
  <2>0. RetryEnds \in Same
    BY SetFlag, Zenon DEF RetryEnds
  <2>1. CASE RetryBegin
    BY <1>c, <2>1 DEF RetryBegin
  <2>2. CASE RetrySkip
    BY <2>0, <2>2, Zenon DEF RetrySkip
  <2>3. CASE RetryDone
    <3>1. Afresh(RetryEnds) \in Same
      BY <2>0, SetFlags, Zenon
    <3> QED
      BY <2>3, <3>1, SetFlags, Zenon DEF RetryDone
  <2>4. CASE RetryOver
    BY <2>0, <2>4, SetFlag, Zenon DEF RetryOver
  <2>5. CASE RetryReconfigure \/ RetryClear \/ RetryAbandon
    BY <2>5 DEF RetryReconfigure, RetryClear, RetryAbandon
  <2>6. ASSUME NEW ok \in BOOLEAN, RetryLeaveAp(ok) PROVE flags' \in Same
    BY <2>6 DEF RetryLeaveAp
  <2> QED
    BY <1>8, <2>1, <2>2, <2>3, <2>4, <2>5, <2>6 DEF Retry
<1>9. CASE Receive \/ FallbackSwitch \/ CandidateGotIp \/ CandidateMissed
  BY <1>9 DEF Receive, FallbackSwitch, CandidateGotIp, CandidateMissed
<1>10. CASE process_sta_attempt
  <2>1. [flags EXCEPT !.sta_attempt_pending = FALSE] \in Same
    BY SetFlag
  <2>2. flags.sta_connect_attempts < StationAttempts =>
          flags.sta_connect_attempts + 1 \in 0 .. StationAttempts
    BY <1>a, WifiAssumption
  <2>3. flags.sta_connect_attempts < StationAttempts =>
          [flags EXCEPT !.sta_attempt_pending = FALSE, !.sta_connect_attempts = @ + 1] \in Same
    BY <2>1, <2>2, SetAttempts, Zenon
  <2> QED
    BY <1>10, <2>1, <2>3 DEF process_sta_attempt
<1>11. CASE enter_ap_fallback
  <2>1. Calm(flags) \in Same
    BY SetFlags, Zenon
  <2>2. [Calm(flags) EXCEPT !.sta_connected = FALSE] \in Same
    BY <2>1, SetFlag, Zenon
  <2>3. Serving([Calm(flags) EXCEPT !.sta_connected = FALSE], TRUE) \in Same
    BY <2>2, SetFlags, Zenon
  <2> QED
    BY <1>11, <2>1, <2>3 DEF enter_ap_fallback
<1>12. ASSUME NEW a \in BOOLEAN, AttemptConnect(a) \/ CandidateConnect(a)
       PROVE  flags' \in Same
  BY <1>12 DEF AttemptConnect, CandidateConnect
<1> QED
  BY <1>1, <1>2, <1>3, <1>4, <1>5, <1>6, <1>7, <1>8, <1>9, <1>10, <1>11, <1>12
     DEF Next, Worker, Callers

(* So they keep their types. *)
LEMMA FlagsTypeKept == TypeOK /\ [Next]_vars => FlagsType'
BY FlagsKept DEF FlagsWith, FlagsType

-----------------------------------------------------------------------------
(* The queue keeps its type: every sender asks for room first. *)
LEMMA QueueTypeKept == TypeOK /\ [Next]_vars => QueueType'
<1> SUFFICES ASSUME TypeOK, [Next]_vars PROVE QueueType'
  OBVIOUS
<1>a. /\ queue \in Seq(WorkItems) /\ Len(queue) <= QueueLength
      /\ requester.network \in Credentials
      /\ \A p \in Callers : scheduling[p] \in {"idle", "called", "connect", "fallback", "full"}
  BY TypeParts DEF QueueType, RestType
<1>b. /\ \A type \in WorkTypes : Job(type) \in WorkItems
      /\ \A c \in Credentials : Work("provision", c) \in WorkItems
  BY DEF WorkItems, WorkTypes, Job, Work, Credentials
<1>c. ASSUME NEW w \in WorkItems, HasRoom, queue' = Append(queue, w) PROVE QueueType'
  BY <1>a, <1>c, AppendType DEF QueueType
<1>d. CASE UNCHANGED queue
  BY <1>a, <1>d DEF QueueType
<1>1. ASSUME NEW p \in Callers, schedule_sta_attempt(p) PROVE QueueType'
  <2>1. CASE ScheduleEnqueue(p)
    <3>1. Job(scheduling[p]) \in WorkItems
      BY <1>b, <2>1 DEF ScheduleEnqueue, WorkTypes
    <3> QED
      BY <1>c, <1>d, <2>1, <3>1 DEF ScheduleEnqueue
  <2>2. CASE ScheduleDecide(p) \/ ScheduleUndo(p)
    BY <1>d, <2>2 DEF ScheduleDecide, ScheduleUndo
  <2> QED
    BY <1>1, <2>1, <2>2 DEF schedule_sta_attempt
<1>2. CASE Handler
  <2>1. CASE StationStart \/ StationDisconnected \/ StationGotIp \/ SetBit
    BY <1>d, <2>1 DEF StationStart, StationDisconnected, StationGotIp, SetBit, Handle
  <2> QED
    BY <1>1, <1>2, <2>1 DEF Handler, Callers
<1>3. CASE Timer
  <2>1. Job("retry") \in WorkItems
    BY <1>b DEF WorkTypes
  <2>2. CASE TimerEnqueue
    BY <1>c, <1>d, <2>1, <2>2 DEF TimerEnqueue
  <2>3. CASE TimerFires \/ TimerUndo
    BY <1>d, <2>3 DEF TimerFires, TimerUndo
  <2> QED
    BY <1>3, <2>2, <2>3 DEF Timer
<1>4. CASE Requester
  <2>1. CASE RequestEnqueue
    <3>1. Work("provision", requester.network) \in WorkItems
      BY <1>a, <1>b
    <3> QED
      BY <1>c, <1>d, <2>1, <3>1 DEF RequestEnqueue
  <2>2. CASE RequestUndo \/ \E n \in Candidates : wifi_manager_provision(n)
    BY <1>d, <2>2 DEF RequestUndo, wifi_manager_provision
  <2> QED
    BY <1>4, <2>1, <2>2 DEF Requester
<1>5. CASE Driver
  <2>1. CASE AccessPointClient
    <3>1. Job("refresh") \in WorkItems
      BY <1>b DEF WorkTypes
    <3> QED
      BY <1>c, <2>1, <3>1 DEF AccessPointClient
  <2>2. CASE Connects \/ FailsToConnect \/ Drops
    BY <1>d, <2>2 DEF Connects, FailsToConnect, Drops, LinkChanges
  <2> QED
    BY <1>5, <2>1, <2>2 DEF Driver
<1>6. CASE Worker
  <2>1. CASE Receive
    BY <1>a, <2>1, TailType DEF Receive, QueueType
  <2>2. CASE \/ process_sta_attempt \/ enter_ap_fallback \/ FallbackSwitch
             \/ CandidateGotIp \/ CandidateMissed
             \/ \E accepted \in BOOLEAN : AttemptConnect(accepted) \/ CandidateConnect(accepted)
    BY <1>d, <2>2 DEF process_sta_attempt, enter_ap_fallback, FallbackSwitch, CandidateGotIp,
                      CandidateMissed, AttemptConnect, CandidateConnect
  <2>3. CASE Provisioning
    BY <1>d, <2>3 DEF Provisioning, ProvisionBegin, ProvisionClear, ProvisionReconfigure,
                      ProvisionCommit, RollbackConfigure, RollbackFlags, RollbackStart,
                      RollbackDone, finish_provisioning, ProvisionLeaveAp, ProvisionSave
  <2>4. CASE Retry
    BY <1>d, <2>4 DEF Retry, RetryBegin, RetrySkip, RetryReconfigure, RetryClear, RetryAbandon,
                      RetryDone, RetryOver, RetryLeaveAp
  <2> QED
    BY <1>1, <1>6, <2>1, <2>2, <2>3, <2>4 DEF Worker, Callers
<1>7. CASE UNCHANGED vars
  BY <1>d, <1>7 DEF vars
<1> QED
  BY <1>2, <1>3, <1>4, <1>5, <1>6, <1>7 DEF Next

-----------------------------------------------------------------------------
(* While the worker tries credentials it has attempts left and knows where *)
(* to go with an address.                                                  *)
Trying == worker \in TrialPlaces => trial.attempts > 0 /\ trial.then # "idle"

(* The locals of a trial are set one at a time. *)
LEMMA SetTrial ==
  ASSUME NEW t \in Trials
  PROVE  /\ \A c \in Credentials : /\ [t EXCEPT !.network = c] \in Trials
                                   /\ [t EXCEPT !.previous = c] \in Trials
         /\ \A b \in BOOLEAN : [t EXCEPT !.fallback = b] \in Trials
         /\ \A n \in 0 .. ProvisionAttempts + RetryAttempts : [t EXCEPT !.attempts = n] \in Trials
         /\ \A then \in {"idle", "leave AP", "save", "resume station"} :
              [t EXCEPT !.then = then] \in Trials
BY DEF Trials

LEMMA Attempts ==
  /\ ProvisionAttempts \in Nat /\ ProvisionAttempts > 0
  /\ RetryAttempts \in Nat /\ RetryAttempts > 0
  /\ ProvisionAttempts \in 0 .. ProvisionAttempts + RetryAttempts
  /\ RetryAttempts \in 0 .. ProvisionAttempts + RetryAttempts
BY WifiAssumption

(* One attempt fewer. *)
LEMMA OneFewer ==
  ASSUME NEW n \in 0 .. ProvisionAttempts + RetryAttempts, n > 0
  PROVE  /\ n \in Int
         /\ n - 1 \in 0 .. ProvisionAttempts + RetryAttempts
         /\ n > 1 => n - 1 > 0
BY Attempts

LEMMA NoTrialType == NoTrial \in Trials
<1>1. None \in Credentials /\ 0 \in 0 .. ProvisionAttempts + RetryAttempts
  BY WifiAssumption DEF Credentials
<1> QED
  BY <1>1 DEF NoTrial, Trials

(* A trial starts with all its attempts. *)
LEMMA TryType ==
  ASSUME trial \in Trials, NEW n \in {ProvisionAttempts, RetryAttempts},
         NEW then \in {"leave AP", "save", "resume station"}, Try(n, then)
  PROVE  worker' \in Places /\ trial' \in Trials /\ Trying'
<1>1. n \in 0 .. ProvisionAttempts + RetryAttempts /\ n > 0
  <2>1. CASE n = ProvisionAttempts
    BY <2>1, Attempts, Zenon
  <2>2. CASE n = RetryAttempts
    BY <2>2, Attempts, Zenon
  <2> QED
    BY <2>1, <2>2
<1>2. [trial EXCEPT !.attempts = n] \in Trials
  BY <1>1, SetTrial, Zenon
<1>3. trial' \in Trials
  BY <1>2, SetTrial, Zenon DEF Try
<1>4. trial'.attempts = n /\ trial'.then = then
  BY <1>3 DEF Try, Trials
<1> QED
  BY <1>1, <1>3, <1>4 DEF Try, Trying, Places, TrialPlaces

LEMMA WorkerTypeKept == TypeOK /\ Trying /\ [Next]_vars => WorkerType' /\ Trying'
<1> SUFFICES ASSUME TypeOK, Trying, [Next]_vars
             PROVE  worker' \in Places /\ trial' \in Trials /\ Trying'
  BY DEF WorkerType
<1>a. worker \in Places /\ trial \in Trials
  BY TypeParts DEF WorkerType
<1>b. /\ trial.attempts \in 0 .. ProvisionAttempts + RetryAttempts
      /\ trial.then \in {"idle", "leave AP", "save", "resume station"}
  BY <1>a DEF Trials
<1>c. flags.active_credentials \in Credentials /\ flags.ap_fallback_active \in BOOLEAN
  BY TypeParts DEF FlagsType, FlagRecords
<1>d. CASE UNCHANGED <<worker, trial>>
  BY <1>a, <1>d DEF Trying
<1>e. ASSUME worker' \in Places, worker' \notin TrialPlaces, trial' \in Trials
      PROVE  worker' \in Places /\ trial' \in Trials /\ Trying'
  BY <1>e DEF Trying
<1>f. /\ StationPlaces \cup ProvisioningPlaces \cup RetryPlaces \cup {"idle", "retry"} \subseteq Places
      /\ \A place \in StationPlaces \cup ProvisioningPlaces \cup RetryPlaces \cup {"idle", "retry"} :
           place \notin TrialPlaces
  BY DEF Places, StationPlaces, ProvisioningPlaces, RetryPlaces, TrialPlaces
<1>1. CASE Handler \/ Timer \/ Requester \/ Driver \/ schedule_sta_attempt("worker") \/ UNCHANGED vars
  BY <1>d, <1>1 DEF Handler, StationStart, StationDisconnected, StationGotIp, SetBit, Handle,
       schedule_sta_attempt, ScheduleDecide, ScheduleEnqueue, ScheduleUndo,
       Timer, TimerFires, TimerEnqueue, TimerUndo,
       Requester, RequestEnqueue, RequestUndo, wifi_manager_provision,
       Driver, Connects, FailsToConnect, Drops, LinkChanges, AccessPointClient, vars
<1>2. CASE Receive
  <2>1. Head(queue) \in WorkItems
    BY <1>2, TailType, TypeParts DEF Receive, QueueType
  <2>2. Head(queue).network \in Credentials /\ Head(queue).type \in WorkTypes
    BY <2>1 DEF WorkItems
  <2>3. trial' \in Trials
    BY <1>2, <1>b, <2>2, NoTrialType, SetTrial, Zenon DEF Receive
  <2>4. worker' \in StationPlaces \cup ProvisioningPlaces \cup {"idle", "retry"}
    BY <1>2, <2>2 DEF Receive, WorkTypes, StationPlaces, ProvisioningPlaces
  <2> QED
    BY <1>e, <1>f, <2>3, <2>4
<1>3. CASE process_sta_attempt \/ enter_ap_fallback \/ FallbackSwitch
           \/ \E accepted \in BOOLEAN : AttemptConnect(accepted)
  <2>1. worker' \in StationPlaces \cup {"idle"} /\ trial' = trial
    BY <1>3 DEF process_sta_attempt, enter_ap_fallback, FallbackSwitch, AttemptConnect, StationPlaces
  <2> QED
    BY <1>a, <1>e, <1>f, <2>1
<1>4. CASE \E accepted \in BOOLEAN : CandidateConnect(accepted)
  <2>1. worker \in TrialPlaces /\ worker' \in TrialPlaces /\ trial' = trial
    BY <1>4 DEF CandidateConnect, WorkerAt, TrialPlaces
  <2> QED
    BY <1>a, <2>1 DEF Trying, Places
<1>5. CASE CandidateGotIp
  <2>1. worker \in TrialPlaces /\ worker' = trial.then /\ trial' = trial
    BY <1>5 DEF CandidateGotIp, WorkerAt, TrialPlaces
  <2>2. worker' \in ProvisioningPlaces \cup RetryPlaces
    BY <1>b, <2>1 DEF Trying, ProvisioningPlaces, RetryPlaces
  <2> QED
    BY <1>a, <1>e, <1>f, <2>1, <2>2
<1>6. CASE CandidateMissed
  <2>1. worker \in TrialPlaces
    BY <1>6 DEF CandidateMissed, WorkerAt, TrialPlaces
  <2>2. trial.attempts > 0 /\ trial.then # "idle"
    BY <2>1 DEF Trying
  <2>3. /\ trial.attempts - 1 \in 0 .. ProvisionAttempts + RetryAttempts
        /\ trial.attempts > 1 => trial.attempts - 1 > 0
    BY <1>b, <2>2, OneFewer
  <2>4. trial' \in Trials
    BY <1>6, <1>a, <2>3, SetTrial DEF CandidateMissed
  <2>5. trial'.attempts = trial.attempts - 1 /\ trial'.then = trial.then
    BY <1>6, <1>a DEF CandidateMissed, Trials
  <2>6. CASE trial.attempts > 1
    <3>1. worker' = "try" /\ trial'.attempts > 0
      BY <1>6, <2>3, <2>5, <2>6 DEF CandidateMissed
    <3> QED
      BY <2>2, <2>4, <2>5, <3>1 DEF Trying, Places, TrialPlaces
  <2>7. CASE ~(trial.attempts > 1)
    <3>1. worker' \in ProvisioningPlaces \cup RetryPlaces
      BY <1>6, <2>7 DEF CandidateMissed, GivesUp, ProvisioningPlaces, RetryPlaces
    <3> QED
      BY <1>e, <1>f, <2>4, <3>1
  <2> QED
    BY <2>6, <2>7
<1>7. CASE Provisioning
  <2>1. CASE ProvisionBegin
    <3>1. [trial EXCEPT !.previous = flags.active_credentials] \in Trials
      BY <1>a, <1>b, <1>c, SetTrial, Zenon
    <3>2. trial' \in Trials
      BY <1>b, <1>c, <2>1, <3>1, SetTrial, Zenon DEF ProvisionBegin
    <3>3. worker' \in ProvisioningPlaces
      BY <2>1 DEF ProvisionBegin, ProvisioningPlaces
    <3> QED
      BY <1>e, <1>f, <3>2, <3>3
  <2>2. CASE ProvisionReconfigure
    <3>1. CASE Try(ProvisionAttempts, "leave AP") \/ Try(ProvisionAttempts, "save")
      BY <1>a, <3>1, TryType
    <3>2. CASE worker' = "roll back" /\ trial' = trial
      BY <1>a, <1>e, <1>f, <3>2 DEF ProvisioningPlaces
    <3> QED
      BY <2>2, <3>1, <3>2 DEF ProvisionReconfigure
  <2>3. ASSUME NEW ok \in BOOLEAN, ProvisionLeaveAp(ok) PROVE worker' \in Places /\ trial' \in Trials /\ Trying'
    <3>1. CASE Try(ProvisionAttempts, "save")
      BY <1>a, <3>1, TryType
    <3>2. CASE worker' \in {"roll back", "save"} /\ trial' = trial
      BY <1>a, <1>e, <1>f, <3>2 DEF ProvisioningPlaces
    <3> QED
      BY <2>3, <3>1, <3>2 DEF ProvisionLeaveAp
  <2>4. CASE \/ ProvisionClear \/ ProvisionCommit \/ RollbackConfigure \/ RollbackFlags
             \/ RollbackStart \/ RollbackDone \/ \E ok \in BOOLEAN : ProvisionSave(ok)
    <3>1. worker' \in ProvisioningPlaces /\ trial' = trial
      BY <2>4 DEF ProvisionClear, ProvisionCommit, RollbackConfigure, RollbackFlags, RollbackStart,
                  RollbackDone, ProvisionSave, ProvisioningPlaces
    <3> QED
      BY <1>a, <1>e, <1>f, <3>1
  <2>5. CASE finish_provisioning
    BY <1>e, <1>f, <2>5, NoTrialType DEF finish_provisioning
  <2> QED
    BY <1>7, <2>1, <2>2, <2>3, <2>4, <2>5 DEF Provisioning
<1>8. CASE Retry
  <2>1. CASE RetryBegin
    <3>1. trial' \in Trials
      BY <1>a, <1>b, <1>c, <2>1, SetTrial, Zenon DEF RetryBegin
    <3>2. worker' \in RetryPlaces \cup {"idle"}
      BY <2>1 DEF RetryBegin, RetryPlaces
    <3> QED
      BY <1>e, <1>f, <3>1, <3>2
  <2>2. CASE RetrySkip \/ RetryDone \/ RetryOver
    BY <1>e, <1>f, <2>2, NoTrialType DEF RetrySkip, RetryDone, RetryOver
  <2>3. CASE RetryClear
    BY <1>a, <2>3, TryType DEF RetryClear
  <2>4. CASE RetryReconfigure \/ RetryAbandon \/ \E ok \in BOOLEAN : RetryLeaveAp(ok)
    <3>1. worker' \in RetryPlaces /\ trial' = trial
      BY <2>4 DEF RetryReconfigure, RetryAbandon, RetryLeaveAp, RetryPlaces
    <3> QED
      BY <1>a, <1>e, <1>f, <3>1
  <2> QED
    BY <1>8, <2>1, <2>2, <2>3, <2>4 DEF Retry
<1> QED
  BY <1>1, <1>2, <1>3, <1>4, <1>5, <1>6, <1>7, <1>8 DEF Next, Worker

-----------------------------------------------------------------------------
(* What the driver may be told. *)
LEMMA SetDriver ==
  /\ \A mode \in {"AP", "STA", "APSTA", "off", "refused"}, c \in Credentials :
       Running(mode, c) \in Drivers
  /\ \A link \in {"down", "connecting", "up"} :
       driver \in Drivers => [driver EXCEPT !.link = link] \in Drivers
  /\ driver \in Drivers => [driver EXCEPT !.mode = "STA"] \in Drivers
BY DEF Running, Drivers, Credentials

LEMMA ConnectType ==
  ASSUME driver \in Drivers, NEW accepted \in BOOLEAN, esp_wifi_connect(accepted)
  PROVE  driver' \in Drivers
BY SetDriver DEF esp_wifi_connect

(* The driver and its events keep their types. *)
LEMMA DriverTypeKept == TypeOK /\ [Next]_vars => DriverType'
<1> SUFFICES ASSUME TypeOK, [Next]_vars PROVE DriverType'
  OBVIOUS
<1>a. driver \in Drivers /\ events \in Seq(EventNames)
  BY TypeParts DEF DriverType
<1>b. /\ trial.network \in Credentials /\ trial.previous \in Credentials
      /\ None \in Credentials
  BY TypeParts DEF WorkerType, Trials, Credentials
<1>c. CASE UNCHANGED <<driver, events>>
  BY <1>a, <1>c DEF DriverType
<1>d. ASSUME NEW mode \in {"AP", "STA", "APSTA"}, NEW c \in Credentials, Restart(mode, c)
      PROVE  DriverType'
  BY <1>a, <1>d, RestartType, SetDriver DEF DriverType
<1>e. ASSUME driver' \in Drivers, Post(Dropped) PROVE DriverType'
  BY <1>a, <1>e, EventSequences, PostType DEF DriverType
<1>f. ASSUME driver' \in Drivers, UNCHANGED events PROVE DriverType'
  BY <1>a, <1>f DEF DriverType
<1>g. /\ Running("refused", None) \in Drivers /\ Running("off", None) \in Drivers
      /\ Running("AP", None) \in Drivers /\ Running("APSTA", trial.network) \in Drivers
  BY <1>b, SetDriver
<1>h. CASE Refuse
  BY <1>e, <1>g, <1>h DEF Refuse
<1>1. CASE Handler
  <2>1. CASE StationStart \/ StationDisconnected \/ StationGotIp
    BY <1>a, <2>1 DEF StationStart, StationDisconnected, StationGotIp, Handle, DriverType
  <2>2. CASE SetBit \/ schedule_sta_attempt("handler")
    BY <1>c, <2>2 DEF SetBit, schedule_sta_attempt, ScheduleDecide, ScheduleEnqueue, ScheduleUndo
  <2> QED
    BY <1>1, <2>1, <2>2 DEF Handler
<1>2. CASE Timer \/ Requester \/ schedule_sta_attempt("worker") \/ UNCHANGED vars
  BY <1>c, <1>2 DEF Timer, TimerFires, TimerEnqueue, TimerUndo, Requester, RequestEnqueue, RequestUndo,
       wifi_manager_provision, schedule_sta_attempt, ScheduleDecide, ScheduleEnqueue, ScheduleUndo, vars
<1>3. CASE Driver
  <2>1. ASSUME NEW from, NEW to \in {"down", "connecting", "up"}, NEW event \in EventNames,
               LinkChanges(from, to, event)
        PROVE  DriverType'
    <3>1. driver' \in Drivers
      BY <1>a, <2>1, SetDriver DEF LinkChanges
    <3>2. events' \in Seq(EventNames)
      BY <1>a, <2>1, EventSequences, PostType DEF LinkChanges
    <3> QED
      BY <3>1, <3>2 DEF DriverType
  <2>2. CASE Connects \/ FailsToConnect \/ Drops
    BY <2>1, <2>2 DEF Connects, FailsToConnect, Drops, EventNames
  <2>3. CASE AccessPointClient
    BY <1>c, <2>3 DEF AccessPointClient
  <2> QED
    BY <1>3, <2>2, <2>3 DEF Driver
<1>4. CASE Receive \/ process_sta_attempt \/ enter_ap_fallback \/ CandidateGotIp \/ CandidateMissed
  BY <1>c, <1>4 DEF Receive, process_sta_attempt, enter_ap_fallback, CandidateGotIp, CandidateMissed
<1>5. CASE FallbackSwitch
  BY <1>b, <1>d, <1>h, <1>5 DEF FallbackSwitch
<1>6. ASSUME NEW accepted \in BOOLEAN, AttemptConnect(accepted) \/ CandidateConnect(accepted)
      PROVE  DriverType'
  BY <1>a, <1>f, <1>6, ConnectType DEF AttemptConnect, CandidateConnect
<1>7. CASE Provisioning
  <2>1. CASE ProvisionReconfigure
    BY <1>b, <1>c, <1>d, <1>h, <2>1 DEF ProvisionReconfigure
  <2>2. CASE RollbackConfigure
    BY <1>e, <1>g, <2>2 DEF RollbackConfigure
  <2>3. CASE RollbackStart
    <3>1. CASE Refuse
      BY <1>h, <3>1
    <3>2. CASE Restart("AP", trial.previous) \/ Restart("STA", trial.previous)
      BY <1>b, <1>d, <3>2
    <3> QED
      BY <2>3, <3>1, <3>2 DEF RollbackStart
  <2>4. ASSUME NEW ok \in BOOLEAN, ProvisionLeaveAp(ok) PROVE DriverType'
    BY <1>a, <1>f, <2>4, SetDriver DEF ProvisionLeaveAp
  <2>5. CASE \/ ProvisionBegin \/ ProvisionClear \/ ProvisionCommit \/ RollbackFlags
             \/ RollbackDone \/ finish_provisioning \/ \E ok \in BOOLEAN : ProvisionSave(ok)
    BY <1>c, <2>5 DEF ProvisionBegin, ProvisionClear, ProvisionCommit, RollbackFlags,
                      RollbackDone, finish_provisioning, ProvisionSave
  <2> QED
    BY <1>7, <2>1, <2>2, <2>3, <2>4, <2>5 DEF Provisioning
<1>8. CASE Retry
  <2>1. CASE RetryReconfigure
    <3>1. <<"start">> \in Seq(EventNames)
      BY EventSequences DEF EventNames
    <3> QED
      BY <1>a, <1>c, <1>g, <2>1, <3>1, PostType DEF RetryReconfigure, DriverType
  <2>2. CASE RetryAbandon
    BY <1>e, <1>g, <1>h, <2>2 DEF RetryAbandon
  <2>3. ASSUME NEW ok \in BOOLEAN, RetryLeaveAp(ok) PROVE DriverType'
    BY <1>a, <1>f, <2>3, SetDriver DEF RetryLeaveAp
  <2>4. CASE RetryBegin \/ RetrySkip \/ RetryClear \/ RetryDone \/ RetryOver
    BY <1>c, <2>4 DEF RetryBegin, RetrySkip, RetryClear, RetryDone, RetryOver
  <2> QED
    BY <1>8, <2>1, <2>2, <2>3, <2>4 DEF Retry
<1> QED
  BY <1>1, <1>2, <1>3, <1>4, <1>5, <1>6, <1>7, <1>8 DEF Next, Worker

(* The rest: where the other tasks are, the event bits and the flash. *)
LEMMA RestTypeKept == TypeOK /\ [Next]_vars => RestType'
<1> SUFFICES ASSUME TypeOK, [Next]_vars PROVE RestType'
  OBVIOUS
<1>a. RestType /\ trial.network \in Credentials
  BY TypeParts DEF WorkerType, Trials
<1>b. CASE UNCHANGED <<bits, handler, timer, requester, scheduling, stored>>
  BY <1>a, <1>b DEF RestType
<1>c. ASSUME NEW p \in Callers, NEW to \in {"idle", "called", "connect", "fallback", "full"}
      PROVE  [scheduling EXCEPT ![p] = to] \in
               [Callers -> {"idle", "called", "connect", "fallback", "full"}]
  BY <1>a DEF RestType
<1>d. ASSUME NEW p \in Callers, NEW to \in {"idle", "called", "connect", "fallback", "full"},
             scheduling' = [scheduling EXCEPT ![p] = to],
             UNCHANGED <<bits, handler, timer, requester, stored>>
      PROVE  RestType'
  BY <1>a, <1>c, <1>d DEF RestType
<1>e. ASSUME NEW p \in Callers, Call(p), UNCHANGED <<bits, handler, timer, requester, stored>>
      PROVE  RestType'
  BY <1>d, <1>e DEF Call
<1>f. ASSUME NEW new \in SUBSET {"got_ip", "disconnected"}, bits' = new,
             UNCHANGED <<timer, requester, scheduling, stored>>,
             handler' \in {handler, "idle"}
      PROVE  RestType'
  BY <1>a, <1>f DEF RestType
<1>g. "worker" \in Callers /\ "handler" \in Callers
  BY DEF Callers
<1>1. ASSUME NEW p \in Callers, schedule_sta_attempt(p) PROVE RestType'
  <2>1. CASE ScheduleDecide(p)
    BY <1>d, <2>1 DEF ScheduleDecide
  <2>2. CASE ScheduleEnqueue(p)
    BY <1>d, <2>2 DEF ScheduleEnqueue
  <2>3. CASE ScheduleUndo(p)
    BY <1>d, <2>3 DEF ScheduleUndo
  <2> QED
    BY <1>1, <2>1, <2>2, <2>3 DEF schedule_sta_attempt
<1>2. CASE Handler
  <2>1. CASE StationStart
    BY <1>e, <1>g, <2>1 DEF StationStart, Handle
  <2>2. CASE StationDisconnected
    <3>1. CASE flags.provisioning_active
      BY <1>a, <2>2, <3>1 DEF StationDisconnected, Handle, RestType
    <3>2. CASE ~flags.provisioning_active
      <4>1. UNCHANGED <<bits, handler, timer, requester, stored>>
        BY <2>2, <3>2 DEF StationDisconnected, Handle
      <4> QED
        BY <1>b, <1>e, <1>g, <2>2, <3>2, <4>1 DEF StationDisconnected
    <3> QED
      BY <3>1, <3>2
  <2>3. CASE StationGotIp
    BY <1>a, <2>3 DEF StationGotIp, Handle, RestType
  <2>4. CASE SetBit
    <3>1. bits \cup {handler} \in SUBSET {"got_ip", "disconnected"}
      BY <1>a, <2>4 DEF SetBit, RestType
    <3> QED
      BY <1>a, <1>f, <2>4, <3>1 DEF SetBit, RestType
  <2> QED
    BY <1>1, <1>2, <1>g, <2>1, <2>2, <2>3, <2>4 DEF Handler
<1>3. CASE Timer
  BY <1>a, <1>3 DEF Timer, TimerFires, TimerEnqueue, TimerUndo, RestType
<1>4. CASE Requester
  <2>1. CASE RequestEnqueue \/ RequestUndo
    BY <1>a, <2>1 DEF RequestEnqueue, RequestUndo, RestType, NoRequest, Credentials
  <2>2. ASSUME NEW n \in Candidates, wifi_manager_provision(n) PROVE RestType'
    <3>1. n \in Credentials
      BY WifiAssumption DEF Credentials
    <3> QED
      BY <1>a, <2>2, <3>1 DEF wifi_manager_provision, RestType
  <2> QED
    BY <1>4, <2>1, <2>2 DEF Requester
<1>5. CASE Driver
  BY <1>b, <1>5 DEF Driver, Connects, FailsToConnect, Drops, LinkChanges, AccessPointClient
<1>6. CASE Receive \/ process_sta_attempt \/ enter_ap_fallback \/ FallbackSwitch
           \/ \E accepted \in BOOLEAN : CandidateConnect(accepted)
  BY <1>b, <1>6 DEF Receive, process_sta_attempt, enter_ap_fallback, FallbackSwitch, CandidateConnect
<1>7. CASE CandidateGotIp \/ CandidateMissed
  BY <1>f, <1>7 DEF CandidateGotIp, CandidateMissed
<1>8. ASSUME NEW accepted \in BOOLEAN, AttemptConnect(accepted) PROVE RestType'
  BY <1>b, <1>e, <1>g, <1>8 DEF AttemptConnect
<1>9. CASE Provisioning
  <2>1. CASE ProvisionClear
    BY <1>f, <2>1 DEF ProvisionClear
  <2>2. ASSUME NEW ok \in BOOLEAN, ProvisionSave(ok) PROVE RestType'
    BY <1>a, <2>2 DEF ProvisionSave, RestType
  <2>3. CASE RollbackDone
    BY <1>b, <1>e, <1>g, <2>3 DEF RollbackDone
  <2>4. CASE \/ ProvisionBegin \/ ProvisionReconfigure \/ ProvisionCommit \/ RollbackConfigure
             \/ RollbackFlags \/ RollbackStart \/ finish_provisioning
             \/ \E ok \in BOOLEAN : ProvisionLeaveAp(ok)
    BY <1>b, <2>4 DEF ProvisionBegin, ProvisionReconfigure, ProvisionCommit, RollbackConfigure,
                      RollbackFlags, RollbackStart, finish_provisioning, ProvisionLeaveAp
  <2> QED
    BY <1>9, <2>1, <2>2, <2>3, <2>4 DEF Provisioning
<1>10. CASE Retry
  <2>1. CASE RetryClear
    BY <1>f, <2>1 DEF RetryClear
  <2>2. CASE \/ RetryBegin \/ RetrySkip \/ RetryReconfigure \/ RetryAbandon \/ RetryDone \/ RetryOver
             \/ \E ok \in BOOLEAN : RetryLeaveAp(ok)
    BY <1>b, <2>2 DEF RetryBegin, RetrySkip, RetryReconfigure, RetryAbandon, RetryDone, RetryOver,
                      RetryLeaveAp
  <2> QED
    BY <1>10, <2>1, <2>2 DEF Retry
<1>11. CASE UNCHANGED vars
  BY <1>b, <1>11 DEF vars
<1> QED
  BY <1>1, <1>2, <1>3, <1>4, <1>5, <1>6, <1>7, <1>8, <1>9, <1>10, <1>11, <1>g DEF Next, Worker

(* The state has its type in every run, for any number of networks,        *)
(* attempts and places in the queue; Trying makes it inductive.            *)
THEOREM TypeCorrect == Spec => [](TypeOK /\ Trying)
<1>1. Init => TypeOK /\ Trying
  <2>1. ASSUME NEW c \in Credentials, InitWith(c) PROVE Trying
    BY <2>1 DEF InitWith, Trying, TrialPlaces
  <2> QED
    BY <2>1, InitType DEF Init
<1>2. TypeOK /\ Trying /\ [Next]_vars => TypeOK' /\ Trying'
  <2> SUFFICES ASSUME TypeOK, Trying, [Next]_vars PROVE TypeOK' /\ Trying'
    OBVIOUS
  <2>1. FlagsType' /\ QueueType' /\ WorkerType' /\ Trying' /\ DriverType' /\ RestType'
    BY FlagsTypeKept, QueueTypeKept, WorkerTypeKept, DriverTypeKept, RestTypeKept
  <2>2. (FlagsType /\ QueueType /\ WorkerType /\ DriverType /\ RestType => TypeOK)'
    BY TypeParts, PTL
  <2> QED
    BY <2>1, <2>2
<1> QED
  BY <1>1, <1>2, PTL DEF Spec

-----------------------------------------------------------------------------
(* While the worker tries credentials of a provisioning, and until it has  *)
(* undone them, it remembers the ones in use; once it has saved them, flash *)
(* holds them.                                                             *)
Provisional ==
  \/ worker \in {"clear bits", "reconfigure", "leave AP", "save", "roll back", "restore"}
  \/ worker \in TrialPlaces /\ trial.then # "resume station"

Remembers ==
  /\ Provisional => trial.previous = flags.active_credentials
  /\ worker = "commit" => stored = trial.network

CredentialsKept == CredentialsMatchFlash /\ Remembers

(* An attempt more or less changes neither the previous credentials nor,   *)
(* for the network, what is tried.                                         *)
LEMMA TrialFields ==
  ASSUME trial \in Trials
  PROVE  /\ \A n, then : Try(n, then) => /\ trial'.previous = trial.previous
                                         /\ trial'.then = then /\ worker' = "try"
         /\ CandidateMissed => /\ trial'.previous = trial.previous
                               /\ trial'.then = trial.then
         /\ ProvisionBegin => trial'.previous = flags.active_credentials
BY DEF Try, CandidateMissed, ProvisionBegin, Trials

(* A step that keeps the credentials in use and in flash, and starts no    *)
(* provisional work that forgets them, keeps the invariant.                *)
LEMMA CredentialsFrame ==
  ASSUME CredentialsKept, worker # "commit", worker' # "commit", stored' = stored,
         flags'.active_credentials = flags.active_credentials,
         Provisional' => trial'.previous = flags.active_credentials
  PROVE  CredentialsKept'
BY DEF CredentialsKept, CredentialsMatchFlash, Remembers

LEMMA CredentialsKeptByStep ==
  TypeOK /\ Trying /\ CredentialsKept /\ [Next]_vars => CredentialsKept'
<1> SUFFICES ASSUME TypeOK, Trying, CredentialsKept, [Next]_vars PROVE CredentialsKept'
  OBVIOUS
<1>a. trial \in Trials /\ trial.then \in {"idle", "leave AP", "save", "resume station"}
  BY TypeParts DEF WorkerType, Trials
<1>b. \/ flags'.active_credentials = flags.active_credentials
      \/ ProvisionCommit /\ flags'.active_credentials = trial.network
      \/ RollbackFlags /\ flags'.active_credentials = trial.previous
  BY FlagsKept DEF FlagsWith
<1>c. ~ProvisionCommit /\ ~RollbackFlags => flags'.active_credentials = flags.active_credentials
  BY <1>b
<1>d. ASSUME ~ProvisionCommit, ~RollbackFlags, worker' = worker, trial' = trial, stored' = stored
      PROVE  CredentialsKept'
  BY <1>c, <1>d DEF CredentialsKept, CredentialsMatchFlash, Remembers, Provisional
<1>e. ASSUME worker # "commit", worker # "restore", worker' # "commit", stored' = stored, ~Provisional'
      PROVE  CredentialsKept'
  BY <1>c, <1>e, CredentialsFrame DEF ProvisionCommit, RollbackFlags, WorkerAt
<1>f. ASSUME worker # "commit", worker # "restore", worker' # "commit", stored' = stored,
             Provisional, trial'.previous = trial.previous
      PROVE  CredentialsKept'
  BY <1>c, <1>f, CredentialsFrame DEF ProvisionCommit, RollbackFlags, WorkerAt, CredentialsKept, Remembers
<1>1. CASE Handler \/ Timer \/ Requester \/ Driver \/ schedule_sta_attempt("worker") \/ UNCHANGED vars
  <2>1. worker' = worker /\ trial' = trial /\ stored' = stored
    BY <1>1 DEF Handler, StationStart, StationDisconnected, StationGotIp, SetBit, Handle,
         schedule_sta_attempt, ScheduleDecide, ScheduleEnqueue, ScheduleUndo,
         Timer, TimerFires, TimerEnqueue, TimerUndo,
         Requester, RequestEnqueue, RequestUndo, wifi_manager_provision,
         Driver, Connects, FailsToConnect, Drops, LinkChanges, AccessPointClient, vars
  <2>2. ~ProvisionCommit /\ ~RollbackFlags
    BY <2>1 DEF ProvisionCommit, RollbackFlags, WorkerAt
  <2> QED
    BY <1>d, <2>1, <2>2
<1>2. CASE Receive
  <2>1. Head(queue).type \in WorkTypes
    BY <1>2, TailType, TypeParts DEF Receive, QueueType, WorkItems
  <2>2. worker' \in WorkTypes \cup {"idle"} /\ worker = "idle" /\ stored' = stored
    BY <1>2, <2>1 DEF Receive, WorkerAt
  <2> QED
    BY <1>e, <2>2 DEF WorkTypes, Provisional, TrialPlaces
<1>3. CASE process_sta_attempt \/ enter_ap_fallback \/ FallbackSwitch
           \/ \E accepted \in BOOLEAN : AttemptConnect(accepted)
  BY <1>3, <1>e DEF process_sta_attempt, enter_ap_fallback, FallbackSwitch, AttemptConnect,
                    WorkerAt, Provisional, TrialPlaces
<1>4. CASE \E accepted \in BOOLEAN : CandidateConnect(accepted)
  <2>1. worker = "try" /\ worker' = "wait" /\ trial' = trial /\ stored' = stored
    BY <1>4 DEF CandidateConnect, WorkerAt
  <2> QED
    BY <1>e, <1>f, <2>1 DEF Provisional, TrialPlaces
<1>5. CASE CandidateGotIp
  <2>1. worker = "wait" /\ worker' = trial.then /\ trial' = trial /\ stored' = stored
    BY <1>5 DEF CandidateGotIp, WorkerAt
  <2> QED
    BY <1>a, <1>e, <1>f, <2>1 DEF Provisional, TrialPlaces
<1>6. CASE CandidateMissed
  <2>1. worker = "wait" /\ worker' \in {"try", GivesUp} /\ stored' = stored
    BY <1>6 DEF CandidateMissed, WorkerAt
  <2>2. trial'.previous = trial.previous /\ trial'.then = trial.then
    BY <1>6, <1>a, TrialFields
  <2>3. CASE trial.then = "resume station"
    BY <1>e, <2>1, <2>2, <2>3 DEF Provisional, TrialPlaces, GivesUp
  <2>4. CASE trial.then # "resume station"
    BY <1>f, <2>1, <2>2, <2>4 DEF Provisional, TrialPlaces, GivesUp
  <2> QED
    BY <2>3, <2>4
<1>7. CASE Provisioning
  <2>1. CASE ProvisionBegin
    <3>1. worker = "provision" /\ worker' = "clear bits" /\ stored' = stored
      BY <2>1 DEF ProvisionBegin, WorkerAt
    <3> QED
      BY <1>a, <1>c, <2>1, <3>1, TrialFields, CredentialsFrame
         DEF ProvisionCommit, RollbackFlags, WorkerAt
  <2>2. CASE ProvisionClear \/ RollbackConfigure
    BY <1>f, <2>2 DEF ProvisionClear, RollbackConfigure, WorkerAt, Provisional
  <2>3. CASE ProvisionReconfigure
    <3>1. worker = "reconfigure" /\ stored' = stored
      BY <2>3 DEF ProvisionReconfigure, WorkerAt
    <3>2. worker' \in {"try", "roll back"} /\ trial'.previous = trial.previous
      BY <1>a, <2>3, TrialFields DEF ProvisionReconfigure
    <3> QED
      BY <1>f, <3>1, <3>2 DEF Provisional
  <2>4. ASSUME NEW ok \in BOOLEAN, ProvisionLeaveAp(ok) PROVE CredentialsKept'
    <3>1. worker = "leave AP" /\ stored' = stored
      BY <2>4 DEF ProvisionLeaveAp, WorkerAt
    <3>2. worker' \in {"try", "save", "roll back"} /\ trial'.previous = trial.previous
      BY <1>a, <2>4, TrialFields DEF ProvisionLeaveAp
    <3> QED
      BY <1>f, <3>1, <3>2 DEF Provisional
  <2>5. ASSUME NEW ok \in BOOLEAN, ProvisionSave(ok) PROVE CredentialsKept'
    <3>1. worker = "save" /\ trial' = trial
      BY <2>5 DEF ProvisionSave, WorkerAt
    <3>2. CASE ok
      BY <2>5, <3>1, <3>2 DEF ProvisionSave, CredentialsKept, CredentialsMatchFlash,
                              Remembers, Provisional, TrialPlaces
    <3>3. CASE ~ok
      BY <1>f, <2>5, <3>1, <3>3 DEF ProvisionSave, Provisional
    <3> QED
      BY <3>2, <3>3
  <2>6. CASE ProvisionCommit
    <3>1. worker = "commit" /\ worker' = "finish" /\ stored' = stored
      BY <2>6 DEF ProvisionCommit, WorkerAt
    <3>2. stored = trial.network /\ flags'.active_credentials = trial.network
      <4>1. ~RollbackFlags
        BY <3>1 DEF RollbackFlags, WorkerAt
      <4>2. flags'.active_credentials = trial.network
        <5>1. flags \in FlagRecords
          BY TypeParts DEF FlagsType
        <5>2. [flags EXCEPT !.active_credentials = trial.network] \in FlagsWith(trial.network)
          BY <1>a, <5>1, SetCredentials DEF Trials
        <5> QED
          BY <2>6, <5>2, SetFlags DEF ProvisionCommit, FlagsWith
      <4> QED
        BY <3>1, <4>2 DEF CredentialsKept, Remembers
    <3> QED
      BY <3>1, <3>2 DEF CredentialsKept, CredentialsMatchFlash, Remembers, Provisional, TrialPlaces
  <2>7. CASE RollbackFlags
    <3>1. worker = "restore" /\ worker' = "start again" /\ stored' = stored
      BY <2>7 DEF RollbackFlags, WorkerAt
    <3>2. trial.previous = flags.active_credentials
      BY <3>1 DEF CredentialsKept, Remembers, Provisional
    <3>3. flags'.active_credentials = flags.active_credentials
      BY <1>b, <3>1, <3>2 DEF ProvisionCommit, WorkerAt
    <3> QED
      BY <3>1, <3>3, CredentialsFrame DEF Provisional, TrialPlaces
  <2>8. CASE RollbackStart \/ RollbackDone \/ finish_provisioning
    BY <1>e, <2>8 DEF RollbackStart, RollbackDone, finish_provisioning, WorkerAt, Provisional, TrialPlaces
  <2> QED
    BY <1>7, <2>1, <2>2, <2>3, <2>4, <2>5, <2>6, <2>7, <2>8 DEF Provisioning
<1>8. CASE Retry
  <2>1. CASE RetryClear
    <3>1. trial'.then = "resume station" /\ worker' = "try"
      BY <1>a, <2>1, TrialFields DEF RetryClear
    <3> QED
      BY <1>e, <2>1, <3>1 DEF RetryClear, WorkerAt, Provisional, TrialPlaces
  <2>2. CASE RetryBegin \/ RetrySkip \/ RetryReconfigure \/ RetryAbandon \/ RetryDone \/ RetryOver
    BY <1>e, <2>2 DEF RetryBegin, RetrySkip, RetryReconfigure, RetryAbandon, RetryDone,
                      RetryOver, WorkerAt, Provisional, TrialPlaces
  <2>3. ASSUME NEW ok \in BOOLEAN, RetryLeaveAp(ok) PROVE CredentialsKept'
    BY <1>e, <2>3 DEF RetryLeaveAp, WorkerAt, Provisional, TrialPlaces
  <2> QED
    BY <1>8, <2>1, <2>2, <2>3 DEF Retry
<1> QED
  BY <1>1, <1>2, <1>3, <1>4, <1>5, <1>6, <1>7, <1>8 DEF Next, Worker

(* Once credentials are in flash, the manager uses those and no others     *)
(* however a provisioning ends: it succeeds, fails at any step, cannot be   *)
(* saved or is interleaved with a fallback and its retries.                *)
THEOREM CredentialsAreKept == Spec => []CredentialsMatchFlash
<1>1. Init => CredentialsKept
  <2>1. ASSUME NEW c \in Credentials, InitWith(c) PROVE CredentialsKept
    BY <2>1 DEF InitWith, CredentialsKept, CredentialsMatchFlash, Remembers, Provisional, TrialPlaces
  <2> QED
    BY <2>1 DEF Init
<1>2. CredentialsKept => CredentialsMatchFlash
  BY DEF CredentialsKept
<1> QED
  BY <1>1, <1>2, TypeCorrect, CredentialsKeptByStep, PTL DEF Spec

-----------------------------------------------------------------------------
(* The marks, each with whoever will take it back. *)
Busy == ProvisioningPlaces \cup TrialPlaces \cup RetryPlaces

ProvisioningBacked ==
  flags.provisioning_active =>
    requester.at # "idle" \/ Queued({"provision"}) \/ worker \in Busy

Retrying ==
  \/ worker \in RetryPlaces \cup {"retry"}
  \/ worker \in TrialPlaces /\ trial.then = "resume station"

RetryBacked ==
  flags.fallback_retry_pending => timer # "idle" \/ Queued({"retry"}) \/ Retrying

Scheduling(places) == \E p \in Callers : scheduling[p] \in places

AttemptBacked ==
  flags.sta_attempt_pending =>
    \/ Scheduling({"connect", "fallback", "full"})
    \/ Queued({"connect", "fallback"}) \/ worker \in {"connect", "fallback"}

FallbackBacked ==
  flags.ap_fallback_pending =>
    Scheduling({"fallback", "full"}) \/ Queued({"fallback"}) \/ worker = "fallback"

LEMMA MarkParts ==
  MarksAreBacked <=> ProvisioningBacked /\ RetryBacked /\ AttemptBacked /\ FallbackBacked
BY DEF MarksAreBacked, ProvisioningBacked, RetryBacked, AttemptBacked, FallbackBacked,
       Busy, Retrying, Scheduling

(* What is in the queue stays there until the worker receives it. *)
LEMMA QueuedAppend ==
  ASSUME queue \in Seq(WorkItems), NEW w \in WorkItems, queue' = Append(queue, w), NEW types
  PROVE  /\ Queued(types) => Queued(types)'
         /\ w.type \in types => Queued(types)'
<1>1. Len(queue) \in Nat /\ Len(queue') = Len(queue) + 1
  OBVIOUS
<1>2. \A i \in 1 .. Len(queue) : i \in 1 .. Len(queue') /\ queue'[i] = queue[i]
  BY <1>1
<1>3. Len(queue') \in 1 .. Len(queue') /\ queue'[Len(queue')] = w
  BY <1>1
<1> QED
  BY <1>2, <1>3 DEF Queued

LEMMA QueuedTail ==
  ASSUME queue \in Seq(WorkItems), queue # <<>>, queue' = Tail(queue), NEW types,
         Queued(types), Head(queue).type \notin types
  PROVE  Queued(types)'
<1>1. PICK i \in 1 .. Len(queue) : queue[i].type \in types
  BY DEF Queued
<1>2. i # 1
  BY <1>1
<1>3. i - 1 \in 1 .. Len(queue') /\ queue'[i - 1] = queue[i]
  BY <1>1, <1>2
<1> QED
  BY <1>1, <1>3 DEF Queued

Grows == UNCHANGED queue \/ \E w \in WorkItems : queue' = Append(queue, w)

LEMMA QueueGrows ==
  ASSUME TypeOK, [Next]_vars, ~Receive
  PROVE  Grows
<1>a. /\ requester.network \in Credentials
      /\ \A p \in Callers : scheduling[p] \in {"idle", "called", "connect", "fallback", "full"}
  BY TypeParts DEF RestType
<1>b. /\ \A type \in WorkTypes : Job(type) \in WorkItems
      /\ \A c \in Credentials : Work("provision", c) \in WorkItems
  BY DEF WorkItems, WorkTypes, Job, Work, Credentials
<1>1. ASSUME NEW p \in Callers, schedule_sta_attempt(p) PROVE Grows
  <2>1. CASE ScheduleDecide(p) \/ ScheduleUndo(p)
    BY <2>1 DEF Grows, ScheduleDecide, ScheduleUndo
  <2>2. CASE ScheduleEnqueue(p)
    <3>1. scheduling[p] \in WorkTypes
      BY <2>2 DEF ScheduleEnqueue, WorkTypes
    <3>2. Job(scheduling[p]) \in WorkItems
      BY <3>1, <1>b
    <3>3. UNCHANGED queue \/ queue' = Append(queue, Job(scheduling[p]))
      BY <2>2 DEF ScheduleEnqueue
    <3> QED
      BY <3>2, <3>3 DEF Grows
  <2> QED
    BY <1>1, <2>1, <2>2 DEF schedule_sta_attempt
<1>2. CASE Handler
  <2>1. CASE StationStart \/ StationDisconnected \/ StationGotIp \/ SetBit
    BY <2>1 DEF Grows, StationStart, StationDisconnected, StationGotIp, SetBit, Handle
  <2> QED
    BY <1>1, <1>2, <2>1 DEF Handler, Callers
<1>3. CASE Timer
  <2>1. "retry" \in WorkTypes
    BY DEF WorkTypes
  <2> QED
    BY <1>3, <1>b, <2>1 DEF Grows, Timer, TimerFires, TimerEnqueue, TimerUndo
<1>4. CASE Requester
  BY <1>4, <1>a, <1>b DEF Grows, Requester, RequestEnqueue, RequestUndo, wifi_manager_provision
<1>5. CASE Driver
  <2>1. "refresh" \in WorkTypes
    BY DEF WorkTypes
  <2> QED
    BY <1>5, <1>b, <2>1 DEF Grows, Driver, AccessPointClient, Connects, FailsToConnect, Drops, LinkChanges
<1>6. CASE Worker
  <2>1. CASE schedule_sta_attempt("worker")
    BY <1>1, <2>1 DEF Callers
  <2>2. CASE Provisioning
    <3>1. ASSUME NEW ok \in BOOLEAN, ProvisionLeaveAp(ok) \/ ProvisionSave(ok) PROVE Grows
      BY <3>1 DEF Grows, ProvisionLeaveAp, ProvisionSave
    <3>2. CASE ProvisionBegin \/ ProvisionClear \/ ProvisionReconfigure \/ ProvisionCommit
      BY <3>2 DEF Grows, ProvisionBegin, ProvisionClear, ProvisionReconfigure, ProvisionCommit
    <3>3. CASE RollbackConfigure \/ RollbackFlags \/ RollbackStart \/ RollbackDone
               \/ finish_provisioning
      BY <3>3 DEF Grows, RollbackConfigure, RollbackFlags, RollbackStart, RollbackDone,
                  finish_provisioning
    <3> QED
      BY <2>2, <3>1, <3>2, <3>3 DEF Provisioning
  <2>3. CASE Retry
    <3>1. ASSUME NEW ok \in BOOLEAN, RetryLeaveAp(ok) PROVE Grows
      BY <3>1 DEF Grows, RetryLeaveAp
    <3>2. CASE RetryBegin \/ RetrySkip \/ RetryReconfigure \/ RetryClear \/ RetryAbandon
               \/ RetryDone \/ RetryOver
      BY <3>2 DEF Grows, RetryBegin, RetrySkip, RetryReconfigure, RetryClear, RetryAbandon,
                  RetryDone, RetryOver
    <3> QED
      BY <2>3, <3>1, <3>2 DEF Retry
  <2>4. ASSUME NEW a \in BOOLEAN, AttemptConnect(a) \/ CandidateConnect(a) PROVE Grows
    BY <2>4 DEF Grows, AttemptConnect, CandidateConnect
  <2>5. CASE process_sta_attempt \/ enter_ap_fallback \/ FallbackSwitch
             \/ CandidateGotIp \/ CandidateMissed
    BY <2>5 DEF Grows, process_sta_attempt, enter_ap_fallback, FallbackSwitch,
                CandidateGotIp, CandidateMissed
  <2> QED
    BY <1>6, <2>1, <2>2, <2>3, <2>4, <2>5 DEF Worker
<1>7. CASE UNCHANGED vars
  BY <1>7 DEF Grows, vars
<1> QED
  BY <1>2, <1>3, <1>4, <1>5, <1>6, <1>7 DEF Next

LEMMA QueuedKept ==
  ASSUME TypeOK, [Next]_vars, ~Receive, NEW types, Queued(types)
  PROVE  Queued(types)'
<1>1. queue \in Seq(WorkItems)
  BY TypeParts DEF QueueType
<1>2. CASE UNCHANGED queue
  BY <1>2 DEF Queued
<1>3. ASSUME NEW w \in WorkItems, queue' = Append(queue, w) PROVE Queued(types)'
  BY <1>1, <1>3, QueuedAppend
<1> QED
  BY <1>2, <1>3, QueueGrows DEF Grows

(* The four flags, one field at a time. *)
LEMMA MarkFields ==
  ASSUME NEW f \in FlagRecords
  PROVE  /\ Calm(f).provisioning_active = f.provisioning_active
         /\ Calm(f).fallback_retry_pending = f.fallback_retry_pending
         /\ Calm(f).sta_attempt_pending = FALSE
         /\ Calm(f).ap_fallback_pending = FALSE
         /\ Calm(f) \in FlagRecords
         /\ Afresh(f).provisioning_active = f.provisioning_active
         /\ Afresh(f).fallback_retry_pending = f.fallback_retry_pending
         /\ Afresh(f).sta_attempt_pending = FALSE
         /\ Afresh(f).ap_fallback_pending = FALSE
         /\ Afresh(f) \in FlagRecords
<1>1. /\ Calm(f).provisioning_active = f.provisioning_active
      /\ Calm(f).fallback_retry_pending = f.fallback_retry_pending
      /\ Calm(f).sta_attempt_pending = FALSE
      /\ Calm(f).ap_fallback_pending = FALSE
  BY DEF Calm, FlagRecords
<1>2. /\ Afresh(f).provisioning_active = f.provisioning_active
      /\ Afresh(f).fallback_retry_pending = f.fallback_retry_pending
      /\ Afresh(f).sta_attempt_pending = FALSE
      /\ Afresh(f).ap_fallback_pending = FALSE
  BY DEF Afresh, Calm, FlagRecords
<1>3. f \in FlagsWith(f.active_credentials)
  BY DEF FlagsWith
<1>4. Calm(f) \in FlagRecords /\ Afresh(f) \in FlagRecords
  BY <1>3, SetFlags DEF FlagsWith
<1> QED
  BY <1>1, <1>2, <1>4, Zenon

LEMMA ServingFields ==
  ASSUME NEW f \in FlagRecords, NEW ap
  PROVE  /\ Serving(f, ap).provisioning_active = f.provisioning_active
         /\ Serving(f, ap).fallback_retry_pending = f.fallback_retry_pending
         /\ Serving(f, ap).sta_attempt_pending = f.sta_attempt_pending
         /\ Serving(f, ap).ap_fallback_pending = f.ap_fallback_pending
BY DEF Serving, FlagRecords

LEMMA AfreshServingFields ==
  ASSUME NEW f \in FlagRecords, NEW ap
  PROVE  /\ Serving(Afresh(f), ap).provisioning_active = f.provisioning_active
         /\ Serving(Afresh(f), ap).fallback_retry_pending = f.fallback_retry_pending
         /\ Serving(Afresh(f), ap).sta_attempt_pending = FALSE
         /\ Serving(Afresh(f), ap).ap_fallback_pending = FALSE
<1>1. /\ Afresh(f) \in FlagRecords
      /\ Afresh(f).provisioning_active = f.provisioning_active
      /\ Afresh(f).fallback_retry_pending = f.fallback_retry_pending
      /\ Afresh(f).sta_attempt_pending = FALSE /\ Afresh(f).ap_fallback_pending = FALSE
  BY MarkFields
<1> DEFINE g == Afresh(f)
<1> HIDE DEF g
<1>2. g \in FlagRecords
  BY <1>1 DEF g
<1>3. /\ Serving(g, ap).provisioning_active = g.provisioning_active
      /\ Serving(g, ap).fallback_retry_pending = g.fallback_retry_pending
      /\ Serving(g, ap).sta_attempt_pending = g.sta_attempt_pending
      /\ Serving(g, ap).ap_fallback_pending = g.ap_fallback_pending
  BY <1>2, ServingFields
<1> QED
  BY <1>1, <1>3 DEF g

(* What each action makes of the marks: of those of a trial and of a retry, *)
(* and of those of a station's attempt.                                    *)
TrialMarks(p, r) ==
  flags'.provisioning_active = p /\ flags'.fallback_retry_pending = r

StationMarks(a, f) == flags'.sta_attempt_pending = a /\ flags'.ap_fallback_pending = f

SameTrialMarks == TrialMarks(flags.provisioning_active, flags.fallback_retry_pending)
SameStationMarks == StationMarks(flags.sta_attempt_pending, flags.ap_fallback_pending)

LEMMA ScheduleMarks ==
  ASSUME TypeOK, NEW p \in Callers, schedule_sta_attempt(p)
  PROVE  SameTrialMarks
<1> flags \in FlagRecords
  BY TypeParts DEF FlagsType
<1>1. CASE ScheduleDecide(p)
  BY <1>1 DEF ScheduleDecide, FlagRecords, SameTrialMarks, TrialMarks
<1>2. CASE ScheduleEnqueue(p)
  BY <1>2 DEF ScheduleEnqueue, SameTrialMarks, TrialMarks
<1>3. CASE ScheduleUndo(p)
  BY <1>3, MarkFields DEF ScheduleUndo, SameTrialMarks, TrialMarks
<1> QED
  BY <1>1, <1>2, <1>3 DEF schedule_sta_attempt

LEMMA HandlerMarks ==
  ASSUME TypeOK
  PROVE  /\ StationDisconnected => SameTrialMarks /\ SameStationMarks
         /\ StationGotIp => SameTrialMarks /\ StationMarks(FALSE, FALSE)
<1> flags \in FlagRecords
  BY TypeParts DEF FlagsType
<1> USE DEF SameTrialMarks, TrialMarks, SameStationMarks, StationMarks
<1>1. CASE StationDisconnected
  BY <1>1 DEF StationDisconnected, StationGotIp, Handle, FlagRecords
<1>2. ASSUME StationGotIp PROVE SameTrialMarks /\ StationMarks(FALSE, FALSE)
  <2> DEFINE f == [flags EXCEPT !.sta_connected = TRUE]
  <2>1. /\ f \in FlagRecords
        /\ f.provisioning_active = flags.provisioning_active
        /\ f.fallback_retry_pending = flags.fallback_retry_pending
    BY DEF FlagRecords
  <2>2. flags' = Afresh(f)
    BY <1>2 DEF StationGotIp
  <2> HIDE DEF f
  <2> QED
    BY <2>1, <2>2, MarkFields
<1>3. StationDisconnected => SameTrialMarks /\ SameStationMarks
  BY DEF StationDisconnected, FlagRecords
<1> QED
  BY <1>2, <1>3

LEMMA StationWorkMarks ==
  ASSUME TypeOK
  PROVE  /\ process_sta_attempt =>
              SameTrialMarks /\ StationMarks(FALSE, flags.ap_fallback_pending)
         /\ enter_ap_fallback => SameTrialMarks /\ StationMarks(FALSE, FALSE)
<1> flags \in FlagRecords
  BY TypeParts DEF FlagsType
<1> USE DEF SameTrialMarks, TrialMarks, StationMarks
<1>1. process_sta_attempt =>
        SameTrialMarks /\ StationMarks(FALSE, flags.ap_fallback_pending)
  BY DEF process_sta_attempt, FlagRecords
<1>2. ASSUME enter_ap_fallback PROVE SameTrialMarks /\ StationMarks(FALSE, FALSE)
  <2> DEFINE f == [Calm(flags) EXCEPT !.sta_connected = FALSE]
  <2>1. /\ f \in FlagRecords
        /\ f.provisioning_active = flags.provisioning_active
        /\ f.fallback_retry_pending = flags.fallback_retry_pending
        /\ f.sta_attempt_pending = FALSE /\ f.ap_fallback_pending = FALSE
    <3>1. Calm(flags) \in FlagRecords
      BY MarkFields
    <3>2. /\ f \in FlagRecords
          /\ f.provisioning_active = Calm(flags).provisioning_active
          /\ f.fallback_retry_pending = Calm(flags).fallback_retry_pending
          /\ f.sta_attempt_pending = Calm(flags).sta_attempt_pending
          /\ f.ap_fallback_pending = Calm(flags).ap_fallback_pending
      BY <3>1 DEF FlagRecords
    <3> QED
      BY <3>2, MarkFields
  <2>2. flags' = Serving(f, TRUE) \/ flags' = Calm(flags)
    BY <1>2 DEF enter_ap_fallback
  <2> HIDE DEF f
  <2>3. /\ Serving(f, TRUE).provisioning_active = f.provisioning_active
        /\ Serving(f, TRUE).fallback_retry_pending = f.fallback_retry_pending
        /\ Serving(f, TRUE).sta_attempt_pending = f.sta_attempt_pending
        /\ Serving(f, TRUE).ap_fallback_pending = f.ap_fallback_pending
    BY <2>1, ServingFields
  <2>4. /\ Calm(flags).provisioning_active = flags.provisioning_active
        /\ Calm(flags).fallback_retry_pending = flags.fallback_retry_pending
        /\ Calm(flags).sta_attempt_pending = FALSE /\ Calm(flags).ap_fallback_pending = FALSE
    BY MarkFields
  <2> QED
    BY <2>1, <2>2, <2>3, <2>4
<1> QED
  BY <1>1, <1>2

LEMMA ProvisioningMarks ==
  ASSUME TypeOK
  PROVE  /\ ProvisionBegin => SameTrialMarks /\ StationMarks(FALSE, FALSE)
         /\ ProvisionCommit => SameTrialMarks /\ StationMarks(FALSE, FALSE)
         /\ RollbackFlags =>
              TrialMarks(TRUE, flags.fallback_retry_pending) /\ StationMarks(FALSE, FALSE)
         /\ RollbackDone \/ finish_provisioning \/ RequestUndo =>
              TrialMarks(FALSE, flags.fallback_retry_pending) /\ SameStationMarks
         /\ \A n \in Candidates : wifi_manager_provision(n) =>
              TrialMarks(TRUE, flags.fallback_retry_pending) /\ SameStationMarks
<1> flags \in FlagRecords /\ trial \in Trials
  BY TypeParts DEF FlagsType, WorkerType
<1>c. flags.active_credentials \in Credentials /\ trial.previous \in Credentials
      /\ trial.network \in Credentials /\ flags.sta_connected \in BOOLEAN
  BY DEF FlagRecords, Trials
<1> USE DEF SameTrialMarks, TrialMarks, SameStationMarks, StationMarks
<1>1. ASSUME ProvisionBegin PROVE SameTrialMarks /\ StationMarks(FALSE, FALSE)
  <2> DEFINE f == [flags EXCEPT !.sta_enabled = TRUE,
                                !.ap_enabled = flags.ap_fallback_active
                                                 \/ flags.active_credentials = None]
  <2>1. /\ f.provisioning_active = flags.provisioning_active
        /\ f.fallback_retry_pending = flags.fallback_retry_pending
    BY DEF FlagRecords
  <2>2. f \in FlagRecords
    <3>1. (flags.ap_fallback_active \/ flags.active_credentials = None) \in BOOLEAN
      OBVIOUS
    <3>2. flags \in FlagsWith(flags.active_credentials)
      BY DEF FlagsWith
    <3> QED
      BY <3>1, <3>2, SetFlag, Zenon DEF FlagsWith
  <2>3. flags' = Afresh(f)
    BY <1>1 DEF ProvisionBegin
  <2> HIDE DEF f
  <2> QED
    BY <2>1, <2>2, <2>3, MarkFields
<1>2. ASSUME ProvisionCommit PROVE SameTrialMarks /\ StationMarks(FALSE, FALSE)
  <2> DEFINE f == [flags EXCEPT !.active_credentials = trial.network]
  <2>1. /\ f \in FlagRecords
        /\ f.provisioning_active = flags.provisioning_active
        /\ f.fallback_retry_pending = flags.fallback_retry_pending
    BY <1>c DEF FlagRecords
  <2>2. flags' = Serving(Afresh(f), FALSE)
    BY <1>2 DEF ProvisionCommit
  <2> HIDE DEF f
  <2>3. /\ flags'.provisioning_active = f.provisioning_active
        /\ flags'.fallback_retry_pending = f.fallback_retry_pending
        /\ flags'.sta_attempt_pending = FALSE /\ flags'.ap_fallback_pending = FALSE
    BY <2>1, <2>2, AfreshServingFields
  <2> QED
    BY <2>1, <2>3
<1>3. ASSUME RollbackFlags
      PROVE  TrialMarks(TRUE, flags.fallback_retry_pending) /\ StationMarks(FALSE, FALSE)
  <2> DEFINE connected == flags.sta_connected /\ ~ReturnsToAp
             f == [flags EXCEPT !.active_credentials = trial.previous,
                                !.provisioning_active = TRUE, !.sta_connected = connected]
  <2>0. connected \in BOOLEAN
    BY DEF ReturnsToAp
  <2>1. flags' = Serving(Afresh(f), ReturnsToAp)
    BY <1>3 DEF RollbackFlags
  <2> HIDE DEF connected
  <2>2. /\ f \in FlagRecords
        /\ f.provisioning_active = TRUE
        /\ f.fallback_retry_pending = flags.fallback_retry_pending
    BY <1>c, <2>0 DEF FlagRecords
  <2> HIDE DEF f
  <2>3. /\ flags'.provisioning_active = f.provisioning_active
        /\ flags'.fallback_retry_pending = f.fallback_retry_pending
        /\ flags'.sta_attempt_pending = FALSE /\ flags'.ap_fallback_pending = FALSE
    BY <2>1, <2>2, AfreshServingFields
  <2> QED
    BY <2>2, <2>3
<1>4. RollbackDone \/ finish_provisioning \/ RequestUndo =>
        TrialMarks(FALSE, flags.fallback_retry_pending) /\ SameStationMarks
  BY DEF RollbackDone, finish_provisioning, RequestUndo, FlagRecords
<1>5. \A n \in Candidates : wifi_manager_provision(n) =>
        TrialMarks(TRUE, flags.fallback_retry_pending) /\ SameStationMarks
  BY DEF wifi_manager_provision, FlagRecords
<1> QED
  BY <1>1, <1>2, <1>3, <1>4, <1>5

LEMMA RetryMarks ==
  ASSUME TypeOK
  PROVE  /\ RetryBegin => /\ SameStationMarks
                          /\ \/ /\ TrialMarks(TRUE, flags.fallback_retry_pending)
                                /\ worker' = "look for clients"
                             \/ TrialMarks(flags.provisioning_active, FALSE)
         /\ RetrySkip \/ RetryOver => TrialMarks(FALSE, FALSE) /\ SameStationMarks
         /\ RetryDone => TrialMarks(FALSE, FALSE) /\ StationMarks(FALSE, FALSE)
         /\ TimerFires => TrialMarks(flags.provisioning_active, TRUE) /\ SameStationMarks
         /\ TimerUndo => TrialMarks(flags.provisioning_active, FALSE) /\ SameStationMarks
<1> flags \in FlagRecords
  BY TypeParts DEF FlagsType
<1> USE DEF SameTrialMarks, TrialMarks, SameStationMarks, StationMarks
<1>0. /\ RetryEnds \in FlagRecords
      /\ RetryEnds.provisioning_active = FALSE /\ RetryEnds.fallback_retry_pending = FALSE
      /\ RetryEnds.sta_attempt_pending = flags.sta_attempt_pending
      /\ RetryEnds.ap_fallback_pending = flags.ap_fallback_pending
  BY DEF RetryEnds, FlagRecords
<1>1. RetryBegin => /\ SameStationMarks
                    /\ \/ /\ TrialMarks(TRUE, flags.fallback_retry_pending)
                          /\ worker' = "look for clients"
                       \/ TrialMarks(flags.provisioning_active, FALSE)
  BY DEF RetryBegin, FlagRecords
<1>2. RetrySkip => TrialMarks(FALSE, FALSE) /\ SameStationMarks
  BY <1>0 DEF RetrySkip
<1>3. ASSUME RetryOver PROVE TrialMarks(FALSE, FALSE) /\ SameStationMarks
  <2>1. flags' = [RetryEnds EXCEPT !.sta_connected = FALSE]
    BY <1>3 DEF RetryOver
  <2> QED
    BY <1>0, <2>1 DEF FlagRecords
<1>4. ASSUME RetryDone PROVE TrialMarks(FALSE, FALSE) /\ StationMarks(FALSE, FALSE)
  <2>1. flags' = Serving(Afresh(RetryEnds), FALSE)
    BY <1>4 DEF RetryDone
  <2>2. /\ flags'.provisioning_active = RetryEnds.provisioning_active
        /\ flags'.fallback_retry_pending = RetryEnds.fallback_retry_pending
        /\ flags'.sta_attempt_pending = FALSE /\ flags'.ap_fallback_pending = FALSE
    BY <1>0, <2>1, AfreshServingFields
  <2> QED
    BY <1>0, <2>2
<1>5. TimerFires => TrialMarks(flags.provisioning_active, TRUE) /\ SameStationMarks
  BY DEF TimerFires, FlagRecords
<1>6. TimerUndo => TrialMarks(flags.provisioning_active, FALSE) /\ SameStationMarks
  BY DEF TimerUndo, FlagRecords
<1> QED
  BY <1>1, <1>2, <1>3, <1>4, <1>5, <1>6

(* A step that sets no mark and takes nobody away who would take one back. *)
LEMMA ProvisioningFrame ==
  ASSUME ProvisioningBacked, Queued({"provision"}) => Queued({"provision"})',
         flags'.provisioning_active => flags.provisioning_active,
         UNCHANGED requester, worker \in Busy => worker' \in Busy
  PROVE  ProvisioningBacked'
BY DEF ProvisioningBacked

LEMMA RetryFrame ==
  ASSUME RetryBacked, Queued({"retry"}) => Queued({"retry"})',
         flags'.fallback_retry_pending => flags.fallback_retry_pending,
         UNCHANGED timer, Retrying => Retrying'
  PROVE  RetryBacked'
BY DEF RetryBacked

StationKept ==
  /\ flags'.sta_attempt_pending => flags.sta_attempt_pending
  /\ flags'.ap_fallback_pending => flags.ap_fallback_pending
  /\ worker \in {"connect", "fallback"} => worker' = worker
  /\ \A p \in Callers : scheduling[p] \in {"connect", "fallback", "full"} =>
                        scheduling'[p] = scheduling[p]

LEMMA StationFrame ==
  ASSUME AttemptBacked, FallbackBacked, StationKept,
         Queued({"connect", "fallback"}) => Queued({"connect", "fallback"})',
         Queued({"fallback"}) => Queued({"fallback"})'
  PROVE  AttemptBacked' /\ FallbackBacked'
<1>1. AttemptBacked'
  <2>1. Scheduling({"connect", "fallback", "full"}) => Scheduling({"connect", "fallback", "full"})'
    BY DEF Scheduling, StationKept
  <2> QED
    BY <2>1 DEF AttemptBacked, StationKept
<1>2. FallbackBacked'
  <2>1. Scheduling({"fallback", "full"}) => Scheduling({"fallback", "full"})'
    BY DEF Scheduling, StationKept
  <2> QED
    BY <2>1 DEF FallbackBacked, StationKept
<1> QED
  BY <1>1, <1>2

(* The worker takes the work of a mark. *)
LEMMA ReceiveKeepsMarks ==
  ASSUME TypeOK, MarksAreBacked, Receive
  PROVE  MarksAreBacked'
<1>a. ProvisioningBacked /\ RetryBacked /\ AttemptBacked /\ FallbackBacked
  BY MarkParts
<1>b. queue \in Seq(WorkItems) /\ queue # <<>> /\ queue' = Tail(queue)
  BY TypeParts DEF QueueType, Receive
<1>c. /\ UNCHANGED <<flags, requester, timer, scheduling>>
      /\ worker = "idle"
      /\ worker' = IF Head(queue).type = "refresh" THEN "idle" ELSE Head(queue).type
  BY DEF Receive, WorkerAt
<1>1. ProvisioningBacked'
  <2>1. CASE Head(queue).type = "provision"
    BY <1>c, <2>1 DEF ProvisioningBacked, Busy, ProvisioningPlaces
  <2>2. CASE Head(queue).type # "provision"
    <3>1. Queued({"provision"}) => Queued({"provision"})'
      BY <1>b, <2>2, QueuedTail
    <3>2. worker \notin Busy
      BY <1>c DEF Busy, ProvisioningPlaces, TrialPlaces, RetryPlaces
    <3> QED
      BY <1>a, <1>c, <3>1, <3>2 DEF ProvisioningBacked
  <2> QED
    BY <2>1, <2>2
<1>2. RetryBacked'
  <2>1. CASE Head(queue).type = "retry"
    BY <1>c, <2>1 DEF RetryBacked, Retrying
  <2>2. CASE Head(queue).type # "retry"
    <3>1. Queued({"retry"}) => Queued({"retry"})'
      BY <1>b, <2>2, QueuedTail
    <3>2. ~Retrying
      BY <1>c DEF Retrying, TrialPlaces, RetryPlaces
    <3> QED
      BY <1>a, <1>c, <3>1, <3>2 DEF RetryBacked
  <2> QED
    BY <2>1, <2>2
<1>3. AttemptBacked'
  <2>1. CASE Head(queue).type \in {"connect", "fallback"}
    BY <1>c, <2>1 DEF AttemptBacked
  <2>2. CASE Head(queue).type \notin {"connect", "fallback"}
    <3>1. Queued({"connect", "fallback"}) => Queued({"connect", "fallback"})'
      BY <1>b, <2>2, QueuedTail
    <3> QED
      BY <1>a, <1>c, <3>1 DEF AttemptBacked, Scheduling
  <2> QED
    BY <2>1, <2>2
<1>4. FallbackBacked'
  <2>1. CASE Head(queue).type = "fallback"
    BY <1>c, <2>1 DEF FallbackBacked
  <2>2. CASE Head(queue).type # "fallback"
    <3>1. Queued({"fallback"}) => Queued({"fallback"})'
      BY <1>b, <2>2, QueuedTail
    <3> QED
      BY <1>a, <1>c, <3>1 DEF FallbackBacked, Scheduling
  <2> QED
    BY <2>1, <2>2
<1> QED
  BY <1>1, <1>2, <1>3, <1>4, MarkParts, Zenon
  DEF MarksAreBacked, ProvisioningBacked, RetryBacked, AttemptBacked, FallbackBacked,
      Busy, Retrying, Scheduling

LEMMA ScheduleKeepsStationMarks ==
  ASSUME TypeOK, [Next]_vars, ~Receive, AttemptBacked, FallbackBacked,
         NEW p \in Callers, schedule_sta_attempt(p)
  PROVE  AttemptBacked' /\ FallbackBacked'
<1>a. /\ flags \in FlagRecords /\ queue \in Seq(WorkItems)
      /\ scheduling \in [Callers -> {"idle", "called", "connect", "fallback", "full"}]
  BY TypeParts DEF FlagsType, QueueType, RestType
<1>b. /\ Queued({"connect", "fallback"}) => Queued({"connect", "fallback"})'
      /\ Queued({"fallback"}) => Queued({"fallback"})'
  BY QueuedKept
<1>1. CASE ScheduleDecide(p) /\ MaySchedule
  <2>1. /\ scheduling'[p] \in {"connect", "fallback"}
        /\ flags'.ap_fallback_pending => scheduling'[p] = "fallback"
    BY <1>1, <1>a DEF ScheduleDecide, FlagRecords
  <2> QED
    BY <2>1 DEF AttemptBacked, FallbackBacked, Scheduling
<1>2. CASE ScheduleDecide(p) /\ ~MaySchedule
  <2>1. StationKept
    BY <1>2, <1>a DEF ScheduleDecide, StationKept
  <2> QED
    BY <1>b, <2>1, StationFrame
<1>3. CASE ScheduleEnqueue(p) /\ HasRoom
  <2>1. /\ scheduling[p] \in {"connect", "fallback"}
        /\ queue' = Append(queue, Job(scheduling[p]))
        /\ UNCHANGED <<flags, worker>>
        /\ \A q \in Callers : q # p => scheduling'[q] = scheduling[q]
    BY <1>3, <1>a DEF ScheduleEnqueue
  <2>2. Job(scheduling[p]) \in WorkItems /\ Job(scheduling[p]).type = scheduling[p]
    BY <2>1 DEF Job, Work, WorkItems, WorkTypes, Credentials
  <2>3. /\ Queued({"connect", "fallback"})'
        /\ scheduling[p] = "fallback" => Queued({"fallback"})'
    BY <1>a, <2>1, <2>2, QueuedAppend
  <2>4. scheduling[p] = "connect" /\ Scheduling({"fallback", "full"})
          => Scheduling({"fallback", "full"})'
    BY <2>1 DEF Scheduling
  <2> QED
    BY <1>b, <2>1, <2>3, <2>4 DEF AttemptBacked, FallbackBacked
<1>4. CASE ScheduleEnqueue(p) /\ ~HasRoom
  <2>1. scheduling'[p] = "full"
    BY <1>4, <1>a DEF ScheduleEnqueue
  <2> QED
    BY <2>1 DEF AttemptBacked, FallbackBacked, Scheduling
<1>5. CASE ScheduleUndo(p)
  <2>1. flags'.sta_attempt_pending = FALSE /\ flags'.ap_fallback_pending = FALSE
    BY <1>5, <1>a, MarkFields DEF ScheduleUndo
  <2> QED
    BY <2>1 DEF AttemptBacked, FallbackBacked
<1> QED
  BY <1>1, <1>2, <1>3, <1>4, <1>5 DEF schedule_sta_attempt

StationBacked == AttemptBacked /\ FallbackBacked

(* Everyone else leaves the marks of a station's attempt to their holders, *)
(* or clears them.                                                         *)
LEMMA StationMarksKept ==
  ASSUME TypeOK, [Next]_vars, ~Receive, StationBacked
  PROVE  StationBacked'
<1>a. /\ flags \in FlagRecords
      /\ scheduling \in [Callers -> {"idle", "called", "connect", "fallback", "full"}]
  BY TypeParts DEF FlagsType, RestType
<1>b. /\ Queued({"connect", "fallback"}) => Queued({"connect", "fallback"})'
      /\ Queued({"fallback"}) => Queued({"fallback"})'
  BY QueuedKept
<1>c. ASSUME StationKept PROVE StationBacked'
  BY <1>b, <1>c, StationFrame DEF StationBacked
<1>d. ASSUME StationMarks(FALSE, FALSE) PROVE StationBacked'
  BY <1>d DEF StationBacked, StationMarks, AttemptBacked, FallbackBacked
<1>e. ASSUME UNCHANGED flags, UNCHANGED scheduling,
             worker \in {"connect", "fallback"} => worker' = worker
      PROVE  StationKept
  BY <1>e DEF StationKept
<1>f. ASSUME SameStationMarks,
             UNCHANGED scheduling \/ \E p \in Callers : scheduling[p] = "idle" /\ Call(p),
             worker \in {"connect", "fallback"} => worker' = worker
      PROVE  StationKept
  BY <1>a, <1>f DEF StationKept, SameStationMarks, StationMarks, Call
<1>1. ASSUME NEW p \in Callers, schedule_sta_attempt(p) PROVE StationBacked'
  BY <1>1, ScheduleKeepsStationMarks DEF StationBacked
<1>2. CASE Handler
  <2>1. CASE SetBit
    BY <1>c, <1>e, <2>1 DEF SetBit
  <2>2. CASE StationStart \/ StationDisconnected
    <3>1. SameStationMarks
      BY <2>2, HandlerMarks DEF StationStart, SameStationMarks, StationMarks
    <3>2. UNCHANGED scheduling \/ (scheduling["handler"] = "idle" /\ Call("handler"))
      BY <2>2 DEF StationStart, StationDisconnected, Handle, HandlerFree
    <3>3. worker' = worker
      BY <2>2 DEF StationStart, StationDisconnected, Handle
    <3> QED
      BY <1>c, <1>f, <3>1, <3>2, <3>3 DEF Callers
  <2>3. CASE StationGotIp
    BY <1>d, <2>3, HandlerMarks
  <2> QED
    BY <1>1, <1>2, <2>1, <2>2, <2>3 DEF Handler, Callers
<1>3. CASE Timer \/ Requester \/ Driver
  <2>1. SameStationMarks
    BY <1>3, RetryMarks, ProvisioningMarks
       DEF SameStationMarks, StationMarks, Timer, TimerEnqueue, Requester, RequestEnqueue,
           Driver, Connects, FailsToConnect, Drops, LinkChanges, AccessPointClient
  <2>2. UNCHANGED <<scheduling, worker>>
    BY <1>3 DEF Timer, TimerFires, TimerEnqueue, TimerUndo, Requester, RequestEnqueue,
         RequestUndo, wifi_manager_provision,
         Driver, Connects, FailsToConnect, Drops, LinkChanges, AccessPointClient
  <2> QED
    BY <1>c, <1>f, <2>1, <2>2
<1>4. CASE Provisioning
  <2>1. CASE ProvisionBegin \/ ProvisionCommit \/ RollbackFlags
    BY <1>d, <2>1, ProvisioningMarks
  <2>2. CASE ProvisionClear \/ ProvisionReconfigure \/ RollbackConfigure \/ RollbackStart
    BY <1>c, <1>e, <2>2 DEF ProvisionClear, ProvisionReconfigure, RollbackConfigure,
                            RollbackStart, WorkerAt
  <2>3. ASSUME NEW ok \in BOOLEAN, ProvisionLeaveAp(ok) \/ ProvisionSave(ok) PROVE StationBacked'
    BY <1>c, <1>e, <2>3 DEF ProvisionLeaveAp, ProvisionSave, WorkerAt
  <2>4. CASE RollbackDone \/ finish_provisioning
    <3>1. SameStationMarks
      BY <2>4, ProvisioningMarks
    <3>2. /\ worker \notin {"connect", "fallback"}
          /\ UNCHANGED scheduling \/ (scheduling["worker"] = "idle" /\ Call("worker"))
      BY <2>4 DEF RollbackDone, finish_provisioning, WorkerAt
    <3> QED
      BY <1>c, <1>f, <3>1, <3>2 DEF Callers
  <2> QED
    BY <1>4, <2>1, <2>2, <2>3, <2>4 DEF Provisioning
<1>5. CASE Retry
  <2>1. CASE RetryBegin \/ RetrySkip \/ RetryOver
    <3>1. SameStationMarks
      BY <2>1, RetryMarks
    <3>2. UNCHANGED scheduling /\ worker \notin {"connect", "fallback"}
      BY <2>1 DEF RetryBegin, RetrySkip, RetryOver, WorkerAt
    <3> QED
      BY <1>c, <1>f, <3>1, <3>2
  <2>2. CASE RetryDone
    BY <1>d, <2>2, RetryMarks
  <2>3. CASE RetryReconfigure \/ RetryClear \/ RetryAbandon
    BY <1>c, <1>e, <2>3 DEF RetryReconfigure, RetryClear, RetryAbandon, WorkerAt
  <2>4. ASSUME NEW ok \in BOOLEAN, RetryLeaveAp(ok) PROVE StationBacked'
    BY <1>c, <1>e, <2>4 DEF RetryLeaveAp, WorkerAt
  <2> QED
    BY <1>5, <2>1, <2>2, <2>3, <2>4 DEF Retry
<1>6. CASE process_sta_attempt
  <2>1. StationMarks(FALSE, flags.ap_fallback_pending)
    BY <1>6, StationWorkMarks
  <2>2. worker = "connect" /\ UNCHANGED <<queue, scheduling>>
    BY <1>6 DEF process_sta_attempt, WorkerAt
  <2> QED
    BY <1>b, <2>1, <2>2 DEF StationBacked, StationMarks, AttemptBacked, FallbackBacked,
                            Scheduling
<1>7. CASE enter_ap_fallback
  BY <1>d, <1>7, StationWorkMarks
<1>8. ASSUME NEW a \in BOOLEAN, AttemptConnect(a) \/ CandidateConnect(a) PROVE StationBacked'
  <2>1. SameStationMarks
    BY <1>8 DEF AttemptConnect, CandidateConnect, SameStationMarks, StationMarks
  <2>2. /\ worker \notin {"connect", "fallback"}
        /\ UNCHANGED scheduling \/ (scheduling["worker"] = "idle" /\ Call("worker"))
    BY <1>8 DEF AttemptConnect, CandidateConnect, WorkerAt
  <2> QED
    BY <1>c, <1>f, <2>1, <2>2 DEF Callers
<1>9. CASE FallbackSwitch \/ CandidateGotIp \/ CandidateMissed
  BY <1>c, <1>e, <1>9 DEF FallbackSwitch, CandidateGotIp, CandidateMissed, WorkerAt
<1>10. CASE UNCHANGED vars
  BY <1>c, <1>e, <1>10 DEF vars
<1> QED
  BY <1>1, <1>2, <1>3, <1>4, <1>5, <1>6, <1>7, <1>8, <1>9, <1>10 DEF Next, Worker, Callers

(* The marks of a trial and of a retry: set by the timer and the BLE       *)
(* service before they queue the work, held by the worker while it does it. *)
TrialBacked == ProvisioningBacked /\ RetryBacked

LEMMA TrialMarksKept ==
  ASSUME TypeOK, Trying, [Next]_vars, ~Receive, TrialBacked
  PROVE  TrialBacked'
<1>a. /\ trial \in Trials /\ trial.then \in {"idle", "leave AP", "save", "resume station"}
      /\ requester \in [at : {"idle", "send", "full"}, network : Credentials]
      /\ queue \in Seq(WorkItems)
  BY TypeParts DEF WorkerType, Trials, RestType, QueueType
<1>b. /\ Queued({"provision"}) => Queued({"provision"})'
      /\ Queued({"retry"}) => Queued({"retry"})'
  BY QueuedKept
<1>c. ASSUME flags'.provisioning_active => flags.provisioning_active, UNCHANGED requester,
             worker \in Busy => worker' \in Busy
      PROVE  ProvisioningBacked'
  BY <1>b, <1>c, ProvisioningFrame DEF TrialBacked
<1>d. ASSUME flags'.fallback_retry_pending => flags.fallback_retry_pending, UNCHANGED timer,
             Retrying => Retrying'
      PROVE  RetryBacked'
  BY <1>b, <1>d, RetryFrame DEF TrialBacked
<1>e. ASSUME SameTrialMarks, UNCHANGED <<requester, timer, worker, trial>> PROVE TrialBacked'
  BY <1>c, <1>d, <1>e DEF TrialBacked, SameTrialMarks, TrialMarks, Retrying
<1>f. ASSUME SameTrialMarks, UNCHANGED <<requester, timer>>, worker \notin Busy, worker # "retry"
      PROVE  TrialBacked'
  BY <1>c, <1>d, <1>f DEF TrialBacked, SameTrialMarks, TrialMarks, Retrying, Busy
<1>g. ASSUME flags'.fallback_retry_pending = flags.fallback_retry_pending, UNCHANGED timer,
             worker' \in Busy, Retrying => Retrying'
      PROVE  TrialBacked'
  BY <1>d, <1>g DEF TrialBacked, ProvisioningBacked
<1>h. ASSUME TrialMarks(FALSE, FALSE) PROVE TrialBacked'
  BY <1>h DEF TrialBacked, ProvisioningBacked, RetryBacked, TrialMarks
<1>p. worker \in ProvisioningPlaces => ~Retrying
  BY DEF Retrying, ProvisioningPlaces, RetryPlaces, TrialPlaces
<1>1. ASSUME NEW p \in Callers, schedule_sta_attempt(p) PROVE TrialBacked'
  <2>1. UNCHANGED <<requester, timer, worker, trial>>
    BY <1>1 DEF schedule_sta_attempt, ScheduleDecide, ScheduleEnqueue, ScheduleUndo
  <2> QED
    BY <1>1, <1>e, <2>1, ScheduleMarks
<1>2. CASE Handler
  <2>1. CASE StationStart \/ StationDisconnected \/ StationGotIp \/ SetBit
    <3>1. UNCHANGED <<requester, timer, worker, trial>>
      BY <2>1 DEF StationStart, StationDisconnected, StationGotIp, SetBit, Handle
    <3>2. SameTrialMarks
      BY <2>1, HandlerMarks DEF StationStart, SetBit, SameTrialMarks, TrialMarks
    <3> QED
      BY <1>e, <3>1, <3>2
  <2> QED
    BY <1>1, <1>2, <2>1 DEF Handler, Callers
<1>3. CASE Driver \/ UNCHANGED vars
  <2>1. UNCHANGED <<flags, requester, timer, worker, trial>>
    BY <1>3 DEF Driver, Connects, FailsToConnect, Drops, LinkChanges, AccessPointClient, vars
  <2> QED
    BY <1>e, <2>1 DEF SameTrialMarks, TrialMarks
<1>4. CASE Timer
  <2>1. UNCHANGED <<requester, worker, trial>>
    BY <1>4 DEF Timer, TimerFires, TimerEnqueue, TimerUndo
  <2>2. flags'.provisioning_active = flags.provisioning_active
    BY <1>4, RetryMarks DEF Timer, TimerEnqueue, TrialMarks
  <2>3. RetryBacked'
    <3>1. CASE TimerFires
      BY <3>1 DEF TimerFires, RetryBacked
    <3>2. CASE TimerEnqueue /\ HasRoom
      <4>1. queue' = Append(queue, Job("retry"))
        BY <3>2 DEF TimerEnqueue
      <4>2. Job("retry") \in WorkItems /\ Job("retry").type = "retry"
        BY DEF Job, Work, WorkItems, WorkTypes, Credentials
      <4>3. Queued({"retry"})'
        BY <1>a, <4>1, <4>2, QueuedAppend
      <4> QED
        BY <4>3 DEF RetryBacked
    <3>3. CASE TimerEnqueue /\ ~HasRoom
      BY <3>3 DEF TimerEnqueue, RetryBacked
    <3>4. CASE TimerUndo
      BY <3>4, RetryMarks DEF RetryBacked, TrialMarks
    <3> QED
      BY <1>4, <3>1, <3>2, <3>3, <3>4 DEF Timer
  <2> QED
    BY <1>c, <2>1, <2>2, <2>3 DEF TrialBacked
<1>5. CASE Requester
  <2>1. UNCHANGED <<timer, worker, trial>>
    BY <1>5 DEF Requester, wifi_manager_provision, RequestEnqueue, RequestUndo
  <2>2. flags'.fallback_retry_pending = flags.fallback_retry_pending
    BY <1>5, ProvisioningMarks DEF Requester, RequestEnqueue, TrialMarks
  <2>3. ProvisioningBacked'
    <3>1. ASSUME NEW n \in Candidates, wifi_manager_provision(n) PROVE ProvisioningBacked'
      BY <3>1 DEF wifi_manager_provision, ProvisioningBacked
    <3>2. CASE RequestEnqueue /\ HasRoom
      <4> DEFINE work == Work("provision", requester.network)
      <4>1. queue' = Append(queue, work)
        BY <3>2 DEF RequestEnqueue
      <4>2. work \in WorkItems /\ work.type = "provision"
        BY <1>a DEF Work, WorkItems, WorkTypes
      <4> HIDE DEF work
      <4>3. Queued({"provision"})'
        BY <1>a, <4>1, <4>2, QueuedAppend
      <4> QED
        BY <4>3 DEF ProvisioningBacked
    <3>3. CASE RequestEnqueue /\ ~HasRoom
      BY <1>a, <3>3 DEF RequestEnqueue, ProvisioningBacked
    <3>4. CASE RequestUndo
      BY <3>4, ProvisioningMarks DEF ProvisioningBacked, TrialMarks
    <3> QED
      BY <1>5, <3>1, <3>2, <3>3, <3>4 DEF Requester
  <2>4. Retrying => Retrying'
    BY <2>1 DEF Retrying
  <2> QED
    BY <1>d, <2>1, <2>2, <2>3, <2>4 DEF TrialBacked
<1>6. CASE process_sta_attempt \/ enter_ap_fallback \/ FallbackSwitch
  <2>1. SameTrialMarks
    BY <1>6, StationWorkMarks DEF FallbackSwitch, SameTrialMarks, TrialMarks
  <2>2. worker \in StationPlaces /\ UNCHANGED <<requester, timer>>
    BY <1>6 DEF process_sta_attempt, enter_ap_fallback, FallbackSwitch, WorkerAt, StationPlaces
  <2> QED
    BY <1>f, <2>1, <2>2 DEF StationPlaces, Busy, ProvisioningPlaces, RetryPlaces, TrialPlaces
<1>7. ASSUME NEW a \in BOOLEAN, AttemptConnect(a) PROVE TrialBacked'
  <2>1. worker = "attempt" /\ UNCHANGED <<flags, requester, timer>>
    BY <1>7 DEF AttemptConnect, WorkerAt
  <2> QED
    BY <1>f, <2>1 DEF SameTrialMarks, TrialMarks, Busy, ProvisioningPlaces, RetryPlaces, TrialPlaces
<1>8. ASSUME NEW a \in BOOLEAN, CandidateConnect(a) PROVE TrialBacked'
  <2>1. worker = "try" /\ worker' = "wait" /\ UNCHANGED <<flags, timer, trial>>
    BY <1>8 DEF CandidateConnect, WorkerAt
  <2> QED
    BY <1>g, <2>1 DEF Retrying, Busy, TrialPlaces, RetryPlaces
<1>9. CASE CandidateGotIp
  <2>1. worker = "wait" /\ worker' = trial.then /\ UNCHANGED <<flags, timer, trial>>
    BY <1>9 DEF CandidateGotIp, WorkerAt
  <2>2. trial.then \in {"leave AP", "save", "resume station"}
    BY <1>a, <2>1 DEF Trying, TrialPlaces
  <2> QED
    BY <1>g, <2>1, <2>2 DEF Retrying, Busy, TrialPlaces, RetryPlaces, ProvisioningPlaces
<1>10. CASE CandidateMissed
  <2>1. worker = "wait" /\ worker' \in {"try", GivesUp} /\ UNCHANGED <<flags, timer>>
    BY <1>10 DEF CandidateMissed, WorkerAt
  <2>2. trial'.then = trial.then
    BY <1>10, <1>a, TrialFields
  <2> QED
    BY <1>g, <2>1, <2>2 DEF GivesUp, Retrying, Busy, TrialPlaces, RetryPlaces, ProvisioningPlaces
<1>11. CASE Provisioning
  <2>1. flags'.fallback_retry_pending = flags.fallback_retry_pending
    <3>1. CASE ProvisionBegin \/ ProvisionCommit \/ RollbackFlags \/ RollbackDone
               \/ finish_provisioning
      BY <3>1, ProvisioningMarks DEF SameTrialMarks, TrialMarks
    <3>2. CASE ProvisionClear \/ ProvisionReconfigure \/ RollbackConfigure \/ RollbackStart
      BY <3>2 DEF ProvisionClear, ProvisionReconfigure, RollbackConfigure, RollbackStart
    <3>3. ASSUME NEW ok \in BOOLEAN, ProvisionLeaveAp(ok) \/ ProvisionSave(ok)
          PROVE  flags'.fallback_retry_pending = flags.fallback_retry_pending
      BY <3>3 DEF ProvisionLeaveAp, ProvisionSave
    <3> QED
      BY <1>11, <3>1, <3>2, <3>3 DEF Provisioning
  <2>2. CASE finish_provisioning
    <3>1. flags'.provisioning_active = FALSE
      BY <2>2, ProvisioningMarks DEF TrialMarks
    <3>2. worker \in ProvisioningPlaces /\ UNCHANGED timer
      BY <2>2 DEF finish_provisioning, WorkerAt, ProvisioningPlaces
    <3> QED
      BY <1>d, <1>p, <2>1, <3>1, <3>2 DEF TrialBacked, ProvisioningBacked
  <2>3. CASE ProvisionBegin \/ ProvisionClear \/ ProvisionReconfigure \/ ProvisionCommit
             \/ RollbackConfigure \/ RollbackFlags \/ RollbackStart \/ RollbackDone
    <3>1. /\ worker \in ProvisioningPlaces /\ UNCHANGED timer
          /\ worker' \in ProvisioningPlaces \cup TrialPlaces
      BY <2>3 DEF ProvisionBegin, ProvisionClear, ProvisionReconfigure, ProvisionCommit,
           RollbackConfigure, RollbackFlags, RollbackStart, RollbackDone, Try, WorkerAt,
           ProvisioningPlaces, TrialPlaces
    <3> QED
      BY <1>g, <1>p, <2>1, <3>1 DEF Busy
  <2>4. ASSUME NEW ok \in BOOLEAN, ProvisionLeaveAp(ok) \/ ProvisionSave(ok)
        PROVE  TrialBacked'
    <3>1. /\ worker \in ProvisioningPlaces /\ UNCHANGED timer
          /\ worker' \in ProvisioningPlaces \cup TrialPlaces
      BY <2>4 DEF ProvisionLeaveAp, ProvisionSave, Try, WorkerAt, ProvisioningPlaces, TrialPlaces
    <3> QED
      BY <1>g, <1>p, <2>1, <3>1 DEF Busy
  <2> QED
    BY <1>11, <2>2, <2>3, <2>4 DEF Provisioning
<1>12. CASE Retry
  <2>1. CASE RetryBegin
    <3>1. worker = "retry" /\ UNCHANGED <<requester, timer>>
      BY <2>1 DEF RetryBegin, WorkerAt
    <3>2. CASE /\ TrialMarks(TRUE, flags.fallback_retry_pending)
               /\ worker' = "look for clients"
      BY <1>g, <3>1, <3>2 DEF TrialMarks, Retrying, Busy, RetryPlaces
    <3>3. CASE TrialMarks(flags.provisioning_active, FALSE)
      BY <1>c, <3>1, <3>3 DEF TrialMarks, TrialBacked, RetryBacked, Busy, RetryPlaces,
                              TrialPlaces, ProvisioningPlaces
    <3> QED
      BY <2>1, <3>2, <3>3, RetryMarks
  <2>2. CASE RetrySkip \/ RetryOver \/ RetryDone
    BY <1>h, <2>2, RetryMarks
  <2>3. CASE RetryReconfigure \/ RetryAbandon
    BY <1>g, <2>3 DEF RetryReconfigure, RetryAbandon, Retrying, Busy, RetryPlaces
  <2>4. CASE RetryClear
    <3>1. trial'.then = "resume station" /\ worker' = "try" /\ UNCHANGED <<flags, timer>>
      BY <1>a, <2>4, TrialFields DEF RetryClear
    <3> QED
      BY <1>g, <3>1 DEF Retrying, Busy, TrialPlaces
  <2>5. ASSUME NEW ok \in BOOLEAN, RetryLeaveAp(ok) PROVE TrialBacked'
    BY <1>g, <2>5 DEF RetryLeaveAp, Retrying, Busy, RetryPlaces
  <2> QED
    BY <1>12, <2>1, <2>2, <2>3, <2>4, <2>5 DEF Retry
<1> QED
  BY <1>1, <1>2, <1>3, <1>4, <1>5, <1>6, <1>7, <1>8, <1>9, <1>10, <1>11, <1>12
     DEF Next, Worker, Callers

(* No mark is left behind: whoever holds one of the four flags that keep   *)
(* others from queueing work is a call under way, work in the queue or the *)
(* worker at that work, however the calls, the timer, the events and the   *)
(* trials interleave and however full the queue is.                        *)
THEOREM MarksAreAlwaysBacked == Spec => []MarksAreBacked
<1>1. Init => MarksAreBacked
  <2>1. ASSUME NEW c \in Credentials, InitWith(c) PROVE MarksAreBacked
    BY <2>1 DEF InitWith, MarksAreBacked
  <2> QED
    BY <2>1 DEF Init
<1>2. TypeOK /\ Trying /\ MarksAreBacked /\ [Next]_vars => MarksAreBacked'
  <2> SUFFICES ASSUME TypeOK, Trying, MarksAreBacked, [Next]_vars PROVE MarksAreBacked'
    OBVIOUS
  <2>1. CASE Receive
    BY <2>1, ReceiveKeepsMarks
  <2>2. CASE ~Receive
    <3>1. StationBacked' /\ TrialBacked'
      BY <2>2, MarkParts, StationMarksKept, TrialMarksKept DEF StationBacked, TrialBacked
    <3> QED
      BY <3>1, Zenon DEF StationBacked, TrialBacked, MarksAreBacked, ProvisioningBacked,
         RetryBacked, AttemptBacked, FallbackBacked, Busy, Retrying, Scheduling
  <2> QED
    BY <2>1, <2>2
<1> QED
  BY <1>1, <1>2, TypeCorrect, PTL DEF Spec

-----------------------------------------------------------------------------
(* The driver and the flags.  Between two pieces of work they agree; what  *)
(* they owe each other at every place of a trial, a retry or a fallback is *)
(* the invariant.                                                          *)
TryingFor(goals) == worker \in TrialPlaces /\ trial.then \in goals

RetryTries == worker \in {"clear old bits", "resume station"} \/ TryingFor({"resume station"})

(* Only a provisioning has both networks in its flags, or neither. *)
UnsettledPlaces ==
  {"clear bits", "reconfigure", "leave AP", "save", "commit", "roll back", "restore"}

FlagsSettled ==
  \/ worker \in UnsettledPlaces \/ TryingFor({"leave AP", "save"})
  \/ /\ flags.ap_enabled = flags.ap_fallback_active
     /\ flags.sta_enabled # flags.ap_fallback_active

RunningPlaces ==
  {"idle", "retry", "connect", "attempt", "fallback", "provision", "restored", "finish",
   "look for clients", "abandoned"}

RunsFlags ==
  /\ driver.mode = IF flags.ap_fallback_active THEN "AP" ELSE "STA"
  /\ driver.mode = "STA" => driver.config = flags.active_credentials

DriverRuns == worker \in RunningPlaces /\ driver.mode # "refused" => RunsFlags

RetryPaths ==
  /\ worker \in {"look for clients", "abandon retry", "abandoned", "switch to AP"} \/ RetryTries
       => flags.ap_fallback_active
  /\ worker = "look for clients" => trial.network = flags.active_credentials
  /\ RetryTries =>
       \/ driver.mode = "refused"
       \/ driver.mode = "APSTA" /\ driver.config = flags.active_credentials
  /\ worker = "resumed" =>
       \/ driver.mode = "refused"
       \/ driver.mode = "STA" /\ driver.config = flags.active_credentials

CandidatePaths ==
  /\ worker = "leave AP" \/ TryingFor({"leave AP"}) => driver.config = trial.network
  /\ worker \in {"save", "commit"} \/ TryingFor({"save"}) =>
       driver.mode = "STA" /\ driver.config = trial.network
  /\ worker = "start again" => /\ flags.ap_fallback_active = ReturnsToAp
                               /\ flags.active_credentials = trial.previous

LinkNeedsStation == driver.mode \notin {"STA", "APSTA"} => driver.link = "down"

DriverFollows ==
  FlagsSettled /\ DriverRuns /\ RetryPaths /\ CandidatePaths /\ LinkNeedsStation

(* What a step makes of the flags that say which network is served. *)
ServedKept ==
  /\ flags'.sta_enabled = flags.sta_enabled /\ flags'.ap_enabled = flags.ap_enabled
  /\ flags'.ap_fallback_active = flags.ap_fallback_active
  /\ flags'.active_credentials = flags.active_credentials

ServedIs(ap, credentials) ==
  /\ flags'.sta_enabled = ~ap /\ flags'.ap_enabled = ap /\ flags'.ap_fallback_active = ap
  /\ flags'.active_credentials = credentials

LEMMA CalmServed ==
  ASSUME NEW f \in FlagRecords
  PROVE  /\ Calm(f).sta_enabled = f.sta_enabled /\ Calm(f).ap_enabled = f.ap_enabled
         /\ Calm(f).ap_fallback_active = f.ap_fallback_active
         /\ Calm(f).active_credentials = f.active_credentials
BY DEF Calm, FlagRecords

LEMMA AfreshServed ==
  ASSUME NEW f \in FlagRecords
  PROVE  /\ Afresh(f).sta_enabled = f.sta_enabled /\ Afresh(f).ap_enabled = f.ap_enabled
         /\ Afresh(f).ap_fallback_active = f.ap_fallback_active
         /\ Afresh(f).active_credentials = f.active_credentials
BY DEF Afresh, Calm, FlagRecords

LEMMA ServingServed ==
  ASSUME NEW f \in FlagRecords, NEW ap \in BOOLEAN
  PROVE  /\ Serving(f, ap).sta_enabled = ~ap /\ Serving(f, ap).ap_enabled = ap
         /\ Serving(f, ap).ap_fallback_active = ap
         /\ Serving(f, ap).active_credentials = f.active_credentials
BY DEF Serving, FlagRecords

LEMMA AfreshServingServed ==
  ASSUME NEW f \in FlagRecords, NEW ap \in BOOLEAN, flags' = Serving(Afresh(f), ap)
  PROVE  ServedIs(ap, f.active_credentials)
<1> DEFINE g == Afresh(f)
<1>1. g \in FlagRecords /\ g.active_credentials = f.active_credentials
  BY MarkFields, AfreshServed
<1> HIDE DEF g
<1>2. /\ Serving(g, ap).sta_enabled = ~ap /\ Serving(g, ap).ap_enabled = ap
      /\ Serving(g, ap).ap_fallback_active = ap
      /\ Serving(g, ap).active_credentials = g.active_credentials
  BY <1>1, ServingServed
<1>3. flags' = Serving(g, ap)
  BY DEF g
<1> QED
  BY <1>1, <1>2, <1>3, Zenon DEF ServedIs

LEMMA ScheduleServed ==
  ASSUME TypeOK, NEW p \in Callers, schedule_sta_attempt(p)
  PROVE  ServedKept
<1> flags \in FlagRecords
  BY TypeParts DEF FlagsType
<1>1. CASE ScheduleDecide(p)
  BY <1>1 DEF ScheduleDecide, FlagRecords, ServedKept
<1>2. CASE ScheduleEnqueue(p)
  BY <1>2 DEF ScheduleEnqueue, ServedKept
<1>3. CASE ScheduleUndo(p)
  BY <1>3, CalmServed DEF ScheduleUndo, ServedKept
<1> QED
  BY <1>1, <1>2, <1>3 DEF schedule_sta_attempt

LEMMA OthersServed ==
  ASSUME TypeOK, Handler \/ Timer \/ Requester \/ Driver \/ UNCHANGED vars
  PROVE  ServedKept
<1> flags \in FlagRecords
  BY TypeParts DEF FlagsType
<1>1. CASE Handler
  <2>1. CASE StationStart \/ SetBit
    BY <2>1 DEF StationStart, SetBit, ServedKept
  <2>2. CASE StationDisconnected
    BY <2>2 DEF StationDisconnected, FlagRecords, ServedKept
  <2>3. CASE StationGotIp
    <3> DEFINE f == [flags EXCEPT !.sta_connected = TRUE]
    <3>1. /\ f \in FlagRecords
          /\ f.sta_enabled = flags.sta_enabled /\ f.ap_enabled = flags.ap_enabled
          /\ f.ap_fallback_active = flags.ap_fallback_active
          /\ f.active_credentials = flags.active_credentials
      BY DEF FlagRecords
    <3>2. flags' = Afresh(f)
      BY <2>3 DEF StationGotIp
    <3> HIDE DEF f
    <3> QED
      BY <3>1, <3>2, AfreshServed DEF ServedKept
  <2> QED
    BY <1>1, <2>1, <2>2, <2>3, ScheduleServed DEF Handler, Callers
<1>2. CASE Timer
  BY <1>2 DEF Timer, TimerFires, TimerEnqueue, TimerUndo, FlagRecords, ServedKept
<1>3. CASE Requester
  BY <1>3 DEF Requester, RequestEnqueue, RequestUndo, wifi_manager_provision, FlagRecords,
              ServedKept
<1>4. CASE Driver \/ UNCHANGED vars
  BY <1>4 DEF Driver, Connects, FailsToConnect, Drops, LinkChanges, AccessPointClient, vars,
              ServedKept
<1> QED
  BY <1>1, <1>2, <1>3, <1>4

LEMMA WorkServed ==
  ASSUME TypeOK
  PROVE  /\ process_sta_attempt \/ RollbackDone \/ finish_provisioning \/ RetryBegin
              \/ RetrySkip \/ RetryOver => ServedKept
         /\ enter_ap_fallback =>
              \/ ServedIs(TRUE, flags.active_credentials) /\ worker' = "switch to AP"
              \/ ServedKept /\ worker' = "idle"
         /\ ProvisionBegin => /\ flags'.ap_fallback_active = flags.ap_fallback_active
                              /\ flags'.active_credentials = flags.active_credentials
         /\ ProvisionCommit => ServedIs(FALSE, trial.network)
         /\ RollbackFlags => ServedIs(ReturnsToAp, trial.previous)
         /\ RetryDone => ServedIs(FALSE, flags.active_credentials)
<1> flags \in FlagRecords /\ trial \in Trials
  BY TypeParts DEF FlagsType, WorkerType
<1>c. /\ flags.active_credentials \in Credentials /\ trial.previous \in Credentials
      /\ trial.network \in Credentials /\ flags.sta_connected \in BOOLEAN
  BY DEF FlagRecords, Trials
<1>1. process_sta_attempt \/ RollbackDone \/ finish_provisioning \/ RetryBegin => ServedKept
  BY DEF process_sta_attempt, RollbackDone, finish_provisioning, RetryBegin, FlagRecords, ServedKept
<1>2. /\ RetryEnds \in FlagRecords
      /\ RetryEnds.sta_enabled = flags.sta_enabled /\ RetryEnds.ap_enabled = flags.ap_enabled
      /\ RetryEnds.ap_fallback_active = flags.ap_fallback_active
      /\ RetryEnds.active_credentials = flags.active_credentials
  BY DEF RetryEnds, FlagRecords
<1>3. RetrySkip => ServedKept
  BY <1>2 DEF RetrySkip, ServedKept
<1>4. ASSUME RetryOver PROVE ServedKept
  <2>1. flags' = [RetryEnds EXCEPT !.sta_connected = FALSE]
    BY <1>4 DEF RetryOver
  <2> QED
    BY <1>2, <2>1 DEF FlagRecords, ServedKept
<1>5. ASSUME RetryDone PROVE ServedIs(FALSE, flags.active_credentials)
  <2>1. flags' = Serving(Afresh(RetryEnds), FALSE)
    BY <1>5 DEF RetryDone
  <2>2. ServedIs(FALSE, RetryEnds.active_credentials)
    BY <1>2, <2>1, AfreshServingServed
  <2> QED
    BY <1>2, <2>2
<1>6. ASSUME enter_ap_fallback
      PROVE  \/ ServedIs(TRUE, flags.active_credentials) /\ worker' = "switch to AP"
             \/ ServedKept /\ worker' = "idle"
  <2> DEFINE f == [Calm(flags) EXCEPT !.sta_connected = FALSE]
  <2>1. \/ flags' = Serving(f, TRUE) /\ worker' = "switch to AP"
        \/ flags' = Calm(flags) /\ worker' = "idle"
    BY <1>6 DEF enter_ap_fallback
  <2>2. f \in FlagRecords /\ f.active_credentials = flags.active_credentials
    <3>1. Calm(flags) \in FlagRecords /\ Calm(flags).active_credentials = flags.active_credentials
      BY MarkFields, CalmServed
    <3>2. f \in FlagRecords /\ f.active_credentials = Calm(flags).active_credentials
      BY <3>1 DEF FlagRecords
    <3> QED
      BY <3>1, <3>2
  <2> HIDE DEF f
  <2>3. /\ Serving(f, TRUE).sta_enabled = FALSE /\ Serving(f, TRUE).ap_enabled = TRUE
        /\ Serving(f, TRUE).ap_fallback_active = TRUE
        /\ Serving(f, TRUE).active_credentials = f.active_credentials
    BY <2>2, ServingServed
  <2>4. flags' = Calm(flags) => ServedKept
    BY CalmServed DEF ServedKept
  <2> QED
    BY <2>1, <2>2, <2>3, <2>4 DEF ServedIs
<1>7. ASSUME ProvisionBegin
      PROVE  /\ flags'.ap_fallback_active = flags.ap_fallback_active
             /\ flags'.active_credentials = flags.active_credentials
  <2> DEFINE f == [flags EXCEPT !.sta_enabled = TRUE,
                                !.ap_enabled = flags.ap_fallback_active
                                                 \/ flags.active_credentials = None]
  <2>1. /\ f.ap_fallback_active = flags.ap_fallback_active
        /\ f.active_credentials = flags.active_credentials
    BY DEF FlagRecords
  <2>2. f \in FlagRecords
    <3>1. (flags.ap_fallback_active \/ flags.active_credentials = None) \in BOOLEAN
      OBVIOUS
    <3>2. flags \in FlagsWith(flags.active_credentials)
      BY DEF FlagsWith
    <3> QED
      BY <3>1, <3>2, SetFlag, Zenon DEF FlagsWith
  <2>3. flags' = Afresh(f)
    BY <1>7 DEF ProvisionBegin
  <2> HIDE DEF f
  <2> QED
    BY <2>1, <2>2, <2>3, AfreshServed
<1>8. ASSUME ProvisionCommit PROVE ServedIs(FALSE, trial.network)
  <2> DEFINE f == [flags EXCEPT !.active_credentials = trial.network]
  <2>1. f \in FlagRecords /\ f.active_credentials = trial.network
    BY <1>c DEF FlagRecords
  <2>2. flags' = Serving(Afresh(f), FALSE)
    BY <1>8 DEF ProvisionCommit
  <2> HIDE DEF f
  <2>3. ServedIs(FALSE, f.active_credentials)
    BY <2>1, <2>2, AfreshServingServed
  <2> QED
    BY <2>1, <2>3
<1>9. ASSUME RollbackFlags PROVE ServedIs(ReturnsToAp, trial.previous)
  <2> DEFINE connected == flags.sta_connected /\ ~ReturnsToAp
             f == [flags EXCEPT !.active_credentials = trial.previous,
                                !.provisioning_active = TRUE, !.sta_connected = connected]
  <2>0. connected \in BOOLEAN /\ ReturnsToAp \in BOOLEAN
    BY DEF ReturnsToAp
  <2>1. flags' = Serving(Afresh(f), ReturnsToAp)
    BY <1>9 DEF RollbackFlags
  <2> HIDE DEF connected
  <2>2. f \in FlagRecords /\ f.active_credentials = trial.previous
    BY <1>c, <2>0 DEF FlagRecords
  <2> HIDE DEF f
  <2>3. ServedIs(ReturnsToAp, f.active_credentials)
    BY <2>0, <2>1, <2>2, AfreshServingServed
  <2> QED
    BY <2>2, <2>3
<1> QED
  BY <1>1, <1>3, <1>4, <1>5, <1>6, <1>7, <1>8, <1>9, Zenon

(* A step that leaves the worker, its trial and those flags alone. *)
LEMMA DriverFrame ==
  ASSUME DriverFollows, ServedKept, UNCHANGED <<worker, trial>>,
         driver'.mode = driver.mode, driver'.config = driver.config, LinkNeedsStation'
  PROVE  DriverFollows'
<1> USE DEF DriverFollows, ServedKept, TryingFor, RetryTries
<1>1. FlagsSettled'
  BY DEF FlagsSettled
<1>2. DriverRuns'
  BY DEF DriverRuns, RunsFlags
<1>3. RetryPaths'
  BY DEF RetryPaths
<1>4. CandidatePaths'
  BY DEF CandidatePaths, ReturnsToAp
<1> QED
  BY <1>1, <1>2, <1>3, <1>4

LEMMA ConnectDriver ==
  ASSUME driver \in Drivers, LinkNeedsStation, NEW accepted \in BOOLEAN, esp_wifi_connect(accepted)
  PROVE  driver'.mode = driver.mode /\ driver'.config = driver.config /\ LinkNeedsStation'
BY DEF esp_wifi_connect, Drivers, LinkNeedsStation

LEMMA RunningDriver ==
  ASSUME NEW mode, NEW config, driver' = Running(mode, config)
  PROVE  /\ driver'.mode = mode /\ driver'.link = "down"
         /\ mode # "AP" => driver'.config = config
BY DEF Running

LEMMA OthersDriver ==
  ASSUME TypeOK, DriverFollows,
         Handler \/ Timer \/ Requester \/ Driver \/ schedule_sta_attempt("worker")
           \/ UNCHANGED vars
  PROVE  DriverFollows'
<1>a. driver \in Drivers /\ LinkNeedsStation
  BY TypeParts DEF DriverType, DriverFollows
<1>1. ServedKept
  BY OthersServed, ScheduleServed DEF Callers
<1>2. UNCHANGED <<worker, trial>>
  BY DEF Handler, StationStart, StationDisconnected, StationGotIp, SetBit, Handle,
       schedule_sta_attempt, ScheduleDecide, ScheduleEnqueue, ScheduleUndo,
       Timer, TimerFires, TimerEnqueue, TimerUndo,
       Requester, RequestEnqueue, RequestUndo, wifi_manager_provision,
       Driver, Connects, FailsToConnect, Drops, LinkChanges, AccessPointClient, vars
<1>3. driver'.mode = driver.mode /\ driver'.config = driver.config /\ LinkNeedsStation'
  <2>1. CASE Connects \/ FailsToConnect \/ Drops
    BY <1>a, <2>1 DEF Connects, FailsToConnect, Drops, LinkChanges, Drivers, LinkNeedsStation
  <2>2. CASE ~(Connects \/ FailsToConnect \/ Drops)
    <3>1. UNCHANGED driver
      BY <2>2 DEF Handler, StationStart, StationDisconnected, StationGotIp, SetBit, Handle,
         schedule_sta_attempt, ScheduleDecide, ScheduleEnqueue, ScheduleUndo,
         Timer, TimerFires, TimerEnqueue, TimerUndo,
         Requester, RequestEnqueue, RequestUndo, wifi_manager_provision,
         Driver, AccessPointClient, vars
    <3> QED
      BY <1>a, <3>1 DEF LinkNeedsStation
  <2> QED
    BY <2>1, <2>2
<1> QED
  BY <1>1, <1>2, <1>3, DriverFrame

(* At rest and at the station's work. *)
LEMMA StationDriver ==
  ASSUME TypeOK, DriverFollows,
         \/ Receive \/ process_sta_attempt \/ enter_ap_fallback \/ FallbackSwitch
         \/ \E accepted \in BOOLEAN : AttemptConnect(accepted)
  PROVE  DriverFollows'
<1>a. /\ driver \in Drivers /\ LinkNeedsStation
      /\ queue \in Seq(WorkItems) /\ Len(queue) <= QueueLength
  BY TypeParts DEF DriverType, DriverFollows, QueueType
<1> DEFINE Settled == /\ flags.ap_enabled = flags.ap_fallback_active
                      /\ flags.sta_enabled # flags.ap_fallback_active
           StationWork == {"idle", "retry", "connect", "attempt", "fallback", "provision"}
<1>b. worker \in StationWork => Settled /\ (driver.mode # "refused" => RunsFlags)
  BY DEF DriverFollows, FlagsSettled, DriverRuns, UnsettledPlaces, RunningPlaces, TryingFor, TrialPlaces
<1>c. ASSUME worker \in StationWork, worker' \in StationWork, ServedKept,
             driver'.mode = driver.mode, driver'.config = driver.config, LinkNeedsStation'
      PROVE  DriverFollows'
  BY <1>b, <1>c DEF DriverFollows, FlagsSettled, DriverRuns, RunsFlags, RetryPaths, CandidatePaths,
       RetryTries, TryingFor, TrialPlaces, UnsettledPlaces, ServedKept
<1>1. CASE Receive
  <2>1. Head(queue).type \in WorkTypes
    BY <1>a, <1>1, TailType DEF Receive, WorkItems
  <2>2. worker = "idle" /\ worker' \in StationWork /\ UNCHANGED <<flags, driver>>
    BY <1>1, <2>1 DEF Receive, WorkerAt, WorkTypes
  <2> QED
    BY <1>a, <1>c, <2>2 DEF ServedKept, LinkNeedsStation
<1>2. CASE process_sta_attempt
  <2>1. worker = "connect" /\ worker' \in StationWork /\ UNCHANGED driver
    BY <1>2 DEF process_sta_attempt, WorkerAt
  <2> QED
    BY <1>a, <1>2, <1>c, <2>1, WorkServed DEF LinkNeedsStation
<1>3. CASE enter_ap_fallback
  <2>1. worker = "fallback" /\ UNCHANGED driver
    BY <1>3 DEF enter_ap_fallback, WorkerAt
  <2>2. CASE ServedKept /\ worker' = "idle"
    BY <1>a, <1>c, <2>1, <2>2 DEF LinkNeedsStation
  <2>3. CASE ServedIs(TRUE, flags.active_credentials) /\ worker' = "switch to AP"
    BY <1>a, <2>1, <2>3 DEF DriverFollows, FlagsSettled, DriverRuns, RetryPaths, CandidatePaths,
       RetryTries, TryingFor, TrialPlaces, RunningPlaces, ServedIs, LinkNeedsStation
  <2> QED
    BY <1>3, <2>2, <2>3, WorkServed
<1>4. CASE FallbackSwitch
  <2>1. worker = "switch to AP" /\ worker' = "idle" /\ UNCHANGED flags
    BY <1>4 DEF FallbackSwitch, WorkerAt
  <2>2. driver' = Running("AP", None) \/ driver' = Running("refused", None)
    BY <1>4 DEF FallbackSwitch, Restart, Refuse
  <2>3. driver'.mode \in {"AP", "refused"} /\ driver'.link = "down"
    BY <2>2, RunningDriver
  <2>4. Settled /\ flags.ap_fallback_active
    BY <2>1 DEF DriverFollows, FlagsSettled, RetryPaths, UnsettledPlaces, TryingFor, TrialPlaces
  <2> QED
    BY <2>1, <2>3, <2>4 DEF DriverFollows, FlagsSettled, DriverRuns, RunsFlags, RetryPaths,
       CandidatePaths, RetryTries, TryingFor, TrialPlaces, LinkNeedsStation
<1>5. ASSUME NEW accepted \in BOOLEAN, AttemptConnect(accepted) PROVE DriverFollows'
  <2>1. worker = "attempt" /\ worker' = "idle" /\ UNCHANGED flags /\ esp_wifi_connect(accepted)
    BY <1>5 DEF AttemptConnect, WorkerAt
  <2> QED
    BY <1>a, <1>c, <2>1, ConnectDriver DEF ServedKept
<1> QED
  BY <1>1, <1>2, <1>3, <1>4, <1>5

(* Only attempts and goals change while credentials are tried. *)
LEMMA TrialNetwork ==
  ASSUME trial \in Trials
  PROVE  /\ \A n, then : Try(n, then) => trial'.network = trial.network
         /\ CandidateMissed => trial'.network = trial.network
BY DEF Try, CandidateMissed, Trials

LEMMA CandidateDriver ==
  ASSUME TypeOK, Trying, DriverFollows,
         \/ CandidateGotIp \/ CandidateMissed
         \/ \E accepted \in BOOLEAN : CandidateConnect(accepted)
  PROVE  DriverFollows'
<1>a. /\ driver \in Drivers /\ LinkNeedsStation
      /\ trial \in Trials /\ trial.then \in {"idle", "leave AP", "save", "resume station"}
  BY TypeParts DEF DriverType, DriverFollows, WorkerType, Trials
<1> USE DEF DriverFollows, FlagsSettled, DriverRuns, RetryPaths, CandidatePaths, RetryTries,
            TryingFor, TrialPlaces, UnsettledPlaces, RunningPlaces
<1>1. ASSUME NEW accepted \in BOOLEAN, CandidateConnect(accepted) PROVE DriverFollows'
  <2>1. worker = "try" /\ worker' = "wait" /\ UNCHANGED <<flags, trial>>
        /\ esp_wifi_connect(accepted)
    BY <1>1 DEF CandidateConnect, WorkerAt
  <2>2. driver'.mode = driver.mode /\ driver'.config = driver.config /\ LinkNeedsStation'
    BY <1>a, <2>1, ConnectDriver
  <2> QED
    BY <1>a, <2>1, <2>2
<1>2. CASE CandidateGotIp
  <2>1. worker = "wait" /\ worker' = trial.then /\ UNCHANGED <<flags, trial, driver>>
    BY <1>2 DEF CandidateGotIp, WorkerAt
  <2>2. trial.then \in {"leave AP", "save", "resume station"}
    BY <1>a, <2>1 DEF Trying
  <2> QED
    BY <1>a, <2>1, <2>2 DEF LinkNeedsStation
<1>3. CASE CandidateMissed
  <2>1. worker = "wait" /\ worker' \in {"try", GivesUp} /\ UNCHANGED <<flags, driver>>
    BY <1>3 DEF CandidateMissed, WorkerAt
  <2>2. trial'.then = trial.then /\ trial'.network = trial.network
    BY <1>3, <1>a, TrialFields, TrialNetwork
  <2>3. trial.then \in {"leave AP", "save", "resume station"}
    BY <1>a, <2>1 DEF Trying
  <2> QED
    BY <1>a, <2>1, <2>2, <2>3 DEF GivesUp, LinkNeedsStation
<1> QED
  BY <1>1, <1>2, <1>3, Zenon

LEMMA ProvisioningDriver ==
  ASSUME TypeOK, DriverFollows, Provisioning
  PROVE  DriverFollows'
<1>a. driver \in Drivers /\ LinkNeedsStation /\ trial \in Trials
  BY TypeParts DEF DriverType, DriverFollows, WorkerType
<1> USE DEF DriverFollows, FlagsSettled, DriverRuns, RetryPaths, CandidatePaths, RetryTries,
            TryingFor, TrialPlaces, UnsettledPlaces, RunningPlaces
<1>b. ASSUME worker' \in {"clear bits", "reconfigure", "roll back", "restore"}, LinkNeedsStation'
      PROVE  DriverFollows'
  BY <1>b
<1>1. CASE ProvisionBegin \/ ProvisionClear
  BY <1>a, <1>b, <1>1 DEF ProvisionBegin, ProvisionClear, LinkNeedsStation
<1>2. CASE ProvisionReconfigure
  <2>1. CASE worker' = "roll back"
    <3>1. driver' = Running("refused", None) \/ UNCHANGED driver
      BY <1>2, <2>1 DEF ProvisionReconfigure, Try, Refuse
    <3>2. driver'.link = "down" \/ UNCHANGED driver
      BY <3>1, RunningDriver
    <3> QED
      BY <1>a, <1>b, <2>1, <3>2 DEF LinkNeedsStation
  <2>2. CASE worker' # "roll back"
    <3> DEFINE mode == IF ReturnsToAp THEN "APSTA" ELSE "STA"
               then == IF ReturnsToAp THEN "leave AP" ELSE "save"
    <3>1. Restart(mode, trial.network) /\ Try(ProvisionAttempts, then)
      BY <1>2, <2>2 DEF ProvisionReconfigure
    <3>a. driver' = Running(mode, trial.network) /\ mode # "AP"
      BY <3>1 DEF Restart
    <3> HIDE DEF mode, then
    <3>2. /\ driver'.mode = mode /\ driver'.config = trial.network /\ driver'.link = "down"
      BY <3>a, RunningDriver, Zenon
    <3>3. worker' = "try" /\ trial'.then = then /\ trial'.network = trial.network
      BY <1>a, <3>1, TrialFields, TrialNetwork
    <3> QED
      BY <3>2, <3>3 DEF mode, then, LinkNeedsStation
  <2> QED
    BY <2>1, <2>2
<1>3. ASSUME NEW ok \in BOOLEAN, ProvisionLeaveAp(ok) PROVE DriverFollows'
  <2>1. CASE ~ok
    BY <1>a, <1>b, <1>3, <2>1 DEF ProvisionLeaveAp, LinkNeedsStation
  <2>2. CASE ok
    <3>1. /\ driver'.mode = "STA" /\ driver'.config = driver.config
          /\ driver.config = trial.network
      BY <1>a, <1>3, <2>2 DEF ProvisionLeaveAp, WorkerAt, Drivers
    <3>2. \/ worker' = "save" /\ UNCHANGED trial
          \/ Try(ProvisionAttempts, "save")
      BY <1>3, <2>2 DEF ProvisionLeaveAp
    <3>3. trial'.network = trial.network
      BY <1>a, <3>2, TrialNetwork
    <3>4. worker' = "save" \/ (worker' = "try" /\ trial'.then = "save")
      BY <1>a, <3>2, TrialFields
    <3> QED
      BY <3>1, <3>3, <3>4 DEF LinkNeedsStation
  <2> QED
    BY <2>1, <2>2
<1>4. ASSUME NEW ok \in BOOLEAN, ProvisionSave(ok) PROVE DriverFollows'
  BY <1>a, <1>4 DEF ProvisionSave, WorkerAt, LinkNeedsStation
<1>5. CASE ProvisionCommit
  <2>1. worker = "commit" /\ worker' = "finish" /\ UNCHANGED <<trial, driver>>
    BY <1>5 DEF ProvisionCommit, WorkerAt
  <2>2. ServedIs(FALSE, trial.network)
    BY <1>5, WorkServed
  <2> QED
    BY <1>a, <2>1, <2>2 DEF ServedIs, RunsFlags, LinkNeedsStation
<1>6. CASE RollbackConfigure
  <2>1. driver' = Running("off", None) \/ driver' = Running("refused", None)
    BY <1>6 DEF RollbackConfigure
  <2>2. worker' = "restore"
    BY <1>6 DEF RollbackConfigure
  <2>3. driver'.link = "down"
    BY <2>1, RunningDriver
  <2> QED
    BY <1>b, <2>2, <2>3 DEF LinkNeedsStation
<1>7. CASE RollbackFlags
  <2>1. worker' = "start again" /\ UNCHANGED <<trial, driver>>
    BY <1>7 DEF RollbackFlags
  <2>2. ServedIs(ReturnsToAp, trial.previous) /\ ReturnsToAp \in BOOLEAN
    BY <1>7, WorkServed DEF ReturnsToAp
  <2> QED
    BY <1>a, <2>1, <2>2 DEF ServedIs, ReturnsToAp, LinkNeedsStation
<1>8. CASE RollbackStart
  <2>1. worker = "start again" /\ worker' = "restored" /\ UNCHANGED <<flags, trial>>
    BY <1>8 DEF RollbackStart, WorkerAt
  <2> DEFINE mode == IF ReturnsToAp THEN "AP" ELSE "STA"
  <2>2. driver' = Running(mode, trial.previous) \/ driver' = Running("refused", None)
    BY <1>8 DEF RollbackStart, Restart, Refuse
  <2>3. \/ /\ driver'.mode = mode /\ driver'.link = "down"
           /\ mode # "AP" => driver'.config = trial.previous
        \/ driver'.mode = "refused" /\ driver'.link = "down"
    <3> HIDE DEF mode
    <3> QED
      BY <2>2, RunningDriver, Zenon
  <2> QED
    BY <2>1, <2>3 DEF RunsFlags, LinkNeedsStation
<1>9. CASE RollbackDone \/ finish_provisioning
  <2>1. /\ worker \in {"restored", "finish"} /\ worker' \in {"finish", "idle"}
        /\ UNCHANGED driver
    BY <1>9 DEF RollbackDone, finish_provisioning, WorkerAt
  <2>2. ServedKept
    BY <1>9, WorkServed
  <2> QED
    BY <1>a, <2>1, <2>2 DEF ServedKept, RunsFlags, LinkNeedsStation
<1> QED
  BY <1>1, <1>2, <1>3, <1>4, <1>5, <1>6, <1>7, <1>8, <1>9, Zenon DEF Provisioning

LEMMA RetryDriver ==
  ASSUME TypeOK, DriverFollows, Retry
  PROVE  DriverFollows'
<1>a. /\ driver \in Drivers /\ LinkNeedsStation
      /\ trial \in Trials /\ flags.ap_fallback_active \in BOOLEAN
  BY TypeParts DEF DriverType, DriverFollows, WorkerType, FlagsType, FlagRecords
<1> USE DEF DriverFollows, FlagsSettled, DriverRuns, RetryPaths, CandidatePaths, RetryTries,
            TryingFor, TrialPlaces, UnsettledPlaces, RunningPlaces
<1>1. CASE RetryBegin
  <2>1. worker = "retry" /\ UNCHANGED driver
    BY <1>1 DEF RetryBegin, WorkerAt
  <2>2. ServedKept
    BY <1>1, WorkServed
  <2>3. \/ worker' = "idle"
        \/ /\ worker' = "look for clients" /\ flags.ap_fallback_active
           /\ trial'.network = flags.active_credentials
    BY <1>1, <1>a DEF RetryBegin, Trials
  <2> QED
    BY <1>a, <2>1, <2>2, <2>3 DEF ServedKept, RunsFlags, LinkNeedsStation
<1>2. CASE RetrySkip \/ RetryOver
  <2>1. worker \in {"look for clients", "abandoned"} /\ worker' = "idle" /\ UNCHANGED driver
    BY <1>2 DEF RetrySkip, RetryOver, WorkerAt
  <2>2. ServedKept
    BY <1>2, WorkServed
  <2> QED
    BY <1>a, <2>1, <2>2 DEF ServedKept, RunsFlags, LinkNeedsStation
<1>3. CASE RetryReconfigure
  <2>1. /\ worker = "look for clients" /\ UNCHANGED <<flags, trial>>
        /\ worker' \in {"clear old bits", "abandon retry"}
        /\ worker' = "clear old bits" => driver.mode = "refused" \/ driver'.mode = "APSTA"
    BY <1>3 DEF RetryReconfigure, WorkerAt
  <2>2. \/ driver.mode = "AP" /\ driver' = Running("APSTA", trial.network)
        \/ UNCHANGED driver
    BY <1>3 DEF RetryReconfigure
  <2>3. \/ /\ driver.mode = "AP" /\ driver'.mode = "APSTA" /\ driver'.link = "down"
           /\ driver'.config = trial.network
        \/ UNCHANGED driver
    <3>1. "APSTA" # "AP"
      OBVIOUS
    <3> QED
      BY <2>2, <3>1, RunningDriver, Zenon
  <2> QED
    BY <1>a, <2>1, <2>3 DEF RunsFlags, LinkNeedsStation
<1>4. CASE RetryClear
  <2>1. worker = "clear old bits" /\ UNCHANGED <<flags, driver>>
    BY <1>4 DEF RetryClear, WorkerAt
  <2>2. worker' = "try" /\ trial'.then = "resume station"
    BY <1>4, <1>a, TrialFields DEF RetryClear
  <2> QED
    BY <1>a, <2>1, <2>2 DEF LinkNeedsStation
<1>5. ASSUME NEW ok \in BOOLEAN, RetryLeaveAp(ok) PROVE DriverFollows'
  <2>1. /\ worker = "resume station" /\ UNCHANGED flags
        /\ worker' = IF ok THEN "resumed" ELSE "abandon retry"
    BY <1>5 DEF RetryLeaveAp, WorkerAt
  <2>2. \/ /\ ok /\ driver.mode # "refused"
           /\ driver'.mode = "STA" /\ driver'.config = driver.config
        \/ (ok => driver.mode = "refused") /\ UNCHANGED driver
    BY <1>a, <1>5 DEF RetryLeaveAp, Drivers
  <2> QED
    BY <1>a, <2>1, <2>2 DEF LinkNeedsStation
<1>6. CASE RetryDone
  <2>1. worker = "resumed" /\ worker' = "idle" /\ UNCHANGED driver
    BY <1>6 DEF RetryDone, WorkerAt
  <2>2. ServedIs(FALSE, flags.active_credentials)
    BY <1>6, WorkServed
  <2> QED
    BY <1>a, <2>1, <2>2 DEF ServedIs, RunsFlags, LinkNeedsStation
<1>7. CASE RetryAbandon
  <2>1. worker = "abandon retry" /\ worker' = "abandoned" /\ UNCHANGED <<flags, trial>>
    BY <1>7 DEF RetryAbandon, WorkerAt
  <2>2. driver' = Running("AP", None) \/ driver' = Running("refused", None)
    BY <1>7 DEF RetryAbandon, Refuse
  <2>3. driver'.mode \in {"AP", "refused"} /\ driver'.link = "down"
    BY <2>2, RunningDriver
  <2> QED
    BY <2>1, <2>3 DEF RunsFlags, LinkNeedsStation
<1> QED
  BY <1>1, <1>2, <1>3, <1>4, <1>5, <1>6, <1>7, Zenon DEF Retry

(* Whenever the worker is between two pieces of work and the driver has    *)
(* not refused, the driver runs what the flags say, and a station that     *)
(* has a link has it to the network whose credentials last: no fallback,   *)
(* retry, trial or rollback leaves the two apart.                          *)
THEOREM DriverAlwaysMatches == Spec => []DriverMatchesFlags
<1>1. Init => DriverFollows
  <2> SUFFICES ASSUME NEW c \in Credentials, InitWith(c) PROVE DriverFollows
    BY DEF Init
  <2>1. /\ worker = "idle"
        /\ flags.sta_enabled = (c # None) /\ flags.ap_enabled = (c = None)
        /\ flags.ap_fallback_active = (c = None) /\ flags.active_credentials = c
    BY DEF InitWith
  <2>2. /\ driver.mode = IF c = None THEN "AP" ELSE "STA"
        /\ c # None => driver.config = c
        /\ driver.link = "down"
    BY DEF InitWith, Running
  <2> QED
    BY <2>1, <2>2 DEF DriverFollows, FlagsSettled, DriverRuns, RunsFlags, RetryPaths, CandidatePaths,
       RetryTries, TryingFor, TrialPlaces, UnsettledPlaces, RunningPlaces, LinkNeedsStation
<1>2. TypeOK /\ Trying /\ DriverFollows /\ [Next]_vars => DriverFollows'
  <2> SUFFICES ASSUME TypeOK, Trying, DriverFollows, [Next]_vars PROVE DriverFollows'
    OBVIOUS
  <2>1. CASE Handler \/ Timer \/ Requester \/ Driver \/ schedule_sta_attempt("worker")
             \/ UNCHANGED vars
    BY <2>1, OthersDriver
  <2>2. ASSUME NEW accepted \in BOOLEAN, AttemptConnect(accepted) PROVE DriverFollows'
    BY <2>2, StationDriver
  <2>3. ASSUME NEW accepted \in BOOLEAN, CandidateConnect(accepted) PROVE DriverFollows'
    BY <2>3, CandidateDriver
  <2>4. CASE Receive \/ process_sta_attempt \/ enter_ap_fallback \/ FallbackSwitch
    BY <2>4, StationDriver
  <2>5. CASE CandidateGotIp \/ CandidateMissed
    BY <2>5, CandidateDriver
  <2>6. CASE Provisioning \/ Retry
    BY <2>6, ProvisioningDriver, RetryDriver
  <2> QED
    BY <2>1, <2>2, <2>3, <2>4, <2>5, <2>6, Zenon DEF Next, Worker
<1>3. TypeOK /\ DriverFollows => DriverMatchesFlags
  BY DEF DriverFollows, DriverMatchesFlags, AtRest, FlagsSettled, DriverRuns, RunsFlags,
         LinkNeedsStation, UnsettledPlaces, RunningPlaces, TryingFor, TrialPlaces
<1> QED
  BY <1>1, <1>2, <1>3, TypeCorrect, PTL DEF Spec
=============================================================================
