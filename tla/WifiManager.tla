----------------------------- MODULE WifiManager -----------------------------
(***************************************************************************)
(* The Wi-Fi manager (wifi_manager.c): a station that falls back to an     *)
(* access point of its own, retries the saved network from there, and      *)
(* tries new credentials that a phone sends over BLE, with rollback.       *)
(*                                                                         *)
(* Four contexts run: the worker (wifi_provisioning_task) with its queue,  *)
(* the event loop's task, the retry timer's task and the BLE host's.  The  *)
(* mutex covers the flags only, so each critical section, each call of the *)
(* queue or the event group and each call of the driver is a step.         *)
(*                                                                         *)
(* The Wi-Fi driver belongs to ESP-IDF and is external.  A station that    *)
(* associates and gets no address counts as one that fails to connect.     *)
(* STA_STOP clears sta_connected once more, after the disconnection that a  *)
(* stopped link posts; the access point's start and stop change only what  *)
(* is displayed.  These events are left out, like system_status.           *)
(***************************************************************************)
EXTENDS Integers, Sequences

CONSTANTS
  Networks,           \* what credentials may name
  Candidates,         \* the networks a phone sends credentials of
  None,               \* no credentials
  QueueLength,        \* WIFI_MANAGER_QUEUE_LENGTH
  StationAttempts,    \* WIFI_STA_MAX_ATTEMPTS
  ProvisionAttempts,  \* WIFI_PROVISION_ATTEMPTS
  RetryAttempts,      \* WIFI_FALLBACK_RETRY_ATTEMPTS
  MaxEvents           \* bounds the event loop's queue

ASSUME WifiAssumption ==
  /\ None \notin Networks /\ Candidates \subseteq Networks
  /\ {QueueLength, StationAttempts, ProvisionAttempts, RetryAttempts} \subseteq Nat \ {0}
  /\ MaxEvents \in Nat /\ MaxEvents > 1

VARIABLES
  flags,      \* the s_ variables under s_mutex
  queue,      \* s_provision_queue
  bits,       \* s_wifi_events
  worker,     \* where the worker is
  trial,      \* its locals while it tries credentials
  handler,    \* the bit the event handler is about to set
  timer,      \* where fallback_retry_timer_cb is
  requester,  \* where wifi_manager_provision is, and its credentials
  scheduling, \* where a call of schedule_sta_attempt is, by caller
  driver,     \* the Wi-Fi driver
  events,     \* what the driver has posted
  stored      \* the credentials in NVS

vars == <<flags, queue, bits, worker, trial, handler, timer, requester,
          scheduling, driver, events, stored>>

Callers == {"worker", "handler"}
Credentials == Networks \cup {None}
Work(type, network) == [type |-> type, network |-> network]
Job(type) == Work(type, None)

(* Mutant of HasRoom: one element too many. *)
HasRoomForOneMore == Len(queue) <= QueueLength

HasRoom == Len(queue) < QueueLength

NoTrial == [network |-> None, previous |-> None, fallback |-> FALSE,
            attempts |-> 0, then |-> "idle"]

(* The driver with its station disconnected.  What a driver does whose     *)
(* configuration failed is not known: its mode is "refused" until another  *)
(* start.  The configuration of the station does not matter without one.   *)
Running(mode, config) ==
  [mode |-> mode, config |-> IF mode = "AP" THEN None ELSE config, link |-> "down"]

(* Assignments that go together: connecting starts afresh; the station is  *)
(* served, or the recovery access point.                                   *)
Calm(f) == [f EXCEPT !.ap_fallback_pending = FALSE, !.sta_attempt_pending = FALSE]
Afresh(f) == [Calm(f) EXCEPT !.sta_connect_attempts = 0]
Serving(f, ap) ==
  [f EXCEPT !.sta_enabled = ~ap, !.ap_enabled = ap, !.ap_fallback_active = ap]

NoRequest == [at |-> "idle", network |-> None]

(* wifi_manager_start, up to the driver's first event, with the credentials *)
(* in NVS, those built in, or none.                                         *)
InitWith(credentials) ==
  /\ stored \in {None, credentials}
  /\ flags =
       [sta_enabled |-> credentials # None,
        ap_enabled |-> credentials = None,
        provisioning_active |-> FALSE,
        active_credentials |-> credentials,
        ap_fallback_active |-> credentials = None,
        ap_fallback_pending |-> FALSE,
        sta_attempt_pending |-> FALSE,
        fallback_retry_pending |-> FALSE,
        sta_connect_attempts |-> 0,
        sta_connected |-> FALSE]
  /\ driver = IF credentials = None THEN Running("AP", None) ELSE Running("STA", credentials)
  /\ events = IF credentials = None THEN <<>> ELSE <<"start">>
  /\ queue = <<>>
  /\ bits = {}
  /\ worker = "idle"
  /\ trial = NoTrial
  /\ handler = "idle"
  /\ timer = "idle"
  /\ requester = NoRequest
  /\ scheduling = [p \in Callers |-> "idle"]

Init == \E credentials \in Credentials : InitWith(credentials)

-----------------------------------------------------------------------------
(* schedule_sta_attempt: decide under the lock, enqueue, undo if the queue *)
(* was full.                                                               *)
Call(p) == scheduling' = [scheduling EXCEPT ![p] = "called"]

MaySchedule ==
  /\ flags.sta_enabled
  /\ ~flags.ap_fallback_active /\ ~flags.ap_fallback_pending
  /\ ~flags.provisioning_active
  /\ ~flags.sta_attempt_pending

ScheduleDecide(p) ==
  LET exhausted == flags.sta_connect_attempts >= StationAttempts
  IN /\ scheduling[p] = "called"
     /\ IF MaySchedule
        THEN /\ flags' = [flags EXCEPT !.sta_attempt_pending = TRUE,
                                       !.ap_fallback_pending = exhausted]
             /\ scheduling' = [scheduling EXCEPT ![p] =
                                 IF exhausted THEN "fallback" ELSE "connect"]
        ELSE /\ scheduling' = [scheduling EXCEPT ![p] = "idle"]
             /\ UNCHANGED flags
     /\ UNCHANGED <<queue, bits, worker, trial, handler, timer, requester,
                    driver, events, stored>>

ScheduleEnqueue(p) ==
  /\ scheduling[p] \in {"connect", "fallback"}
  /\ IF HasRoom
     THEN /\ queue' = Append(queue, Job(scheduling[p]))
          /\ scheduling' = [scheduling EXCEPT ![p] = "idle"]
     ELSE /\ scheduling' = [scheduling EXCEPT ![p] = "full"]
          /\ UNCHANGED queue
  /\ UNCHANGED <<flags, bits, worker, trial, handler, timer, requester,
                 driver, events, stored>>

ScheduleUndo(p) ==
  /\ scheduling[p] = "full"
  /\ flags' = Calm(flags)
  /\ scheduling' = [scheduling EXCEPT ![p] = "idle"]
  /\ UNCHANGED <<queue, bits, worker, trial, handler, timer, requester,
                 driver, events, stored>>

schedule_sta_attempt(p) == ScheduleDecide(p) \/ ScheduleEnqueue(p) \/ ScheduleUndo(p)

-----------------------------------------------------------------------------
(* wifi_event_handler, in the event loop's task. *)
HandlerFree == handler = "idle" /\ scheduling["handler"] = "idle"

Handle(event) ==
  /\ HandlerFree
  /\ events # <<>> /\ Head(events) = event
  /\ events' = Tail(events)
  /\ UNCHANGED <<queue, bits, worker, trial, timer, requester, driver, stored>>

StationStart ==
  /\ Handle("start")
  /\ Call("handler")
  /\ UNCHANGED <<flags, handler>>

(* A trial waits for the disconnection; otherwise it calls for an attempt. *)
StationDisconnected ==
  /\ Handle("disconnected")
  /\ flags' = [flags EXCEPT !.sta_connected = FALSE]
  /\ IF flags.provisioning_active
     THEN handler' = "disconnected" /\ UNCHANGED scheduling
     ELSE /\ IF flags.sta_enabled THEN Call("handler") ELSE UNCHANGED scheduling
          /\ UNCHANGED handler

StationGotIp ==
  /\ Handle("got_ip")
  /\ flags' = Afresh([flags EXCEPT !.sta_connected = TRUE])
  /\ handler' = "got_ip"
  /\ UNCHANGED scheduling

(* Bits that are cleared before anybody reads them are not kept. *)
Watched == worker \in {"reconfigure", "try", "wait", "leave AP"}

SetBit ==
  /\ handler # "idle"
  /\ bits' = IF Watched THEN bits \cup {handler} ELSE bits
  /\ handler' = "idle"
  /\ UNCHANGED <<flags, queue, worker, trial, timer, requester, scheduling,
                 driver, events, stored>>

(* A phone joins or leaves the recovery access point: request_ap_client_refresh. *)
AccessPointClient ==
  /\ HandlerFree
  /\ driver.mode \in {"AP", "APSTA"}
  /\ HasRoom
  /\ queue' = Append(queue, Job("refresh"))
  /\ UNCHANGED <<flags, bits, worker, trial, handler, timer, requester,
                 scheduling, driver, events, stored>>

-----------------------------------------------------------------------------
(* The driver.  A connection under way succeeds or fails, and one that     *)
(* stands may drop.                                                        *)
Post(new) == /\ Len(events) + Len(new) <= MaxEvents
             /\ events' = events \o new

LinkChanges(from, to, event) ==
  /\ driver.link = from
  /\ driver' = [driver EXCEPT !.link = to]
  /\ Post(<<event>>)
  /\ UNCHANGED <<flags, queue, bits, worker, trial, handler, timer, requester,
                 scheduling, stored>>

Connects == LinkChanges("connecting", "up", "got_ip")
FailsToConnect == LinkChanges("connecting", "down", "disconnected")
Drops == LinkChanges("up", "down", "disconnected")

(* What the driver posts when the station is stopped. *)
Dropped == IF driver.link = "down" THEN <<>> ELSE <<"disconnected">>

(* esp_wifi_connect: it may refuse, and does so without a station or while *)
(* one is connecting or connected.                                         *)
esp_wifi_connect(accepted) ==
  /\ accepted => driver.mode \in {"STA", "APSTA"} /\ driver.link = "down"
  /\ driver' = IF accepted THEN [driver EXCEPT !.link = "connecting"] ELSE driver

(* esp_wifi_stop, esp_wifi_set_mode, esp_wifi_set_config and esp_wifi_start *)
(* in a row.  Only the driver notices.  Started with a station, it posts    *)
(* "start".                                                                 *)
Restart(mode, config) ==
  /\ driver' = Running(mode, config)
  /\ Post(Dropped \o IF mode = "AP" THEN <<>> ELSE <<"start">>)

Refuse ==
  /\ driver' = Running("refused", None)
  /\ Post(Dropped)

-----------------------------------------------------------------------------
(* The worker.  It is blocked while its own call of schedule_sta_attempt   *)
(* runs.                                                                   *)
WorkerAt(place) == worker = place /\ scheduling["worker"] = "idle"

(* Work on credentials starts in a place of its own; a refresh of the list *)
(* of clients changes only what is displayed.                              *)
Receive ==
  /\ WorkerAt("idle")
  /\ queue # <<>>
  /\ queue' = Tail(queue)
  /\ LET work == Head(queue)
     IN /\ worker' = IF work.type = "refresh" THEN "idle" ELSE work.type
        /\ trial' = [NoTrial EXCEPT !.network = work.network]
  /\ UNCHANGED <<flags, bits, handler, timer, requester, scheduling, driver, events, stored>>

(* process_sta_attempt, after its delay. *)
process_sta_attempt ==
  /\ WorkerAt("connect")
  /\ IF /\ flags.sta_enabled /\ ~flags.ap_fallback_active
        /\ ~flags.provisioning_active /\ ~flags.sta_connected
        /\ flags.sta_connect_attempts < StationAttempts
     THEN /\ flags' = [flags EXCEPT !.sta_attempt_pending = FALSE,
                                    !.sta_connect_attempts = @ + 1]
          /\ worker' = "attempt"
     ELSE /\ flags' = [flags EXCEPT !.sta_attempt_pending = FALSE]
          /\ worker' = "idle"
  /\ UNCHANGED <<queue, bits, trial, handler, timer, requester, scheduling,
                 driver, events, stored>>

AttemptConnect(accepted) ==
  /\ WorkerAt("attempt")
  /\ worker' = "idle"
  /\ esp_wifi_connect(accepted)
  /\ IF accepted THEN UNCHANGED scheduling ELSE Call("worker")
  /\ UNCHANGED <<flags, queue, bits, trial, handler, timer, requester, events, stored>>

(* enter_ap_fallback: an address that came in the meantime calls it off. *)
enter_ap_fallback ==
  /\ WorkerAt("fallback")
  /\ IF flags.ap_fallback_pending /\ ~flags.ap_fallback_active
     THEN /\ flags' = Serving([Calm(flags) EXCEPT !.sta_connected = FALSE], TRUE)
          /\ worker' = "switch to AP"
     ELSE /\ flags' = Calm(flags)
          /\ worker' = "idle"
  /\ UNCHANGED <<queue, bits, trial, handler, timer, requester, scheduling,
                 driver, events, stored>>

FallbackSwitch ==
  /\ WorkerAt("switch to AP")
  /\ worker' = "idle"
  /\ Restart("AP", None) \/ Refuse
  /\ UNCHANGED <<flags, queue, bits, trial, handler, timer, requester, scheduling, stored>>

-----------------------------------------------------------------------------
(* wait_for_candidate_connection, for a provisioning or a retry: connect,  *)
(* wait for a bit or five seconds, and go to trial.then or give up.        *)
Try(attempts, then) ==
  /\ worker' = "try"
  /\ trial' = [trial EXCEPT !.attempts = attempts, !.then = then]

GivesUp == IF trial.then = "resume station" THEN "abandon retry" ELSE "roll back"

CandidateConnect(accepted) ==
  /\ WorkerAt("try")
  /\ worker' = "wait"
  /\ esp_wifi_connect(accepted)
  /\ UNCHANGED <<flags, queue, bits, trial, handler, timer, requester,
                 scheduling, events, stored>>

CandidateGotIp ==
  /\ WorkerAt("wait")
  /\ "got_ip" \in bits
  /\ bits' = {}
  /\ worker' = trial.then
  /\ UNCHANGED <<flags, queue, trial, handler, timer, requester, scheduling,
                 driver, events, stored>>

CandidateMissed ==
  /\ WorkerAt("wait")
  /\ "got_ip" \notin bits
  /\ bits' = {}
  /\ trial' = [trial EXCEPT !.attempts = @ - 1]
  /\ worker' = IF trial.attempts > 1 THEN "try" ELSE GivesUp
  /\ UNCHANGED <<flags, queue, handler, timer, requester, scheduling,
                 driver, events, stored>>

-----------------------------------------------------------------------------
(* process_provision_request. *)
ReturnsToAp == trial.fallback \/ trial.previous = None

ProvisionBegin ==
  /\ WorkerAt("provision")
  /\ trial' = [trial EXCEPT !.previous = flags.active_credentials,
                            !.fallback = flags.ap_fallback_active]
  /\ flags' = Afresh([flags EXCEPT !.sta_enabled = TRUE,
                                   !.ap_enabled = flags.ap_fallback_active
                                                    \/ flags.active_credentials = None])
  /\ worker' = "clear bits"
  /\ UNCHANGED <<queue, bits, handler, timer, requester, scheduling, driver, events, stored>>

ProvisionClear ==
  /\ WorkerAt("clear bits")
  /\ bits' = {}
  /\ worker' = "reconfigure"
  /\ UNCHANGED <<flags, queue, trial, handler, timer, requester, scheduling,
                 driver, events, stored>>

ProvisionReconfigure ==
  /\ WorkerAt("reconfigure")
  /\ LET mode == IF ReturnsToAp THEN "APSTA" ELSE "STA"
     IN \/ /\ Restart(mode, trial.network)
           /\ Try(ProvisionAttempts, IF ReturnsToAp THEN "leave AP" ELSE "save")
        \/ /\ Refuse \/ UNCHANGED <<driver, events>>
           /\ worker' = "roll back"
           /\ UNCHANGED trial
  /\ UNCHANGED <<flags, queue, bits, handler, timer, requester, scheduling, stored>>

(* Stops the access point, and tries again if that cost the connection. *)
ProvisionLeaveAp(ok) ==
  /\ WorkerAt("leave AP")
  /\ driver' = IF ok THEN [driver EXCEPT !.mode = "STA"] ELSE driver
  /\ CASE ~ok -> worker' = "roll back" /\ UNCHANGED trial
       [] ok /\ driver.link = "up" -> worker' = "save" /\ UNCHANGED trial
       [] ok /\ driver.link # "up" -> Try(ProvisionAttempts, "save")
  /\ UNCHANGED <<flags, queue, bits, handler, timer, requester, scheduling, events, stored>>

(* nvs_storage_set_wifi_credentials: one blob, all or nothing. *)
ProvisionSave(ok) ==
  /\ WorkerAt("save")
  /\ worker' = IF ok THEN "commit" ELSE "roll back"
  /\ stored' = IF ok THEN trial.network ELSE stored
  /\ UNCHANGED <<flags, queue, bits, trial, handler, timer, requester,
                 scheduling, driver, events>>

(* Mutant of ProvisionCommit: the fallback is not left. *)
ProvisionCommitInFallback ==
  /\ WorkerAt("commit")
  /\ flags' = [Afresh(flags) EXCEPT !.active_credentials = trial.network,
                                    !.sta_enabled = TRUE, !.ap_enabled = FALSE]
  /\ worker' = "finish"
  /\ UNCHANGED <<queue, bits, trial, handler, timer, requester, scheduling,
                 driver, events, stored>>

ProvisionCommit ==
  /\ WorkerAt("commit")
  /\ flags' = Serving(Afresh([flags EXCEPT !.active_credentials = trial.network]), FALSE)
  /\ worker' = "finish"
  /\ UNCHANGED <<queue, bits, trial, handler, timer, requester, scheduling,
                 driver, events, stored>>

(* restore_previous_configuration: the driver is stopped and configured,   *)
(* then the flags, then the driver starts.                                 *)
RollbackConfigure ==
  /\ WorkerAt("roll back")
  /\ driver' = Running("off", None) \/ driver' = Running("refused", None)
  /\ Post(Dropped)
  /\ worker' = "restore"
  /\ UNCHANGED <<flags, queue, bits, trial, handler, timer, requester, scheduling, stored>>

(* Mutant of RollbackFlags: the candidate stays in memory. *)
RollbackFlagsKeepingCandidate ==
  /\ WorkerAt("restore")
  /\ LET restored == [flags EXCEPT !.active_credentials = trial.network,
                                   !.provisioning_active = TRUE,
                                   !.sta_connected = @ /\ ~ReturnsToAp]
     IN flags' = Serving(Afresh(restored), ReturnsToAp)
  /\ worker' = "start again"
  /\ UNCHANGED <<queue, bits, trial, handler, timer, requester, scheduling,
                 driver, events, stored>>

RollbackFlags ==
  /\ WorkerAt("restore")
  /\ LET restored == [flags EXCEPT !.active_credentials = trial.previous,
                                   !.provisioning_active = TRUE,
                                   !.sta_connected = @ /\ ~ReturnsToAp]
     IN flags' = Serving(Afresh(restored), ReturnsToAp)
  /\ worker' = "start again"
  /\ UNCHANGED <<queue, bits, trial, handler, timer, requester, scheduling,
                 driver, events, stored>>

RollbackStart ==
  /\ WorkerAt("start again")
  /\ \/ /\ driver.mode = "off"
        /\ Restart(IF ReturnsToAp THEN "AP" ELSE "STA", trial.previous)
     \/ Refuse
  /\ worker' = "restored"
  /\ UNCHANGED <<flags, queue, bits, trial, handler, timer, requester, scheduling, stored>>

RollbackDone ==
  /\ WorkerAt("restored")
  /\ flags' = [flags EXCEPT !.provisioning_active = FALSE]
  /\ IF ReturnsToAp THEN UNCHANGED scheduling ELSE Call("worker")
  /\ worker' = "finish"
  /\ UNCHANGED <<queue, bits, trial, handler, timer, requester, driver, events, stored>>

(* finish_provisioning, with the callback to the BLE service. *)
finish_provisioning ==
  /\ WorkerAt("finish")
  /\ flags' = [flags EXCEPT !.provisioning_active = FALSE]
  /\ worker' = "idle"
  /\ trial' = NoTrial
  /\ UNCHANGED <<queue, bits, handler, timer, requester, scheduling,
                 driver, events, stored>>

-----------------------------------------------------------------------------
(* process_fallback_retry. *)
RetryBegin ==
  /\ WorkerAt("retry")
  /\ IF /\ flags.ap_fallback_active /\ flags.active_credentials # None
        /\ ~flags.provisioning_active
     THEN /\ flags' = [flags EXCEPT !.provisioning_active = TRUE]
          /\ trial' = [trial EXCEPT !.network = flags.active_credentials]
          /\ worker' = "look for clients"
     ELSE /\ flags' = [flags EXCEPT !.fallback_retry_pending = FALSE]
          /\ worker' = "idle"
          /\ UNCHANGED trial
  /\ UNCHANGED <<queue, bits, handler, timer, requester, scheduling, driver, events, stored>>

(* Mutant of RetryEnds: a retry that ends leaves its mark. *)
RetryEndsPending == [flags EXCEPT !.provisioning_active = FALSE]

RetryEnds == [flags EXCEPT !.provisioning_active = FALSE, !.fallback_retry_pending = FALSE]

RetrySkip ==
  /\ WorkerAt("look for clients")
  /\ flags' = RetryEnds
  /\ worker' = "idle"
  /\ trial' = NoTrial
  /\ UNCHANGED <<queue, bits, handler, timer, requester, scheduling,
                 driver, events, stored>>

(* The station joins the access point, with the saved credentials; set_mode *)
(* or set_config may fail.                                                  *)
RetryReconfigure ==
  /\ WorkerAt("look for clients")
  /\ \/ /\ driver.mode = "AP"
        /\ driver' = Running("APSTA", trial.network)
        /\ Post(<<"start">>)
     \/ UNCHANGED <<driver, events>>
  /\ worker' \in {"clear old bits", "abandon retry"}
  /\ worker' = "clear old bits" => driver.mode = "refused" \/ driver'.mode = "APSTA"
  /\ UNCHANGED <<flags, queue, bits, trial, handler, timer, requester, scheduling, stored>>

RetryClear ==
  /\ WorkerAt("clear old bits")
  /\ bits' = {}
  /\ Try(RetryAttempts, "resume station")
  /\ UNCHANGED <<flags, queue, handler, timer, requester, scheduling, driver, events, stored>>

RetryLeaveAp(ok) ==
  /\ WorkerAt("resume station")
  /\ driver' = IF ok /\ driver.mode # "refused" THEN [driver EXCEPT !.mode = "STA"] ELSE driver
  /\ worker' = IF ok THEN "resumed" ELSE "abandon retry"
  /\ UNCHANGED <<flags, queue, bits, trial, handler, timer, requester,
                 scheduling, events, stored>>

RetryDone ==
  /\ WorkerAt("resumed")
  /\ flags' = Serving(Afresh(RetryEnds), FALSE)
  /\ worker' = "idle"
  /\ trial' = NoTrial
  /\ UNCHANGED <<queue, bits, handler, timer, requester, scheduling,
                 driver, events, stored>>

RetryAbandon ==
  /\ WorkerAt("abandon retry")
  /\ \/ driver.mode # "refused" /\ driver' = Running("AP", None) /\ Post(Dropped)
     \/ Refuse
  /\ worker' = "abandoned"
  /\ UNCHANGED <<flags, queue, bits, trial, handler, timer, requester, scheduling, stored>>

RetryOver ==
  /\ WorkerAt("abandoned")
  /\ flags' = [RetryEnds EXCEPT !.sta_connected = FALSE]
  /\ worker' = "idle"
  /\ trial' = NoTrial
  /\ UNCHANGED <<queue, bits, handler, timer, requester, scheduling,
                 driver, events, stored>>

-----------------------------------------------------------------------------
(* fallback_retry_timer_cb, every minute. *)
TimerFires ==
  /\ timer = "idle"
  /\ flags.ap_fallback_active /\ flags.active_credentials # None
  /\ ~flags.provisioning_active /\ ~flags.fallback_retry_pending
  /\ flags' = [flags EXCEPT !.fallback_retry_pending = TRUE]
  /\ timer' = "send"
  /\ UNCHANGED <<queue, bits, worker, trial, handler, requester, scheduling,
                 driver, events, stored>>

TimerEnqueue ==
  /\ timer = "send"
  /\ queue' = IF HasRoom THEN Append(queue, Job("retry")) ELSE queue
  /\ timer' = IF HasRoom THEN "idle" ELSE "full"
  /\ UNCHANGED <<flags, bits, worker, trial, handler, requester, scheduling,
                 driver, events, stored>>

TimerUndo ==
  /\ timer = "full"
  /\ flags' = [flags EXCEPT !.fallback_retry_pending = FALSE]
  /\ timer' = "idle"
  /\ UNCHANGED <<queue, bits, worker, trial, handler, requester, scheduling,
                 driver, events, stored>>

(* wifi_manager_provision, called by the BLE service. *)
wifi_manager_provision(network) ==
  /\ requester.at = "idle"
  /\ ~flags.provisioning_active
  /\ flags' = [flags EXCEPT !.provisioning_active = TRUE]
  /\ requester' = [at |-> "send", network |-> network]
  /\ UNCHANGED <<queue, bits, worker, trial, handler, timer, scheduling,
                 driver, events, stored>>

RequestEnqueue ==
  /\ requester.at = "send"
  /\ IF HasRoom
     THEN /\ queue' = Append(queue, Work("provision", requester.network))
          /\ requester' = NoRequest
     ELSE /\ requester' = [requester EXCEPT !.at = "full"]
          /\ UNCHANGED queue
  /\ UNCHANGED <<flags, bits, worker, trial, handler, timer, scheduling,
                 driver, events, stored>>

RequestUndo ==
  /\ requester.at = "full"
  /\ flags' = [flags EXCEPT !.provisioning_active = FALSE]
  /\ requester' = NoRequest
  /\ UNCHANGED <<queue, bits, worker, trial, handler, timer, scheduling,
                 driver, events, stored>>

-----------------------------------------------------------------------------
Handler == StationStart \/ StationDisconnected \/ StationGotIp \/ SetBit
             \/ schedule_sta_attempt("handler")

Provisioning ==
  \/ ProvisionBegin \/ ProvisionClear \/ ProvisionReconfigure \/ ProvisionCommit
  \/ RollbackConfigure \/ RollbackFlags \/ RollbackStart \/ RollbackDone
  \/ finish_provisioning
  \/ \E ok \in BOOLEAN : ProvisionLeaveAp(ok) \/ ProvisionSave(ok)

Retry ==
  \/ RetryBegin \/ RetrySkip \/ RetryReconfigure \/ RetryClear \/ RetryAbandon \/ RetryDone \/ RetryOver
  \/ \E ok \in BOOLEAN : RetryLeaveAp(ok)

Worker ==
  \/ Receive \/ process_sta_attempt \/ enter_ap_fallback \/ FallbackSwitch
  \/ CandidateGotIp \/ CandidateMissed
  \/ \E accepted \in BOOLEAN : AttemptConnect(accepted) \/ CandidateConnect(accepted)
  \/ Provisioning \/ Retry
  \/ schedule_sta_attempt("worker")

Timer == TimerFires \/ TimerEnqueue \/ TimerUndo
Requester == RequestEnqueue \/ RequestUndo \/ \E n \in Candidates : wifi_manager_provision(n)
Driver == Connects \/ FailsToConnect \/ Drops \/ AccessPointClient

Next == Worker \/ Handler \/ Timer \/ Requester \/ Driver

(* Every task runs, and a connection under way ends.  The driver need not  *)
(* succeed, and a phone need not send anything.                            *)
Fairness ==
  /\ WF_vars(Worker)
  /\ WF_vars(Handler)
  /\ WF_vars(Timer)
  /\ WF_vars(RequestEnqueue \/ RequestUndo)
  /\ WF_vars(Connects \/ FailsToConnect)

Spec == Init /\ [][Next]_vars /\ Fairness
-----------------------------------------------------------------------------
(* Where the worker may be, beyond "idle". *)
StationPlaces == {"connect", "attempt", "fallback", "switch to AP"}
TrialPlaces == {"try", "wait"}
ProvisioningPlaces ==
  {"provision", "clear bits", "reconfigure", "leave AP", "save", "commit",
   "roll back", "restore", "start again", "restored", "finish"}
RetryPlaces ==
  {"look for clients", "clear old bits", "resume station", "resumed",
   "abandon retry", "abandoned"}

(* Type invariant. *)
TypeOK ==
  /\ flags \in
       [sta_enabled : BOOLEAN, ap_enabled : BOOLEAN, provisioning_active : BOOLEAN,
        active_credentials : Credentials, ap_fallback_active : BOOLEAN,
        ap_fallback_pending : BOOLEAN, sta_attempt_pending : BOOLEAN,
        fallback_retry_pending : BOOLEAN, sta_connect_attempts : 0 .. StationAttempts,
        sta_connected : BOOLEAN]
  /\ queue \in Seq([type : {"connect", "fallback", "provision", "retry", "refresh"},
                    network : Credentials])
  /\ Len(queue) <= QueueLength
  /\ bits \subseteq {"got_ip", "disconnected"}
  /\ worker \in {"idle", "retry"} \cup StationPlaces \cup TrialPlaces
                \cup ProvisioningPlaces \cup RetryPlaces
  /\ trial \in
       [network : Credentials, previous : Credentials, fallback : BOOLEAN,
        attempts : 0 .. ProvisionAttempts + RetryAttempts,
        then : {"idle", "leave AP", "save", "resume station"}]
  /\ handler \in {"idle", "got_ip", "disconnected"}
  /\ timer \in {"idle", "send", "full"}
  /\ requester \in [at : {"idle", "send", "full"}, network : Credentials]
  /\ scheduling \in [Callers -> {"idle", "called", "connect", "fallback", "full"}]
  /\ driver \in [mode : {"AP", "STA", "APSTA", "off", "refused"}, config : Credentials,
                 link : {"down", "connecting", "up"}]
  /\ events \in Seq({"start", "disconnected", "got_ip"})
  /\ stored \in Credentials

Queued(types) == \E i \in 1 .. Len(queue) : queue[i].type \in types

(* The four flags that keep others from queueing work are each backed by  *)
(* somebody who will take it back: otherwise every later request is busy,  *)
(* or no later attempt or retry is ever made.                              *)
MarksAreBacked ==
  /\ flags.provisioning_active =>
       \/ requester.at # "idle" \/ Queued({"provision"})
       \/ worker \in ProvisioningPlaces \cup TrialPlaces \cup RetryPlaces
  /\ flags.fallback_retry_pending =>
       \/ timer # "idle" \/ Queued({"retry"})
       \/ worker \in RetryPlaces \cup {"retry"}
       \/ worker \in TrialPlaces /\ trial.then = "resume station"
  /\ flags.sta_attempt_pending =>
       \/ \E p \in Callers : scheduling[p] \in {"connect", "fallback", "full"}
       \/ Queued({"connect", "fallback"}) \/ worker \in {"connect", "fallback"}
  /\ flags.ap_fallback_pending =>
       \/ \E p \in Callers : scheduling[p] \in {"fallback", "full"}
       \/ Queued({"fallback"}) \/ worker = "fallback"

AtRest == worker = "idle" /\ scheduling["worker"] = "idle"

(* Between two pieces of work the driver runs what the flags say, unless   *)
(* the driver refused: the recovery access point alone, or the station     *)
(* alone.  A connected station is in the network whose credentials last.   *)
DriverMatchesFlags ==
  AtRest /\ driver.mode # "refused" =>
    /\ flags.ap_enabled = flags.ap_fallback_active
    /\ flags.sta_enabled # flags.ap_fallback_active
    /\ driver.mode = IF flags.ap_fallback_active THEN "AP" ELSE "STA"
    /\ driver.link # "down" => driver.config = flags.active_credentials

(* "retains the prior saved credentials": memory and flash name the same   *)
(* network however a provisioning ends, once one has been saved.           *)
CredentialsMatchFlash ==
  worker # "commit" /\ stored # None => flags.active_credentials = stored

(* "STA makes five total consecutive connection attempts [...] After five  *)
(* failures, the manager switches to AP-only mode": a station that lost    *)
(* its connection gets it back, or makes way for the access point.         *)
StationRecovers ==
  ~flags.ap_fallback_active /\ driver.mode = "STA" /\ driver.link = "down"
    ~> flags.ap_fallback_active \/ driver.link = "up"
=============================================================================
