------------------------------ MODULE BleService ------------------------------
(***************************************************************************)
(* The BLE service (ble_service.c): advertising and the link, the requests   *)
(* a client writes, and the long messages that three tasks send at once -  *)
(* the NimBLE host, the updater a request starts, the Wi-Fi worker with a  *)
(* provisioning's result - each as BEGIN, CHUNK.., END under a number from *)
(* the unguarded counter s_tx_msg_id.                                      *)
(*                                                                         *)
(* The stack (link, attribute MTU, delivery), the client, which puts the   *)
(* frames of a number together, the update itself and the trial of the     *)
(* credentials are external.  What a message says is left out: a message   *)
(* is its length.                                                          *)
(***************************************************************************)
EXTENDS Integers

CONSTANTS
  Lengths,        \* bytes of a message
  Mtus,           \* what a client may raise the MTU to
  HeaderLengths,  \* bytes of a chunk's header, in an array of 32
  MaxId           \* bound of the exploration: long messages

ASSUME BleServiceAssumption ==
  /\ Lengths \subseteq Nat \ {0}
  /\ Mtus \subseteq Nat /\ \A m \in Mtus : m >= 23
  /\ HeaderLengths \subseteq 1 .. 32
  /\ MaxId \in Nat

VARIABLES
  synced,         \* host and controller are in step
  advertising,    \* the controller advertises
  refused,        \* history: the stack refused the last call to advertise
  linked,         \* the stack has a connection
  mtu,            \* of that connection
  secure,         \* it is encrypted, authenticated and bonded
  event,          \* the GAP event the host is about to report
  s_conn_handle,  \* the service knows of one
  s_tx_msg_id,    \* the last message number
  sender,         \* what each task is sending
  ota,            \* the task of a BLE update request
  s_ble_ota_request_pending,
  inbox           \* the messages the client is putting together, by number

linkVars == <<synced, advertising, refused, linked, mtu, secure, event>>
requestVars == <<ota, s_ble_ota_request_pending>>
frameVars == <<s_tx_msg_id, inbox>>
vars == <<linkVars, s_conn_handle, frameVars, sender, requestVars>>

Tasks == {"host", "updater", "wifi"}
Ids == 1 .. MaxId
DefaultMtu == 23

(* A task that sends nothing.  ack marks the acknowledgement of an update, *)
(* same a client that is still the one the message was measured for, twin  *)
(* a number that another task uses as well.                                *)
Quiet == [at |-> "idle", ack |-> FALSE, length |-> 0, max |-> 0,
          index |-> 0, offset |-> 0, id |-> 0, same |-> FALSE, twin |-> FALSE]

(* What the client has under a number. *)
Nothing == [from |-> "nobody", length |-> 0, got |-> 0]
Mixed == [from |-> "several", length |-> 0, got |-> 0]
Begun(t, length) == [from |-> t, length |-> length, got |-> 0]
Put(t, m, bytes) ==
  IF m.from = t THEN [m EXCEPT !.got = @ + bytes] ELSE IF m = Nothing THEN m ELSE Mixed

Init ==
  /\ synced = FALSE /\ advertising = FALSE /\ refused = FALSE
  /\ linked = FALSE /\ mtu = DefaultMtu /\ secure = FALSE
  /\ event = "none"
  /\ s_conn_handle = FALSE
  /\ s_tx_msg_id = 0
  /\ sender = [t \in Tasks |-> Quiet]
  /\ ota = "none" /\ s_ble_ota_request_pending = FALSE
  /\ inbox = [i \in Ids |-> Nothing]

-----------------------------------------------------------------------------
(* Sending. *)
Go(t, place) == sender' = [sender EXCEPT ![t] = place]

(* The send returns, with or without an error; the host's acknowledgement  *)
(* of an update is followed by a word to its task.                         *)
Returned(ack) == IF ack THEN [Quiet EXCEPT !.at = "acknowledged"] ELSE Quiet
Finished(t) == Go(t, Returned(sender[t].ack))

Room(m) == IF m - 3 >= 20 THEN m - 3 ELSE 20
Smaller(a, b) == IF a < b THEN a ELSE b

(* Frames reach the client of the connection the service knows of, if the  *)
(* stack still has it.                                                     *)
Reaches == s_conn_handle /\ linked

(* A message is sent.  Nothing more is to be done without a connection or  *)
(* memory for the text, or when one frame holds it.  The MTU is read once; *)
(* a longer message loads the counter...                                   *)
Message(t, ack) ==
  \/ Go(t, Returned(ack))
  \/ \E length \in Lengths :
       LET max == Room(IF linked THEN mtu ELSE 0)
       IN /\ s_conn_handle'
          /\ length > max
          /\ s_tx_msg_id < MaxId
          /\ Go(t, [Quiet EXCEPT !.at = "draw", !.ack = ack, !.length = length, !.max = max,
                                !.id = s_tx_msg_id + 1, !.same = linked])

(* ... and stores it: two tasks may draw the same number, and are twins. *)
Numbered == {"begin", "chunk", "end"}
Twins(t) == {u \in Tasks \ {t} : sender[u].at \in Numbered /\ sender[u].id = sender[t].id}

Draw(t) ==
  /\ sender[t].at = "draw"
  /\ s_tx_msg_id' = sender[t].id
  /\ sender' = [u \in Tasks |->
                  IF u = t THEN [sender[t] EXCEPT !.at = "begin", !.twin = Twins(t) # {}]
                  ELSE IF u \in Twins(t) THEN [sender[u] EXCEPT !.twin = TRUE]
                  ELSE sender[u]]
  /\ UNCHANGED <<linkVars, s_conn_handle, inbox, requestVars>>

FrameFails(t) ==
  /\ sender[t].at \in Numbered
  /\ Finished(t)
  /\ UNCHANGED <<linkVars, s_conn_handle, frameVars, requestVars>>

(* The client makes room; with an MTU too small for a header the service   *)
(* leaves it at that.                                                      *)
SendBegin(t) ==
  LET here == sender[t]
  IN /\ here.at = "begin"
     /\ Reaches
     /\ inbox' = [inbox EXCEPT ![here.id] = Begun(t, here.length)]
     /\ IF here.max <= 32 THEN Finished(t) ELSE Go(t, [here EXCEPT !.at = "chunk"])
     /\ UNCHANGED <<linkVars, s_conn_handle, s_tx_msg_id, requestVars>>

(* Chunks of a message, for the longest header. *)
Total(length, max) == (length + max - 33) \div (max - 32)

(* Mutant of Taken: forgets the header. *)
TakenForWholeFrame(here, header) == Smaller(here.length - here.offset, here.max)

(* Mutant of Taken: forgets what remains. *)
TakenBeyondEnd(here, header) == here.max - header

(* The bytes of a chunk fill the frame that was measured... *)
Taken(here, header) == Smaller(here.length - here.offset, here.max - header)

(* ... and the stack cuts it to the MTU of today's connection. *)
Arriving(bytes, header) ==
  Smaller(bytes, IF Room(mtu) > header THEN Room(mtu) - header ELSE 0)

SendChunk(t) ==
  LET here == sender[t]
  IN /\ here.at = "chunk"
     /\ Reaches
     /\ \E header \in HeaderLengths :
          LET bytes == Taken(here, header)
          IN /\ inbox' = [inbox EXCEPT ![here.id] = Put(t, @, Arriving(bytes, header))]
             /\ Go(t, [here EXCEPT
                         !.at = IF here.index + 1 = Total(here.length, here.max)
                                THEN "end" ELSE "chunk",
                         !.index = @ + 1,
                         !.offset = @ + bytes])
     /\ UNCHANGED <<linkVars, s_conn_handle, s_tx_msg_id, requestVars>>

SendEnd(t) ==
  /\ sender[t].at = "end"
  /\ Reaches
  /\ inbox' = [inbox EXCEPT ![sender[t].id] = Nothing]
  /\ Finished(t)
  /\ UNCHANGED <<linkVars, s_conn_handle, s_tx_msg_id, requestVars>>

send_json(t) ==
  Draw(t) \/ FrameFails(t) \/ SendBegin(t) \/ SendChunk(t) \/ SendEnd(t)

-----------------------------------------------------------------------------
(* The stack and the client.  The host's task is in one handler at a time. *)
HostIdle == event = "none" /\ sender["host"].at = "idle"

(* The client forgets, and what was measured for it is for another one. *)
LoseLink ==
  /\ linked' = FALSE /\ mtu' = DefaultMtu /\ secure' = FALSE
  /\ inbox' = [i \in Ids |-> Nothing]
  /\ sender' = [t \in Tasks |-> [sender[t] EXCEPT !.same = FALSE]]

HostReset ==
  /\ HostIdle /\ synced
  /\ synced' = FALSE /\ advertising' = FALSE
  /\ IF linked THEN LoseLink ELSE UNCHANGED <<linked, mtu, secure, inbox, sender>>
  /\ event' = IF linked THEN "disconnect" ELSE IF advertising THEN "advertised" ELSE "none"
  /\ UNCHANGED <<refused, s_conn_handle, s_tx_msg_id, requestVars>>

Connect ==
  /\ HostIdle /\ advertising
  /\ advertising' = FALSE
  /\ linked' = TRUE
  /\ event' = "connect"
  /\ UNCHANGED <<synced, refused, mtu, secure, s_conn_handle, frameVars, sender, requestVars>>

ConnectFails ==
  /\ HostIdle /\ advertising
  /\ advertising' = FALSE
  /\ event' = "advertised"
  /\ UNCHANGED <<synced, refused, linked, mtu, secure, s_conn_handle, frameVars, sender, requestVars>>

LinkLost ==
  /\ HostIdle /\ linked
  /\ LoseLink
  /\ event' = "disconnect"
  /\ UNCHANGED <<synced, advertising, refused, s_conn_handle, s_tx_msg_id, requestVars>>

(* The MTU is raised once; pairing succeeds. *)
LinkImproves ==
  /\ HostIdle /\ linked
  /\ \/ mtu = DefaultMtu /\ mtu' \in Mtus /\ UNCHANGED secure
     \/ secure' = TRUE /\ UNCHANGED mtu
  /\ UNCHANGED <<synced, advertising, refused, linked, event, s_conn_handle,
                 frameVars, sender, requestVars>>

-----------------------------------------------------------------------------
(* The host's handlers. *)

(* Each of its three calls into the stack may fail, and must unless host   *)
(* and controller are in step; that is logged, and nobody calls again.     *)
start_advertising(in_step) ==
  \/ in_step /\ advertising' = TRUE /\ refused' = FALSE
  \/ UNCHANGED advertising /\ refused' = in_step

on_sync ==
  /\ HostIdle /\ ~synced
  /\ synced' = TRUE
  /\ start_advertising(TRUE)
  /\ UNCHANGED <<linked, mtu, secure, event, s_conn_handle, frameVars, sender, requestVars>>

(* The network summary is sent at once. *)
Connected ==
  /\ event = "connect"
  /\ event' = "none"
  /\ s_conn_handle' = TRUE
  /\ UNCHANGED <<synced, advertising, refused, linked, mtu, secure, frameVars, requestVars>>
  /\ Message("host", FALSE)

(* Mutant of Disconnected: leaves advertising to the stack. *)
DisconnectedQuietly ==
  /\ event = "disconnect"
  /\ event' = "none"
  /\ s_conn_handle' = FALSE
  /\ UNCHANGED <<synced, advertising, refused, linked, mtu, secure, frameVars, sender, requestVars>>

Disconnected ==
  /\ event = "disconnect"
  /\ event' = "none"
  /\ s_conn_handle' = FALSE
  /\ start_advertising(synced)
  /\ UNCHANGED <<synced, linked, mtu, secure, frameVars, sender, requestVars>>

(* A connection failed, or advertising ended. *)
Advertised ==
  /\ event = "advertised"
  /\ event' = "none"
  /\ start_advertising(synced)
  /\ UNCHANGED <<synced, linked, mtu, secure, s_conn_handle, frameVars, sender, requestVars>>

(* What is only answered here: a subscription, a question for the status,  *)
(* an update that is refused, credentials, which the Wi-Fi manager takes   *)
(* or refuses.                                                             *)
Answer ==
  /\ HostIdle /\ linked
  /\ UNCHANGED <<linkVars, s_conn_handle, frameVars, requestVars>>
  /\ Message("host", FALSE)

ble_service_queue_ota_request ==
  /\ HostIdle /\ linked /\ secure
  /\ ~s_ble_ota_request_pending
  /\ s_ble_ota_request_pending' = TRUE
  /\ ota' = "waiting"
  /\ UNCHANGED <<linkVars, s_conn_handle, frameVars>>
  /\ Message("host", TRUE)

(* The task of the update is told to start. *)
NotifyGive ==
  /\ sender["host"].at = "acknowledged"
  /\ ota' = "updating"
  /\ Go("host", Quiet)
  /\ UNCHANGED <<linkVars, s_conn_handle, frameVars, s_ble_ota_request_pending>>

Handler ==
  \/ on_sync \/ Connected \/ Disconnected \/ Advertised \/ NotifyGive

-----------------------------------------------------------------------------
(* The other two tasks. *)

(* Mutant of UpdateReturns: the task does not wait to be told. *)
UpdateReturnsUnasked ==
  /\ ota \in {"waiting", "updating"}
  /\ ota' = "answering"
  /\ UNCHANGED <<linkVars, s_conn_handle, frameVars, s_ble_ota_request_pending>>
  /\ Message("updater", FALSE)

UpdateReturns ==
  /\ ota = "updating"
  /\ ota' = "answering"
  /\ UNCHANGED <<linkVars, s_conn_handle, frameVars, s_ble_ota_request_pending>>
  /\ Message("updater", FALSE)

ble_service_release_ota_request ==
  /\ ota = "answering" /\ sender["updater"].at = "idle"
  /\ ota' = "none"
  /\ s_ble_ota_request_pending' = FALSE
  /\ UNCHANGED <<linkVars, s_conn_handle, frameVars, sender>>

(* The Wi-Fi worker calls it at the end of a trial, when another request   *)
(* may already have been accepted.                                         *)
ble_service_on_wifi_provision_result ==
  /\ sender["wifi"].at = "idle"
  /\ UNCHANGED <<linkVars, s_conn_handle, frameVars, requestVars>>
  /\ Message("wifi", FALSE)

-----------------------------------------------------------------------------
Next ==
  \/ HostReset \/ Connect \/ ConnectFails \/ LinkLost \/ LinkImproves
  \/ Handler
  \/ Answer \/ ble_service_queue_ota_request
  \/ UpdateReturns \/ ble_service_release_ota_request \/ ble_service_on_wifi_provision_result
  \/ \E t \in Tasks : send_json(t)

(* The host's task runs its handlers to the end. *)
Spec == Init /\ [][Next]_vars /\ WF_vars(Handler) /\ WF_vars(send_json("host"))
-----------------------------------------------------------------------------
(* Type invariant; no chunk reads past the end of its message. *)
TypeOK ==
  /\ synced \in BOOLEAN /\ advertising \in BOOLEAN /\ refused \in BOOLEAN
  /\ linked \in BOOLEAN /\ secure \in BOOLEAN
  /\ mtu \in {DefaultMtu} \cup Mtus
  /\ event \in {"none", "connect", "disconnect", "advertised"}
  /\ s_conn_handle \in BOOLEAN
  /\ s_tx_msg_id \in 0 .. MaxId
  /\ sender \in [Tasks ->
       [at : {"idle", "draw", "begin", "chunk", "end", "acknowledged"},
        ack : BOOLEAN, length : Nat, max : Nat, index : Nat, offset : Nat,
        id : 0 .. MaxId, same : BOOLEAN, twin : BOOLEAN]]
  /\ \A t \in Tasks : sender[t].offset <= sender[t].length
  /\ ota \in {"none", "waiting", "updating", "answering"}
  /\ s_ble_ota_request_pending \in BOOLEAN
  /\ inbox \in [Ids -> [from : Tasks \cup {"nobody", "several"}, length : Nat, got : Nat]]

(* "If output looks truncated, reassemble CHUNK frames": a client that was *)
(* there when the message was measured and is about to get its END has all *)
(* of its bytes, in order and of nobody else, whatever the other tasks     *)
(* send and although chunks are counted for the longest header - unless    *)
(* two tasks drew the same number.                                         *)
EndMeansAll ==
  \A t \in Tasks :
    LET here == sender[t]
    IN here.at = "end" /\ here.same /\ ~here.twin
       => inbox[here.id] = [Begun(t, here.length) EXCEPT !.got = here.length]

(* "The device first sends an ... event with status accepted, followed by  *)
(* completed or failed": the answer to an update is not on its way before  *)
(* the acknowledgement has been.                                           *)
AcknowledgedFirst == sender["host"].ack => sender["updater"].at = "idle"

(* Through lost links, failed connections and resets of the host, the tub  *)
(* is connected or to be found again and again - unless the stack refused  *)
(* the last call to advertise, after which only a reset of the host helps. *)
Reachable == []<>(linked \/ advertising \/ refused)
=============================================================================
