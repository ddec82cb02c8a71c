------------------------------ MODULE WsClients ------------------------------
(***************************************************************************)
(* The table of WebSocket clients (web_server.c).  The HTTP server's task  *)
(* tracks and untracks sockets and completes queued sends; two tasks, the  *)
(* status publisher and the OTA worker, broadcast to the table.  A socket  *)
(* number is used again once its session is gone, so a slot carries the    *)
(* generation of the client it was given to.                               *)
(*                                                                         *)
(* The sessions and the work queue belong to the HTTP server, external to  *)
(* this code: sessions end for reasons of their own, often without any     *)
(* call of ws_handler, and queued work runs in order.                      *)
(***************************************************************************)
EXTENDS Integers, Sequences, FiniteSets

CONSTANTS
  Sockets,       \* socket numbers
  NoSocket,      \* a free slot's
  SlotCount,     \* the table's size, 4; the server has 12 sockets
  Broadcasters,  \* the tasks that broadcast
  FailureLimit,  \* failed sends in a row that close a client, 30
  MaxGeneration  \* bound of the exploration: clients tracked

ASSUME WsClientsAssumption ==
  /\ NoSocket \notin Sockets
  /\ SlotCount \in Nat \ {0}
  /\ FailureLimit \in Nat \ {0}
  /\ MaxGeneration \in Nat

VARIABLES
  session,    \* what the HTTP server has on a socket: "closed", "http", "ws"
  queue,      \* its queued work: sends and closes
  tracking,   \* the socket ws_handler is about to track, or NoSocket
  client,     \* s_ws_clients and the arrays beside it
  generation, \* s_ws_next_generation
  sender      \* where each broadcaster is

vars == <<session, queue, tracking, client, generation, sender>>

Slots == 1 .. SlotCount
FreeSlot == [socket |-> NoSocket, generation |-> 0, failures |-> 0,
             inflight |-> FALSE, resting |-> FALSE]

Tracked(s) == \E i \in Slots : client[i].socket = s
SlotsOf(s, g) == {i \in Slots : client[i].socket = s /\ client[i].generation = g}
FreeSlots == {i \in Slots : client[i].socket = NoSocket}

Work(kind, s, g) == [kind |-> kind, socket |-> s, generation |-> g]
At(step, i, s, g) == [at |-> step, slot |-> i, socket |-> s, generation |-> g]

(* A broadcaster between two clients: about to look at slot i. *)
Claiming(i) == At("claim", i, NoSocket, 0)
NextSlot(i) == Claiming(IF i = SlotCount THEN 1 ELSE i + 1)

-----------------------------------------------------------------------------
Init ==
  /\ session = [s \in Sockets |-> "closed"]
  /\ queue = <<>>
  /\ tracking = NoSocket
  /\ client = [i \in Slots |-> FreeSlot]
  /\ generation = 0
  /\ sender = [b \in Broadcasters |-> Claiming(1)]

(* Mutant of Failed: one failure more than the limit. *)
FailedOneLate(c, stalled) ==
  IF stalled \/ c.failures + 1 > FailureLimit
  THEN [c EXCEPT !.inflight = FALSE, !.resting = TRUE, !.failures = @ + 1,
                 !.socket = NoSocket]
  ELSE [c EXCEPT !.inflight = FALSE, !.resting = TRUE, !.failures = @ + 1]

(* The outcome of a send, for the slot that still belongs to that client.  *)
(* Failures in a row, or thirty seconds of them, close it.                 *)
Failed(c, stalled) ==
  IF stalled \/ c.failures + 1 >= FailureLimit
  THEN [c EXCEPT !.inflight = FALSE, !.resting = TRUE, !.failures = @ + 1,
                 !.socket = NoSocket]
  ELSE [c EXCEPT !.inflight = FALSE, !.resting = TRUE, !.failures = @ + 1]

Succeeded(c) == [c EXCEPT !.inflight = FALSE, !.resting = FALSE, !.failures = 0]

(* Mutant of ws_finish_send: the generation is not compared. *)
FinishAnyGeneration(s, g, ok, stalled) ==
  client' = [i \in Slots |->
               IF client[i].socket # s THEN client[i]
               ELSE IF ok THEN Succeeded(client[i]) ELSE Failed(client[i], stalled)]

(* Mutant of ws_finish_send: a failed send stays in flight. *)
FinishKeepingInflight(s, g, ok, stalled) ==
  client' = [i \in Slots |->
               IF i \notin SlotsOf(s, g) THEN client[i]
               ELSE IF ok THEN Succeeded(client[i])
               ELSE [Failed(client[i], stalled) EXCEPT !.inflight = TRUE]]

ws_finish_send(s, g, ok, stalled) ==
  client' = [i \in Slots |->
               IF i \notin SlotsOf(s, g) THEN client[i]
               ELSE IF ok THEN Succeeded(client[i]) ELSE Failed(client[i], stalled)]

(* It closed a client: only ever one it matched. *)
Closes(s, g) == SlotsOf(s, g) # {} /\ \A i \in SlotsOf(s, g) : client'[i].socket = NoSocket

-----------------------------------------------------------------------------
(* The HTTP server's task: sessions. *)
Idle == tracking = NoSocket

Accept(s) ==
  /\ Idle
  /\ session[s] = "closed"
  /\ session' = [session EXCEPT ![s] = "http"]
  /\ UNCHANGED <<queue, tracking, client, generation, sender>>

(* A connection ends without a call of the handler: reset, purged as least *)
(* recently used, closed by the browser; or with one that did not get the  *)
(* table's lock in 100 ms, and could not untrack the client.               *)
Drop(s) ==
  /\ Idle
  /\ session[s] # "closed"
  /\ session' = [session EXCEPT ![s] = "closed"]
  /\ UNCHANGED <<queue, tracking, client, generation, sender>>

(* The upgrade, or a frame: either way the handler tracks the client. *)
HandlerCalled(s) ==
  /\ Idle
  /\ generation < MaxGeneration
  /\ session[s] # "closed"
  /\ session' = [session EXCEPT ![s] = "ws"]
  /\ tracking' = s
  /\ UNCHANGED <<queue, client, generation, sender>>

track_client ==
  /\ tracking # NoSocket
  /\ tracking' = NoSocket
  /\ IF Tracked(tracking) \/ FreeSlots = {}
     THEN UNCHANGED <<client, generation>>
     ELSE /\ generation' = generation + 1
          /\ \E i \in FreeSlots :
               /\ \A j \in FreeSlots : i <= j
               /\ client' = [client EXCEPT ![i] =
                    [FreeSlot EXCEPT !.socket = tracking, !.generation = generation + 1]]
  /\ UNCHANGED <<session, queue, sender>>

(* The lock is not had within 100 ms: a client may stay out of the table   *)
(* until its next frame.                                                   *)
TrackTimesOut ==
  /\ tracking # NoSocket
  /\ tracking' = NoSocket
  /\ UNCHANGED <<session, queue, client, generation, sender>>

(* A close frame, or one that cannot be received: the handler untracks     *)
(* and the session ends.                                                   *)
untrack_client(s) ==
  /\ Idle
  /\ session[s] = "ws"
  /\ session' = [session EXCEPT ![s] = "closed"]
  /\ client' = [i \in Slots |->
                  IF client[i].socket = s
                  THEN [FreeSlot EXCEPT !.generation = client[i].generation]
                  ELSE client[i]]
  /\ UNCHANGED <<queue, tracking, generation, sender>>

(* The HTTP server's task: queued work. *)
ws_async_send_complete(ok, stalled) ==
  LET w == Head(queue)
  IN /\ Idle
     /\ queue # <<>>
     /\ w.kind = "send"
     /\ ok => session[w.socket] # "closed"
     /\ ws_finish_send(w.socket, w.generation, ok, stalled)
     /\ queue' = IF Closes(w.socket, w.generation)
                 THEN Append(Tail(queue), Work("close", w.socket, 0))
                 ELSE Tail(queue)
     /\ UNCHANGED <<session, tracking, generation, sender>>

CloseSession ==
  /\ Idle
  /\ queue # <<>>
  /\ Head(queue).kind = "close"
  /\ queue' = Tail(queue)
  /\ session' = [session EXCEPT ![Head(queue).socket] = "closed"]
  /\ UNCHANGED <<tracking, client, generation, sender>>

QueuedWork ==
  CloseSession \/ \E ok, stalled \in BOOLEAN : ws_async_send_complete(ok, stalled)

-----------------------------------------------------------------------------
(* A broadcast: for each slot, claim it, look at its session, send. *)
Go(b, place) == sender' = [sender EXCEPT ![b] = place]

Busy(i) == client[i].inflight \/ client[i].resting

Skip(b) ==
  LET i == sender[b].slot
  IN /\ sender[b].at = "claim"
     /\ client[i].socket = NoSocket \/ Busy(i)
     /\ Go(b, NextSlot(i))
     /\ UNCHANGED <<session, queue, tracking, client, generation>>

Claim(b) ==
  LET i == sender[b].slot
  IN /\ sender[b].at = "claim"
     /\ client[i].socket # NoSocket /\ ~Busy(i)
     /\ client' = [client EXCEPT ![i].inflight = TRUE]
     /\ Go(b, At("check", i, client[i].socket, client[i].generation))
     /\ UNCHANGED <<session, queue, tracking, generation>>

Check(b) ==
  /\ sender[b].at = "check"
  /\ Go(b, [sender[b] EXCEPT !.at = IF session[sender[b].socket] = "ws"
                                  THEN "send" ELSE "gone"])
  /\ UNCHANGED <<session, queue, tracking, client, generation>>

Send(b) ==
  LET here == sender[b]
  IN /\ here.at = "send"
     /\ queue' = Append(queue, Work("send", here.socket, here.generation))
     /\ Go(b, NextSlot(here.slot))
     /\ UNCHANGED <<session, tracking, client, generation>>

(* No memory, or no room in the work queue; or the session was gone, after *)
(* which the slot is cleared as well.                                      *)
GiveUp(b, stalled) ==
  LET here == sender[b]
      clears == here.at = "gone"
  IN /\ here.at \in {"send", "gone"}
     /\ ws_finish_send(here.socket, here.generation, FALSE, stalled)
     /\ Go(b, IF Closes(here.socket, here.generation)
              THEN [here EXCEPT !.at = IF clears THEN "close and clear" ELSE "close"]
              ELSE IF clears THEN [here EXCEPT !.at = "clear"]
              ELSE NextSlot(here.slot))
     /\ UNCHANGED <<session, queue, tracking, generation>>

(* httpd_sess_trigger_close, after the lock is given back. *)
TriggerClose(b) ==
  LET here == sender[b]
  IN /\ here.at \in {"close", "close and clear"}
     /\ queue' = IF session[here.socket] = "closed" THEN queue
                 ELSE Append(queue, Work("close", here.socket, 0))
     /\ Go(b, IF here.at = "close" THEN NextSlot(here.slot) ELSE [here EXCEPT !.at = "clear"])
     /\ UNCHANGED <<session, tracking, client, generation>>

clear_client_slot(b) ==
  LET here == sender[b]
  IN /\ here.at = "clear"
     /\ client' = [i \in Slots |->
                     IF i \in SlotsOf(here.socket, here.generation)
                     THEN [FreeSlot EXCEPT !.generation = here.generation]
                     ELSE client[i]]
     /\ Go(b, NextSlot(here.slot))
     /\ UNCHANGED <<session, queue, tracking, generation>>

ClearTimesOut(b) ==
  /\ sender[b].at = "clear"
  /\ Go(b, NextSlot(sender[b].slot))
  /\ UNCHANGED <<session, queue, tracking, client, generation>>

(* The 1.5 s after a failed send pass. *)
RetryAfter(i) ==
  /\ client[i].resting
  /\ client' = [client EXCEPT ![i].resting = FALSE]
  /\ UNCHANGED <<session, queue, tracking, generation, sender>>

Broadcast(b) ==
  \/ Skip(b) \/ Claim(b) \/ Check(b) \/ Send(b) \/ TriggerClose(b)
  \/ clear_client_slot(b) \/ ClearTimesOut(b)
  \/ \E stalled \in BOOLEAN : GiveUp(b, stalled)

Server ==
  \/ track_client \/ TrackTimesOut
  \/ QueuedWork
  \/ \E s \in Sockets : Accept(s) \/ Drop(s) \/ HandlerCalled(s) \/ untrack_client(s)

Next == Server \/ (\E b \in Broadcasters : Broadcast(b)) \/ (\E i \in Slots : RetryAfter(i))

(* Which of this must happen, the browser's module says. *)
Spec == Init /\ [][Next]_vars
-----------------------------------------------------------------------------
(* Type invariant. *)
TypeOK ==
  /\ session \in [Sockets -> {"closed", "http", "ws"}]
  /\ queue \in Seq([kind : {"send", "close"}, socket : Sockets, generation : 0 .. MaxGeneration])
  /\ tracking \in Sockets \cup {NoSocket}
  /\ client \in [Slots -> [socket : Sockets \cup {NoSocket}, generation : 0 .. MaxGeneration,
                           failures : 0 .. FailureLimit, inflight : BOOLEAN, resting : BOOLEAN]]
  /\ generation \in 0 .. MaxGeneration
  /\ sender \in [Broadcasters ->
       [at : {"claim", "check", "send", "gone", "close", "close and clear", "clear"},
        slot : Slots, socket : Sockets \cup {NoSocket}, generation : 0 .. MaxGeneration]]

(* No client takes two slots, and would be sent everything twice. *)
OneSlotPerSocket ==
  \A i, j \in Slots :
    client[i].socket # NoSocket /\ client[i].socket = client[j].socket => i = j

(* The sends of client i that have been claimed and not yet completed. *)
Queued(i) ==
  {k \in 1 .. Len(queue) :
     queue[k] = Work("send", client[i].socket, client[i].generation)}
Claimed(i) ==
  {b \in Broadcasters :
     /\ sender[b].at \in {"check", "send", "gone"}
     /\ sender[b].socket = client[i].socket
     /\ sender[b].generation = client[i].generation}

(* However sockets are dropped, reused and tracked again while sends are   *)
(* under way, a client has one send in flight exactly when its slot says   *)
(* so: it is neither flooded nor left marked busy by a send nobody will    *)
(* complete.                                                               *)
InflightIsExact ==
  \A i \in Slots \ FreeSlots :
    Cardinality(Queued(i)) + Cardinality(Claimed(i)) = IF client[i].inflight THEN 1 ELSE 0

(* A slot does not stay in flight for ever. *)
SendsComplete == \A i \in Slots : []<>(client[i].socket = NoSocket \/ ~client[i].inflight)
=============================================================================
