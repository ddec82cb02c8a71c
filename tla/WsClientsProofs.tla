--------------------------- MODULE WsClientsProofs ---------------------------
(* Proofs about the table of WebSocket clients, for any sockets, slots and  *)
(* broadcasters, and for the browser that uses it.                          *)
EXTENDS BrowserFeed, FiniteSetTheorems, TLAPS

Works == [kind : {"send", "close"}, socket : Sockets, generation : 0 .. MaxGeneration]
Clients == [socket : Sockets \cup {NoSocket}, generation : 0 .. MaxGeneration,
            failures : 0 .. FailureLimit, inflight : BOOLEAN, resting : BOOLEAN]
Places == [at : {"claim", "check", "send", "gone", "close", "close and clear", "clear"},
           slot : Slots, socket : Sockets \cup {NoSocket}, generation : 0 .. MaxGeneration]

(* A client is closed at its last failure; a broadcaster between its claim *)
(* and the next one is about a socket.                                     *)
Sound ==
  /\ \A i \in Slots : client[i].socket # NoSocket => client[i].failures < FailureLimit
  /\ \A b \in Broadcasters : sender[b].at # "claim" => sender[b].socket \in Sockets
  /\ tracking # NoSocket => generation < MaxGeneration

(* Whatever is under way belongs to a client that has been tracked. *)
Dated ==
  /\ \A i \in Slots : client[i].generation <= generation
  /\ \A k \in 1 .. Len(queue) : queue[k].generation <= generation
  /\ \A b \in Broadcasters : sender[b].generation <= generation

(* The sends of generation g on socket s. *)
Waiting(q, s, g) == {k \in 1 .. Len(q) : q[k] = Work("send", s, g)}
Holds(place, s, g) ==
  place.at \in {"check", "send", "gone"} /\ place.socket = s /\ place.generation = g
Holders(s, g) == {b \in Broadcasters : Holds(sender[b], s, g)}

NoneWaits(q, s, g) == Waiting(q, s, g) = {}
OneWaits(q, s, g) == \E k : Waiting(q, s, g) = {k}
NoneHolds(s, g) == Holders(s, g) = {}
OneHolds(s, g) == \E b : Holders(s, g) = {b}

Exact(s, g, inflight) ==
  IF inflight
  THEN \/ OneWaits(queue, s, g) /\ NoneHolds(s, g)
       \/ NoneWaits(queue, s, g) /\ OneHolds(s, g)
  ELSE NoneWaits(queue, s, g) /\ NoneHolds(s, g)

AllExact ==
  \A i \in Slots : client[i].socket # NoSocket
                   => Exact(client[i].socket, client[i].generation, client[i].inflight)

IInv == TypeOK /\ Sound /\ Dated /\ OneSlotPerSocket /\ AllExact

-----------------------------------------------------------------------------
(* The queue of work. *)
LEMMA AppendOther ==
  ASSUME NEW q \in Seq(Works), NEW w \in Works, NEW s, NEW g, w # Work("send", s, g)
  PROVE  Waiting(Append(q, w), s, g) = Waiting(q, s, g)
BY DEF Waiting

LEMMA AppendIt ==
  ASSUME NEW q \in Seq(Works), NEW s, NEW g, Work("send", s, g) \in Works, NoneWaits(q, s, g)
  PROVE  OneWaits(Append(q, Work("send", s, g)), s, g)
<1> DEFINE w == Work("send", s, g)
<1>1. Waiting(Append(q, w), s, g) = {Len(q) + 1}
  <2> HIDE DEF w
  <2>1. w = Work("send", s, g)
    BY DEF w
  <2> QED BY <2>1 DEF Waiting, NoneWaits
<1> QED BY <1>1 DEF OneWaits

LEMMA TailShifts ==
  ASSUME NEW q \in Seq(Works), q # <<>>, NEW s, NEW g
  PROVE  Waiting(Tail(q), s, g) = {k \in 1 .. Len(q) - 1 : k + 1 \in Waiting(q, s, g)}
BY DEF Waiting

LEMMA TailOther ==
  ASSUME NEW q \in Seq(Works), q # <<>>, NEW s, NEW g, Head(q) # Work("send", s, g)
  PROVE  /\ NoneWaits(q, s, g) => NoneWaits(Tail(q), s, g)
         /\ OneWaits(q, s, g) => OneWaits(Tail(q), s, g)
<1>1. Waiting(Tail(q), s, g) = {k \in 1 .. Len(q) - 1 : k + 1 \in Waiting(q, s, g)}
  BY TailShifts
<1>2. Waiting(q, s, g) \subseteq 2 .. Len(q)
  BY DEF Waiting
<1>3. ASSUME NEW k, Waiting(q, s, g) = {k}
      PROVE  Waiting(Tail(q), s, g) = {k - 1}
  <2>1. k \in 2 .. Len(q) /\ Len(q) \in Nat
    BY <1>2, <1>3
  <2>2. \A j \in 1 .. Len(q) - 1 : j + 1 = k <=> j = k - 1
    BY <2>1
  <2>3. k - 1 \in 1 .. Len(q) - 1
    BY <2>1
  <2> QED BY <1>1, <1>3, <2>2, <2>3
<1> QED BY <1>1, <1>3 DEF NoneWaits, OneWaits

LEMMA TailIt ==
  ASSUME NEW q \in Seq(Works), q # <<>>, NEW s, NEW g, Head(q) = Work("send", s, g),
         OneWaits(q, s, g)
  PROVE  NoneWaits(Tail(q), s, g)
<1>1. Waiting(Tail(q), s, g) = {k \in 1 .. Len(q) - 1 : k + 1 \in Waiting(q, s, g)}
  BY TailShifts
<1>2. 1 \in Waiting(q, s, g)
  BY DEF Waiting
<1>3. Waiting(q, s, g) = {1}
  BY <1>2 DEF OneWaits
<1> QED BY <1>1, <1>3 DEF NoneWaits

(* Frames: what a step leaves of a client's sends. *)
LEMMA SameHolders ==
  ASSUME UNCHANGED sender, NEW s, NEW g
  PROVE  /\ NoneHolds(s, g) => NoneHolds(s, g)'
         /\ OneHolds(s, g) => OneHolds(s, g)'
BY DEF NoneHolds, OneHolds, Holders

(* A broadcaster moves to another place. *)
LEMMA HolderMoves ==
  ASSUME sender \in [Broadcasters -> Places], NEW b \in Broadcasters, NEW place,
         sender' = [sender EXCEPT ![b] = place], NEW s, NEW g
  PROVE  /\ (Holds(place, s, g) <=> Holds(sender[b], s, g))
            => /\ NoneHolds(s, g) => NoneHolds(s, g)'
               /\ OneHolds(s, g) => OneHolds(s, g)'
         /\ Holds(place, s, g) /\ NoneHolds(s, g) => OneHolds(s, g)'
         /\ ~Holds(place, s, g) /\ Holds(sender[b], s, g) /\ OneHolds(s, g) => NoneHolds(s, g)'
<1>1. \A c \in Broadcasters : sender'[c] = IF c = b THEN place ELSE sender[c]
  OBVIOUS
<1>2. Holders(s, g)' = {c \in Broadcasters : Holds(IF c = b THEN place ELSE sender[c], s, g)}
  BY <1>1 DEF Holders, Holds
<1>3. ASSUME Holds(place, s, g) <=> Holds(sender[b], s, g)
      PROVE  Holders(s, g)' = Holders(s, g)
  BY <1>2, <1>3 DEF Holders
<1>4. ASSUME Holds(place, s, g), NoneHolds(s, g)
      PROVE  Holders(s, g)' = {b}
  BY <1>2, <1>4 DEF Holders, NoneHolds
<1>5. ASSUME ~Holds(place, s, g), Holds(sender[b], s, g), OneHolds(s, g)
      PROVE  Holders(s, g)' = {}
  <2>1. b \in Holders(s, g)
    BY <1>5 DEF Holders
  <2>2. Holders(s, g) = {b}
    BY <1>5, <2>1 DEF OneHolds
  <2> QED BY <1>2, <1>5, <2>2 DEF Holders
<1> QED BY <1>3, <1>4, <1>5 DEF NoneHolds, OneHolds

(* Slots that keep socket, generation and flag, when queue and broadcasters *)
(* keep what is under way for them.                                         *)
LEMMA KeepsExact ==
  ASSUME NEW s, NEW g, NEW inflight \in BOOLEAN, Exact(s, g, inflight),
         NoneWaits(queue, s, g) => NoneWaits(queue', s, g),
         OneWaits(queue, s, g) => OneWaits(queue', s, g),
         NoneHolds(s, g) => NoneHolds(s, g)',
         OneHolds(s, g) => OneHolds(s, g)'
  PROVE  Exact(s, g, inflight)'
BY DEF Exact

-----------------------------------------------------------------------------
(* The slots. *)
Step(kept, c) ==
  /\ kept \in Clients /\ kept.generation = c.generation
  /\ \/ kept.socket = NoSocket
     \/ kept.socket = c.socket /\ kept.failures < FailureLimit

LEMMA FailedIs ==
  ASSUME NEW c \in Clients, c.failures < FailureLimit, NEW stalled \in BOOLEAN
  PROVE  Step(Failed(c, stalled), c) /\ Failed(c, stalled).inflight = FALSE
<1>1. FailureLimit \in Nat /\ c.failures \in Nat /\ c.failures + 1 \in 0 .. FailureLimit
  BY WsClientsAssumption DEF Clients
<1>2. CASE stalled \/ c.failures + 1 >= FailureLimit
  <2>1. Failed(c, stalled) = [c EXCEPT !.inflight = FALSE, !.resting = TRUE, !.failures = @ + 1,
                                       !.socket = NoSocket]
    BY <1>2 DEF Failed
  <2> QED BY <1>1, <2>1 DEF Step, Clients
<1>3. CASE ~(stalled \/ c.failures + 1 >= FailureLimit)
  <2>1. Failed(c, stalled) = [c EXCEPT !.inflight = FALSE, !.resting = TRUE, !.failures = @ + 1]
    BY <1>3 DEF Failed
  <2>2. c.failures + 1 < FailureLimit
    BY <1>1, <1>3
  <2> QED BY <1>1, <2>1, <2>2 DEF Step, Clients
<1> QED BY <1>2, <1>3

LEMMA SucceededIs ==
  ASSUME NEW c \in Clients
  PROVE  Step(Succeeded(c), c) /\ Succeeded(c).inflight = FALSE
<1>1. FailureLimit \in Nat /\ 0 < FailureLimit /\ 0 \in 0 .. FailureLimit
  BY WsClientsAssumption
<1>2. Succeeded(c) = [c EXCEPT !.inflight = FALSE, !.resting = FALSE, !.failures = 0]
  BY DEF Succeeded
<1> QED BY <1>1, <1>2 DEF Step, Clients

LEMMA ClearedIs ==
  ASSUME NEW c \in Clients
  PROVE  Step([FreeSlot EXCEPT !.generation = c.generation], c)
         /\ [FreeSlot EXCEPT !.generation = c.generation].socket = NoSocket
<1> DEFINE r == [FreeSlot EXCEPT !.generation = c.generation]
<1>1. FailureLimit \in Nat /\ 0 \in 0 .. FailureLimit
  BY WsClientsAssumption
<1>2. /\ r.socket = NoSocket /\ r.generation = c.generation /\ r.failures = 0
      /\ r.inflight = FALSE /\ r.resting = FALSE
  BY DEF FreeSlot
<1>3. r \in Clients
  BY <1>1 DEF FreeSlot, Clients
<1> QED BY <1>2, <1>3 DEF Step

(* Steps that give no slot to a new client. *)
SlotsStep == client' \in [Slots -> Clients] /\ \A i \in Slots : Step(client'[i], client[i])

LEMMA SameSlots ==
  ASSUME client \in [Slots -> Clients], Sound, UNCHANGED client
  PROVE  SlotsStep
BY DEF SlotsStep, Step, Sound

LEMMA SlotsStepKeeps ==
  ASSUME IInv, SlotsStep, UNCHANGED generation,
         session' \in [Sockets -> {"closed", "http", "ws"}],
         queue' \in Seq(Works), \A k \in 1 .. Len(queue') : queue'[k].generation <= generation,
         tracking' \in Sockets \cup {NoSocket}, tracking' # NoSocket => generation < MaxGeneration,
         sender' \in [Broadcasters -> Places],
         \A b \in Broadcasters : /\ sender'[b].at # "claim" => sender'[b].socket \in Sockets
                                /\ sender'[b].generation <= generation,
         \A i \in Slots : \A s \in Sockets, g \in 0 .. MaxGeneration, f \in BOOLEAN :
            /\ s = client[i].socket /\ s = client'[i].socket
            /\ g = client[i].generation /\ f = client'[i].inflight
            => Exact(s, g, f)'
  PROVE  IInv'
<1>1. TypeOK'
  BY DEF IInv, TypeOK, SlotsStep, Clients, Works, Places
<1>2. Sound'
  BY DEF IInv, TypeOK, Sound, SlotsStep, Step
<1>3. Dated'
  BY DEF IInv, Dated, SlotsStep, Step
<1>4. OneSlotPerSocket'
  BY DEF IInv, OneSlotPerSocket, SlotsStep, Step
<1>5. AllExact'
  <2> SUFFICES ASSUME NEW i \in Slots, client'[i].socket # NoSocket
               PROVE  Exact(client[i].socket, client[i].generation, client[i].inflight)'
    BY DEF AllExact
  <2>1. /\ client'[i].socket = client[i].socket /\ client'[i].socket \in Sockets
        /\ client'[i].generation = client[i].generation /\ client'[i].generation \in 0 .. MaxGeneration
        /\ client'[i].inflight \in BOOLEAN
    BY DEF SlotsStep, Step, Clients
  <2> QED BY <2>1
<1> QED BY <1>1, <1>2, <1>3, <1>4, <1>5 DEF IInv

(* What the invariant says, in the words of the lemmas. *)
LEMMA Known ==
  ASSUME IInv
  PROVE  /\ session \in [Sockets -> {"closed", "http", "ws"}]
         /\ queue \in Seq(Works) /\ client \in [Slots -> Clients] /\ sender \in [Broadcasters -> Places]
         /\ tracking \in Sockets \cup {NoSocket} /\ (tracking # NoSocket => generation < MaxGeneration)
         /\ generation \in 0 .. MaxGeneration
         /\ \A k \in 1 .. Len(queue) : queue[k].generation <= generation
         /\ \A b \in Broadcasters : /\ sender[b].at # "claim" => sender[b].socket \in Sockets
                                   /\ sender[b].generation <= generation
         /\ \A i \in Slots : \A s \in Sockets, g \in 0 .. MaxGeneration, f \in BOOLEAN :
               s = client[i].socket /\ g = client[i].generation /\ f = client[i].inflight
               => Exact(s, g, f)
<1>1. \A s \in Sockets : s # NoSocket
  BY WsClientsAssumption
<1>2. \A i \in Slots : \A s \in Sockets, g \in 0 .. MaxGeneration, f \in BOOLEAN :
         s = client[i].socket /\ g = client[i].generation /\ f = client[i].inflight
         => Exact(s, g, f)
  BY <1>1 DEF IInv, AllExact
<1> QED BY <1>2 DEF IInv, TypeOK, Sound, Dated, Works, Clients, Places

(* Work at the end of the queue, and its first taken off. *)
LEMMA AppendTyped ==
  ASSUME NEW q \in Seq(Works), NEW w \in Works, NEW n \in Nat, w.generation <= n,
         \A k \in 1 .. Len(q) : q[k].generation <= n
  PROVE  /\ Append(q, w) \in Seq(Works)
         /\ \A k \in 1 .. Len(Append(q, w)) : Append(q, w)[k].generation <= n
OBVIOUS

LEMMA TailTyped ==
  ASSUME NEW q \in Seq(Works), q # <<>>, NEW n \in Nat,
         \A k \in 1 .. Len(q) : q[k].generation <= n
  PROVE  /\ Tail(q) \in Seq(Works) /\ Head(q) \in Works /\ Head(q) = q[1]
         /\ Head(q).generation <= n
         /\ \A k \in 1 .. Len(Tail(q)) : Tail(q)[k].generation <= n
OBVIOUS

LEMMA CloseIsWork ==
  ASSUME NEW s \in Sockets
  PROVE  /\ Work("close", s, 0) \in Works /\ Work("close", s, 0).generation = 0
         /\ \A t, g : Work("close", s, 0) # Work("send", t, g)
<1>1. 0 \in 0 .. MaxGeneration
  BY WsClientsAssumption
<1> QED BY <1>1 DEF Work, Works

-----------------------------------------------------------------------------
(* The steps. *)
LEMMA SessionsKeep ==
  ASSUME IInv, NEW s \in Sockets, Accept(s) \/ Drop(s) \/ HandlerCalled(s)
  PROVE  IInv'
<1>1. UNCHANGED <<queue, client, generation, sender>>
  BY DEF Accept, Drop, HandlerCalled
<1>2. /\ session' \in [Sockets -> {"closed", "http", "ws"}]
      /\ tracking' \in Sockets \cup {NoSocket} /\ (tracking' # NoSocket => generation < MaxGeneration)
  BY Known DEF Accept, Drop, HandlerCalled
<1>3. SlotsStep
  BY <1>1, Known, SameSlots DEF IInv
<1>4. \A i \in Slots : \A t \in Sockets, g \in 0 .. MaxGeneration, f \in BOOLEAN :
        t = client[i].socket /\ g = client[i].generation /\ f = client[i].inflight
        => Exact(t, g, f)'
  BY <1>1, Known, SameHolders, KeepsExact
<1> QED BY <1>1, <1>2, <1>3, <1>4, Known, SlotsStepKeeps

LEMMA CloseSessionKeeps ==
  ASSUME IInv, CloseSession
  PROVE  IInv'
<1>1. /\ UNCHANGED <<client, generation, sender, tracking>> /\ queue # <<>>
      /\ Head(queue).kind = "close" /\ queue' = Tail(queue)
      /\ session' = [session EXCEPT ![Head(queue).socket] = "closed"]
  BY DEF CloseSession
<1>2. /\ session' \in [Sockets -> {"closed", "http", "ws"}]
      /\ queue' \in Seq(Works) /\ \A k \in 1 .. Len(queue') : queue'[k].generation <= generation
  <2>1. generation \in Nat
    BY Known, WsClientsAssumption
  <2>2. /\ Tail(queue) \in Seq(Works)
        /\ \A k \in 1 .. Len(Tail(queue)) : Tail(queue)[k].generation <= generation
    BY <1>1, <2>1, Known, TailTyped
  <2>3. session' \in [Sockets -> {"closed", "http", "ws"}]
    BY <1>1, Known
  <2> QED BY <1>1, <2>2, <2>3
<1>3. SlotsStep
  BY <1>1, Known, SameSlots DEF IInv
<1>4. \A t, g : Head(queue) # Work("send", t, g)
  BY <1>1 DEF Work
<1>5. \A i \in Slots : \A t \in Sockets, g \in 0 .. MaxGeneration, f \in BOOLEAN :
        t = client[i].socket /\ g = client[i].generation /\ f = client[i].inflight
        => Exact(t, g, f)'
  BY <1>1, <1>4, Known, SameHolders, TailOther, KeepsExact
<1> QED BY <1>1, <1>2, <1>3, <1>5, Known, SlotsStepKeeps

LEMMA UntrackKeeps ==
  ASSUME IInv, NEW s \in Sockets, untrack_client(s)
  PROVE  IInv'
<1>1. /\ UNCHANGED <<queue, generation, sender, tracking>>
      /\ session' = [session EXCEPT ![s] = "closed"]
      /\ client' = [i \in Slots |-> IF client[i].socket = s
                                   THEN [FreeSlot EXCEPT !.generation = client[i].generation]
                                   ELSE client[i]]
  BY DEF untrack_client
<1>2. session' \in [Sockets -> {"closed", "http", "ws"}]
  BY <1>1, Known
<1>3. SlotsStep /\ \A i \in Slots : client'[i].socket \in Sockets => client'[i] = client[i]
  <2>1. ASSUME NEW i \in Slots
        PROVE  Step(client'[i], client[i]) /\ (client'[i].socket \in Sockets => client'[i] = client[i])
    <3>1. client[i] \in Clients
      BY Known
    <3>2. CASE client[i].socket = s
      BY <1>1, <3>1, <3>2, ClearedIs, WsClientsAssumption
    <3>3. CASE client[i].socket # s
      BY <1>1, <3>1, <3>3 DEF IInv, Sound, Step
    <3> QED BY <3>2, <3>3
  <2>2. client' \in [Slots -> Clients]
    BY <1>1, <2>1 DEF Step
  <2> QED BY <2>1, <2>2 DEF SlotsStep
<1>4. ASSUME NEW i \in Slots, NEW t \in Sockets, NEW g \in 0 .. MaxGeneration, NEW f \in BOOLEAN,
             t = client[i].socket, t = client'[i].socket,
             g = client[i].generation, f = client'[i].inflight
      PROVE  Exact(t, g, f)'
  <2>1. f = client[i].inflight
    BY <1>3, <1>4
  <2>2. Exact(t, g, f)
    BY <1>4, <2>1, Known
  <2> QED BY <1>1, <2>2, SameHolders, KeepsExact
<1> QED BY <1>1, <1>2, <1>3, <1>4, Known, SlotsStepKeeps

(* The outcome of a send of a client: only its own slot changes, and it is *)
(* no longer in flight.                                                    *)
LEMMA FinishIs ==
  ASSUME IInv, NEW s \in Sockets, NEW g, NEW ok \in BOOLEAN, NEW stalled \in BOOLEAN,
         ws_finish_send(s, g, ok, stalled)
  PROVE  /\ SlotsStep
         /\ \A i \in Slots : IF i \in SlotsOf(s, g) THEN ~client'[i].inflight
                            ELSE client'[i] = client[i]
<1>1. client' = [i \in Slots |->
                   IF i \notin SlotsOf(s, g) THEN client[i]
                   ELSE IF ok THEN Succeeded(client[i]) ELSE Failed(client[i], stalled)]
  BY DEF ws_finish_send
<1>2. ASSUME NEW i \in Slots
      PROVE  /\ Step(client'[i], client[i])
             /\ IF i \in SlotsOf(s, g) THEN ~client'[i].inflight ELSE client'[i] = client[i]
  <2>1. client[i] \in Clients
    BY Known
  <2>2. CASE i \notin SlotsOf(s, g)
    BY <1>1, <2>1, <2>2 DEF IInv, Sound, Step
  <2>3. CASE i \in SlotsOf(s, g)
    <3>1. client[i].failures < FailureLimit
      BY <2>3, WsClientsAssumption DEF SlotsOf, IInv, Sound
    <3> QED BY <1>1, <2>1, <2>3, <3>1, FailedIs, SucceededIs
  <2> QED BY <2>2, <2>3
<1>3. client' \in [Slots -> Clients]
  BY <1>1, <1>2 DEF Step
<1> QED BY <1>2, <1>3 DEF SlotsStep

LEMMA CompleteKeeps ==
  ASSUME IInv, NEW ok \in BOOLEAN, NEW stalled \in BOOLEAN, ws_async_send_complete(ok, stalled)
  PROVE  IInv'
<1> DEFINE w == Head(queue)
<1>1. /\ UNCHANGED <<generation, sender, tracking, session>> /\ queue # <<>> /\ w.kind = "send"
      /\ ws_finish_send(w.socket, w.generation, ok, stalled)
      /\ \/ queue' = Tail(queue)
         \/ queue' = Append(Tail(queue), Work("close", w.socket, 0))
  BY DEF ws_async_send_complete
<1>2. generation \in Nat
  BY Known, WsClientsAssumption
<1>3. /\ w \in Works /\ Tail(queue) \in Seq(Works)
      /\ \A k \in 1 .. Len(Tail(queue)) : Tail(queue)[k].generation <= generation
  BY <1>1, <1>2, Known, TailTyped
<1>4. w = Work("send", w.socket, w.generation) /\ w.socket \in Sockets
  <2> HIDE DEF w
  <2> QED BY <1>1, <1>3 DEF Works, Work
<1>5. /\ SlotsStep
      /\ \A i \in Slots : IF i \in SlotsOf(w.socket, w.generation) THEN ~client'[i].inflight
                         ELSE client'[i] = client[i]
  <2> HIDE DEF w
  <2> QED BY <1>1, <1>4, FinishIs
<1>6. /\ queue' \in Seq(Works) /\ \A k \in 1 .. Len(queue') : queue'[k].generation <= generation
      /\ \A t, g : Waiting(queue', t, g) = Waiting(Tail(queue), t, g)
  <2>1. CASE queue' = Tail(queue)
    BY <1>3, <2>1
  <2>2. CASE queue' = Append(Tail(queue), Work("close", w.socket, 0))
    <3> DEFINE c == Work("close", w.socket, 0)
    <3>1. c \in Works /\ c.generation <= generation /\ \A t, g : c # Work("send", t, g)
      BY <1>2, <1>4, CloseIsWork
    <3> HIDE DEF c
    <3>2. queue' = Append(Tail(queue), c)
      BY <2>2 DEF c
    <3>3. /\ queue' \in Seq(Works) /\ \A k \in 1 .. Len(queue') : queue'[k].generation <= generation
      BY <1>2, <1>3, <3>1, <3>2, AppendTyped
    <3>4. \A t, g : Waiting(queue', t, g) = Waiting(Tail(queue), t, g)
      <4>1. ASSUME NEW t, NEW g PROVE Waiting(Append(Tail(queue), c), t, g) = Waiting(Tail(queue), t, g)
        <5>1. c # Work("send", t, g)
          BY <3>1
        <5> DEFINE q == Tail(queue)
        <5>2. q \in Seq(Works) /\ c \in Works
          BY <1>3, <3>1
        <5> HIDE DEF q
        <5>3. Waiting(Append(q, c), t, g) = Waiting(q, t, g)
          BY <5>1, <5>2, AppendOther
        <5> QED BY <5>3 DEF q
      <4> QED BY <3>2, <4>1
    <3> QED BY <3>3, <3>4
  <2> QED BY <1>1, <2>1, <2>2
<1>7. ASSUME NEW i \in Slots, NEW t \in Sockets, NEW g \in 0 .. MaxGeneration, NEW f \in BOOLEAN,
             t = client[i].socket, t = client'[i].socket,
             g = client[i].generation, f = client'[i].inflight
      PROVE  Exact(t, g, f)'
  <2>1. Exact(t, g, client[i].inflight) /\ client[i].inflight \in BOOLEAN
    BY <1>7, Known DEF Clients
  <2>2. CASE i \in SlotsOf(w.socket, w.generation)
    <3>1. w.socket = t /\ w.generation = g /\ ~f
      BY <1>5, <1>7, <2>2 DEF SlotsOf
    <3>2. Head(queue) = Work("send", t, g)
      BY <1>4, <3>1
    <3>3. ~NoneWaits(queue, t, g)
      BY <1>1, <3>2, Known DEF NoneWaits, Waiting
    <3>4. OneWaits(queue, t, g) /\ NoneHolds(t, g)
      BY <2>1, <3>3 DEF Exact
    <3>5. NoneWaits(Tail(queue), t, g)
      BY <1>1, <3>2, <3>4, Known, TailIt
    <3>6. NoneWaits(queue', t, g) /\ NoneHolds(t, g)'
      BY <1>1, <1>6, <3>4, <3>5, SameHolders DEF NoneWaits
    <3> QED BY <3>1, <3>6 DEF Exact
  <2>3. CASE i \notin SlotsOf(w.socket, w.generation)
    <3>1. f = client[i].inflight
      BY <1>5, <1>7, <2>3
    <3>2. Head(queue) # Work("send", t, g)
      <4>1. w.socket # t \/ w.generation # g
        BY <1>7, <2>3 DEF SlotsOf
      <4>2. Work("send", t, g).socket = t /\ Work("send", t, g).generation = g
        BY DEF Work
      <4> QED BY <4>1, <4>2
    <3>3. /\ NoneWaits(queue, t, g) => NoneWaits(queue', t, g)
          /\ OneWaits(queue, t, g) => OneWaits(queue', t, g)
      <4>1. /\ NoneWaits(queue, t, g) => NoneWaits(Tail(queue), t, g)
            /\ OneWaits(queue, t, g) => OneWaits(Tail(queue), t, g)
        BY <1>1, <3>2, Known, TailOther
      <4>2. Waiting(queue', t, g) = Waiting(Tail(queue), t, g)
        BY <1>6
      <4> QED BY <4>1, <4>2 DEF NoneWaits, OneWaits
    <3>4. /\ NoneHolds(t, g) => NoneHolds(t, g)'
          /\ OneHolds(t, g) => OneHolds(t, g)'
      BY <1>1, SameHolders
    <3> QED BY <2>1, <3>1, <3>3, <3>4, KeepsExact
  <2> QED BY <2>2, <2>3
<1> QED BY <1>1, <1>5, <1>6, <1>7, Known, SlotsStepKeeps

-----------------------------------------------------------------------------
(* The broadcasters. *)
GoodPlace(place) ==
  /\ place \in Places /\ place.generation <= generation
  /\ place.at # "claim" => place.socket \in Sockets

LEMMA PlacesGood ==
  ASSUME IInv, NEW b \in Broadcasters
  PROVE  /\ GoodPlace(sender[b])
         /\ \A i \in Slots : GoodPlace(NextSlot(i)) /\ NextSlot(i).at = "claim"
         /\ sender[b].at # "claim" =>
              \A at \in {"check", "send", "gone", "close", "close and clear", "clear"} :
                 /\ GoodPlace([sender[b] EXCEPT !.at = at])
                 /\ [sender[b] EXCEPT !.at = at].at = at
                 /\ [sender[b] EXCEPT !.at = at].socket = sender[b].socket
                 /\ [sender[b] EXCEPT !.at = at].generation = sender[b].generation
<1>1. SlotCount \in Nat \ {0} /\ 0 \in 0 .. MaxGeneration /\ generation \in Nat
  BY Known, WsClientsAssumption
<1>2. GoodPlace(sender[b]) /\ sender[b] \in Places
  BY Known DEF GoodPlace
<1>3. ASSUME NEW i \in Slots PROVE GoodPlace(NextSlot(i)) /\ NextSlot(i).at = "claim"
  <2> DEFINE j == IF i = SlotCount THEN 1 ELSE i + 1
  <2>1. j \in Slots
    BY <1>1 DEF Slots
  <2>2. NextSlot(i) = [at |-> "claim", slot |-> j, socket |-> NoSocket, generation |-> 0]
    BY DEF NextSlot, Claiming, At
  <2> HIDE DEF j
  <2> QED BY <1>1, <2>1, <2>2 DEF GoodPlace, Places
<1>4. ASSUME sender[b].at # "claim",
             NEW at \in {"check", "send", "gone", "close", "close and clear", "clear"}
      PROVE  /\ GoodPlace([sender[b] EXCEPT !.at = at])
             /\ [sender[b] EXCEPT !.at = at].at = at
             /\ [sender[b] EXCEPT !.at = at].socket = sender[b].socket
             /\ [sender[b] EXCEPT !.at = at].generation = sender[b].generation
  BY <1>2, <1>4 DEF GoodPlace, Places
<1> QED BY <1>2, <1>3, <1>4

(* A broadcaster goes to a good place, the slots step, and every client's  *)
(* sends are exact.                                                        *)
LEMMA BroadcasterKeeps ==
  ASSUME IInv, NEW b \in Broadcasters, NEW place, GoodPlace(place),
         sender' = [sender EXCEPT ![b] = place],
         SlotsStep, UNCHANGED <<session, generation, tracking>>,
         queue' \in Seq(Works), \A k \in 1 .. Len(queue') : queue'[k].generation <= generation,
         \A i \in Slots : \A s \in Sockets, g \in 0 .. MaxGeneration, f \in BOOLEAN :
            /\ s = client[i].socket /\ s = client'[i].socket
            /\ g = client[i].generation /\ f = client'[i].inflight
            => Exact(s, g, f)'
  PROVE  IInv'
<1>1. /\ sender' \in [Broadcasters -> Places]
      /\ \A c \in Broadcasters : /\ sender'[c].at # "claim" => sender'[c].socket \in Sockets
                               /\ sender'[c].generation <= generation
  <2>1. \A c \in Broadcasters : sender'[c] = IF c = b THEN place ELSE sender[c]
    BY Known
  <2>2. \A c \in Broadcasters : GoodPlace(sender'[c])
    <3>1. \A c \in Broadcasters : GoodPlace(sender[c])
      BY PlacesGood
    <3> QED BY <2>1, <3>1
  <2>3. sender' \in [Broadcasters -> Places]
    BY <2>1, <2>2, Known DEF GoodPlace
  <2> QED BY <2>2, <2>3 DEF GoodPlace
<1> QED BY <1>1, Known, SlotsStepKeeps

(* A broadcaster that holds no send, before or after, and work that is none. *)
LEMMA WalkingKeeps ==
  ASSUME IInv, NEW b \in Broadcasters, NEW place, GoodPlace(place),
         sender' = [sender EXCEPT ![b] = place],
         \A s, g : Holds(place, s, g) <=> Holds(sender[b], s, g),
         SlotsStep, UNCHANGED <<session, generation, tracking>>,
         \A i \in Slots : client'[i].socket \in Sockets => client'[i].inflight = client[i].inflight,
         queue' \in Seq(Works), \A k \in 1 .. Len(queue') : queue'[k].generation <= generation,
         \A s, g : Waiting(queue', s, g) = Waiting(queue, s, g)
  PROVE  IInv'
<1>1. ASSUME NEW i \in Slots, NEW s \in Sockets, NEW g \in 0 .. MaxGeneration, NEW f \in BOOLEAN,
             s = client[i].socket, s = client'[i].socket,
             g = client[i].generation, f = client'[i].inflight
      PROVE  Exact(s, g, f)'
  <2>1. Exact(s, g, f)
    BY <1>1, Known
  <2>2. /\ NoneHolds(s, g) => NoneHolds(s, g)'
        /\ OneHolds(s, g) => OneHolds(s, g)'
    BY HolderMoves, Known
  <2>3. /\ NoneWaits(queue, s, g) => NoneWaits(queue', s, g)
        /\ OneWaits(queue, s, g) => OneWaits(queue', s, g)
    BY DEF NoneWaits, OneWaits
  <2> QED BY <2>1, <2>2, <2>3, KeepsExact
<1> QED BY <1>1, BroadcasterKeeps

LEMMA SkipKeeps ==
  ASSUME IInv, NEW b \in Broadcasters, Skip(b)
  PROVE  IInv'
<1>1. /\ UNCHANGED <<session, queue, tracking, client, generation>>
      /\ sender' = [sender EXCEPT ![b] = NextSlot(sender[b].slot)] /\ sender[b].at = "claim"
  BY DEF Skip, Go
<1>2. sender[b].slot \in Slots
  BY Known DEF Places
<1>3. GoodPlace(NextSlot(sender[b].slot)) /\ NextSlot(sender[b].slot).at = "claim"
  BY <1>2, PlacesGood
<1>4. \A s, g : Holds(NextSlot(sender[b].slot), s, g) <=> Holds(sender[b], s, g)
  BY <1>1, <1>3 DEF Holds
<1>5. SlotsStep
  BY <1>1, Known, SameSlots DEF IInv
<1> QED BY <1>1, <1>3, <1>4, <1>5, Known, WalkingKeeps

LEMMA CheckKeeps ==
  ASSUME IInv, NEW b \in Broadcasters, Check(b)
  PROVE  IInv'
<1> DEFINE at == IF session[sender[b].socket] = "ws" THEN "send" ELSE "gone"
           place == [sender[b] EXCEPT !.at = at]
<1>1. /\ UNCHANGED <<session, queue, tracking, client, generation>>
      /\ sender' = [sender EXCEPT ![b] = place] /\ sender[b].at = "check" /\ at \in {"send", "gone"}
  BY DEF Check, Go
<1> HIDE DEF at
<1>2. /\ GoodPlace(place) /\ place.at = at /\ place.socket = sender[b].socket
      /\ place.generation = sender[b].generation
  <2>1. sender[b].at # "claim" /\ at \in {"check", "send", "gone", "close", "close and clear", "clear"}
    BY <1>1
  <2> QED BY <2>1, PlacesGood
<1> HIDE DEF place
<1>3. \A s, g : Holds(place, s, g) <=> Holds(sender[b], s, g)
  BY <1>1, <1>2 DEF Holds
<1>4. SlotsStep
  BY <1>1, Known, SameSlots DEF IInv
<1> QED BY <1>1, <1>2, <1>3, <1>4, Known, WalkingKeeps

LEMMA TriggerKeeps ==
  ASSUME IInv, NEW b \in Broadcasters, TriggerClose(b)
  PROVE  IInv'
<1> DEFINE place == IF sender[b].at = "close" THEN NextSlot(sender[b].slot)
                    ELSE [sender[b] EXCEPT !.at = "clear"]
           c == Work("close", sender[b].socket, 0)
<1>1. /\ UNCHANGED <<session, tracking, client, generation>>
      /\ sender' = [sender EXCEPT ![b] = place] /\ sender[b].at \in {"close", "close and clear"}
      /\ queue' = queue \/ queue' = Append(queue, c)
  BY DEF TriggerClose, Go
<1>2. sender[b].slot \in Slots /\ sender[b].socket \in Sockets /\ generation \in Nat
  <2>1. generation \in Nat /\ sender[b] \in Places
    BY Known, WsClientsAssumption
  <2>2. sender[b].socket \in Sockets
    BY <1>1, Known
  <2> QED BY <2>1, <2>2 DEF Places
<1>3. GoodPlace(place) /\ place.at \in {"claim", "clear"}
  BY <1>1, <1>2, PlacesGood
<1>4. c \in Works /\ c.generation <= generation /\ \A s, g : c # Work("send", s, g)
  BY <1>2, CloseIsWork
<1> HIDE DEF place, c
<1>5. /\ queue' \in Seq(Works) /\ \A k \in 1 .. Len(queue') : queue'[k].generation <= generation
      /\ \A s, g : Waiting(queue', s, g) = Waiting(queue, s, g)
  <2>1. CASE queue' = queue
    BY <2>1, Known
  <2>2. CASE queue' = Append(queue, c)
    <3>1. /\ queue' \in Seq(Works) /\ \A k \in 1 .. Len(queue') : queue'[k].generation <= generation
      BY <1>2, <1>4, <2>2, Known, AppendTyped
    <3>2. \A s, g : Waiting(Append(queue, c), s, g) = Waiting(queue, s, g)
      BY <1>4, Known, AppendOther
    <3> QED BY <2>2, <3>1, <3>2
  <2> QED BY <1>1, <2>1, <2>2
<1>6. \A s, g : Holds(place, s, g) <=> Holds(sender[b], s, g)
  BY <1>1, <1>3 DEF Holds
<1>7. SlotsStep
  BY <1>1, Known, SameSlots DEF IInv
<1> QED BY <1>1, <1>3, <1>5, <1>6, <1>7, Known, WalkingKeeps

LEMMA ClearKeeps ==
  ASSUME IInv, NEW b \in Broadcasters, clear_client_slot(b)
  PROVE  IInv'
<1> DEFINE cleared == SlotsOf(sender[b].socket, sender[b].generation)
<1>1. /\ UNCHANGED <<session, tracking, queue, generation>> /\ sender[b].at = "clear"
      /\ sender' = [sender EXCEPT ![b] = NextSlot(sender[b].slot)]
      /\ client' = [i \in Slots |-> IF i \in cleared
                                   THEN [FreeSlot EXCEPT !.generation = sender[b].generation]
                                   ELSE client[i]]
  BY DEF clear_client_slot, Go
<1>2. sender[b].slot \in Slots
  BY Known DEF Places
<1>3. GoodPlace(NextSlot(sender[b].slot)) /\ NextSlot(sender[b].slot).at = "claim"
  BY <1>2, PlacesGood
<1>4. \A s, g : Holds(NextSlot(sender[b].slot), s, g) <=> Holds(sender[b], s, g)
  BY <1>1, <1>3 DEF Holds
<1>5. SlotsStep /\ \A i \in Slots : client'[i].socket \in Sockets => client'[i] = client[i]
  <2>1. ASSUME NEW i \in Slots
        PROVE  Step(client'[i], client[i]) /\ (client'[i].socket \in Sockets => client'[i] = client[i])
    <3>1. client[i] \in Clients
      BY Known
    <3>2. CASE i \in cleared
      <4>1. client'[i] = [FreeSlot EXCEPT !.generation = client[i].generation]
        BY <1>1, <3>2 DEF SlotsOf
      <4> QED BY <3>1, <4>1, ClearedIs, WsClientsAssumption
    <3>3. CASE i \notin cleared
      BY <1>1, <3>1, <3>3 DEF IInv, Sound, Step
    <3> QED BY <3>2, <3>3
  <2>2. client' \in [Slots -> Clients]
    BY <1>1, <2>1 DEF Step
  <2> QED BY <2>1, <2>2 DEF SlotsStep
<1> QED BY <1>1, <1>3, <1>4, <1>5, Known, WalkingKeeps

LEMMA ClearTimesOutKeeps ==
  ASSUME IInv, NEW b \in Broadcasters, ClearTimesOut(b)
  PROVE  IInv'
<1>1. /\ UNCHANGED <<session, queue, tracking, client, generation>>
      /\ sender' = [sender EXCEPT ![b] = NextSlot(sender[b].slot)] /\ sender[b].at = "clear"
  BY DEF ClearTimesOut, Go
<1>2. sender[b].slot \in Slots
  BY Known DEF Places
<1>3. GoodPlace(NextSlot(sender[b].slot)) /\ NextSlot(sender[b].slot).at = "claim"
  BY <1>2, PlacesGood
<1>4. \A s, g : Holds(NextSlot(sender[b].slot), s, g) <=> Holds(sender[b], s, g)
  BY <1>1, <1>3 DEF Holds
<1>5. SlotsStep
  BY <1>1, Known, SameSlots DEF IInv
<1> QED BY <1>1, <1>3, <1>4, <1>5, Known, WalkingKeeps

(* A claim: nothing of the client was under way, and now one send is. *)
LEMMA ClaimKeeps ==
  ASSUME IInv, NEW b \in Broadcasters, Claim(b)
  PROVE  IInv'
<1> DEFINE i == sender[b].slot
           c == client[i]
           place == At("check", i, c.socket, c.generation)
<1>1. /\ UNCHANGED <<session, tracking, queue, generation>> /\ sender[b].at = "claim"
      /\ c.socket # NoSocket /\ ~c.inflight
      /\ client' = [client EXCEPT ![i].inflight = TRUE]
      /\ sender' = [sender EXCEPT ![b] = place]
  BY DEF Claim, Go, Busy
<1>2. i \in Slots /\ c \in Clients /\ c.generation <= generation
  <2>1. sender[b] \in Places
    BY Known
  <2>2. i \in Slots
    BY <2>1 DEF Places
  <2> QED BY <2>2, Known DEF IInv, Dated
<1>3. c.socket \in Sockets /\ c.generation \in 0 .. MaxGeneration /\ c.failures < FailureLimit
  BY <1>1, <1>2 DEF Clients, IInv, Sound
<1>4. /\ place \in Places /\ place.at = "check" /\ place.socket = c.socket
      /\ place.generation = c.generation
  BY <1>2, <1>3 DEF At, Places
<1>5. GoodPlace(place)
  BY <1>2, <1>3, <1>4 DEF GoodPlace
<1>6. /\ client' = [client EXCEPT ![i] = [c EXCEPT !.inflight = TRUE]]
      /\ [c EXCEPT !.inflight = TRUE] \in Clients
      /\ [c EXCEPT !.inflight = TRUE].socket = c.socket
      /\ [c EXCEPT !.inflight = TRUE].generation = c.generation
      /\ [c EXCEPT !.inflight = TRUE].failures = c.failures
      /\ [c EXCEPT !.inflight = TRUE].inflight
  BY <1>1, <1>2 DEF Clients
<1> HIDE DEF place
<1>7. /\ SlotsStep
      /\ client'[i].inflight /\ \A j \in Slots \ {i} : client'[j] = client[j]
  <2>1. \A j \in Slots : client'[j] = IF j = i THEN [c EXCEPT !.inflight = TRUE] ELSE client[j]
    BY <1>2, <1>6, Known
  <2>2. client' \in [Slots -> Clients]
    BY <1>6, Known
  <2>3. ASSUME NEW j \in Slots PROVE Step(client'[j], client[j])
    <3>1. CASE j = i
      BY <1>3, <1>6, <2>1, <3>1 DEF Step
    <3>2. CASE j # i
      BY <2>1, <3>2, Known DEF Step, IInv, Sound
    <3> QED BY <3>1, <3>2
  <2> QED BY <1>2, <1>6, <2>1, <2>2, <2>3 DEF SlotsStep
<1>8. ASSUME NEW j \in Slots, NEW s \in Sockets, NEW g \in 0 .. MaxGeneration, NEW f \in BOOLEAN,
             s = client[j].socket, s = client'[j].socket,
             g = client[j].generation, f = client'[j].inflight
      PROVE  Exact(s, g, f)'
  <2>1. client[j].inflight \in BOOLEAN /\ Exact(s, g, client[j].inflight)
    <3>1. client[j] \in Clients
      BY Known
    <3>2. client[j].inflight \in BOOLEAN
      BY <3>1 DEF Clients
    <3> QED BY <1>8, <3>2, Known
  <2>2. CASE j = i
    <3>1. Holds(place, s, g) /\ f
      BY <1>4, <1>7, <1>8, <2>2 DEF Holds
    <3>2. NoneWaits(queue, s, g) /\ NoneHolds(s, g)
      BY <1>1, <2>1, <2>2 DEF Exact
    <3>3. OneHolds(s, g)'
      BY <1>1, <3>1, <3>2, Known, HolderMoves
    <3>4. NoneWaits(queue', s, g)
      BY <1>1, <3>2 DEF NoneWaits
    <3> QED BY <3>1, <3>3, <3>4 DEF Exact
  <2>3. CASE j # i
    <3>1. s # c.socket
      BY <1>2, <1>3, <1>8, <2>3, WsClientsAssumption DEF IInv, OneSlotPerSocket
    <3>2. ~Holds(place, s, g) /\ ~Holds(sender[b], s, g)
      BY <1>1, <1>4, <3>1 DEF Holds
    <3>3. /\ NoneHolds(s, g) => NoneHolds(s, g)'
          /\ OneHolds(s, g) => OneHolds(s, g)'
      BY <1>1, <3>2, Known, HolderMoves
    <3>4. f = client[j].inflight
      BY <1>7, <1>8, <2>3
    <3>5. /\ NoneWaits(queue, s, g) => NoneWaits(queue', s, g)
          /\ OneWaits(queue, s, g) => OneWaits(queue', s, g)
      BY <1>1 DEF NoneWaits, OneWaits
    <3> QED BY <2>1, <3>3, <3>4, <3>5, KeepsExact
  <2> QED BY <2>2, <2>3
<1>9. /\ queue' \in Seq(Works) /\ \A k \in 1 .. Len(queue') : queue'[k].generation <= generation
      /\ sender' = [sender EXCEPT ![b] = place] /\ UNCHANGED <<session, generation, tracking>>
  BY <1>1, Known
<1> QED BY <1>5, <1>7, <1>8, <1>9, BroadcasterKeeps

(* Handing over: the broadcaster's send becomes the queue's. *)
LEMMA SendKeeps ==
  ASSUME IInv, NEW b \in Broadcasters, Send(b)
  PROVE  IInv'
<1> DEFINE t == sender[b].socket
           h == sender[b].generation
           w == Work("send", t, h)
           place == NextSlot(sender[b].slot)
<1>1. /\ UNCHANGED <<session, tracking, client, generation>> /\ sender[b].at = "send"
      /\ queue' = Append(queue, w)
      /\ sender' = [sender EXCEPT ![b] = place]
  BY DEF Send, Go
<1>2. sender[b].slot \in Slots /\ t \in Sockets /\ h <= generation /\ h \in 0 .. MaxGeneration
      /\ generation \in Nat
  <2>1. sender[b] \in Places /\ t \in Sockets /\ h <= generation /\ generation \in Nat
    BY <1>1, Known, WsClientsAssumption
  <2> QED BY <2>1 DEF Places
<1>3. GoodPlace(place) /\ place.at = "claim"
  BY <1>2, PlacesGood
<1>4. w \in Works /\ w.generation = h
  BY <1>2 DEF Work, Works
<1> HIDE DEF place
<1>5. /\ queue' \in Seq(Works) /\ \A k \in 1 .. Len(queue') : queue'[k].generation <= generation
  <2> HIDE DEF w, h
  <2>1. w.generation <= generation
    BY <1>2, <1>4
  <2> QED BY <1>1, <1>2, <1>4, <2>1, Known, AppendTyped
<1>6. SlotsStep
  BY <1>1, Known, SameSlots DEF IInv
<1>7. ASSUME NEW j \in Slots, NEW s \in Sockets, NEW g \in 0 .. MaxGeneration, NEW f \in BOOLEAN,
             s = client[j].socket, s = client'[j].socket,
             g = client[j].generation, f = client'[j].inflight
      PROVE  Exact(s, g, f)'
  <2>1. Exact(s, g, f)
    BY <1>1, <1>7, Known
  <2>2. ~Holds(place, s, g)
    BY <1>3 DEF Holds
  <2>3. CASE s = t /\ g = h
    <3>1. Holds(sender[b], s, g)
      BY <1>1, <2>3 DEF Holds
    <3>2. ~NoneHolds(s, g)
      BY <3>1 DEF NoneHolds, Holders
    <3>3. f /\ NoneWaits(queue, s, g) /\ OneHolds(s, g)
      BY <2>1, <3>2 DEF Exact
    <3>4. NoneHolds(s, g)'
      BY <1>1, <2>2, <3>1, <3>3, Known, HolderMoves
    <3>5. OneWaits(queue', s, g)
      <4>1. Work("send", s, g) = w
        BY <2>3
      <4>2. Work("send", s, g) \in Works /\ queue' = Append(queue, Work("send", s, g))
        BY <1>1, <1>4, <4>1
      <4> QED BY <3>3, <4>2, Known, AppendIt
    <3> QED BY <3>3, <3>4, <3>5 DEF Exact
  <2>4. CASE ~(s = t /\ g = h)
    <3>1. ~Holds(sender[b], s, g)
      BY <2>4 DEF Holds
    <3>2. /\ NoneHolds(s, g) => NoneHolds(s, g)'
          /\ OneHolds(s, g) => OneHolds(s, g)'
      BY <1>1, <2>2, <3>1, Known, HolderMoves
    <3>3. w # Work("send", s, g)
      <4>1. w.socket = t /\ w.generation = h /\ Work("send", s, g).socket = s
            /\ Work("send", s, g).generation = g
        BY DEF Work
      <4> QED BY <2>4, <4>1
    <3>4. Waiting(queue', s, g) = Waiting(queue, s, g)
      <4> HIDE DEF w
      <4> QED BY <1>1, <1>4, <3>3, Known, AppendOther
    <3>5. /\ NoneWaits(queue, s, g) => NoneWaits(queue', s, g)
          /\ OneWaits(queue, s, g) => OneWaits(queue', s, g)
      BY <3>4 DEF NoneWaits, OneWaits
    <3> QED BY <2>1, <3>2, <3>5, KeepsExact
  <2> QED BY <2>3, <2>4
<1> HIDE DEF w
<1> QED BY <1>1, <1>3, <1>5, <1>6, <1>7, Known, BroadcasterKeeps

(* A send that is given up is nobody's. *)
LEMMA GiveUpKeeps ==
  ASSUME IInv, NEW b \in Broadcasters, NEW stalled \in BOOLEAN, GiveUp(b, stalled)
  PROVE  IInv'
<1> DEFINE t == sender[b].socket
           h == sender[b].generation
           place == IF Closes(t, h)
                    THEN [sender[b] EXCEPT !.at = IF sender[b].at = "gone" THEN "close and clear" ELSE "close"]
                    ELSE IF sender[b].at = "gone" THEN [sender[b] EXCEPT !.at = "clear"]
                    ELSE NextSlot(sender[b].slot)
<1>1. /\ UNCHANGED <<session, tracking, queue, generation>> /\ sender[b].at \in {"send", "gone"}
      /\ ws_finish_send(t, h, FALSE, stalled)
      /\ sender' = [sender EXCEPT ![b] = place]
  BY DEF GiveUp, Go
<1>2. sender[b].slot \in Slots /\ t \in Sockets
  <2>1. sender[b] \in Places /\ t \in Sockets
    BY <1>1, Known
  <2> QED BY <2>1 DEF Places
<1>3. GoodPlace(place) /\ place.at \in {"claim", "close", "close and clear", "clear"}
  <2>1. GoodPlace(NextSlot(sender[b].slot)) /\ NextSlot(sender[b].slot).at = "claim"
    BY <1>2, PlacesGood
  <2>2. ASSUME NEW at \in {"close", "close and clear", "clear"}
        PROVE  GoodPlace([sender[b] EXCEPT !.at = at]) /\ [sender[b] EXCEPT !.at = at].at = at
    <3>1. sender[b].at # "claim"
      BY <1>1
    <3>2. at \in {"check", "send", "gone", "close", "close and clear", "clear"}
      OBVIOUS
    <3> HIDE DEF place, t, h
    <3> QED BY <3>1, <3>2, PlacesGood
  <2>3. CASE Closes(t, h)
    BY <2>2, <2>3
  <2>4. CASE ~Closes(t, h) /\ sender[b].at = "gone"
    BY <2>2, <2>4
  <2>5. CASE ~Closes(t, h) /\ sender[b].at # "gone"
    BY <2>1, <2>5
  <2> QED BY <2>3, <2>4, <2>5
<1> HIDE DEF place
<1>4. /\ SlotsStep
      /\ \A i \in Slots : IF i \in SlotsOf(t, h) THEN ~client'[i].inflight
                         ELSE client'[i] = client[i]
  <2> HIDE DEF t, h
  <2> QED BY <1>1, <1>2, FALSE \in BOOLEAN, FinishIs
<1>5. ASSUME NEW j \in Slots, NEW s \in Sockets, NEW g \in 0 .. MaxGeneration, NEW f \in BOOLEAN,
             s = client[j].socket, s = client'[j].socket,
             g = client[j].generation, f = client'[j].inflight
      PROVE  Exact(s, g, f)'
  <2>1. client[j].inflight \in BOOLEAN /\ Exact(s, g, client[j].inflight)
    <3>1. client[j] \in Clients
      BY Known
    <3>2. client[j].inflight \in BOOLEAN
      BY <3>1 DEF Clients
    <3> QED BY <1>5, <3>2, Known
  <2>2. ~Holds(place, s, g)
    BY <1>3 DEF Holds
  <2>3. /\ NoneWaits(queue, s, g) => NoneWaits(queue', s, g)
        /\ OneWaits(queue, s, g) => OneWaits(queue', s, g)
    BY <1>1 DEF NoneWaits, OneWaits
  <2>4. CASE j \in SlotsOf(t, h)
    <3>1. Holds(sender[b], s, g) /\ ~f
      BY <1>1, <1>4, <1>5, <2>4 DEF Holds, SlotsOf
    <3>2. ~NoneHolds(s, g)
      BY <3>1 DEF NoneHolds, Holders
    <3>3. NoneWaits(queue, s, g) /\ OneHolds(s, g)
      BY <2>1, <3>2 DEF Exact
    <3>4. NoneHolds(s, g)'
      BY <1>1, <2>2, <3>1, <3>3, Known, HolderMoves
    <3> QED BY <2>3, <3>1, <3>3, <3>4 DEF Exact
  <2>5. CASE j \notin SlotsOf(t, h)
    <3>1. ~Holds(sender[b], s, g) /\ f = client[j].inflight
      BY <1>4, <1>5, <2>5 DEF Holds, SlotsOf
    <3>2. /\ NoneHolds(s, g) => NoneHolds(s, g)'
          /\ OneHolds(s, g) => OneHolds(s, g)'
      BY <1>1, <2>2, <3>1, Known, HolderMoves
    <3> QED BY <2>1, <2>3, <3>1, <3>2, KeepsExact
  <2> QED BY <2>4, <2>5
<1> QED BY <1>1, <1>3, <1>4, <1>5, Known, BroadcasterKeeps

LEMMA RetryKeeps ==
  ASSUME IInv, NEW i \in Slots, RetryAfter(i)
  PROVE  IInv'
<1>1. /\ UNCHANGED <<session, queue, tracking, generation, sender>>
      /\ client' = [client EXCEPT ![i] = [client[i] EXCEPT !.resting = FALSE]]
  BY DEF RetryAfter
<1> DEFINE r == [client[i] EXCEPT !.resting = FALSE]
<1>2. client[i] \in Clients
  BY Known
<1>3. /\ r \in Clients /\ r.socket = client[i].socket /\ r.generation = client[i].generation
      /\ r.inflight = client[i].inflight /\ r.failures = client[i].failures
  BY <1>2 DEF Clients
<1> HIDE DEF r
<1>4. \A j \in Slots : client'[j] = IF j = i THEN r ELSE client[j]
  BY <1>1, Known DEF r
<1>5. client' \in [Slots -> Clients]
  BY <1>1, <1>3, Known DEF r
<1>6. SlotsStep
  <2>1. ASSUME NEW j \in Slots PROVE Step(client'[j], client[j])
    <3>1. client[j] \in Clients /\ (client[j].socket # NoSocket => client[j].failures < FailureLimit)
      BY Known DEF IInv, Sound
    <3> QED BY <1>3, <1>4, <3>1 DEF Step
  <2> QED BY <1>5, <2>1 DEF SlotsStep
<1>7. \A j \in Slots : \A t \in Sockets, g \in 0 .. MaxGeneration, f \in BOOLEAN :
        /\ t = client[j].socket /\ t = client'[j].socket
        /\ g = client[j].generation /\ f = client'[j].inflight
        => Exact(t, g, f)'
  <2> SUFFICES ASSUME NEW j \in Slots, NEW t \in Sockets, NEW g \in 0 .. MaxGeneration, NEW f \in BOOLEAN,
                      t = client[j].socket, t = client'[j].socket,
                      g = client[j].generation, f = client'[j].inflight
               PROVE  Exact(t, g, f)'
    OBVIOUS
  <2>1. f = client[j].inflight
    BY <1>3, <1>4
  <2>2. Exact(t, g, f)
    BY <2>1, Known
  <2>3. /\ NoneWaits(queue, t, g) => NoneWaits(queue', t, g)
        /\ OneWaits(queue, t, g) => OneWaits(queue', t, g)
    BY <1>1 DEF NoneWaits, OneWaits
  <2> QED BY <1>1, <2>2, <2>3, SameHolders, KeepsExact
<1> QED BY <1>1, <1>6, <1>7, Known, SlotsStepKeeps

LEMMA DatesAreNat ==
  ASSUME IInv
  PROVE  /\ \A j \in Slots : client[j].generation \in Nat /\ client[j].generation <= generation
         /\ \A k \in 1 .. Len(queue) : queue[k].generation \in Nat /\ queue[k].generation <= generation
         /\ \A b \in Broadcasters : sender[b].generation \in Nat /\ sender[b].generation <= generation
<1>0. MaxGeneration \in Nat
  BY WsClientsAssumption
<1>1. ASSUME NEW j \in Slots
      PROVE  client[j].generation \in Nat /\ client[j].generation <= generation
  <2>1. client[j] \in Clients /\ client[j].generation <= generation
    BY Known DEF IInv, Dated
  <2> QED BY <1>0, <2>1 DEF Clients
<1>2. ASSUME NEW k \in 1 .. Len(queue)
      PROVE  queue[k].generation \in Nat /\ queue[k].generation <= generation
  <2>1. queue[k] \in Works /\ queue[k].generation <= generation
    BY Known
  <2> QED BY <1>0, <2>1 DEF Works
<1>3. ASSUME NEW b \in Broadcasters
      PROVE  sender[b].generation \in Nat /\ sender[b].generation <= generation
  <2>1. sender[b] \in Places /\ sender[b].generation <= generation
    BY Known
  <2>2. sender[b].generation \in 0 .. MaxGeneration
    BY <2>1 DEF Places
  <2> QED BY <1>0, <2>1, <2>2
<1> QED BY <1>1, <1>2, <1>3

(* A slot for a socket that has none: the new generation has no send left   *)
(* over from another client of that socket.                                *)
LEMMA TrackKeeps ==
  ASSUME IInv, track_client
  PROVE  IInv'
<1>1. UNCHANGED <<session, queue, sender>> /\ tracking' = NoSocket /\ tracking \in Sockets
      /\ generation < MaxGeneration /\ generation \in Nat /\ MaxGeneration \in Nat
  BY Known, WsClientsAssumption DEF track_client
<1>2. CASE UNCHANGED <<client, generation>>
  <2>1. SlotsStep
    BY <1>2, Known, SameSlots DEF IInv
  <2>2. \A i \in Slots : \A t \in Sockets, g \in 0 .. MaxGeneration, f \in BOOLEAN :
          t = client[i].socket /\ g = client[i].generation /\ f = client[i].inflight
          => Exact(t, g, f)'
    BY <1>1, Known, SameHolders, KeepsExact
  <2> QED BY <1>1, <1>2, <2>1, <2>2, Known, SlotsStepKeeps
<1>3. CASE ~UNCHANGED <<client, generation>>
  <2> DEFINE r == [FreeSlot EXCEPT !.socket = tracking, !.generation = generation + 1]
  <2>1. PICK i \in Slots : client' = [client EXCEPT ![i] = r]
    BY <1>3 DEF track_client, FreeSlots
  <2>2. generation' = generation + 1 /\ \A j \in Slots : client[j].socket # tracking
    BY <1>3 DEF track_client, Tracked
  <2>3. /\ r.socket = tracking /\ r.generation = generation + 1 /\ r.failures = 0
        /\ r.inflight = FALSE /\ r.resting = FALSE
    BY DEF FreeSlot
  <2>4. r \in Clients
    <3>1. 0 \in 0 .. FailureLimit /\ generation + 1 \in 0 .. MaxGeneration
      BY <1>1, WsClientsAssumption
    <3>2. FreeSlot \in Clients
      BY <3>1, <1>1 DEF FreeSlot, Clients
    <3> QED BY <1>1, <3>1, <3>2 DEF Clients
  <2> HIDE DEF r
  <2>5. client' \in [Slots -> Clients] /\ \A j \in Slots : client'[j] = IF j = i THEN r ELSE client[j]
    BY <2>1, <2>4, Known
  <2>6. generation' \in 0 .. MaxGeneration
    BY <1>1, <2>2
  <2>7. TypeOK'
    BY <1>1, <2>5, <2>6, Known DEF TypeOK, Works, Clients, Places
  <2>8. Sound'
    BY <1>1, <2>3, <2>5, WsClientsAssumption DEF IInv, Sound
  <2>9. Dated'
    <3>1. /\ \A j \in Slots : client[j].generation \in Nat /\ client[j].generation <= generation
          /\ \A k \in 1 .. Len(queue) : queue[k].generation \in Nat /\ queue[k].generation <= generation
          /\ \A b \in Broadcasters : sender[b].generation \in Nat /\ sender[b].generation <= generation
      BY DatesAreNat
    <3>2. \A j \in Slots : client'[j].generation <= generation + 1
      BY <1>1, <2>3, <2>5, <3>1
    <3>3. /\ \A k \in 1 .. Len(queue) : queue[k].generation <= generation + 1
          /\ \A b \in Broadcasters : sender[b].generation <= generation + 1
      BY <1>1, <3>1
    <3> QED BY <1>1, <2>2, <3>2, <3>3 DEF Dated
  <2>10. OneSlotPerSocket'
    BY <2>2, <2>3, <2>5 DEF IInv, OneSlotPerSocket
  <2>11. AllExact'
    <3> SUFFICES ASSUME NEW j \in Slots, NEW t \in Sockets, NEW g \in 0 .. MaxGeneration, NEW f \in BOOLEAN,
                        t = client'[j].socket, g = client'[j].generation, f = client'[j].inflight
                 PROVE  Exact(t, g, f)'
      BY <2>5 DEF AllExact, Clients
    <3>1. CASE j = i
      <4>1. g = generation + 1 /\ ~f
        BY <2>3, <2>5, <3>1
      <4>2. Waiting(queue, t, g) = {}
        <5>1. \A k \in 1 .. Len(queue) : queue[k].generation \in Nat /\ queue[k].generation <= generation
          BY DatesAreNat
        <5>2. \A k \in 1 .. Len(queue) : queue[k].generation # g
          BY <1>1, <4>1, <5>1
        <5>3. Work("send", t, g).generation = g
          BY DEF Work
        <5> QED BY <5>2, <5>3 DEF Waiting
      <4>3. Holders(t, g) = {}
        <5>1. \A b \in Broadcasters : sender[b].generation \in Nat /\ sender[b].generation <= generation
          BY DatesAreNat
        <5>2. \A b \in Broadcasters : sender[b].generation # g
          BY <1>1, <4>1, <5>1
        <5> QED BY <5>2 DEF Holders, Holds
      <4>4. NoneWaits(queue', t, g) /\ NoneHolds(t, g)'
        BY <1>1, <4>2, <4>3 DEF NoneWaits, NoneHolds, Holders
      <4> QED BY <4>1, <4>4 DEF Exact
    <3>2. CASE j # i
      <4>1. Exact(t, g, f)
        BY <2>5, <3>2, Known
      <4>2. /\ NoneWaits(queue, t, g) => NoneWaits(queue', t, g)
            /\ OneWaits(queue, t, g) => OneWaits(queue', t, g)
        BY <1>1 DEF NoneWaits, OneWaits
      <4> QED BY <1>1, <4>1, <4>2, SameHolders, KeepsExact
    <3> QED BY <3>1, <3>2
  <2> QED BY <2>7, <2>8, <2>9, <2>10, <2>11 DEF IInv
<1> QED BY <1>2, <1>3

(* The lock is not had in time: nothing is written. *)
LEMMA TrackTimesOutKeeps ==
  ASSUME IInv, TrackTimesOut
  PROVE  IInv'
<1>1. UNCHANGED <<session, queue, client, generation, sender>> /\ tracking' = NoSocket
  BY DEF TrackTimesOut
<1>2. SlotsStep
  BY <1>1, Known, SameSlots DEF IInv
<1>3. \A i \in Slots : \A t \in Sockets, g \in 0 .. MaxGeneration, f \in BOOLEAN :
        t = client[i].socket /\ g = client[i].generation /\ f = client[i].inflight
        => Exact(t, g, f)'
  BY <1>1, Known, SameHolders, KeepsExact
<1> QED BY <1>1, <1>2, <1>3, Known, SlotsStepKeeps

LEMMA InitEstablishes == Init => IInv
<1> SUFFICES ASSUME Init PROVE IInv
  OBVIOUS
<1>1. SlotCount \in Nat \ {0} /\ FailureLimit \in Nat \ {0} /\ MaxGeneration \in Nat
  BY WsClientsAssumption
<1>2. FreeSlot \in Clients /\ FreeSlot.socket = NoSocket /\ FreeSlot.generation = 0
  BY <1>1 DEF FreeSlot, Clients
<1>3. Claiming(1) \in Places /\ Claiming(1).at = "claim" /\ Claiming(1).generation = 0
  BY <1>1 DEF Claiming, At, Places, Slots
<1>4. TypeOK
  <2>1. session \in [Sockets -> {"closed", "http", "ws"}] /\ queue \in Seq(Works)
        /\ tracking \in Sockets \cup {NoSocket} /\ generation \in 0 .. MaxGeneration
    BY <1>1 DEF Init
  <2>2. client \in [Slots -> Clients] /\ sender \in [Broadcasters -> Places]
    BY <1>2, <1>3 DEF Init
  <2> QED BY <2>1, <2>2 DEF TypeOK, Works, Clients, Places
<1>5. Sound
  BY <1>2, <1>3 DEF Init, Sound
<1>6. Dated
  BY <1>2, <1>3 DEF Init, Dated
<1>7. OneSlotPerSocket /\ AllExact
  BY <1>2 DEF Init, OneSlotPerSocket, AllExact
<1> QED BY <1>4, <1>5, <1>6, <1>7 DEF IInv

LEMMA NextPreserves == IInv /\ [Next]_vars => IInv'
<1> SUFFICES ASSUME IInv, [Next]_vars PROVE IInv'
  OBVIOUS
<1>1. CASE Server
  BY <1>1, TrackKeeps, TrackTimesOutKeeps, CloseSessionKeeps, CompleteKeeps, SessionsKeep, UntrackKeeps
     DEF Server, QueuedWork
<1>2. CASE \E b \in Broadcasters : Broadcast(b)
  BY <1>2, SkipKeeps, ClaimKeeps, CheckKeeps, SendKeeps, TriggerKeeps, ClearKeeps, ClearTimesOutKeeps,
     GiveUpKeeps
     DEF Broadcast
<1>3. CASE \E i \in Slots : RetryAfter(i)
  BY <1>3, RetryKeeps
<1>4. CASE UNCHANGED vars
  <2>1. UNCHANGED <<session, queue, tracking, client, generation, sender>>
    BY <1>4 DEF vars
  <2>2. SlotsStep
    BY <2>1, Known, SameSlots DEF IInv
  <2>3. \A i \in Slots : \A t \in Sockets, g \in 0 .. MaxGeneration, f \in BOOLEAN :
          t = client[i].socket /\ g = client[i].generation /\ f = client[i].inflight
          => Exact(t, g, f)'
    BY <2>1, Known, SameHolders, KeepsExact
  <2> QED BY <2>1, <2>2, <2>3, Known, SlotsStepKeeps
<1> QED BY <1>1, <1>2, <1>3, <1>4 DEF Next

(* The counts of InflightIsExact, from the sets. *)
LEMMA ExactCounts == IInv => InflightIsExact
<1> SUFFICES ASSUME IInv, NEW i \in Slots \ FreeSlots
             PROVE  Cardinality(Queued(i)) + Cardinality(Claimed(i))
                      = IF client[i].inflight THEN 1 ELSE 0
  BY DEF InflightIsExact
<1> DEFINE s == client[i].socket
           g == client[i].generation
<1>1. Exact(s, g, client[i].inflight)
  BY DEF IInv, AllExact, FreeSlots
<1>2. Queued(i) = Waiting(queue, s, g) /\ Claimed(i) = Holders(s, g)
  BY DEF Queued, Claimed, Waiting, Holders, Holds
<1>3. /\ NoneWaits(queue, s, g) => Cardinality(Queued(i)) = 0
      /\ OneWaits(queue, s, g) => Cardinality(Queued(i)) = 1
      /\ NoneHolds(s, g) => Cardinality(Claimed(i)) = 0
      /\ OneHolds(s, g) => Cardinality(Claimed(i)) = 1
  BY <1>2, FS_EmptySet, FS_Singleton DEF NoneWaits, OneWaits, NoneHolds, OneHolds
<1> HIDE DEF s, g
<1> QED BY <1>1, <1>3 DEF Exact

LEMMA ServerInvariant == Spec => []IInv
BY InitEstablishes, NextPreserves, PTL DEF Spec

-----------------------------------------------------------------------------
(* The browser drives the server, and does nothing the server's             *)
(* specification does not know.                                             *)
Browsers == [socket : Sockets \cup {NoSocket}, link : Links, fed : BOOLEAN]

BrowserTyped ==
  /\ browser \in Browsers
  /\ browser.link \in {"opening", "open"} => browser.socket \in Sockets

LEMMA FeedStepIsServerStep ==
  ASSUME BrowserTyped, [FeedNext]_feedVars
  PROVE  [Next]_vars
<1>1. CASE UNCHANGED feedVars
  BY <1>1 DEF feedVars
<1>2. CASE Opened \/ Keepalive
  <2>1. HandlerCalled(browser.socket) /\ browser.socket \in Sockets
    BY <1>2 DEF Opened, Keepalive, BrowserTyped
  <2> QED BY <2>1 DEF Next, Server
<1>3. CASE CloseDead \/ Break
  BY <1>3 DEF CloseDead, Break
<1>4. CASE CloseSilent
  <2>1. untrack_client(browser.socket) /\ browser.socket \in Sockets
    BY <1>4 DEF CloseSilent, BrowserTyped
  <2> QED BY <2>1 DEF Next, Server
<1>5. CASE Purge \/ \E s \in Sockets : connect(s) \/ DropSession(s) \/ EndSession(s) \/ OtherClient(s)
  BY <1>5 DEF Purge, connect, DropSession, EndSession, OtherClient, Next, Server
<1>6. CASE Track \/ Complete \/ CloseQueued
  BY <1>6 DEF Track, Complete, CloseQueued, Next, Server, QueuedWork
<1>7. CASE \E b \in Broadcasters : BroadcastStep(b)
  BY <1>7 DEF BroadcastStep, Broadcast, Next
<1>8. CASE \E i \in Slots : Rested(i)
  BY <1>8 DEF Rested, Next
<1> QED BY <1>1, <1>2, <1>3, <1>4, <1>5, <1>6, <1>7, <1>8 DEF FeedNext

LEMMA BrowserStaysTyped ==
  ASSUME BrowserTyped, [FeedNext]_feedVars
  PROVE  BrowserTyped'
<1> DEFINE Typed(r) == r \in Browsers /\ (r.link \in {"opening", "open"} => r.socket \in Sockets)
<1>1. Typed(browser)
  BY DEF BrowserTyped
<1>2. Typed(Down) /\ Typed([Down EXCEPT !.link = "dead"])
  BY DEF Down, Browsers, Links
<1>3. \A s \in Sockets : Typed([Down EXCEPT !.socket = s, !.link = "opening"])
  BY DEF Down, Browsers, Links
<1>4. Typed([browser EXCEPT !.fed = TRUE]) /\ Typed([browser EXCEPT !.fed = FALSE])
  BY <1>1 DEF Browsers
<1>5. browser.link = "opening" => Typed([browser EXCEPT !.link = "open"])
  BY <1>1 DEF Browsers, Links
<1>6. Typed(browser')
  <2>1. CASE UNCHANGED feedVars
    BY <1>1, <2>1 DEF feedVars
  <2>2. CASE Opened \/ Keepalive
    BY <1>4, <1>5, <2>2 DEF Opened, Keepalive
  <2>3. CASE CloseDead \/ CloseSilent \/ Break
    BY <1>2, <2>3 DEF CloseDead, CloseSilent, Break
  <2>4. CASE Purge \/ Track
    BY <1>1, <2>4 DEF Purge, Track
  <2>5. CASE Complete
    BY <1>1, <1>4, <2>5 DEF Complete
  <2>6. CASE CloseQueued \/ \E s \in Sockets : connect(s) \/ DropSession(s) \/ EndSession(s) \/ OtherClient(s)
    BY <1>1, <1>2, <1>3, <2>6 DEF CloseQueued, Closed, connect, DropSession, EndSession, OtherClient
  <2>7. CASE (\E b \in Broadcasters : BroadcastStep(b)) \/ \E i \in Slots : Rested(i)
    BY <1>1, <2>7 DEF BroadcastStep, Rested
  <2> QED BY <2>1, <2>2, <2>3, <2>4, <2>5, <2>6, <2>7 DEF FeedNext
<1> QED BY <1>6 DEF BrowserTyped

(* The composition implements the table's safety specification: whatever   *)
(* the browser's timers do, the server takes only its own steps.           *)
THEOREM FeedImplementsServer == FeedSpec => Spec
<1>1. FeedInit => Init /\ BrowserTyped
  BY DEF FeedInit, BrowserTyped, Browsers, Down, Links
<1>2. BrowserTyped /\ [FeedNext]_feedVars => BrowserTyped' /\ [Next]_vars
  BY BrowserStaysTyped, FeedStepIsServerStep
<1> QED BY <1>1, <1>2, PTL DEF FeedSpec, Spec

(* Type correctness of the table, for any sockets, slots and broadcasters. *)
THEOREM TypeCorrect == FeedSpec => []TypeOK
<1>1. IInv => TypeOK
  BY DEF IInv
<1> QED BY <1>1, FeedImplementsServer, ServerInvariant, PTL

(* No client takes two slots (track_client looks for the socket first). *)
THEOREM NoSocketTwice == FeedSpec => []OneSlotPerSocket
<1>1. IInv => OneSlotPerSocket
  BY DEF IInv
<1> QED BY <1>1, FeedImplementsServer, ServerInvariant, PTL

(* The in-flight mark of a slot is exact for any number of broadcasters,    *)
(* because a generation names one client and a claim is made under the lock *)
(* (ws_finish_send, broadcast).                                            *)
THEOREM OneSendInFlight == FeedSpec => []InflightIsExact
<1> QED BY ExactCounts, FeedImplementsServer, ServerInvariant, PTL
=============================================================================
