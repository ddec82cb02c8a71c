--------------------------- MODULE BleServiceProofs ---------------------------
(* Proofs about the BLE service, for any lengths, MTUs and headers. *)
EXTENDS BleService, TLAPS

(* A chunk that is not the last is as long as the headers allow. *)
Chunked(here) ==
  /\ here.max > 32
  /\ here.offset = here.length \/ here.offset >= here.index * (here.max - 32)
  /\ here.at = "end" => here.index = Total(here.length, here.max)

Started(here) == here.index = 0 /\ here.offset = 0

(* A number two tasks use marks them both. *)
TwinsKnown ==
  \A t, u \in Tasks :
    /\ t # u
    /\ sender[t].at \in Numbered /\ sender[u].at \in Numbered
    /\ sender[t].id = sender[u].id
    => sender[t].twin

(* The client that was measured is there, with frames no smaller, and what *)
(* it has got is what has been sent.                                       *)
Followed(t) ==
  sender[t].same =>
    /\ linked
    /\ sender[t].at # "idle" => Room(mtu) >= sender[t].max
    /\ sender[t].at \in {"chunk", "end"} /\ ~sender[t].twin
       => inbox[sender[t].id] = [Begun(t, sender[t].length) EXCEPT !.got = sender[t].offset]

InOrder(t) ==
  /\ sender[t].at \in Numbered \cup {"draw"} => sender[t].id \in Ids
  /\ sender[t].at \in {"draw", "begin"} => Started(sender[t])
  /\ sender[t].at \in {"chunk", "end"} => Chunked(sender[t])

Records ==
  [at : {"idle", "draw", "begin", "chunk", "end", "acknowledged"},
   ack : BOOLEAN, length : Nat, max : Nat, index : Nat, offset : Nat,
   id : 0 .. MaxId, same : BOOLEAN, twin : BOOLEAN]
Assemblies == [from : Tasks \cup {"nobody", "several"}, length : Nat, got : Nat]

SendersOK ==
  /\ sender \in [Tasks -> Records]
  /\ inbox \in [Ids -> Assemblies]
  /\ \A t \in Tasks : sender[t].offset <= sender[t].length
  /\ \A t \in Tasks : InOrder(t) /\ Followed(t)
  /\ TwinsKnown

RequestsOK ==
  /\ s_ble_ota_request_pending <=> ota # "none"
  /\ sender["host"].ack \/ sender["host"].at = "acknowledged" => ota = "waiting"
  /\ sender["updater"].at # "idle" => ota = "answering"

(* The host is asked for nothing new while it sends. *)
OneHandler == event # "none" => sender["host"].at = "idle"

IInv == TypeOK /\ SendersOK /\ RequestsOK /\ OneHandler

-----------------------------------------------------------------------------
(* The chunks that are counted hold the message. *)
LEMMA TotalCovers ==
  ASSUME NEW length \in Nat, NEW max \in Nat, max > 32
  PROVE  Total(length, max) * (max - 32) >= length
<1> DEFINE c == max - 32
           a == length + c - 1
<1>1. c \in Nat \ {0} /\ a \in Nat
  OBVIOUS
<1>2. a = c * (a \div c) + (a % c) /\ a % c \in 0 .. (c - 1)
  BY <1>1
<1>3. a \div c \in Nat
  BY <1>1
<1>4. c * (a \div c) >= length
  <2> HIDE DEF c, a
  <2> DEFINE q == c * (a \div c)
  <2>1. q \in Int /\ a = q + (a % c) /\ a % c \in 0 .. (c - 1)
    BY <1>1, <1>2, <1>3
  <2> HIDE DEF q
  <2>2. a = length + c - 1
    BY DEF a
  <2> QED BY <2>1, <2>2, <1>1 DEF q
<1>5. Total(length, max) = a \div c
  BY DEF Total
<1> QED BY <1>1, <1>3, <1>4, <1>5

(* A step of one task that leaves the link alone touches nothing that      *)
(* another one sends, save where both use one number.                      *)
LEMMA OneTaskMoves ==
  ASSUME SendersOK, NEW t \in Tasks,
         sender' \in [Tasks -> Records], inbox' \in [Ids -> Assemblies],
         \A u \in Tasks \ {t} : sender'[u] = sender[u],
         \A j \in Ids : inbox'[j] = inbox[j] \/ (sender[t].at \in Numbered /\ j = sender[t].id),
         UNCHANGED <<linked, mtu>>,
         (sender[t].offset <= sender[t].length)', InOrder(t)', Followed(t)',
         sender'[t].at \in Numbered =>
           /\ sender[t].at \in Numbered
           /\ sender'[t].id = sender[t].id
           /\ sender'[t].twin = sender[t].twin
  PROVE  SendersOK'
<1>1. ASSUME NEW u \in Tasks \ {t}
      PROVE  (sender[u].offset <= sender[u].length)' /\ InOrder(u)'
  BY DEF SendersOK, InOrder, Started, Chunked
<1>2. ASSUME NEW u \in Tasks \ {t}
      PROVE  Followed(u)'
  <2>1. Followed(u) /\ InOrder(u) /\ sender'[u] = sender[u]
    BY DEF SendersOK
  <2>2. ASSUME sender[u].at \in {"chunk", "end"}, ~sender[u].twin
        PROVE  inbox'[sender[u].id] = inbox[sender[u].id]
    BY <2>1, <2>2 DEF SendersOK, TwinsKnown, InOrder, Numbered
  <2> QED BY <2>1, <2>2 DEF Followed, Begun
<1>3. TwinsKnown'
  BY DEF SendersOK, TwinsKnown
<1> QED BY <1>1, <1>2, <1>3 DEF SendersOK

LEMMA ReturnedIsQuiet ==
  ASSUME NEW ack \in BOOLEAN
  PROVE  /\ Returned(ack) \in Records
         /\ Returned(ack).at \in {"idle", "acknowledged"}
         /\ Returned(ack).at = "acknowledged" => ack
         /\ Returned(ack).offset = 0 /\ Returned(ack).length = 0
         /\ Returned(ack).same = FALSE /\ Returned(ack).ack = FALSE
<1>1. 0 \in Nat /\ 0 \in 0 .. MaxId
  BY BleServiceAssumption
<1>2. CASE ack
  <2>1. Returned(ack) = [at |-> "acknowledged", ack |-> FALSE, length |-> 0, max |-> 0,
                         index |-> 0, offset |-> 0, id |-> 0, same |-> FALSE, twin |-> FALSE]
    BY <1>2 DEF Returned, Quiet
  <2>2. /\ Returned(ack) \in Records /\ Returned(ack).at = "acknowledged"
        /\ Returned(ack).offset = 0 /\ Returned(ack).length = 0
        /\ Returned(ack).same = FALSE /\ Returned(ack).ack = FALSE
    BY <1>1, <2>1 DEF Records
  <2> QED BY <1>2, <2>2, Zenon
<1>3. CASE ~ack
  <2>1. Returned(ack) = [at |-> "idle", ack |-> FALSE, length |-> 0, max |-> 0,
                         index |-> 0, offset |-> 0, id |-> 0, same |-> FALSE, twin |-> FALSE]
    BY <1>3 DEF Returned, Quiet
  <2> QED BY <1>1, <1>3, <2>1 DEF Records
<1> QED BY <1>2, <1>3

(* A task that goes back, whatever the client then has under its number. *)
LEMMA FinishingKeepsSenders ==
  ASSUME SendersOK, NEW t \in Tasks, Finished(t), UNCHANGED <<linked, mtu>>,
         inbox' \in [Ids -> Assemblies],
         \A j \in Ids : inbox'[j] = inbox[j] \/ (sender[t].at \in Numbered /\ j = sender[t].id)
  PROVE  SendersOK'
<1>1. sender[t].ack \in BOOLEAN
  BY DEF SendersOK, Records
<1> DEFINE m == Returned(sender[t].ack)
<1>2. sender' = [sender EXCEPT ![t] = m]
  BY DEF Finished, Go
<1>3. /\ m \in Records /\ m.at \in {"idle", "acknowledged"}
      /\ m.offset = 0 /\ m.length = 0 /\ m.same = FALSE
  BY <1>1, ReturnedIsQuiet
<1> HIDE DEF m
<1>4. sender' \in [Tasks -> Records] /\ sender'[t] = m
  BY <1>2, <1>3 DEF SendersOK
<1>5. \A u \in Tasks \ {t} : sender'[u] = sender[u]
  BY <1>2 DEF SendersOK
<1>6. sender'[t].at \notin Numbered
  BY <1>3, <1>4 DEF Numbered
<1>7. InOrder(t)' /\ Followed(t)' /\ (sender[t].offset <= sender[t].length)'
  BY <1>3, <1>4 DEF InOrder, Followed, Numbered
<1> QED BY <1>4, <1>5, <1>6, <1>7, OneTaskMoves

LEMMA FinishingKeepsRequests ==
  ASSUME SendersOK, RequestsOK, NEW t \in Tasks, sender[t].at # "idle", Finished(t),
         UNCHANGED requestVars
  PROVE  RequestsOK'
<1>1. sender[t].ack \in BOOLEAN
  BY DEF SendersOK, Records
<1> DEFINE m == Returned(sender[t].ack)
<1>2. sender' = [sender EXCEPT ![t] = m]
  BY DEF Finished, Go
<1>3. m.ack = FALSE /\ (m.at = "acknowledged" => sender[t].ack)
  BY <1>1, ReturnedIsQuiet
<1> HIDE DEF m
<1>4. \A u \in Tasks : sender'[u] = IF u = t THEN m ELSE sender[u]
  BY <1>2 DEF SendersOK
<1> QED BY <1>3, <1>4 DEF RequestsOK, requestVars, Tasks

(* The rest of the type invariant. *)
LinkTyped ==
  /\ synced \in BOOLEAN /\ advertising \in BOOLEAN /\ refused \in BOOLEAN
  /\ linked \in BOOLEAN /\ secure \in BOOLEAN
  /\ mtu \in {DefaultMtu} \cup Mtus
  /\ event \in {"none", "connect", "disconnect", "advertised"}
  /\ s_conn_handle \in BOOLEAN
  /\ s_tx_msg_id \in 0 .. MaxId
  /\ ota \in {"none", "waiting", "updating", "answering"}
  /\ s_ble_ota_request_pending \in BOOLEAN

LEMMA Typed == SendersOK => (TypeOK <=> LinkTyped)
BY DEF SendersOK, TypeOK, LinkTyped, Records, Assemblies

LEMMA RoomIsNat == ASSUME LinkTyped PROVE Room(mtu) \in Nat /\ Room(mtu) >= 20 /\ mtu \in Nat /\ mtu >= 23
BY BleServiceAssumption DEF LinkTyped, Room, DefaultMtu

(* Storing a number marks every task that uses it. *)
LEMMA DrawKeepsSenders ==
  ASSUME SendersOK, NEW t \in Tasks, Draw(t)
  PROVE  SendersOK' /\ \A u \in Tasks : sender'[u].ack = sender[u].ack
                                     /\ (sender'[u].at = "idle" <=> sender[u].at = "idle")
                                     /\ (sender'[u].at = "acknowledged" <=> sender[u].at = "acknowledged")
<1>1. UNCHANGED <<linked, mtu, inbox>> /\ sender[t].at = "draw"
  BY DEF Draw, linkVars
<1>2. \A u \in Tasks : sender[u] \in Records /\ InOrder(u) /\ Followed(u)
  BY DEF SendersOK
<1>3. sender' = [u \in Tasks |->
                  IF u = t THEN [sender[t] EXCEPT !.at = "begin", !.twin = Twins(t) # {}]
                  ELSE IF u \in Twins(t) THEN [sender[u] EXCEPT !.twin = TRUE]
                  ELSE sender[u]]
  BY DEF Draw
<1>4. sender'[t] = [sender[t] EXCEPT !.at = "begin", !.twin = Twins(t) # {}]
  BY <1>3
<1>5. ASSUME NEW u \in Tasks \ {t}
      PROVE  sender'[u] = IF u \in Twins(t) THEN [sender[u] EXCEPT !.twin = TRUE] ELSE sender[u]
  BY <1>3
<1>6. sender'[t] \in Records /\ sender'[t].at = "begin" /\ sender'[t].id = sender[t].id
      /\ sender'[t].same = sender[t].same /\ sender'[t].max = sender[t].max
      /\ sender'[t].offset = sender[t].offset /\ sender'[t].index = sender[t].index
      /\ sender'[t].length = sender[t].length /\ sender'[t].ack = sender[t].ack
  BY <1>2, <1>4 DEF Records
<1>7. (sender'[t].twin <=> Twins(t) # {})
  BY <1>2, <1>4 DEF Records
<1>8. ASSUME NEW u \in Tasks \ {t}
      PROVE  /\ sender'[u] \in Records /\ sender'[u].at = sender[u].at /\ sender'[u].id = sender[u].id
             /\ sender'[u].same = sender[u].same /\ sender'[u].max = sender[u].max
             /\ sender'[u].offset = sender[u].offset /\ sender'[u].index = sender[u].index
             /\ sender'[u].length = sender[u].length /\ sender'[u].ack = sender[u].ack
             /\ (u \in Twins(t) => sender'[u].twin) /\ (sender[u].twin => sender'[u].twin)
  <2>1. sender[u] \in Records
    BY <1>2
  <2>2. CASE u \in Twins(t)
    <3>1. sender'[u] = [sender[u] EXCEPT !.twin = TRUE]
      BY <1>5, <2>2
    <3> QED BY <2>1, <3>1 DEF Records
  <2>3. CASE u \notin Twins(t)
    <3>1. sender'[u] = sender[u]
      BY <1>5, <2>3
    <3> QED BY <2>1, <2>3, <3>1, Zenon
  <2> QED BY <2>2, <2>3
<1>9. sender' \in [Tasks -> Records]
  BY <1>3, <1>6, <1>8
<1>10. \A u \in Tasks : (sender[u].offset <= sender[u].length)'
  BY <1>6, <1>8 DEF SendersOK
<1>11. \A u \in Tasks : InOrder(u)'
  BY <1>1, <1>2, <1>6, <1>8 DEF InOrder, Started, Chunked, Numbered
<1>12. \A u \in Tasks : Followed(u)'
  <2>1. Followed(t)'
    BY <1>1, <1>2, <1>6 DEF Followed
  <2>2. ASSUME NEW u \in Tasks \ {t} PROVE Followed(u)'
    BY <1>1, <1>2, <1>8 DEF Followed, Begun
  <2> QED BY <2>1, <2>2
<1>13. TwinsKnown'
  <2> SUFFICES ASSUME NEW u \in Tasks, NEW v \in Tasks, u # v,
                      (sender[u].at \in Numbered)', (sender[v].at \in Numbered)',
                      (sender[u].id = sender[v].id)'
               PROVE  sender'[u].twin
    BY DEF TwinsKnown
  <2>1. CASE u = t
    <3>1. v \in Twins(t)
      BY <2>1, <1>6, <1>8 DEF Twins
    <3> QED BY <2>1, <3>1, <1>7
  <2>2. CASE v = t
    <3>1. u \in Twins(t)
      BY <2>2, <1>6, <1>8 DEF Twins
    <3> QED BY <2>2, <3>1, <1>8
  <2>3. CASE u # t /\ v # t
    <3>1. sender[u].twin
      BY <2>3, <1>8 DEF SendersOK, TwinsKnown
    <3> QED BY <2>3, <3>1, <1>8
  <2> QED BY <2>1, <2>2, <2>3
<1> QED BY <1>1, <1>6, <1>8, <1>9, <1>10, <1>11, <1>12, <1>13 DEF SendersOK

LEMMA PutIsAssembly ==
  ASSUME NEW t \in Tasks, NEW m \in Assemblies, NEW bytes \in Nat
  PROVE  Put(t, m, bytes) \in Assemblies
BY DEF Put, Assemblies, Mixed, Nothing

LEMMA BeginKeepsSenders ==
  ASSUME SendersOK, LinkTyped, NEW t \in Tasks, SendBegin(t)
  PROVE  SendersOK'
<1>1. /\ UNCHANGED <<linked, mtu>> /\ sender[t].at = "begin"
      /\ inbox' = [inbox EXCEPT ![sender[t].id] = Begun(t, sender[t].length)]
  BY DEF SendBegin, linkVars
<1>2. sender[t] \in Records /\ InOrder(t) /\ Followed(t) /\ sender[t].offset <= sender[t].length
  BY DEF SendersOK
<1>3. sender[t].id \in Ids /\ Started(sender[t])
  BY <1>1, <1>2 DEF InOrder, Numbered
<1>4. Begun(t, sender[t].length) \in Assemblies
  BY <1>2 DEF Begun, Assemblies, Records
<1>5. inbox' \in [Ids -> Assemblies] /\ \A j \in Ids : inbox'[j] = inbox[j] \/ j = sender[t].id
  BY <1>1, <1>3, <1>4 DEF SendersOK
<1>6. /\ sender[t].at \in Numbered
      /\ \A j \in Ids : inbox'[j] = inbox[j] \/ (sender[t].at \in Numbered /\ j = sender[t].id)
  BY <1>1, <1>5 DEF Numbered
<1>7. CASE sender[t].max <= 32
  <2>1. Finished(t)
    BY <1>7 DEF SendBegin
  <2> QED BY <1>1, <1>5, <1>6, <2>1, FinishingKeepsSenders, Zenon
<1>8. CASE ~(sender[t].max <= 32)
  <2>1. sender' = [sender EXCEPT ![t] = [sender[t] EXCEPT !.at = "chunk"]]
    BY <1>8 DEF SendBegin, Go
  <2>2. sender'[t] = [sender[t] EXCEPT !.at = "chunk"] /\ \A u \in Tasks \ {t} : sender'[u] = sender[u]
    BY <2>1 DEF SendersOK
  <2>3. /\ sender'[t] \in Records /\ sender'[t].at = "chunk" /\ sender'[t].id = sender[t].id
        /\ sender'[t].same = sender[t].same /\ sender'[t].max = sender[t].max
        /\ sender'[t].offset = sender[t].offset /\ sender'[t].index = sender[t].index
        /\ sender'[t].length = sender[t].length /\ sender'[t].twin = sender[t].twin
    BY <1>2, <2>2 DEF Records
  <2>4. sender' \in [Tasks -> Records]
    BY <2>1, <2>2, <2>3 DEF SendersOK
  <2>5. InOrder(t)'
    <3>1. sender[t].max \in Nat /\ sender[t].max > 32
      BY <1>8, <1>2 DEF Records
    <3>2. sender[t].index * (sender[t].max - 32) = 0 /\ sender[t].offset = 0
      BY <3>1, <1>3 DEF Started
    <3> QED BY <3>1, <3>2, <2>3, <1>3 DEF InOrder, Chunked, Started, Numbered
  <2>6. Followed(t)'
    <3>1. inbox'[sender[t].id] = Begun(t, sender[t].length)
      BY <1>1, <1>3 DEF SendersOK
    <3>2. [Begun(t, sender[t].length) EXCEPT !.got = sender[t].offset] = Begun(t, sender[t].length)
      BY <1>3 DEF Begun, Started
    <3> QED BY <3>1, <3>2, <2>3, <1>1, <1>2 DEF Followed
  <2>7. /\ (sender[t].offset <= sender[t].length)'
        /\ sender'[t].at \in Numbered =>
             /\ sender[t].at \in Numbered
             /\ sender'[t].id = sender[t].id
             /\ sender'[t].twin = sender[t].twin
    BY <1>2, <1>6, <2>3
  <2> QED BY <1>1, <1>5, <1>6, <2>2, <2>4, <2>5, <2>6, <2>7, OneTaskMoves
<1> QED BY <1>7, <1>8

(* Multiplying by one more. *)
LEMMA OneMore ==
  ASSUME NEW i \in Nat, NEW c \in Nat
  PROVE  (i + 1) * c = i * c + c /\ i * c \in Nat
OBVIOUS

(* What a chunk takes is there, and it is all that is left, or as much as  *)
(* the longest header allows.                                              *)
LEMMA TakenAdvances ==
  ASSUME NEW here \in Records, here.at = "chunk", Chunked(here), here.offset <= here.length,
         NEW header \in HeaderLengths
  PROVE  /\ Taken(here, header) \in Nat
         /\ here.offset + Taken(here, header) <= here.length
         /\ \/ here.offset + Taken(here, header) = here.length
            \/ here.offset + Taken(here, header) >= (here.index + 1) * (here.max - 32)
<1> DEFINE c == here.max - 32
<1>1. /\ here.max \in Nat /\ here.max > 32 /\ here.index \in Nat
      /\ here.offset \in Nat /\ here.length \in Nat /\ c \in Nat
  BY DEF Records, Chunked
<1>2. header \in Nat /\ header <= 32 /\ here.max - header \in Nat /\ here.max - header >= c
  BY <1>1, BleServiceAssumption
<1>3. Taken(here, header) = IF here.length - here.offset < here.max - header
                            THEN here.length - here.offset ELSE here.max - header
  BY DEF Taken, Smaller
<1>4. CASE here.length - here.offset < here.max - header
  BY <1>1, <1>3, <1>4
<1>5. CASE ~(here.length - here.offset < here.max - header)
  <2>1. Taken(here, header) = here.max - header
    BY <1>3, <1>5
  <2>2. CASE here.offset = here.length
    BY <1>1, <1>2, <1>5, <2>1, <2>2
  <2>3. CASE here.offset >= here.index * c
    <3>1. (here.index + 1) * c = here.index * c + c /\ here.index * c \in Nat
      BY <1>1, OneMore
    <3> DEFINE p == here.index * c
    <3>2. here.offset + (here.max - header) >= p + c
      <4> HIDE DEF p
      <4>1. here.offset >= p /\ p \in Nat
        BY <2>3, <3>1 DEF p
      <4> HIDE DEF c
      <4> QED BY <4>1, <1>1, <1>2
    <3> QED BY <1>1, <1>2, <1>5, <2>1, <3>1, <3>2
  <2> QED BY <2>2, <2>3 DEF Chunked
<1> QED BY <1>4, <1>5

LEMMA ChunkKeepsSenders ==
  ASSUME SendersOK, LinkTyped, NEW t \in Tasks, SendChunk(t)
  PROVE  /\ SendersOK'
         /\ \A u \in Tasks : sender'[u].ack = sender[u].ack
                            /\ (sender'[u].at = "idle" <=> sender[u].at = "idle")
                            /\ (sender'[u].at = "acknowledged" <=> sender[u].at = "acknowledged")
<1>1. UNCHANGED <<linked, mtu>> /\ sender[t].at = "chunk"
  BY DEF SendChunk, linkVars
<1>2. sender[t] \in Records /\ InOrder(t) /\ Followed(t) /\ sender[t].offset <= sender[t].length
  BY DEF SendersOK
<1>3. sender[t].id \in Ids /\ Chunked(sender[t]) /\ sender[t].at \in Numbered
  BY <1>1, <1>2 DEF InOrder, Numbered
<1>4. PICK header \in HeaderLengths :
        /\ inbox' = [inbox EXCEPT ![sender[t].id] =
                       Put(t, @, Arriving(Taken(sender[t], header), header))]
        /\ sender' = [sender EXCEPT ![t] = [sender[t] EXCEPT
               !.at = IF sender[t].index + 1 = Total(sender[t].length, sender[t].max)
                      THEN "end" ELSE "chunk",
               !.index = @ + 1,
               !.offset = @ + Taken(sender[t], header)]]
  BY DEF SendChunk, Go
<1> DEFINE bytes == Taken(sender[t], header)
           arrive == Arriving(bytes, header)
           place == IF sender[t].index + 1 = Total(sender[t].length, sender[t].max)
                    THEN "end" ELSE "chunk"
<1>5. /\ bytes \in Nat
      /\ sender[t].offset + bytes <= sender[t].length
      /\ \/ sender[t].offset + bytes = sender[t].length
         \/ sender[t].offset + bytes >= (sender[t].index + 1) * (sender[t].max - 32)
  BY <1>1, <1>2, <1>3, TakenAdvances
<1>6. Room(mtu) \in Nat /\ header \in Nat /\ sender[t].max \in Nat
  BY <1>2, RoomIsNat, BleServiceAssumption DEF Records
<1>7. arrive \in Nat
  <2> HIDE DEF bytes
  <2> QED BY <1>5, <1>6 DEF Arriving, Smaller
<1>8. Room(mtu) >= sender[t].max => arrive = bytes
  <2>1. bytes <= sender[t].max - header
    BY <1>2, <1>6 DEF Taken, Smaller, Records
  <2> HIDE DEF bytes
  <2> QED BY <2>1, <1>5, <1>6 DEF Arriving, Smaller
<1> HIDE DEF bytes, arrive
<1>9. sender'[t] = [sender[t] EXCEPT !.at = place, !.index = @ + 1, !.offset = @ + bytes]
      /\ \A u \in Tasks \ {t} : sender'[u] = sender[u]
  BY <1>4 DEF SendersOK, bytes
<1>10. /\ sender'[t] \in Records /\ sender'[t].at = place
       /\ sender'[t].index = sender[t].index + 1 /\ sender'[t].offset = sender[t].offset + bytes
       /\ sender'[t].id = sender[t].id /\ sender'[t].twin = sender[t].twin
       /\ sender'[t].same = sender[t].same /\ sender'[t].max = sender[t].max
       /\ sender'[t].length = sender[t].length /\ sender'[t].ack = sender[t].ack
  <2>1. place \in {"chunk", "end"}
    OBVIOUS
  <2> HIDE DEF place
  <2>2. sender[t].index + 1 \in Nat /\ sender[t].offset + bytes \in Nat
    BY <1>2, <1>5 DEF Records
  <2>3. sender'[t] = [sender[t] EXCEPT !.at = place, !.index = sender[t].index + 1,
                                       !.offset = sender[t].offset + bytes]
    BY <1>9
  <2> QED BY <1>2, <2>1, <2>2, <2>3 DEF Records
<1>11. sender' \in [Tasks -> Records]
  BY <1>4, <1>9, <1>10 DEF SendersOK
<1>12. inbox[sender[t].id] \in Assemblies /\ inbox' = [inbox EXCEPT ![sender[t].id] = Put(t, @, arrive)]
  BY <1>3, <1>4 DEF SendersOK, bytes, arrive
<1>13. /\ inbox' \in [Ids -> Assemblies] /\ inbox'[sender[t].id] = Put(t, inbox[sender[t].id], arrive)
       /\ \A j \in Ids : inbox'[j] = inbox[j] \/ (sender[t].at \in Numbered /\ j = sender[t].id)
  <2>1. Put(t, inbox[sender[t].id], arrive) \in Assemblies
    BY <1>7, <1>12, PutIsAssembly
  <2> QED BY <1>3, <1>12, <2>1 DEF SendersOK
<1>14. InOrder(t)'
  <2>1. place \in {"chunk", "end"}
    OBVIOUS
  <2>2. Chunked(sender[t])'
    <3>1. place = "end" => sender[t].index + 1 = Total(sender[t].length, sender[t].max)
      OBVIOUS
    <3> HIDE DEF place
    <3> QED BY <3>1, <1>3, <1>5, <1>10 DEF Chunked
  <2> HIDE DEF place
  <2> QED BY <2>1, <2>2, <1>3, <1>10 DEF InOrder
<1>15. Followed(t)'
  <2> SUFFICES ASSUME sender[t].same
               PROVE  Followed(t)'
    BY <1>10 DEF Followed
  <2>1. linked' /\ Room(mtu') >= sender'[t].max /\ arrive = bytes
    BY <1>1, <1>2, <1>8, <1>10 DEF Followed
  <2>2. ASSUME ~sender[t].twin
        PROVE  inbox'[sender[t].id] = [Begun(t, sender[t].length) EXCEPT !.got = sender[t].offset + bytes]
    <3>1. inbox[sender[t].id] = [Begun(t, sender[t].length) EXCEPT !.got = sender[t].offset]
      BY <1>1, <1>2, <2>2 DEF Followed
    <3>2. inbox[sender[t].id].from = t /\ inbox[sender[t].id].got = sender[t].offset
          /\ [inbox[sender[t].id] EXCEPT !.got = @ + bytes]
               = [Begun(t, sender[t].length) EXCEPT !.got = sender[t].offset + bytes]
      BY <3>1 DEF Begun
    <3> QED BY <2>1, <3>2, <1>13 DEF Put
  <2> QED BY <2>1, <2>2, <1>10 DEF Followed, Begun
<1>16. /\ (sender[t].offset <= sender[t].length)'
       /\ sender'[t].at \in Numbered =>
             /\ sender[t].at \in Numbered
             /\ sender'[t].id = sender[t].id
             /\ sender'[t].twin = sender[t].twin
  BY <1>3, <1>5, <1>10
<1>17. SendersOK'
  BY <1>1, <1>9, <1>11, <1>13, <1>14, <1>15, <1>16, OneTaskMoves
<1> QED BY <1>1, <1>9, <1>10, <1>17

(* The number is free again once its END has arrived. *)
LEMMA EndKeepsSenders ==
  ASSUME SendersOK, NEW t \in Tasks, SendEnd(t)
  PROVE  SendersOK'
<1>1. /\ UNCHANGED <<linked, mtu>> /\ sender[t].at \in Numbered /\ Finished(t)
      /\ inbox' = [inbox EXCEPT ![sender[t].id] = Nothing]
  BY DEF SendEnd, linkVars, Numbered
<1>2. Nothing \in Assemblies
  BY DEF Nothing, Assemblies
<1>3. inbox' \in [Ids -> Assemblies]
  BY <1>1, <1>2 DEF SendersOK
<1>4. \A j \in Ids : inbox'[j] = inbox[j] \/ (sender[t].at \in Numbered /\ j = sender[t].id)
  BY <1>1 DEF SendersOK
<1> QED BY <1>1, <1>3, <1>4, FinishingKeepsSenders

(* A message begins from rest, measured for the client that is there. *)
LEMMA MessageKeepsSenders ==
  ASSUME SendersOK, LinkTyped, NEW t \in Tasks, sender[t].at = "idle",
         NEW ack \in BOOLEAN, Message(t, ack), UNCHANGED <<linked, mtu, inbox>>
  PROVE  /\ SendersOK'
         /\ \A u \in Tasks \ {t} : sender'[u] = sender[u]
         /\ sender'[t].ack => ack
         /\ sender'[t].at = "acknowledged" => ack
<1>1. /\ \A j \in Ids : inbox'[j] = inbox[j] \/ (sender[t].at \in Numbered /\ j = sender[t].id)
      /\ inbox' \in [Ids -> Assemblies]
  BY DEF SendersOK
<1>2. CASE Go(t, Returned(ack))
  <2> DEFINE m == Returned(ack)
  <2>1. /\ m \in Records /\ m.at \in {"idle", "acknowledged"} /\ (m.at = "acknowledged" => ack)
        /\ m.offset = 0 /\ m.length = 0 /\ m.same = FALSE /\ m.ack = FALSE
    BY ReturnedIsQuiet
  <2>2. sender' = [sender EXCEPT ![t] = m]
    BY <1>2 DEF Go
  <2> HIDE DEF m
  <2>3. sender' \in [Tasks -> Records] /\ sender'[t] = m /\ \A u \in Tasks \ {t} : sender'[u] = sender[u]
    BY <2>1, <2>2 DEF SendersOK
  <2>4. sender'[t].at \notin Numbered
    BY <2>1, <2>3 DEF Numbered
  <2>5. InOrder(t)' /\ Followed(t)' /\ (sender[t].offset <= sender[t].length)'
    BY <2>1, <2>3 DEF InOrder, Followed, Numbered
  <2>6. SendersOK'
    BY <1>1, <2>3, <2>4, <2>5, OneTaskMoves
  <2> QED BY <2>1, <2>3, <2>6, Zenon
<1>3. CASE \E length \in Lengths :
             /\ s_tx_msg_id < MaxId
             /\ Go(t, [Quiet EXCEPT !.at = "draw", !.ack = ack, !.length = length,
                          !.max = Room(IF linked THEN mtu ELSE 0),
                          !.id = s_tx_msg_id + 1, !.same = linked])
  <2> DEFINE max == Room(IF linked THEN mtu ELSE 0)
  <2>1. PICK length \in Lengths :
             /\ s_tx_msg_id < MaxId
             /\ Go(t, [Quiet EXCEPT !.at = "draw", !.ack = ack, !.length = length,
                          !.max = max, !.id = s_tx_msg_id + 1, !.same = linked])
    BY <1>3
  <2>2. length \in Nat /\ s_tx_msg_id + 1 \in Ids /\ s_tx_msg_id + 1 \in 0 .. MaxId
    BY <2>1, BleServiceAssumption DEF LinkTyped, Ids
  <2>3. max \in Nat /\ (linked => max = Room(mtu)) /\ linked \in BOOLEAN /\ Room(mtu) \in Nat
    BY RoomIsNat DEF LinkTyped, Room
  <2> DEFINE m == [Quiet EXCEPT !.at = "draw", !.ack = ack, !.length = length,
                                !.max = max, !.id = s_tx_msg_id + 1, !.same = linked]
  <2> HIDE DEF max
  <2>4. sender' = [sender EXCEPT ![t] = m]
    BY <2>1 DEF Go
  <2>5. /\ m \in Records /\ m.at = "draw" /\ m.id \in Ids /\ m.ack = ack
        /\ m.offset = 0 /\ m.index = 0 /\ m.length = length /\ m.max = max /\ m.same = linked
    <3> DEFINE number == s_tx_msg_id + 1
    <3>1. number \in 0 .. MaxId /\ number \in Ids
      BY <2>2
    <3>2. m = [Quiet EXCEPT !.at = "draw", !.ack = ack, !.length = length,
                           !.max = max, !.id = number, !.same = linked]
      OBVIOUS
    <3> HIDE DEF m, number
    <3>3. /\ m \in Records /\ m.at = "draw" /\ m.id = number /\ m.ack = ack
          /\ m.offset = 0 /\ m.index = 0 /\ m.length = length /\ m.max = max /\ m.same = linked
      BY <2>2, <2>3, <3>1, <3>2, 0 \in Nat DEF Quiet, Records
    <3> QED BY <3>1, <3>3
  <2> HIDE DEF m
  <2>6. sender' \in [Tasks -> Records] /\ sender'[t] = m /\ \A u \in Tasks \ {t} : sender'[u] = sender[u]
    BY <2>4, <2>5 DEF SendersOK
  <2>7. sender'[t].at \notin Numbered
    BY <2>5, <2>6 DEF Numbered
  <2>8. InOrder(t)'
    BY <2>5, <2>6 DEF InOrder, Started, Numbered
  <2>9. Followed(t)'
    BY <2>3, <2>5, <2>6 DEF Followed
  <2>10. (sender[t].offset <= sender[t].length)'
    BY <2>2, <2>5, <2>6
  <2>11. SendersOK'
    BY <1>1, <2>6, <2>7, <2>8, <2>9, <2>10, OneTaskMoves
  <2> QED BY <2>5, <2>6, <2>11, Zenon
<1> QED BY <1>2, <1>3 DEF Message

(* The client is gone: nothing of it is followed any more. *)
LEMMA LoseLinkKeepsSenders ==
  ASSUME SendersOK, LoseLink
  PROVE  /\ SendersOK'
         /\ \A t \in Tasks : sender'[t].at = sender[t].at /\ sender'[t].ack = sender[t].ack
<1>1. ASSUME NEW t \in Tasks
      PROVE  sender'[t] \in Records /\ sender'[t] = [sender[t] EXCEPT !.same = FALSE]
             /\ sender'[t].at = sender[t].at /\ sender'[t].id = sender[t].id
             /\ sender'[t].twin = sender[t].twin /\ sender'[t].max = sender[t].max
             /\ sender'[t].offset = sender[t].offset /\ sender'[t].index = sender[t].index
             /\ sender'[t].length = sender[t].length /\ sender'[t].ack = sender[t].ack
             /\ sender'[t].same = FALSE
  BY DEF LoseLink, SendersOK, Records
<1>2. sender' \in [Tasks -> Records]
  BY <1>1 DEF LoseLink
<1>3. inbox' \in [Ids -> Assemblies]
  BY DEF LoseLink, Nothing, Assemblies
<1>4. ASSUME NEW t \in Tasks
      PROVE  (sender[t].offset <= sender[t].length)' /\ InOrder(t)' /\ Followed(t)'
  <2>1. sender[t].offset <= sender[t].length /\ InOrder(t)
    BY DEF SendersOK
  <2>2. Followed(t)'
    BY <1>1 DEF Followed
  <2>3. InOrder(t)'
    BY <2>1, <1>1 DEF InOrder, Started, Chunked
  <2> QED BY <2>1, <2>2, <2>3, <1>1
<1>5. TwinsKnown'
  BY <1>1 DEF SendersOK, TwinsKnown
<1> QED BY <1>1, <1>2, <1>3, <1>4, <1>5 DEF SendersOK

(* A larger MTU, and a new link, take nothing from a message in flight. *)
LEMMA LargerRoomKeepsSenders ==
  ASSUME SendersOK, UNCHANGED <<sender, inbox>>, linked => linked',
         Room(mtu)' >= Room(mtu), Room(mtu) \in Nat, Room(mtu)' \in Nat
  PROVE  SendersOK'
<1>1. \A t \in Tasks : sender[t].max \in Nat
  BY DEF SendersOK, Records
<1>2. \A t \in Tasks : Followed(t)'
  BY <1>1 DEF SendersOK, Followed, Begun
<1>3. \A t \in Tasks : InOrder(t)'
  BY DEF SendersOK, InOrder, Started, Chunked
<1> QED BY <1>2, <1>3 DEF SendersOK, TwinsKnown

-----------------------------------------------------------------------------
LEMMA InitEstablishes == Init => IInv
<1> SUFFICES ASSUME Init PROVE IInv
  OBVIOUS
<1>1. LinkTyped
  <2>1. s_tx_msg_id \in 0 .. MaxId
    BY BleServiceAssumption DEF Init
  <2> QED BY <2>1, Zenon DEF Init, LinkTyped
<1>2. SendersOK
  <2>1. Quiet \in Records /\ Quiet.at = "idle" /\ Quiet.offset = 0 /\ Quiet.length = 0 /\ Quiet.same = FALSE
    BY BleServiceAssumption DEF Quiet, Records
  <2>2. Nothing \in Assemblies
    BY DEF Nothing, Assemblies
  <2> QED BY <2>1, <2>2 DEF Init, SendersOK, InOrder, Followed, TwinsKnown, Numbered
<1>3. RequestsOK
  BY DEF Init, RequestsOK, Quiet, Tasks
<1>4. OneHandler
  BY DEF Init, OneHandler
<1>5. TypeOK
  BY <1>1, <1>2, Typed
<1> QED BY <1>2, <1>3, <1>4, <1>5 DEF IInv

(* A larger MTU makes for larger frames. *)
LEMMA RoomGrows ==
  ASSUME NEW a \in Nat, NEW b \in Nat, b >= a
  PROVE  Room(b) \in Nat /\ Room(b) >= Room(a)
BY DEF Room

(* The stack's own steps. *)
LEMMA LinkKeeps ==
  ASSUME SendersOK, RequestsOK, LinkTyped,
         HostReset \/ Connect \/ ConnectFails \/ LinkLost \/ LinkImproves
  PROVE  SendersOK' /\ RequestsOK' /\ LinkTyped'
<1>0. /\ Room(mtu) \in Nat /\ mtu \in Nat /\ mtu >= 23 /\ linked \in BOOLEAN
      /\ UNCHANGED <<s_conn_handle, s_tx_msg_id, requestVars>>
  BY RoomIsNat DEF LinkTyped, HostReset, Connect, ConnectFails, LinkLost, LinkImproves, frameVars
<1>1. CASE LoseLink
  <2>1. SendersOK'
    BY <1>1, LoseLinkKeepsSenders
  <2>2. RequestsOK'
    BY <1>0, <1>1, LoseLinkKeepsSenders DEF RequestsOK, requestVars, Tasks
  <2>3. LinkTyped'
    BY <1>0, <1>1 DEF LinkTyped, LoseLink, HostReset, Connect, ConnectFails, LinkLost, LinkImproves,
                      requestVars
  <2> QED BY <2>1, <2>2, <2>3
<1>2. CASE ~LoseLink
  <2>1. /\ UNCHANGED <<sender, inbox>>
        /\ linked => linked'
        /\ UNCHANGED mtu \/ (mtu = DefaultMtu /\ mtu' \in Mtus)
    BY <1>2 DEF HostReset, Connect, ConnectFails, LinkLost, LinkImproves, frameVars
  <2>2. mtu' \in Nat /\ mtu' >= mtu
    <3>1. \A m \in Mtus : m \in Nat /\ m >= 23
      BY BleServiceAssumption
    <3>2. CASE UNCHANGED mtu
      BY <1>0, <3>2
    <3>3. CASE mtu = DefaultMtu /\ mtu' \in Mtus
      BY <3>1, <3>3 DEF DefaultMtu
    <3> QED BY <2>1, <3>2, <3>3
  <2>3. Room(mtu') \in Nat /\ Room(mtu') >= Room(mtu)
    BY <1>0, <2>2, RoomGrows
  <2>4. SendersOK'
    BY <1>0, <2>1, <2>3, LargerRoomKeepsSenders
  <2>5. RequestsOK'
    BY <1>0, <2>1 DEF RequestsOK, requestVars
  <2>6. LinkTyped'
    <3> USE <1>0, <1>2, <2>1 DEF LinkTyped, requestVars
    <3>1. CASE HostReset
      BY <3>1 DEF HostReset
    <3>2. CASE Connect \/ ConnectFails
      BY <3>2 DEF Connect, ConnectFails
    <3>3. CASE LinkLost
      BY <3>3 DEF LinkLost
    <3>4. CASE LinkImproves
      BY <3>4 DEF LinkImproves
    <3> QED BY <3>1, <3>2, <3>3, <3>4
  <2> QED BY <2>4, <2>5, <2>6
<1> QED BY <1>1, <1>2

(* A message of the host, where its task is idle. *)
LEMMA HostMessageKeeps ==
  ASSUME SendersOK, RequestsOK, LinkTyped, sender["host"].at = "idle",
         NEW ack \in BOOLEAN, Message("host", ack), UNCHANGED <<linked, mtu, inbox>>,
         s_ble_ota_request_pending' <=> ota' # "none",
         ack => ota' = "waiting" /\ ota = "none",
         ~ack => UNCHANGED ota
  PROVE  SendersOK' /\ RequestsOK'
<1>1. /\ SendersOK'
      /\ \A u \in Tasks \ {"host"} : sender'[u] = sender[u]
      /\ sender'["host"].ack => ack
      /\ sender'["host"].at = "acknowledged" => ack
  BY MessageKeepsSenders DEF Tasks
<1>2. sender'["updater"] = sender["updater"]
  BY <1>1 DEF Tasks
<1> QED BY <1>1, <1>2 DEF RequestsOK

(* Steps that send nothing and leave the link. *)
LEMMA StillKeepsSenders ==
  ASSUME SendersOK, UNCHANGED <<sender, inbox, linked, mtu>>
  PROVE  SendersOK'
BY DEF SendersOK, InOrder, Followed, TwinsKnown, Chunked, Started, Begun

LEMMA HostKeeps ==
  ASSUME SendersOK, RequestsOK, LinkTyped,
         Handler \/ Answer \/ ble_service_queue_ota_request,
         event # "none" => sender["host"].at = "idle"
  PROVE  SendersOK' /\ RequestsOK' /\ LinkTyped'
<1>1. CASE on_sync \/ Disconnected \/ Advertised
  <2>1. /\ UNCHANGED <<sender, inbox, linked, mtu, requestVars, s_tx_msg_id>>
    BY <1>1 DEF on_sync, Disconnected, Advertised, frameVars
  <2>2. LinkTyped'
    BY <1>1 DEF LinkTyped, on_sync, Disconnected, Advertised, frameVars, requestVars, start_advertising
  <2> QED BY <2>1, <2>2, StillKeepsSenders DEF RequestsOK, requestVars
<1>2. CASE Connected
  <2>1. /\ sender["host"].at = "idle" /\ Message("host", FALSE)
        /\ UNCHANGED <<linked, mtu, inbox, requestVars, synced, advertising, refused,
                      secure, s_tx_msg_id>>
        /\ event' = "none" /\ s_conn_handle' = TRUE
    BY <1>2 DEF Connected, frameVars
  <2>2. LinkTyped'
    BY <2>1 DEF LinkTyped, requestVars
  <2>3. s_ble_ota_request_pending' <=> ota' # "none"
    BY <2>1 DEF RequestsOK, requestVars
  <2> QED BY <2>1, <2>2, <2>3, HostMessageKeeps DEF requestVars
<1>3. CASE NotifyGive
  <2>1. /\ sender["host"].at = "acknowledged" /\ ota = "waiting"
        /\ UNCHANGED <<linkVars, s_conn_handle, frameVars, s_ble_ota_request_pending>>
        /\ ota' = "updating" /\ sender' = [sender EXCEPT !["host"] = Quiet]
    BY <1>3 DEF NotifyGive, RequestsOK, Go
  <2>2. Quiet \in Records /\ Quiet.at = "idle" /\ Quiet.ack = FALSE
        /\ Quiet.offset = 0 /\ Quiet.length = 0 /\ Quiet.same = FALSE
    BY BleServiceAssumption DEF Quiet, Records
  <2> HIDE DEF Quiet
  <2>3. sender' \in [Tasks -> Records] /\ sender'["host"] = Quiet /\ "host" \in Tasks
        /\ \A u \in Tasks \ {"host"} : sender'[u] = sender[u]
    BY <2>1, <2>2 DEF SendersOK, Tasks
  <2>4. SendersOK'
    <3>1. UNCHANGED <<linked, mtu, inbox>> /\ inbox' \in [Ids -> Assemblies]
          /\ \A j \in Ids : inbox'[j] = inbox[j] \/ (sender["host"].at \in Numbered /\ j = sender["host"].id)
      BY <2>1 DEF linkVars, frameVars, SendersOK
    <3>2. sender'["host"].at \notin Numbered
      BY <2>2, <2>3 DEF Numbered
    <3>3. InOrder("host")' /\ Followed("host")' /\ (sender["host"].offset <= sender["host"].length)'
      BY <2>2, <2>3 DEF InOrder, Followed, Numbered
    <3> QED BY <2>3, <3>1, <3>2, <3>3, OneTaskMoves
  <2>5. RequestsOK'
    BY <2>1, <2>2, <2>3 DEF RequestsOK, Tasks
  <2>6. LinkTyped'
    BY <2>1 DEF LinkTyped, linkVars, frameVars
  <2> QED BY <2>4, <2>5, <2>6
<1>4. CASE Answer
  <2>1. /\ sender["host"].at = "idle" /\ Message("host", FALSE)
        /\ UNCHANGED <<linkVars, s_conn_handle, inbox, requestVars, s_tx_msg_id>>
    BY <1>4 DEF Answer, frameVars, HostIdle
  <2>2. LinkTyped' /\ UNCHANGED <<linked, mtu, inbox, ota>>
    BY <2>1 DEF LinkTyped, requestVars, linkVars
  <2>3. s_ble_ota_request_pending' <=> ota' # "none"
    BY <2>1 DEF RequestsOK, requestVars
  <2> QED BY <2>1, <2>2, <2>3, HostMessageKeeps
<1>5. CASE ble_service_queue_ota_request
  <2>1. /\ sender["host"].at = "idle" /\ Message("host", TRUE)
        /\ UNCHANGED <<linkVars, s_conn_handle, inbox, s_tx_msg_id>>
        /\ ota = "none" /\ ota' = "waiting" /\ s_ble_ota_request_pending' = TRUE
    BY <1>5 DEF ble_service_queue_ota_request, frameVars, HostIdle, RequestsOK
  <2>2. LinkTyped' /\ UNCHANGED <<linked, mtu, inbox>>
    BY <2>1 DEF LinkTyped, linkVars
  <2> QED BY <2>1, <2>2, HostMessageKeeps
<1> QED BY <1>1, <1>2, <1>3, <1>4, <1>5 DEF Handler

LEMMA SendingKeeps ==
  ASSUME SendersOK, RequestsOK, LinkTyped, NEW t \in Tasks, send_json(t)
  PROVE  SendersOK' /\ RequestsOK' /\ LinkTyped'
<1>1. UNCHANGED <<linkVars, s_conn_handle, requestVars>>
  BY DEF send_json, Draw, FrameFails, SendBegin, SendChunk, SendEnd
<1>2. LinkTyped'
  <2>1. s_tx_msg_id' = s_tx_msg_id \/ s_tx_msg_id' = sender[t].id
    BY DEF send_json, Draw, FrameFails, SendBegin, SendChunk, SendEnd, frameVars
  <2>2. s_tx_msg_id' \in 0 .. MaxId
    <3>1. sender[t] \in Records /\ s_tx_msg_id \in 0 .. MaxId
      BY DEF LinkTyped, SendersOK
    <3>2. sender[t].id \in 0 .. MaxId
      BY <3>1 DEF Records
    <3> QED BY <2>1, <3>1, <3>2, Zenon
  <2> QED BY <1>1, <2>2, Zenon DEF LinkTyped, linkVars, requestVars
<1>3. UNCHANGED <<linked, mtu, ota, s_ble_ota_request_pending>>
  BY <1>1 DEF linkVars, requestVars
<1>4. ASSUME Finished(t), sender[t].at # "idle"
      PROVE  RequestsOK'
  BY <1>1, <1>4, FinishingKeepsRequests
<1>5. ASSUME \A u \in Tasks : sender'[u].ack = sender[u].ack
                           /\ (sender'[u].at = "idle" <=> sender[u].at = "idle")
                           /\ (sender'[u].at = "acknowledged" <=> sender[u].at = "acknowledged")
      PROVE  RequestsOK'
  BY <1>3, <1>5 DEF RequestsOK, Tasks
<1>6. ASSUME Draw(t) PROVE SendersOK' /\ RequestsOK'
  BY <1>5, <1>6, DrawKeepsSenders
<1>7. ASSUME FrameFails(t) PROVE SendersOK' /\ RequestsOK'
  <2>1. Finished(t) /\ UNCHANGED inbox /\ sender[t].at # "idle"
    BY <1>7 DEF FrameFails, frameVars, Numbered
  <2>2. inbox' \in [Ids -> Assemblies]
        /\ \A j \in Ids : inbox'[j] = inbox[j] \/ (sender[t].at \in Numbered /\ j = sender[t].id)
    BY <2>1 DEF SendersOK
  <2> QED BY <1>3, <1>4, <2>1, <2>2, FinishingKeepsSenders
<1>8. ASSUME SendBegin(t) PROVE SendersOK' /\ RequestsOK'
  <2>1. SendersOK'
    BY <1>8, BeginKeepsSenders
  <2>2. CASE Finished(t)
    <3>1. sender[t].at # "idle"
      BY <1>8 DEF SendBegin
    <3> QED BY <1>4, <2>1, <2>2, <3>1
  <2>3. CASE ~Finished(t)
    <3>1. sender' = [sender EXCEPT ![t] = [sender[t] EXCEPT !.at = "chunk"]] /\ sender[t].at = "begin"
      BY <1>8, <2>3 DEF SendBegin, Go
    <3>2. sender[t] \in Records /\ \A u \in Tasks \ {t} : sender'[u] = sender[u]
      BY <3>1 DEF SendersOK
    <3>3. sender'[t].at = "chunk" /\ sender'[t].ack = sender[t].ack
      BY <3>1, <3>2 DEF SendersOK, Records
    <3> QED BY <1>5, <2>1, <3>1, <3>2, <3>3
  <2> QED BY <2>2, <2>3
<1>9. ASSUME SendChunk(t) PROVE SendersOK' /\ RequestsOK'
  BY <1>5, <1>9, ChunkKeepsSenders
<1>10. ASSUME SendEnd(t) PROVE SendersOK' /\ RequestsOK'
  <2>1. Finished(t) /\ sender[t].at # "idle"
    BY <1>10 DEF SendEnd
  <2> QED BY <1>4, <1>10, <2>1, EndKeepsSenders
<1>11. Draw(t) \/ FrameFails(t) \/ SendBegin(t) \/ SendChunk(t) \/ SendEnd(t)
  BY DEF send_json
<1>12. CASE FrameFails(t) \/ SendBegin(t)
  BY <1>2, <1>7, <1>8, <1>12
<1>13. CASE SendChunk(t) \/ SendEnd(t)
  BY <1>2, <1>9, <1>10, <1>13
<1> QED BY <1>2, <1>6, <1>11, <1>12, <1>13, Zenon

LEMMA OthersKeep ==
  ASSUME SendersOK, RequestsOK, LinkTyped,
         UpdateReturns \/ ble_service_release_ota_request \/ ble_service_on_wifi_provision_result
  PROVE  /\ SendersOK' /\ RequestsOK' /\ LinkTyped'
         /\ UNCHANGED event /\ sender'["host"] = sender["host"]
<1>0. UNCHANGED <<linkVars, s_conn_handle, frameVars>> /\ UNCHANGED <<linked, mtu, inbox, event>>
  BY DEF UpdateReturns, ble_service_release_ota_request, ble_service_on_wifi_provision_result,
         linkVars, frameVars
<1>1. CASE UpdateReturns
  <2>1. /\ sender["updater"].at = "idle" /\ Message("updater", FALSE) /\ ota = "updating"
        /\ ota' = "answering" /\ UNCHANGED s_ble_ota_request_pending
    BY <1>1 DEF UpdateReturns, RequestsOK
  <2>2. SendersOK' /\ sender'["host"] = sender["host"]
    BY <1>0, <2>1, MessageKeepsSenders DEF Tasks
  <2>3. RequestsOK'
    BY <2>1, <2>2 DEF RequestsOK
  <2> QED BY <1>0, <2>1, <2>2, <2>3 DEF LinkTyped, linkVars, frameVars
<1>2. CASE ble_service_release_ota_request
  <2>1. /\ sender["updater"].at = "idle" /\ UNCHANGED sender /\ ota = "answering"
        /\ ota' = "none" /\ s_ble_ota_request_pending' = FALSE
    BY <1>2 DEF ble_service_release_ota_request
  <2>2. SendersOK'
    BY <1>0, <2>1, StillKeepsSenders
  <2>3. RequestsOK'
    BY <2>1 DEF RequestsOK
  <2> QED BY <1>0, <2>1, <2>2, <2>3 DEF LinkTyped, linkVars, frameVars
<1>3. CASE ble_service_on_wifi_provision_result
  <2>1. /\ sender["wifi"].at = "idle" /\ Message("wifi", FALSE) /\ UNCHANGED requestVars
    BY <1>3 DEF ble_service_on_wifi_provision_result
  <2>2. SendersOK' /\ sender'["host"] = sender["host"] /\ sender'["updater"] = sender["updater"]
    BY <1>0, <2>1, MessageKeepsSenders DEF Tasks
  <2>3. RequestsOK'
    BY <2>1, <2>2 DEF RequestsOK, requestVars
  <2> QED BY <1>0, <2>1, <2>2, <2>3 DEF LinkTyped, linkVars, frameVars, requestVars
<1> QED BY <1>1, <1>2, <1>3

(* A task's sending leaves the other tasks where they are. *)
LEMMA GoElsewhere ==
  ASSUME SendersOK, NEW t \in Tasks, NEW u \in Tasks \ {t}, NEW place, Go(t, place)
  PROVE  sender'[u] = sender[u]
BY DEF Go, SendersOK

LEMMA OthersStay ==
  ASSUME SendersOK, NEW t \in Tasks, NEW u \in Tasks \ {t}, send_json(t)
  PROVE  sender'[u].at = sender[u].at
<1>1. CASE Draw(t)
  <2>1. sender[u] \in Records
    BY DEF SendersOK
  <2>2. sender'[u] = IF u \in Twins(t) THEN [sender[u] EXCEPT !.twin = TRUE] ELSE sender[u]
    BY <1>1 DEF Draw
  <2>3. CASE u \in Twins(t)
    <3>1. sender'[u] = [sender[u] EXCEPT !.twin = TRUE]
      BY <2>2, <2>3
    <3> QED BY <2>1, <3>1 DEF Records
  <2>4. CASE u \notin Twins(t)
    BY <2>2, <2>4
  <2> QED BY <2>3, <2>4
<1>2. CASE Finished(t)
  BY <1>2, GoElsewhere DEF Finished
<1>3. CASE FrameFails(t)
  BY <1>2, <1>3 DEF FrameFails
<1>4. CASE SendBegin(t)
  <2>1. Finished(t) \/ Go(t, [sender[t] EXCEPT !.at = "chunk"])
    BY <1>4 DEF SendBegin
  <2> QED BY <1>2, <2>1, GoElsewhere
<1>5. CASE SendChunk(t)
  <2>1. \E place : Go(t, place)
    BY <1>5 DEF SendChunk
  <2> QED BY <2>1, GoElsewhere
<1>6. CASE SendEnd(t)
  BY <1>2, <1>6 DEF SendEnd
<1> QED BY <1>1, <1>3, <1>4, <1>5, <1>6 DEF send_json

(* The host handles one thing at a time. *)
LEMMA HandlerStaysOne ==
  ASSUME SendersOK, RequestsOK, LinkTyped, OneHandler, Next, SendersOK'
  PROVE  OneHandler'
<1>1. CASE HostReset \/ LinkLost
  <2>1. sender["host"].at = "idle" /\ (LoseLink \/ UNCHANGED sender)
    BY <1>1 DEF HostReset, LinkLost, HostIdle
  <2> QED BY <2>1, LoseLinkKeepsSenders DEF OneHandler, Tasks
<1>2. CASE Connect \/ ConnectFails \/ LinkImproves \/ on_sync
  BY <1>2 DEF Connect, ConnectFails, LinkImproves, on_sync, HostIdle, OneHandler
<1>3. CASE Connected \/ Disconnected \/ Advertised
  BY <1>3 DEF Connected, Disconnected, Advertised, OneHandler
<1>4. CASE NotifyGive \/ Answer \/ ble_service_queue_ota_request
  BY <1>4 DEF NotifyGive, Answer, ble_service_queue_ota_request, HostIdle, OneHandler, linkVars
<1>5. CASE UpdateReturns \/ ble_service_release_ota_request \/ ble_service_on_wifi_provision_result
           \/ \E t \in {"updater", "wifi"} : send_json(t)
  <2>1. CASE UpdateReturns \/ ble_service_release_ota_request \/ ble_service_on_wifi_provision_result
    <3>1. UNCHANGED event /\ sender'["host"] = sender["host"]
      BY <2>1, OthersKeep
    <3> QED BY <3>1, Zenon DEF OneHandler
  <2>2. CASE \E t \in {"updater", "wifi"} : send_json(t)
    <3>1. PICK t \in {"updater", "wifi"} : send_json(t)
      BY <2>2, Zenon
    <3>2. UNCHANGED event
      BY <3>1 DEF send_json, Draw, FrameFails, SendBegin, SendChunk, SendEnd, linkVars
    <3>3. t \in Tasks /\ "host" \in Tasks \ {t}
      BY DEF Tasks
    <3>4. sender'["host"].at = sender["host"].at
      BY <3>1, <3>3, OthersStay
    <3> QED BY <3>2, <3>4, Zenon DEF OneHandler
  <2> QED BY <1>5, <2>1, <2>2
<1>6. CASE send_json("host")
  <2>1. sender["host"].at # "idle" /\ UNCHANGED event
    BY <1>6 DEF send_json, Draw, FrameFails, SendBegin, SendChunk, SendEnd, linkVars, Numbered
  <2> QED BY <2>1, Zenon DEF OneHandler
<1> QED BY <1>1, <1>2, <1>3, <1>4, <1>5, <1>6 DEF Next, Handler, Tasks

LEMMA NextPreserves == IInv /\ [Next]_vars => IInv'
<1> SUFFICES ASSUME IInv, [Next]_vars PROVE IInv'
  OBVIOUS
<1>1. SendersOK /\ RequestsOK /\ OneHandler /\ LinkTyped
  BY Typed DEF IInv
<1>2. ASSUME SendersOK', RequestsOK', LinkTyped', OneHandler' PROVE IInv'
  <2>1. TypeOK'
    BY <1>2, Typed DEF SendersOK, TypeOK, LinkTyped, Records, Assemblies
  <2> QED BY <1>2, <2>1 DEF IInv
<1>3. CASE HostReset \/ Connect \/ ConnectFails \/ LinkLost \/ LinkImproves
  BY <1>1, <1>2, <1>3, LinkKeeps, HandlerStaysOne DEF Next
<1>4. CASE Handler \/ Answer \/ ble_service_queue_ota_request
  BY <1>1, <1>2, <1>4, HostKeeps, HandlerStaysOne DEF Next, OneHandler
<1>5. CASE UpdateReturns \/ ble_service_release_ota_request \/ ble_service_on_wifi_provision_result
  BY <1>1, <1>2, <1>5, OthersKeep, HandlerStaysOne DEF Next
<1>6. CASE \E t \in Tasks : send_json(t)
  BY <1>1, <1>2, <1>6, SendingKeeps, HandlerStaysOne DEF Next
<1>7. CASE UNCHANGED vars
  <2>1. UNCHANGED <<sender, inbox, linked, mtu, ota, s_ble_ota_request_pending, event>>
    BY <1>7 DEF vars, linkVars, frameVars, requestVars
  <2>2. LinkTyped'
    BY <1>1, <1>7 DEF LinkTyped, vars, linkVars, frameVars, requestVars
  <2> QED BY <1>1, <1>2, <2>1, <2>2, StillKeepsSenders DEF RequestsOK, OneHandler
<1> QED BY <1>3, <1>4, <1>5, <1>6, <1>7 DEF Next

LEMMA Inductive == Spec => []IInv
BY InitEstablishes, NextPreserves, PTL DEF Spec

(* Type correctness, for any lengths, MTUs and headers: whatever headers   *)
(* the chunks get, none reads past the end of its message.                 *)
THEOREM TypeCorrect == Spec => []TypeOK
<1>1. IInv => TypeOK
  BY DEF IInv
<1> QED BY <1>1, Inductive, PTL

(* A client that stays gets whole messages, though the number of chunks is *)
(* computed for the longest header before the first one is built, and the  *)
(* MTU read before the message is cut (ble_service_send_chunked).          *)
THEOREM EndAlwaysMeansAll == Spec => []EndMeansAll
<1>1. IInv => EndMeansAll
  <2> SUFFICES ASSUME IInv, NEW t \in Tasks,
                      sender[t].at = "end", sender[t].same, ~sender[t].twin
               PROVE  inbox[sender[t].id]
                        = [Begun(t, sender[t].length) EXCEPT !.got = sender[t].length]
    BY DEF EndMeansAll
  <2>1. /\ sender[t] \in Records /\ sender[t].offset <= sender[t].length
        /\ InOrder(t) /\ Followed(t)
    BY DEF IInv, SendersOK
  <2>2. /\ Chunked(sender[t])
        /\ inbox[sender[t].id] = [Begun(t, sender[t].length) EXCEPT !.got = sender[t].offset]
    BY <2>1 DEF InOrder, Followed
  <2>3. sender[t].offset = sender[t].length
    <3>1. sender[t].length \in Nat /\ sender[t].offset \in Nat /\ sender[t].max \in Nat /\ sender[t].max > 32
      BY <2>1, <2>2 DEF Records, Chunked
    <3>2. Total(sender[t].length, sender[t].max) * (sender[t].max - 32) >= sender[t].length
      BY <3>1, TotalCovers
    <3>3. \/ sender[t].offset = sender[t].length
          \/ sender[t].offset >= Total(sender[t].length, sender[t].max) * (sender[t].max - 32)
      BY <2>2 DEF Chunked
    <3> DEFINE p == Total(sender[t].length, sender[t].max) * (sender[t].max - 32)
    <3>4. p \in Int
      BY <3>1 DEF Total
    <3> QED BY <2>1, <3>1, <3>2, <3>3, <3>4
  <2> QED BY <2>2, <2>3
<1> QED BY <1>1, Inductive, PTL

(* The answer to an update never overtakes the acknowledgement, because    *)
(* the task of the update waits to be told (ota_request_task).             *)
THEOREM AcknowledgementsComeFirst == Spec => []AcknowledgedFirst
<1>1. IInv => AcknowledgedFirst
  BY DEF IInv, RequestsOK, AcknowledgedFirst
<1> QED BY <1>1, Inductive, PTL
=============================================================================
