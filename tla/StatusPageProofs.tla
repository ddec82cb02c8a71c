-------------------------- MODULE StatusPageProofs --------------------------
(***************************************************************************)
(* What the chart of the browser claims, for every modulus of the sequence *)
(* numbers, every gap, chart length and clock, and however many boots.     *)
(***************************************************************************)
EXTENDS StatusPage, TLAPS

Samples == [boot : Nat \ {0}, count : Nat, sequence : 0 .. SequenceModulus - 1,
            time : Int \cup {Unset}]
Points == [x : Int, boot : Nat, count : Nat]

(* The number n samples after number q. *)
After(q, n) == IF q + n < SequenceModulus THEN q + n ELSE q + n - SequenceModulus

(* b is a, or a later sample of the same run of the device; or it is where *)
(* the device stands.                                                      *)
UpTo(a, b) ==
  /\ a.boot = b.boot
  /\ a.count <= b.count
  /\ b.sequence = After(a.sequence, b.count - a.count)

Precedes(a, b) == UpTo(a, b) /\ a.count < b.count

(* The sample of the newest point of the chart. *)
Drawn == [boot |-> Last(chart).boot, count |-> Last(chart).count,
          sequence |-> tracker.lastSequence]

(* No run is longer than the numbers are many. *)
ShortRuns ==
  /\ now <= MaxTime
  /\ device.count <= now
  /\ \A i \in 1 .. Len(wire) : wire[i].count <= MaxTime

(* The wire carries samples of one run in order; a link that is up carries *)
(* those of the present run.                                               *)
WireInOrder ==
  /\ \A i, j \in 1 .. Len(wire) : i < j => Precedes(wire[i], wire[j])
  /\ link = "up" => \A i \in 1 .. Len(wire) : UpTo(wire[i], device)
  /\ link = "down" => wire = <<>>

TrackerKnowsLast ==
  /\ chart = <<>> <=> tracker.lastTimestamp = Unset
  /\ chart # <<>> => /\ tracker.lastSequence # Unset
                     /\ Last(chart).x = 2 * tracker.lastTimestamp

(* Without a disconnection since, what is to come is of the same run as    *)
(* the newest point, and later.                                            *)
TrackerInOrder ==
  chart # <<>> /\ ~tracker.disconnected =>
    /\ link # "down"
    /\ \A i \in 1 .. Len(wire) : Precedes(Drawn, wire[i])
    /\ link = "up" => UpTo(Drawn, device)

(* Two neighbours on the chart. *)
Neighbours(a, b) ==
  /\ a.x < b.x
  /\ ~IsNull(a) /\ ~IsNull(b) => /\ b.boot = a.boot
                                 /\ b.count = a.count + 1
                                 /\ b.x - a.x <= 2 * GapSeconds

Sound(points) == \A i \in 1 .. Len(points) - 1 : Neighbours(points[i], points[i + 1])

IInv ==
  /\ TypeOK /\ ShortRuns /\ WireInOrder /\ TrackerKnowsLast /\ TrackerInOrder
  /\ Sound(chart)

-----------------------------------------------------------------------------
(* Sequence numbers. *)
LEMMA NextNumber ==
  ASSUME NEW q \in 0 .. SequenceModulus - 1
  PROVE  (q + 1) % SequenceModulus = After(q, 1)
<1>1. SequenceModulus \in Nat \ {0, 1}
  BY StatusPageAssumption
<1>2. CASE q + 1 < SequenceModulus
  BY <1>1, <1>2 DEF After
<1>3. CASE q + 1 = SequenceModulus
  BY <1>1, <1>3 DEF After
<1> QED
  BY <1>1, <1>2, <1>3

LEMMA NumbersAdd ==
  ASSUME NEW q \in 0 .. SequenceModulus - 1, NEW n \in Nat, n + 1 < SequenceModulus
  PROVE  /\ After(q, n) \in 0 .. SequenceModulus - 1
         /\ After(After(q, n), 1) = After(q, n + 1)
         /\ After(q, 0) = q
<1>1. SequenceModulus \in Nat \ {0, 1}
  BY StatusPageAssumption
<1> QED
  BY <1>1 DEF After

(* Numbers tell apart the samples of a run. *)
LEMMA NumbersDiffer ==
  ASSUME NEW q \in 0 .. SequenceModulus - 1, NEW n \in Nat \ {0}, n < SequenceModulus,
         After(q, n) = After(q, 1)
  PROVE  n = 1
<1>1. SequenceModulus \in Nat \ {0, 1}
  BY StatusPageAssumption
<1> QED
  BY <1>1 DEF After

-----------------------------------------------------------------------------
(* The chart. *)
LEMMA TailIs ==
  ASSUME NEW S, NEW s \in Seq(S), s # <<>>
  PROVE  /\ Head(s) \in S /\ Head(s) = s[1]
         /\ Tail(s) \in Seq(S)
         /\ Len(s) \in Nat \ {0}
         /\ Len(Tail(s)) = Len(s) - 1
         /\ \A i \in 1 .. Len(s) - 1 : Tail(s)[i] = s[i + 1]
OBVIOUS

LEMMA AppendIs ==
  ASSUME NEW S, NEW s \in Seq(S), NEW p \in S
  PROVE  /\ Append(s, p) \in Seq(S) /\ Append(s, p) # <<>>
         /\ Len(s) \in Nat
         /\ Len(Append(s, p)) = Len(s) + 1
         /\ \A i \in 1 .. Len(s) : Append(s, p)[i] = s[i]
         /\ Append(s, p)[Len(s) + 1] = p
OBVIOUS

(* The neighbours in r are neighbours in s followed by p.                  *)
Extends(r, s, p) ==
  \A i \in 1 .. Len(r) - 1 : \E j \in 1 .. Len(s) :
    r[i] = s[j] /\ r[i + 1] = IF j = Len(s) THEN p ELSE s[j + 1]

(* addPoint keeps the newest points, in order.                             *)
LEMMA WithPointIs ==
  ASSUME NEW s \in Seq(Points), Len(s) <= MaxPoints, NEW p \in Points,
         NEW r, r = WithPoint(s, p)
  PROVE  /\ r \in Seq(Points) /\ r # <<>> /\ Last(r) = p
         /\ Len(r) \in 1 .. MaxPoints
         /\ Extends(r, s, p)
<1> DEFINE longer == Append(s, p)
<1>1. /\ longer \in Seq(Points) /\ longer # <<>>
      /\ Len(s) \in Nat /\ Len(longer) = Len(s) + 1 /\ longer[Len(s) + 1] = p
      /\ \A i \in 1 .. Len(s) : longer[i] = s[i]
  BY AppendIs
<1>2. r = IF Len(longer) > MaxPoints THEN Tail(longer) ELSE longer
  BY DEF WithPoint
<1>3. MaxPoints \in Nat \ {0}
  BY StatusPageAssumption
<1>4. \A i \in 1 .. Len(s) : longer[i + 1] = IF i = Len(s) THEN p ELSE s[i + 1]
  BY <1>1
<1> HIDE DEF longer
<1>5. CASE Len(longer) > MaxPoints
  <2>1. r = Tail(longer)
    BY <1>2, <1>5
  <2>2. /\ r \in Seq(Points) /\ Len(r) = Len(s)
        /\ \A i \in 1 .. Len(s) : r[i] = longer[i + 1]
    BY <1>1, <2>1, TailIs
  <2>3. Len(s) = MaxPoints /\ r # <<>>
    BY <1>1, <1>3, <1>5, <2>2
  <2>4. ASSUME NEW i \in 1 .. Len(r) - 1
        PROVE  \E j \in 1 .. Len(s) :
                 r[i] = s[j] /\ r[i + 1] = IF j = Len(s) THEN p ELSE s[j + 1]
    <3>1. i + 1 \in 1 .. Len(s) /\ i \in 1 .. Len(s)
      BY <1>1, <2>2
    <3>2. r[i] = s[i + 1] /\ r[i + 1] = longer[(i + 1) + 1]
      BY <1>1, <2>2, <3>1
    <3> QED BY <1>4, <3>1, <3>2
  <2>5. Last(r) = p
    BY <1>1, <1>3, <2>2, <2>3 DEF Last
  <2> QED BY <1>3, <2>2, <2>3, <2>4, <2>5 DEF Extends
<1>6. CASE ~(Len(longer) > MaxPoints)
  <2>1. r = longer
    BY <1>2, <1>6
  <2>2. ASSUME NEW i \in 1 .. Len(r) - 1
        PROVE  \E j \in 1 .. Len(s) :
                 r[i] = s[j] /\ r[i + 1] = IF j = Len(s) THEN p ELSE s[j + 1]
    <3>1. i \in 1 .. Len(s)
      BY <1>1, <2>1
    <3>2. r[i] = s[i]
      BY <1>1, <2>1, <3>1
    <3>3. r[i + 1] = IF i = Len(s) THEN p ELSE s[i + 1]
      BY <1>4, <2>1, <3>1
    <3> WITNESS i \in 1 .. Len(s)
    <3> QED BY <3>2, <3>3
  <2>3. Last(r) = p
    BY <1>1, <2>1 DEF Last
  <2> QED BY <1>1, <1>3, <1>6, <2>1, <2>2, <2>3 DEF Extends
<1> QED BY <1>5, <1>6

LEMMA AddKeepsSound ==
  ASSUME NEW s \in Seq(Points), Len(s) <= MaxPoints, NEW p \in Points,
         Sound(s), s # <<>> => Neighbours(Last(s), p)
  PROVE  Sound(WithPoint(s, p))
<1> DEFINE r == WithPoint(s, p)
<1>1. r = WithPoint(s, p)
  OBVIOUS
<1> HIDE DEF r
<1>2. Extends(r, s, p)
  BY <1>1, WithPointIs
<1>3. ASSUME NEW i \in 1 .. Len(r) - 1 PROVE Neighbours(r[i], r[i + 1])
  <2>1. PICK j \in 1 .. Len(s) :
          r[i] = s[j] /\ r[i + 1] = IF j = Len(s) THEN p ELSE s[j + 1]
    BY <1>2 DEF Extends
  <2>2. CASE j = Len(s)
    <3>1. s # <<>> /\ r[i] = Last(s) /\ r[i + 1] = p
      BY <2>1, <2>2 DEF Last
    <3> QED BY <3>1
  <2>3. CASE j # Len(s)
    <3>1. j \in 1 .. Len(s) - 1
      BY <2>3
    <3> QED BY <2>1, <2>3, <3>1 DEF Sound
  <2> QED BY <2>2, <2>3
<1> QED BY <1>1, <1>3 DEF Sound

-----------------------------------------------------------------------------
LEMMA InitIInv == Init => IInv
<1> SUFFICES ASSUME Init PROVE IInv
  OBVIOUS
<1>1. /\ now = 0 /\ link = "down" /\ wire = <<>> /\ chart = <<>> /\ tracker = FreshTracker
  BY DEF Init
<1>2. PICK first \in FirstSequences : device = [FreshDevice(1) EXCEPT !.sequence = first]
  BY DEF Init
<1>3. first \in 0 .. SequenceModulus - 1 /\ MaxTime \in Nat
  BY StatusPageAssumption
<1>4. device \in [boot : Nat \ {0}, count : Nat, sequence : 0 .. SequenceModulus - 1,
                  skew : Skews \cup {Unset}, updating : BOOLEAN] /\ device.count = 0
  <2>1. device = [boot |-> 1, count |-> 0, sequence |-> first, skew |-> Unset, updating |-> FALSE]
    BY <1>2 DEF FreshDevice
  <2> QED BY <1>3, <2>1
<1>5. /\ tracker.lastSequence = Unset /\ tracker.lastTimestamp = Unset
      /\ tracker \in [lastSequence : (0 .. SequenceModulus - 1) \cup {Unset},
                      lastTimestamp : Int \cup {Unset}, disconnected : BOOLEAN]
  BY <1>1 DEF FreshTracker
<1>6. TypeOK
  <2>1. Len(chart) <= MaxPoints
    BY <1>1, StatusPageAssumption
  <2>2. /\ wire \in Seq([boot : Nat \ {0}, count : Nat, sequence : 0 .. SequenceModulus - 1,
                        time : Int \cup {Unset}])
        /\ chart \in Seq([x : Int, boot : Nat, count : Nat])
    BY <1>1
  <2> QED BY <1>1, <1>4, <1>5, <2>1, <2>2 DEF TypeOK
<1>7. ShortRuns
  BY <1>1, <1>3, <1>4 DEF ShortRuns
<1>8. WireInOrder /\ TrackerInOrder /\ Sound(chart)
  BY <1>1 DEF WireInOrder, TrackerInOrder, Sound
<1>9. TrackerKnowsLast
  BY <1>1, <1>5 DEF TrackerKnowsLast
<1> QED BY <1>6, <1>7, <1>8, <1>9 DEF IInv

(* What the invariant says of the types, field by field. *)
LEMMA Known ==
  ASSUME TypeOK
  PROVE  /\ now \in Nat
         /\ device.boot \in Nat \ {0} /\ device.count \in Nat
         /\ device.sequence \in 0 .. SequenceModulus - 1
         /\ device.skew \in Skews \cup {Unset} /\ device.updating \in BOOLEAN
         /\ wire \in Seq(Samples) /\ Len(wire) \in Nat
         /\ \A i \in 1 .. Len(wire) :
              /\ wire[i] \in Samples
              /\ wire[i].boot \in Nat \ {0} /\ wire[i].count \in Nat
              /\ wire[i].sequence \in 0 .. SequenceModulus - 1
              /\ wire[i].time \in Int \cup {Unset}
         /\ tracker.lastSequence \in (0 .. SequenceModulus - 1) \cup {Unset}
         /\ tracker.lastTimestamp \in Int \cup {Unset} /\ tracker.disconnected \in BOOLEAN
         /\ chart \in Seq(Points) /\ Len(chart) \in Nat /\ Len(chart) <= MaxPoints
         /\ chart # <<>> => Last(chart) \in Points
<1>1. /\ now \in Nat
      /\ device \in [boot : Nat \ {0}, count : Nat, sequence : 0 .. SequenceModulus - 1,
                     skew : Skews \cup {Unset}, updating : BOOLEAN]
      /\ tracker \in [lastSequence : (0 .. SequenceModulus - 1) \cup {Unset},
                      lastTimestamp : Int \cup {Unset}, disconnected : BOOLEAN]
      /\ wire \in Seq(Samples) /\ chart \in Seq(Points) /\ Len(chart) <= MaxPoints
  BY DEF TypeOK, Samples, Points
<1>2. Len(wire) \in Nat /\ Len(chart) \in Nat
  BY <1>1
<1>3. ASSUME NEW i \in 1 .. Len(wire)
      PROVE  /\ wire[i] \in Samples
             /\ wire[i].boot \in Nat \ {0} /\ wire[i].count \in Nat
             /\ wire[i].sequence \in 0 .. SequenceModulus - 1
             /\ wire[i].time \in Int \cup {Unset}
  <2>1. wire[i] \in Samples
    BY <1>1
  <2> QED BY <2>1 DEF Samples
<1>4. chart # <<>> => Last(chart) \in Points
  BY <1>1, <1>2 DEF Last
<1> QED BY <1>1, <1>2, <1>3, <1>4

(* The sample of the newest point, once there is one.                      *)
LEMMA DrawnIs ==
  ASSUME TypeOK, TrackerKnowsLast, chart # <<>>
  PROVE  /\ Drawn.boot = Last(chart).boot /\ Drawn.count = Last(chart).count
         /\ Drawn.sequence = tracker.lastSequence
         /\ Drawn.boot \in Nat /\ Drawn.count \in Nat
         /\ Drawn.sequence \in 0 .. SequenceModulus - 1
         /\ tracker.lastTimestamp \in Int
<1>1. Drawn.boot = Last(chart).boot /\ Drawn.count = Last(chart).count
      /\ Drawn.sequence = tracker.lastSequence
  BY DEF Drawn
<1>2. Last(chart) \in Points
  BY Known
<1>3. Last(chart).boot \in Nat /\ Last(chart).count \in Nat
  BY <1>2 DEF Points
<1>4. tracker.lastSequence \in 0 .. SequenceModulus - 1
  BY Known DEF TrackerKnowsLast
<1>5. tracker.lastTimestamp \in Int
  BY Known DEF TrackerKnowsLast
<1> QED BY <1>1, <1>3, <1>4, <1>5

(* The device's next number is after everything it numbered before.        *)
LEMMA NextIsAfter ==
  ASSUME NEW a, a.count \in Nat, a.sequence \in 0 .. SequenceModulus - 1,
         NEW b, b.count \in Nat, b.count < MaxTime, UpTo(a, b),
         NEW c, c.boot = b.boot, c.count = b.count + 1, c.sequence = After(b.sequence, 1)
  PROVE  Precedes(a, c) /\ UpTo(a, c)
<1> DEFINE n == b.count - a.count
           q == a.sequence
<1>1. n \in Nat /\ n <= b.count /\ b.sequence = After(q, n) /\ a.boot = b.boot
  BY DEF UpTo
<1>2. n + 1 < SequenceModulus
  <2>1. MaxTime \in Nat /\ MaxTime < SequenceModulus /\ SequenceModulus \in Nat
    BY StatusPageAssumption
  <2> QED BY <1>1, <2>1
<1>3. c.count - a.count = n + 1
  OBVIOUS
<1> HIDE DEF n, q
<1>4. After(After(q, n), 1) = After(q, n + 1)
  <2>1. q \in 0 .. SequenceModulus - 1
    BY DEF q
  <2> QED BY <1>1, <1>2, <2>1, NumbersAdd
<1>5. c.sequence = After(a.sequence, c.count - a.count)
  BY <1>1, <1>3, <1>4 DEF q
<1>6. a.count < c.count /\ a.count <= c.count
  BY <1>1, <1>3 DEF n
<1> QED BY <1>1, <1>5, <1>6 DEF UpTo, Precedes

(* Publishing numbers a sample, and may put it on the wire. *)
LEMMA PublishKeeps ==
  ASSUME IInv, Publish
  PROVE  IInv'
<1> DEFINE s == Sample(device')
           count == device.count + 1
           sequence == After(device.sequence, 1)
<1>0. TypeOK /\ ShortRuns /\ WireInOrder /\ TrackerKnowsLast /\ TrackerInOrder /\ Sound(chart)
  BY DEF IInv
<1>1. /\ now < MaxTime /\ now' = now + 1 /\ UNCHANGED <<link, tracker, chart>>
      /\ device' = [device EXCEPT !.count = @ + 1, !.sequence = (@ + 1) % SequenceModulus]
      /\ UNCHANGED wire \/ (link = "up" /\ wire' = Append(wire, s))
  BY DEF Publish
<1>2. /\ device'.boot = device.boot /\ device'.count = device.count + 1
      /\ device'.sequence = After(device.sequence, 1)
      /\ device'.skew = device.skew
      /\ device' \in [boot : Nat \ {0}, count : Nat, sequence : 0 .. SequenceModulus - 1,
                      skew : Skews \cup {Unset}, updating : BOOLEAN]
  <2>1. (device.sequence + 1) % SequenceModulus = After(device.sequence, 1)
        /\ device.sequence \in 0 .. SequenceModulus - 1
    BY <1>0, Known, NextNumber
  <2>2. sequence \in 0 .. SequenceModulus - 1
    BY <2>1, StatusPageAssumption DEF After
  <2>3. device' = [device EXCEPT !.count = count, !.sequence = sequence]
    BY <1>1, <2>1
  <2>4. device \in [boot : Nat \ {0}, count : Nat, sequence : 0 .. SequenceModulus - 1,
                    skew : Skews \cup {Unset}, updating : BOOLEAN]
    BY <1>0 DEF TypeOK
  <2>5. count \in Nat /\ device.boot \in Nat \ {0}
        /\ device.skew \in Skews \cup {Unset} /\ device.updating \in BOOLEAN
    BY <1>0, Known
  <2> HIDE DEF count, sequence
  <2>6. device' = [boot |-> device.boot, count |-> count, sequence |-> sequence,
                   skew |-> device.skew, updating |-> device.updating]
    BY <2>3, <2>4
  <2>7. /\ device'.boot = device.boot /\ device'.count = count
        /\ device'.sequence = sequence /\ device'.skew = device.skew
        /\ device' \in [boot : Nat \ {0}, count : Nat, sequence : 0 .. SequenceModulus - 1,
                        skew : Skews \cup {Unset}, updating : BOOLEAN]
    BY <2>2, <2>5, <2>6
  <2> QED BY <2>7 DEF count, sequence
<1>3. /\ s.boot = device'.boot /\ s.count = device'.count /\ s.sequence = device'.sequence
      /\ s \in Samples
  <2>1. device'.skew = Unset \/ now' + device'.skew \in Int
    <3>1. now \in Nat /\ device.skew \in Skews \cup {Unset}
      BY <1>0, Known
    <3>2. now' \in Int
      BY <1>1, <3>1
    <3>3. device'.skew = Unset \/ device'.skew \in Int
      BY <1>2, <3>1, StatusPageAssumption
    <3> QED BY <3>2, <3>3
  <2>2. device'.boot \in Nat \ {0} /\ device'.count \in Nat
        /\ device'.sequence \in 0 .. SequenceModulus - 1
    BY <1>2
  <2>3. s = [boot |-> device'.boot, count |-> device'.count, sequence |-> device'.sequence,
             time |-> IF device'.skew = Unset THEN Unset ELSE now' + device'.skew]
    BY DEF Sample
  <2> QED BY <2>1, <2>2, <2>3 DEF Samples
<1> HIDE DEF s
<1>4. /\ MaxTime \in Nat /\ now' \in Nat /\ now' <= MaxTime /\ device'.count <= now'
      /\ device.count \in Nat /\ device.count < MaxTime /\ device'.count <= MaxTime
  <2>1. now \in Nat /\ device.count \in Nat
    BY <1>0, Known
  <2>2. MaxTime \in Nat
    BY StatusPageAssumption
  <2>3. device.count <= now
    BY <1>0 DEF ShortRuns
  <2> QED BY <1>1, <1>2, <2>1, <2>2, <2>3
<1>5. link = "up" => \A i \in 1 .. Len(wire) : Precedes(wire[i], device') /\ UpTo(wire[i], device')
  <2>1. ASSUME link = "up", NEW i \in 1 .. Len(wire)
        PROVE  Precedes(wire[i], device') /\ UpTo(wire[i], device')
    <3>1. UpTo(wire[i], device) /\ wire[i].count \in Nat /\ wire[i].sequence \in 0 .. SequenceModulus - 1
      BY <1>0, <2>1, Known DEF WireInOrder
    <3> QED BY <1>2, <1>4, <3>1, NextIsAfter
  <2> QED BY <2>1
<1>6. chart # <<>> /\ ~tracker.disconnected /\ link = "up" =>
        Precedes(Drawn, device') /\ UpTo(Drawn, device')
  <2>1. ASSUME chart # <<>>, ~tracker.disconnected, link = "up"
        PROVE  Precedes(Drawn, device') /\ UpTo(Drawn, device')
    <3>1. UpTo(Drawn, device)
      BY <1>0, <2>1 DEF TrackerInOrder
    <3>2. Drawn.count \in Nat /\ Drawn.sequence \in 0 .. SequenceModulus - 1
      BY <1>0, <2>1, DrawnIs
    <3> QED BY <1>2, <1>4, <3>1, <3>2, NextIsAfter
  <2> QED BY <2>1
<1>7. Drawn' = Drawn /\ Sound(chart)' /\ TrackerKnowsLast'
  BY <1>0, <1>1 DEF Drawn, Sound, TrackerKnowsLast
<1>8. CASE UNCHANGED wire
  <2>1. TypeOK'
    BY <1>0, <1>1, <1>2, <1>4, <1>8 DEF TypeOK
  <2>2. ShortRuns'
    BY <1>0, <1>4, <1>8 DEF ShortRuns
  <2>3. WireInOrder'
    BY <1>0, <1>1, <1>5, <1>8 DEF WireInOrder
  <2>4. TrackerInOrder'
    BY <1>0, <1>1, <1>6, <1>7, <1>8 DEF TrackerInOrder
  <2> QED BY <1>7, <2>1, <2>2, <2>3, <2>4 DEF IInv
<1>9. CASE link = "up" /\ wire' = Append(wire, s)
  <2>1. /\ wire \in Seq(Samples) /\ wire' \in Seq(Samples) /\ Len(wire) \in Nat
        /\ Len(wire') = Len(wire) + 1 /\ wire'[Len(wire) + 1] = s
        /\ \A i \in 1 .. Len(wire) : wire'[i] = wire[i]
    BY <1>0, <1>3, <1>9, Known, AppendIs
  <2>2. TypeOK'
    BY <1>0, <1>1, <1>2, <1>4, <2>1 DEF TypeOK, Samples
  <2>3. ASSUME NEW i \in 1 .. Len(wire')
        PROVE  \/ i = Len(wire) + 1 /\ wire'[i] = s
               \/ i \in 1 .. Len(wire) /\ wire'[i] = wire[i]
    BY <2>1
  <2>4. ShortRuns'
    <3>1. \A i \in 1 .. Len(wire') : wire'[i].count <= MaxTime
      BY <1>0, <1>3, <1>4, <2>3 DEF ShortRuns
    <3> QED BY <1>4, <3>1 DEF ShortRuns
  <2>5. \A a : (Precedes(a, device') <=> Precedes(a, s)) /\ (UpTo(a, device') <=> UpTo(a, s))
    BY <1>3 DEF Precedes, UpTo
  <2>6. UpTo(s, device')
    <3>1. device'.count - s.count = 0 /\ s.sequence \in 0 .. SequenceModulus - 1
          /\ s.count <= device'.count
      BY <1>2, <1>3
    <3>2. After(s.sequence, 0) = s.sequence
      BY <3>1, StatusPageAssumption, NumbersAdd
    <3> QED BY <1>3, <3>1, <3>2 DEF UpTo
  <2>7. WireInOrder'
    <3>1. ASSUME NEW i \in 1 .. Len(wire'), NEW j \in 1 .. Len(wire'), i < j
          PROVE  Precedes(wire'[i], wire'[j])
      <4>1. i \in 1 .. Len(wire) /\ wire'[i] = wire[i]
        BY <2>1, <3>1
      <4>2. CASE j = Len(wire) + 1
        BY <1>5, <1>9, <2>1, <2>5, <4>1, <4>2
      <4>3. CASE j \in 1 .. Len(wire)
        BY <1>0, <2>1, <3>1, <4>1, <4>3 DEF WireInOrder
      <4> QED BY <2>3, <4>2, <4>3
    <3>2. ASSUME NEW i \in 1 .. Len(wire')
          PROVE  UpTo(wire'[i], device')
      BY <1>5, <1>9, <2>3, <2>6
    <3> QED BY <1>1, <1>9, <3>1, <3>2 DEF WireInOrder
  <2>8. TrackerInOrder'
    <3>1. ASSUME chart # <<>>, ~tracker.disconnected, NEW i \in 1 .. Len(wire')
          PROVE  Precedes(Drawn, wire'[i])
      BY <1>0, <1>6, <1>9, <2>3, <2>5, <3>1 DEF TrackerInOrder
    <3> QED BY <1>1, <1>6, <1>7, <1>9, <3>1 DEF TrackerInOrder
  <2> QED BY <1>7, <2>2, <2>4, <2>7, <2>8 DEF IInv
<1> QED BY <1>1, <1>8, <1>9

(* Nothing arrives, nothing is drawn, and no link comes up: a second passes, *)
(* the clock is set, an update starts, the device restarts, the link breaks. *)
LEMMA ElsewhereKeeps ==
  ASSUME IInv, UNCHANGED <<wire, tracker, chart>>, TypeOK',
         device'.count <= now', now' <= MaxTime,
         link' = "down" <=> link = "down",
         link' = "up" => /\ link = "up"
                         /\ device'.boot = device.boot /\ device'.count = device.count
                         /\ device'.sequence = device.sequence
  PROVE  IInv'
<1>0. ShortRuns /\ WireInOrder /\ TrackerKnowsLast /\ TrackerInOrder /\ Sound(chart)
  BY DEF IInv
<1>1. ShortRuns'
  BY <1>0 DEF ShortRuns
<1>2. Drawn' = Drawn /\ Sound(chart)' /\ TrackerKnowsLast'
  BY <1>0 DEF Drawn, Sound, TrackerKnowsLast
<1>3. link' = "up" => \A a : UpTo(a, device)' <=> UpTo(a, device)
  BY DEF UpTo
<1>4. WireInOrder'
  <2>1. link' = "up" => \A i \in 1 .. Len(wire) : UpTo(wire[i], device')
    BY <1>0 DEF WireInOrder, UpTo
  <2> QED BY <1>0, <2>1 DEF WireInOrder
<1>5. TrackerInOrder'
  <2>1. ASSUME chart # <<>>, ~tracker.disconnected, link' = "up"
        PROVE  UpTo(Drawn, device')
    <3>1. UpTo(Drawn, device)
      BY <1>0, <2>1 DEF TrackerInOrder
    <3> QED BY <2>1, <3>1 DEF UpTo
  <2> QED BY <1>0, <1>2, <2>1 DEF TrackerInOrder
<1> QED BY <1>1, <1>2, <1>4, <1>5 DEF IInv

LEMMA PauseKeeps ==
  ASSUME IInv, Pause
  PROVE  IInv'
<1>0. TypeOK /\ ShortRuns
  BY DEF IInv
<1>1. now < MaxTime /\ now' = now + 1 /\ UNCHANGED <<device, link, wire, tracker, chart>>
  BY DEF Pause
<1>2. now \in Nat /\ device.count \in Nat /\ MaxTime \in Nat
  BY <1>0, Known, StatusPageAssumption
<1>3. device.count <= now
  BY <1>0 DEF ShortRuns
<1>4. device'.count <= now' /\ now' <= MaxTime /\ now' \in Nat
  BY <1>1, <1>2, <1>3
<1>5. TypeOK'
  BY <1>0, <1>1, <1>4 DEF TypeOK
<1> QED BY <1>1, <1>4, <1>5, ElsewhereKeeps

LEMMA UpdateKeeps ==
  ASSUME IInv, UpdateStartsOrEnds
  PROVE  IInv'
<1>0. TypeOK /\ ShortRuns
  BY DEF IInv
<1>1. device' = [device EXCEPT !.updating = ~@] /\ UNCHANGED <<now, link, wire, tracker, chart>>
  BY DEF UpdateStartsOrEnds
<1>2. /\ device' \in [boot : Nat \ {0}, count : Nat, sequence : 0 .. SequenceModulus - 1,
                      skew : Skews \cup {Unset}, updating : BOOLEAN]
      /\ device'.boot = device.boot /\ device'.count = device.count
      /\ device'.sequence = device.sequence
  BY <1>0, <1>1 DEF TypeOK
<1>3. TypeOK'
  BY <1>0, <1>1, <1>2 DEF TypeOK
<1>4. device'.count <= now' /\ now' <= MaxTime
  BY <1>0, <1>1, <1>2 DEF ShortRuns
<1> QED BY <1>1, <1>2, <1>3, <1>4, ElsewhereKeeps

LEMMA SynchroniseKeeps ==
  ASSUME IInv, SynchroniseClock
  PROVE  IInv'
<1>0. TypeOK /\ ShortRuns
  BY DEF IInv
<1>1. UNCHANGED <<now, link, wire, tracker, chart>>
  BY DEF SynchroniseClock
<1>2. PICK skew \in Skews : device' = [device EXCEPT !.skew = skew]
  BY DEF SynchroniseClock
<1>3. /\ device' \in [boot : Nat \ {0}, count : Nat, sequence : 0 .. SequenceModulus - 1,
                      skew : Skews \cup {Unset}, updating : BOOLEAN]
      /\ device'.boot = device.boot /\ device'.count = device.count
      /\ device'.sequence = device.sequence
  BY <1>0, <1>2 DEF TypeOK
<1>4. TypeOK'
  BY <1>0, <1>1, <1>3 DEF TypeOK
<1>5. device'.count <= now' /\ now' <= MaxTime
  BY <1>0, <1>1, <1>3 DEF ShortRuns
<1> QED BY <1>1, <1>3, <1>4, <1>5, ElsewhereKeeps

(* The link is no longer up, so nothing is said of the new run. *)
LEMMA RestartKeeps ==
  ASSUME IInv, Restart
  PROVE  IInv'
<1>0. TypeOK /\ ShortRuns
  BY DEF IInv
<1>1. /\ device' = FreshDevice(device.boot + 1) /\ UNCHANGED <<now, wire, tracker, chart>>
      /\ link' = IF link = "up" THEN "dead" ELSE link
  BY DEF Restart
<1>2. device.boot \in Nat \ {0} /\ now \in Nat
  BY <1>0, Known
<1>3. 0 \in 0 .. SequenceModulus - 1
  BY StatusPageAssumption
<1>4. /\ device' \in [boot : Nat \ {0}, count : Nat, sequence : 0 .. SequenceModulus - 1,
                      skew : Skews \cup {Unset}, updating : BOOLEAN]
      /\ device'.count = 0
  <2>1. device.boot + 1 \in Nat \ {0}
    BY <1>2
  <2>2. device' = [boot |-> device.boot + 1, count |-> 0, sequence |-> 0, skew |-> Unset,
                   updating |-> FALSE]
    BY <1>1 DEF FreshDevice
  <2> QED BY <1>3, <2>1, <2>2
<1>5. link' # "up" /\ (link' = "down" <=> link = "down") /\ link' \in {"up", "dead", "down"}
  BY <1>0, <1>1 DEF TypeOK
<1>6. TypeOK'
  BY <1>0, <1>1, <1>4, <1>5 DEF TypeOK
<1>7. device'.count <= now' /\ now' <= MaxTime
  BY <1>0, <1>1, <1>2, <1>4 DEF ShortRuns
<1> QED BY <1>1, <1>5, <1>6, <1>7, ElsewhereKeeps

LEMMA BreakKeeps ==
  ASSUME IInv, Break
  PROVE  IInv'
<1>0. TypeOK /\ ShortRuns
  BY DEF IInv
<1>1. link = "up" /\ link' = "dead" /\ UNCHANGED <<now, device, wire, tracker, chart>>
  BY DEF Break
<1>2. TypeOK' /\ device'.count <= now' /\ now' <= MaxTime
  BY <1>0, <1>1 DEF TypeOK, ShortRuns
<1> QED BY <1>1, <1>2, ElsewhereKeeps

LEMMA StutterKeeps ==
  ASSUME IInv, UNCHANGED vars
  PROVE  IInv'
<1>0. TypeOK /\ ShortRuns
  BY DEF IInv
<1>1. UNCHANGED <<now, device, link, wire, tracker, chart>>
  BY DEF vars
<1>2. TypeOK' /\ device'.count <= now' /\ now' <= MaxTime
  BY <1>0, <1>1 DEF TypeOK, ShortRuns
<1> QED BY <1>1, <1>2, ElsewhereKeeps

(* What was on the way is lost with the connection, and the tracker knows. *)
LEMMA CloseKeeps ==
  ASSUME IInv, Close
  PROVE  IInv'
<1>0. TypeOK /\ ShortRuns /\ TrackerKnowsLast /\ Sound(chart)
  BY DEF IInv
<1>1. /\ link' = "down" /\ wire' = <<>> /\ UNCHANGED <<now, device, chart>>
      /\ tracker' = [tracker EXCEPT !.disconnected = TRUE]
  BY DEF Close
<1>2. /\ tracker' \in [lastSequence : (0 .. SequenceModulus - 1) \cup {Unset},
                       lastTimestamp : Int \cup {Unset}, disconnected : BOOLEAN]
      /\ tracker'.disconnected
      /\ tracker'.lastSequence = tracker.lastSequence
      /\ tracker'.lastTimestamp = tracker.lastTimestamp
  BY <1>0, <1>1 DEF TypeOK
<1>3. TypeOK'
  <2>1. wire' \in Seq([boot : Nat \ {0}, count : Nat, sequence : 0 .. SequenceModulus - 1,
                      time : Int \cup {Unset}])
    BY <1>1
  <2> QED BY <1>0, <1>1, <1>2, <2>1 DEF TypeOK
<1>4. ShortRuns' /\ TrackerKnowsLast' /\ Sound(chart)'
  BY <1>0, <1>1, <1>2 DEF ShortRuns, TrackerKnowsLast, Sound
<1>5. WireInOrder' /\ TrackerInOrder'
  BY <1>1, <1>2 DEF WireInOrder, TrackerInOrder
<1> QED BY <1>3, <1>4, <1>5 DEF IInv

(* A link comes up with nothing on the way, after a disconnection. *)
LEMMA ConnectKeeps ==
  ASSUME IInv, connect
  PROVE  IInv'
<1>0. TypeOK /\ ShortRuns /\ WireInOrder /\ TrackerKnowsLast /\ TrackerInOrder /\ Sound(chart)
  BY DEF IInv
<1>1. link = "down" /\ link' = "up" /\ UNCHANGED <<now, device, wire, tracker, chart>>
  BY DEF connect
<1>2. wire = <<>> /\ (chart = <<>> \/ tracker.disconnected)
  BY <1>0, <1>1 DEF WireInOrder, TrackerInOrder
<1>3. TypeOK' /\ ShortRuns' /\ TrackerKnowsLast' /\ Sound(chart)'
  BY <1>0, <1>1 DEF TypeOK, ShortRuns, TrackerKnowsLast, Sound
<1>4. WireInOrder' /\ TrackerInOrder'
  BY <1>1, <1>2 DEF WireInOrder, TrackerInOrder
<1> QED BY <1>3, <1>4 DEF IInv

LEMMA ReloadKeeps ==
  ASSUME IInv, Reload
  PROVE  IInv'
<1>0. TypeOK /\ ShortRuns
  BY DEF IInv
<1>1. link' = "down" /\ wire' = <<>> /\ tracker' = FreshTracker /\ chart' = <<>>
      /\ UNCHANGED <<now, device>>
  BY DEF Reload
<1>2. /\ tracker'.lastSequence = Unset /\ tracker'.lastTimestamp = Unset
      /\ tracker' \in [lastSequence : (0 .. SequenceModulus - 1) \cup {Unset},
                       lastTimestamp : Int \cup {Unset}, disconnected : BOOLEAN]
  BY <1>1 DEF FreshTracker
<1>3. TypeOK'
  <2>1. wire' \in Seq([boot : Nat \ {0}, count : Nat, sequence : 0 .. SequenceModulus - 1,
                      time : Int \cup {Unset}])
        /\ chart' \in Seq([x : Int, boot : Nat, count : Nat]) /\ Len(chart') <= MaxPoints
    BY <1>1, StatusPageAssumption
  <2> QED BY <1>0, <1>1, <1>2, <2>1 DEF TypeOK
<1>4. ShortRuns' /\ TrackerKnowsLast' /\ Sound(chart)'
  BY <1>0, <1>1, <1>2 DEF ShortRuns, TrackerKnowsLast, Sound
<1>5. WireInOrder' /\ TrackerInOrder'
  BY <1>1 DEF WireInOrder, TrackerInOrder
<1> QED BY <1>3, <1>4, <1>5 DEF IInv

-----------------------------------------------------------------------------
(* Drawing a sample. *)

(* The chart before the point of sample s is added. *)
Before(s, timestamp) ==
  IF Backwards(timestamp) THEN <<>>
  ELSE IF Gap(s, timestamp)
  THEN WithPoint(chart, NullPoint(tracker.lastTimestamp + timestamp))
  ELSE chart

(* A sample that follows the last one by its number is the next of its run. *)
LEMMA NextByNumber ==
  ASSUME IInv, chart # <<>>, ~tracker.disconnected, wire # <<>>,
         wire[1].sequence = (tracker.lastSequence + 1) % SequenceModulus
  PROVE  wire[1].boot = Last(chart).boot /\ wire[1].count = Last(chart).count + 1
<1> DEFINE n == wire[1].count - Drawn.count
<1>0. TypeOK /\ ShortRuns /\ TrackerKnowsLast /\ TrackerInOrder
  BY DEF IInv
<1>1. 1 \in 1 .. Len(wire)
  <2>1. wire \in Seq(Samples)
    BY <1>0, Known
  <2> QED BY <2>1
<1>2. Precedes(Drawn, wire[1]) /\ wire[1].count <= MaxTime
  BY <1>0, <1>1 DEF TrackerInOrder, ShortRuns
<1>3. /\ Drawn.boot = wire[1].boot /\ Drawn.count < wire[1].count
      /\ wire[1].sequence = After(Drawn.sequence, n)
  BY <1>2 DEF Precedes, UpTo
<1>4. /\ Drawn.boot = Last(chart).boot /\ Drawn.count = Last(chart).count
      /\ Drawn.sequence = tracker.lastSequence /\ Drawn.count \in Nat
      /\ Drawn.sequence \in 0 .. SequenceModulus - 1
  BY <1>0, DrawnIs
<1>5. wire[1].count \in Nat
  BY <1>0, <1>1, Known
<1>6. MaxTime \in Nat /\ SequenceModulus \in Nat /\ MaxTime < SequenceModulus
  BY StatusPageAssumption
<1>7. n \in Nat \ {0} /\ n < SequenceModulus
  <2>1. Drawn.count \in Nat /\ Drawn.count < wire[1].count /\ wire[1].count <= MaxTime
    BY <1>2, <1>3, <1>4
  <2> QED BY <1>5, <1>6, <2>1
<1>8. wire[1].count = Drawn.count + n
  BY <1>4, <1>5
<1> HIDE DEF n
<1>9. After(Drawn.sequence, n) = After(Drawn.sequence, 1)
  BY <1>3, <1>4, NextNumber
<1>10. n = 1
  BY <1>4, <1>7, <1>9, NumbersDiffer
<1> QED BY <1>3, <1>4, <1>8, <1>10

LEMMA BeforeIsSound ==
  ASSUME IInv, wire # <<>>, NEW timestamp \in Int, ~Duplicate(wire[1])
  PROVE  /\ Before(wire[1], timestamp) \in Seq(Points)
         /\ Len(Before(wire[1], timestamp)) <= MaxPoints
         /\ Sound(Before(wire[1], timestamp))
         /\ Before(wire[1], timestamp) # <<>> =>
              Neighbours(Last(Before(wire[1], timestamp)), Point(2 * timestamp, wire[1]))
<1> DEFINE s == wire[1]
           before == Before(s, timestamp)
           p == Point(2 * timestamp, s)
<1>0. TypeOK /\ TrackerKnowsLast /\ Sound(chart)
  BY DEF IInv
<1>1. chart \in Seq(Points) /\ Len(chart) <= MaxPoints
  BY <1>0, Known
<1>2. p.x = 2 * timestamp /\ p.boot = s.boot /\ p.count = s.count
  BY DEF Point
<1>3. CASE Backwards(timestamp)
  <2>1. before = <<>>
    BY <1>3 DEF Before
  <2>2. MaxPoints \in Nat
    BY StatusPageAssumption
  <2> HIDE DEF before
  <2>3. before \in Seq(Points) /\ Len(before) <= MaxPoints /\ Sound(before)
    BY <2>1, <2>2 DEF Sound
  <2> QED BY <2>1, <2>3 DEF before
<1>4. CASE ~Backwards(timestamp) /\ Gap(s, timestamp)
  <2> DEFINE null == NullPoint(tracker.lastTimestamp + timestamp)
  <2>1. before = WithPoint(chart, null)
    BY <1>4 DEF Before
  <2>2. tracker.lastTimestamp # Unset /\ chart # <<>> /\ tracker.lastTimestamp \in Int
    BY <1>0, <1>4, Known DEF Gap, TrackerKnowsLast
  <2>3. tracker.lastTimestamp < timestamp /\ Last(chart).x = 2 * tracker.lastTimestamp
    BY <1>0, <1>4, <2>2 DEF Backwards, TrackerKnowsLast
  <2>4. null.x = tracker.lastTimestamp + timestamp /\ IsNull(null) /\ null \in Points
    BY <2>2 DEF NullPoint, IsNull, Points
  <2> HIDE DEF null, before, p
  <2>5. Last(chart).x < null.x /\ null.x < p.x
    BY <1>2, <2>2, <2>3, <2>4
  <2>6. Neighbours(Last(chart), null) /\ Neighbours(null, p)
    BY <2>4, <2>5 DEF Neighbours
  <2>7. before \in Seq(Points) /\ Len(before) \in 1 .. MaxPoints /\ Last(before) = null
    BY <1>1, <2>1, <2>4, WithPointIs
  <2>8. Sound(before)
    BY <1>0, <1>1, <2>1, <2>4, <2>6, AddKeepsSound
  <2>9. Len(before) <= MaxPoints
    BY <2>7, StatusPageAssumption
  <2> QED BY <2>6, <2>7, <2>8, <2>9 DEF before, p
<1>5. CASE ~Backwards(timestamp) /\ ~Gap(s, timestamp)
  <2>1. before = chart
    BY <1>5 DEF Before
  <2>2. ASSUME chart # <<>>
        PROVE  Neighbours(Last(chart), p)
    <3>1. /\ tracker.lastTimestamp # Unset /\ tracker.lastTimestamp \in Int
          /\ tracker.lastSequence # Unset /\ Last(chart).x = 2 * tracker.lastTimestamp
      BY <1>0, <2>2, Known DEF TrackerKnowsLast
    <3>2. tracker.lastTimestamp < timestamp
      BY <1>5, <3>1 DEF Backwards
    <3>3. /\ ~tracker.disconnected /\ ~Later(tracker.lastTimestamp, timestamp)
          /\ s.sequence = (tracker.lastSequence + 1) % SequenceModulus
      BY <1>5, <3>1 DEF Gap
    <3>4. timestamp - tracker.lastTimestamp <= GapSeconds /\ GapSeconds \in Nat
      BY <3>1, <3>3, StatusPageAssumption DEF Later
    <3>5. s.boot = Last(chart).boot /\ s.count = Last(chart).count + 1
      BY <2>2, <3>3, NextByNumber
    <3> HIDE DEF p, s
    <3>6. Last(chart).x < p.x /\ p.x - Last(chart).x <= 2 * GapSeconds
      BY <1>2, <3>1, <3>2, <3>4
    <3> QED BY <1>2, <3>5, <3>6 DEF Neighbours
  <2> HIDE DEF before, p
  <2> QED BY <1>0, <1>1, <2>1, <2>2 DEF before, p
<1> QED BY <1>3, <1>4, <1>5

LEMMA ReceiveKeeps ==
  ASSUME IInv, Receive
  PROVE  IInv'
<1> DEFINE s == wire[1]
           timestamp == Timestamp(s)
<1>0. TypeOK /\ ShortRuns /\ WireInOrder /\ TrackerKnowsLast /\ TrackerInOrder /\ Sound(chart)
  BY DEF IInv
<1>1. /\ wire # <<>> /\ link # "down" /\ wire' = Tail(wire)
      /\ updateTemperatureChart(Head(wire)) /\ UNCHANGED <<now, device, link>>
  BY DEF Receive
<1>2. /\ Head(wire) = s /\ s \in Samples /\ wire' \in Seq(Samples)
      /\ Len(wire) \in Nat \ {0} /\ Len(wire') = Len(wire) - 1
      /\ \A i \in 1 .. Len(wire) - 1 : wire'[i] = wire[i + 1]
  <2>1. wire \in Seq(Samples)
    BY <1>0, Known
  <2> QED BY <1>1, <2>1, TailIs
<1>3. ASSUME NEW i \in 1 .. Len(wire')
      PROVE  /\ i + 1 \in 1 .. Len(wire) /\ i \in 1 .. Len(wire) - 1
             /\ wire'[i] = wire[i + 1]
             /\ Precedes(s, wire'[i])
  <2>1. /\ i + 1 \in 1 .. Len(wire) /\ i \in 1 .. Len(wire) - 1 /\ 1 < i + 1
        /\ 1 \in 1 .. Len(wire)
    BY <1>2
  <2>2. wire'[i] = wire[i + 1]
    BY <1>2, <2>1
  <2> QED BY <1>0, <2>1, <2>2 DEF WireInOrder
<1>4. /\ s.boot \in Nat \ {0} /\ s.count \in Nat
      /\ s.sequence \in 0 .. SequenceModulus - 1 /\ s.time \in Int \cup {Unset}
  BY <1>2 DEF Samples
<1>5. timestamp \in Int
  BY <1>0, <1>4, Known DEF Timestamp
<1>6. ShortRuns'
  BY <1>0, <1>1, <1>3 DEF ShortRuns
<1>7. WireInOrder'
  <2>1. ASSUME NEW i \in 1 .. Len(wire'), NEW j \in 1 .. Len(wire'), i < j
        PROVE  Precedes(wire'[i], wire'[j])
    <3>1. i + 1 < j + 1
      BY <2>1
    <3> QED BY <1>0, <1>3, <3>1 DEF WireInOrder
  <2>2. ASSUME link = "up", NEW i \in 1 .. Len(wire')
        PROVE  UpTo(wire'[i], device)
    BY <1>0, <1>3, <2>2 DEF WireInOrder
  <2> QED BY <1>1, <2>1, <2>2 DEF WireInOrder
<1> HIDE DEF timestamp
<1>8. CASE Duplicate(s)
  <2>1. UNCHANGED <<tracker, chart>>
    BY <1>1, <1>2, <1>8 DEF updateTemperatureChart
  <2>2. TypeOK' /\ TrackerKnowsLast' /\ Sound(chart)' /\ Drawn' = Drawn
    BY <1>0, <1>1, <1>2, <2>1 DEF TypeOK, Samples, TrackerKnowsLast, Sound, Drawn
  <2>3. ASSUME chart # <<>>, ~tracker.disconnected, NEW i \in 1 .. Len(wire')
        PROVE  Precedes(Drawn, wire'[i])
    BY <1>0, <1>3, <2>3 DEF TrackerInOrder
  <2>4. TrackerInOrder'
    BY <1>0, <1>1, <2>1, <2>2, <2>3 DEF TrackerInOrder
  <2> QED BY <1>6, <1>7, <2>2, <2>4 DEF IInv
<1>9. CASE ~Duplicate(s)
  <2> DEFINE before == Before(s, timestamp)
             p == Point(2 * timestamp, s)
  <2>1. /\ tracker' = [lastSequence |-> s.sequence, lastTimestamp |-> timestamp,
                       disconnected |-> FALSE]
        /\ chart' = WithPoint(before, p)
    BY <1>1, <1>2, <1>9 DEF updateTemperatureChart, Before, timestamp
  <2>2. /\ tracker'.lastSequence = s.sequence /\ tracker'.lastTimestamp = timestamp
        /\ ~tracker'.disconnected
        /\ tracker' \in [lastSequence : (0 .. SequenceModulus - 1) \cup {Unset},
                         lastTimestamp : Int \cup {Unset}, disconnected : BOOLEAN]
    BY <1>4, <1>5, <2>1
  <2>3. p \in Points /\ p.x = 2 * timestamp /\ p.boot = s.boot /\ p.count = s.count
    BY <1>4, <1>5 DEF Point, Points
  <2>4. /\ before \in Seq(Points) /\ Len(before) <= MaxPoints /\ Sound(before)
        /\ before # <<>> => Neighbours(Last(before), p)
    BY <1>1, <1>5, <1>9, BeforeIsSound
  <2> HIDE DEF before, p
  <2>5. /\ chart' \in Seq(Points) /\ chart' # <<>> /\ Last(chart') = p
        /\ Len(chart') <= MaxPoints
    <3>1. Len(chart') \in 1 .. MaxPoints
      BY <2>1, <2>3, <2>4, WithPointIs
    <3>2. Len(chart') <= MaxPoints
      BY <3>1, StatusPageAssumption
    <3> QED BY <2>1, <2>3, <2>4, <3>2, WithPointIs
  <2>6. Sound(chart')
    BY <2>1, <2>3, <2>4, AddKeepsSound
  <2>7. TypeOK'
    BY <1>0, <1>1, <1>2, <2>2, <2>5 DEF TypeOK, Samples, Points
  <2>8. TrackerKnowsLast'
    <3>1. timestamp # Unset /\ s.sequence # Unset
      BY <1>4, <1>5, StatusPageAssumption
    <3> QED BY <2>2, <2>3, <2>5, <3>1 DEF TrackerKnowsLast
  <2>9. Drawn'.boot = s.boot /\ Drawn'.count = s.count /\ Drawn'.sequence = s.sequence
    BY <2>2, <2>3, <2>5 DEF Drawn
  <2>10. TrackerInOrder'
    <3>1. ASSUME NEW i \in 1 .. Len(wire')
          PROVE  Precedes(Drawn', wire'[i])
      BY <1>3, <2>9 DEF Precedes, UpTo
    <3>2. ASSUME link = "up"
          PROVE  UpTo(Drawn', device)
      <4>1. UpTo(s, device)
        BY <1>0, <1>2, <3>2 DEF WireInOrder
      <4> QED BY <2>9, <4>1 DEF UpTo
    <3> QED BY <1>1, <3>1, <3>2 DEF TrackerInOrder
  <2>11. Sound(chart)'
    BY <2>6 DEF Sound
  <2> QED BY <1>6, <1>7, <2>7, <2>8, <2>10, <2>11 DEF IInv
<1> QED BY <1>8, <1>9

-----------------------------------------------------------------------------
(* The chart stays sound whatever is lost, restarted, stepped or reloaded. *)
LEMMA NextIInv == IInv /\ [Next]_vars => IInv'
<1> SUFFICES ASSUME IInv, [Next]_vars PROVE IInv'
  OBVIOUS
<1>1. CASE Device
  BY <1>1, PublishKeeps, PauseKeeps, UpdateKeeps, SynchroniseKeeps, RestartKeeps DEF Device
<1>2. CASE Browser
  BY <1>2, ReceiveKeeps, BreakKeeps, CloseKeeps, ConnectKeeps, ReloadKeeps DEF Browser
<1>3. CASE UNCHANGED vars
  BY <1>3, StutterKeeps
<1> QED BY <1>1, <1>2, <1>3 DEF Next

LEMMA SoundSays ==
  ASSUME TypeOK, Sound(chart)
  PROVE  NoLineAcrossAGap /\ TimeGoesForward
<1>1. ASSUME NEW i \in 1 .. Len(chart) - 1
      PROVE  /\ chart[i].x < chart[i + 1].x
             /\ Joined(i) => /\ chart[i + 1].boot = chart[i].boot
                             /\ chart[i + 1].count = chart[i].count + 1
                             /\ chart[i + 1].x - chart[i].x <= 2 * GapSeconds
  BY DEF Sound, Neighbours, Joined
<1> QED BY <1>1 DEF NoLineAcrossAGap, TimeGoesForward

LEMMA SpecIInv == Spec => []IInv
  BY InitIInv, NextIInv, PTL DEF Spec

(* Type correctness: the tracker holds numbers or nothing, and the chart   *)
(* never more than its maximum of points.                                  *)
THEOREM TypeCorrect == Spec => []TypeOK
<1>1. IInv => TypeOK
  BY DEF IInv
<1> QED BY <1>1, SpecIInv, PTL

(* A line of the chart never hides a numbered sample, a disconnection, a   *)
(* restart or more than three seconds of chart time (createSampleTracker   *)
(* and updateTemperatureChart), whatever the modulus the numbers wrap at.  *)
THEOREM LinesAreHonest == Spec => []NoLineAcrossAGap
<1>1. IInv => NoLineAcrossAGap
  BY SoundSays DEF IInv
<1> QED BY <1>1, SpecIInv, PTL

(* The chart's times increase, the null points of gaps and every clock     *)
(* step included.                                                          *)
THEOREM ChartIsSorted == Spec => []TimeGoesForward
<1>1. IInv => TimeGoesForward
  BY SoundSays DEF IInv
<1> QED BY <1>1, SpecIInv, PTL
=============================================================================
