----------------------------- MODULE StatusPage -----------------------------
(***************************************************************************)
(* The status feed from end to end, for one browser: the publisher numbers *)
(* and stamps a sample every second (hot_tub_callbacks.c), the WebSocket   *)
(* loses some of them, and the page draws the rest (chart_manager.js,      *)
(* app.js).  Samples are lost when the client is busy, the link breaks or  *)
(* memory is short; the device restarts and counts from one again; its     *)
(* clock is unset at first and is stepped by NTP; an update pauses the     *)
(* feed.  A line between two points claims that nothing was lost between   *)
(* them.                                                                   *)
(***************************************************************************)
EXTENDS SequencesExt

CONSTANTS
  SequenceModulus, \* sample_sequence wraps there, 2^32
  GapSeconds,      \* longer intervals are gaps, 3
  MaxPoints,       \* of the chart, 100
  Skews,           \* what NTP may make of the device's clock, against the browser's
  Unset,           \* a clock before its first synchronisation; a sequence not seen yet
  FirstSequences,  \* where a device that has been running for long may stand
  MaxTime,         \* bound of the exploration: seconds; below SequenceModulus
  MaxBoots,        \* bound of the exploration: starts of the device
  MaxInFlight      \* bound of the exploration: samples on the way

ASSUME StatusPageAssumption ==
  /\ SequenceModulus \in Nat \ {0, 1}
  /\ GapSeconds \in Nat
  /\ MaxPoints \in Nat \ {0}
  /\ Skews \subseteq Int
  /\ Unset \notin Int
  /\ FirstSequences \subseteq 0 .. SequenceModulus - 1
  /\ MaxTime \in 0 .. SequenceModulus - 1
  /\ MaxBoots \in Nat \ {0}
  /\ MaxInFlight \in Nat \ {0}

VARIABLES
  now,      \* the browser's clock
  device,   \* boot, samples counted since, sample_sequence, clock, update in progress
  link,     \* "up", "dead" (not yet noticed by the browser), "down"
  wire,     \* samples on the way to the browser
  tracker,  \* createSampleTracker: lastSequence, lastTimestamp, disconnected
  chart     \* the points of the chart, newest last

vars == <<now, device, link, wire, tracker, chart>>

FreshDevice(boot) ==
  [boot |-> boot, count |-> 0, sequence |-> 0, skew |-> Unset, updating |-> FALSE]
FreshTracker == [lastSequence |-> Unset, lastTimestamp |-> Unset, disconnected |-> FALSE]

Init ==
  /\ now = 0
  /\ \E first \in FirstSequences : device = [FreshDevice(1) EXCEPT !.sequence = first]
  /\ link = "down"
  /\ wire = <<>>
  /\ tracker = FreshTracker
  /\ chart = <<>>

-----------------------------------------------------------------------------
(* The device. *)

(* A sample; boot and count identify it, the browser sees the others. *)
Sample(d) == [boot |-> d.boot, count |-> d.count, sequence |-> d.sequence,
              time |-> IF d.skew = Unset THEN Unset ELSE now' + d.skew]

(* hottub_broadcast_status_callback, once a second: nothing during an      *)
(* update; once there is memory for it, a number is used up even if the    *)
(* sample cannot be prepared; and the broadcast passes over a client that  *)
(* is busy or gone.                                                        *)
Publish ==
  /\ now < MaxTime
  /\ ~device.updating
  /\ now' = now + 1
  /\ device' = [device EXCEPT !.count = @ + 1, !.sequence = (@ + 1) % SequenceModulus]
  /\ \/ /\ link = "up" /\ Len(wire) < MaxInFlight
        /\ wire' = Append(wire, Sample(device'))
     \/ UNCHANGED wire
  /\ UNCHANGED <<link, tracker, chart>>

(* A second without a publication and without a number: during an update,  *)
(* or when there is no memory to begin with.                               *)
Pause ==
  /\ now < MaxTime
  /\ now' = now + 1
  /\ UNCHANGED <<device, link, wire, tracker, chart>>

UpdateStartsOrEnds ==
  /\ device' = [device EXCEPT !.updating = ~@]
  /\ UNCHANGED <<now, link, wire, tracker, chart>>

SynchroniseClock ==
  /\ \E s \in Skews : device' = [device EXCEPT !.skew = s]
  /\ UNCHANGED <<now, link, wire, tracker, chart>>

(* What was sent before the restart may still arrive; the link is dead. *)
Restart ==
  /\ device.boot < MaxBoots
  /\ device' = FreshDevice(device.boot + 1)
  /\ link' = IF link = "up" THEN "dead" ELSE link
  /\ UNCHANGED <<now, wire, tracker, chart>>

-----------------------------------------------------------------------------
(* The browser. *)
Later(x, y) == x # Unset /\ y - x > GapSeconds

(* Mutant of Gap: a disconnection is not remembered. *)
GapBySequence(s, timestamp) ==
  /\ tracker.lastTimestamp # Unset
  /\ \/ tracker.lastSequence # Unset /\ s.sequence # (tracker.lastSequence + 1) % SequenceModulus
     \/ Later(tracker.lastTimestamp, timestamp)

(* createSampleTracker().accept, for a sample that is not a duplicate. *)
Gap(s, timestamp) ==
  /\ tracker.lastTimestamp # Unset
  /\ \/ tracker.disconnected
     \/ tracker.lastSequence # Unset /\ s.sequence # (tracker.lastSequence + 1) % SequenceModulus
     \/ Later(tracker.lastTimestamp, timestamp)

(* Mutant of Backwards: a time that stands still goes on the same line. *)
StrictlyBackwards(timestamp) ==
  tracker.lastTimestamp # Unset /\ timestamp < tracker.lastTimestamp

Backwards(timestamp) == tracker.lastTimestamp # Unset /\ timestamp <= tracker.lastTimestamp

Duplicate(s) == s.sequence = tracker.lastSequence /\ ~tracker.disconnected

(* The device's time once it is plausible, the browser's before that. *)
Timestamp(s) == IF s.time = Unset THEN now ELSE s.time

(* A point with a sample, or a null one that interrupts the line; x is     *)
(* doubled, for the midpoint of a gap.                                     *)
Point(x, s) == [x |-> x, boot |-> s.boot, count |-> s.count]
NullPoint(x) == [x |-> x, boot |-> 0, count |-> 0]
IsNull(p) == p.boot = 0

(* Mutant of WithPoint: a point too many stays. *)
WithPointTooMany(points, p) ==
  LET longer == Append(points, p)
  IN IF Len(longer) > MaxPoints + 1 THEN Tail(longer) ELSE longer

(* addPoint, which drops the oldest points. *)
WithPoint(points, p) ==
  LET longer == Append(points, p)
  IN IF Len(longer) > MaxPoints THEN Tail(longer) ELSE longer

(* updateTemperatureChart: a clock that went back starts the chart anew, a *)
(* gap puts a null point in the middle.                                    *)
updateTemperatureChart(s) ==
  LET timestamp == Timestamp(s)
      before == IF Backwards(timestamp) THEN <<>>
                ELSE IF Gap(s, timestamp)
                THEN WithPoint(chart, NullPoint(tracker.lastTimestamp + timestamp))
                ELSE chart
  IN IF Duplicate(s)
     THEN UNCHANGED <<tracker, chart>>
     ELSE /\ tracker' = [lastSequence |-> s.sequence, lastTimestamp |-> timestamp,
                         disconnected |-> FALSE]
          /\ chart' = WithPoint(before, Point(2 * timestamp, s))

Receive ==
  /\ wire # <<>>
  /\ link # "down"
  /\ wire' = Tail(wire)
  /\ updateTemperatureChart(Head(wire))
  /\ UNCHANGED <<now, device, link>>

(* The network loses the connection, which neither side notices yet. *)
Break ==
  /\ link = "up"
  /\ link' = "dead"
  /\ UNCHANGED <<now, device, wire, tracker, chart>>

(* The close event: of the server, of the browser, or of the stale timer.  *)
Close ==
  /\ link # "down"
  /\ link' = "down"
  /\ wire' = <<>>
  /\ tracker' = [tracker EXCEPT !.disconnected = TRUE]
  /\ UNCHANGED <<now, device, chart>>

connect ==
  /\ link = "down"
  /\ link' = "up"
  /\ UNCHANGED <<now, device, wire, tracker, chart>>

(* After an update the page is loaded anew. *)
Reload ==
  /\ link' = "down"
  /\ wire' = <<>>
  /\ tracker' = FreshTracker
  /\ chart' = <<>>
  /\ UNCHANGED <<now, device>>

Device == Publish \/ Pause \/ UpdateStartsOrEnds \/ SynchroniseClock \/ Restart
Browser == Receive \/ Break \/ Close \/ connect \/ Reload
Next == Device \/ Browser

Spec == Init /\ [][Next]_vars
-----------------------------------------------------------------------------
(* Type invariant. *)
TypeOK ==
  /\ now \in Nat
  /\ device \in [boot : Nat \ {0}, count : Nat, sequence : 0 .. SequenceModulus - 1,
                 skew : Skews \cup {Unset}, updating : BOOLEAN]
  /\ link \in {"up", "dead", "down"}
  /\ wire \in Seq([boot : Nat \ {0}, count : Nat, sequence : 0 .. SequenceModulus - 1,
                   time : Int \cup {Unset}])
  /\ tracker \in [lastSequence : (0 .. SequenceModulus - 1) \cup {Unset},
                  lastTimestamp : Int \cup {Unset}, disconnected : BOOLEAN]
  /\ chart \in Seq([x : Int, boot : Nat, count : Nat])
  /\ Len(chart) <= MaxPoints

Joined(i) == ~IsNull(chart[i]) /\ ~IsNull(chart[i + 1])

(* A line of the chart joins samples that one run of the device numbered   *)
(* one after the other, at most three seconds of chart time apart: no lost *)
(* sample, disconnection or restart disappears behind a line, although     *)
(* numbers wrap and start again and the clock is stepped.  Seconds that    *)
(* got no number, in an update, do if they are as short as that.           *)
NoLineAcrossAGap ==
  \A i \in 1 .. Len(chart) - 1 :
    Joined(i) => /\ chart[i + 1].boot = chart[i].boot
                 /\ chart[i + 1].count = chart[i].count + 1
                 /\ chart[i + 1].x - chart[i].x <= 2 * GapSeconds

(* The chart's times increase, gaps and clock steps included: uPlot        *)
(* requires sorted data.                                                   *)
TimeGoesForward == \A i \in 1 .. Len(chart) - 1 : chart[i].x < chart[i + 1].x
=============================================================================
