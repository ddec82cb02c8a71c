-------------------------- MODULE TemperatureFilter --------------------------
(***************************************************************************)
(* The path of a temperature from the water to the thresholds: the DS18B20 *)
(* task stores readings in the shared state, the control loop copies the   *)
(* state, filters the copy and writes it back.  Temperatures and alpha are *)
(* in tenths.                                                              *)
(***************************************************************************)
EXTENDS Integers

CONSTANTS
  Lowest, Highest,  \* bounds of every temperature below
  WaterTemps,       \* temperatures the water may have
  ReadingCommands,  \* what a client may write to waterTemp
  FilteredCommands, \* what a client may write to filteredWaterTemp
  AlphaCommands     \* what a client may write to lowPassFilterAlpha

ASSUME TemperaturesAreBounded ==
  /\ Lowest \in Int
  /\ Highest \in Int
  /\ 0 \in Lowest .. Highest
  /\ WaterTemps \subseteq Lowest .. Highest
  /\ ReadingCommands \subseteq Lowest .. Highest
  /\ FilteredCommands \subseteq Lowest .. Highest
  /\ AlphaCommands \subseteq Int

VARIABLES
  water,    \* the temperature of the water itself
  ctl,      \* the fields of hottub_ctl on this path
  snapshot, \* the control loop's copy of them
  pc        \* "wait" for the next second, or about to "write back"

filterVars == <<water, ctl, snapshot, pc>>

Fields == [waterTemp : Lowest .. Highest, filteredWaterTemp : Lowest .. Highest,
           lowPassFilterAlpha : 0 .. 10, simulated : BOOLEAN]

DefaultAlpha == 1

(* The main task passes a constant, whatever the setting says.             *)
LoopAlpha == 1

Clamp(alpha) == IF alpha < 0 THEN 0 ELSE IF alpha > 10 THEN 10 ELSE alpha

(* roundf to a tenth of x hundredths.  At a tie the float error of alpha   *)
(* and 1 - alpha decides the side, so both are outcomes.                   *)
Rounded(x) == {x \div 10, x \div 10 + 1} \cap {r \in Int : x - 5 <= 10 * r /\ 10 * r <= x + 5}

(* Mutants: truncation instead of rounding; rounding away from zero.       *)
TruncatingFilter(new, prev, alpha) ==
  {(Clamp(alpha) * new + (10 - Clamp(alpha)) * prev) \div 10}
CeilingFilter(new, prev, alpha) ==
  {(Clamp(alpha) * new + (10 - Clamp(alpha)) * prev) \div 10 + 1}

temperature_filter(new, prev, alpha) ==
  Rounded(Clamp(alpha) * new + (10 - Clamp(alpha)) * prev)

-----------------------------------------------------------------------------
FilterInit ==
  /\ water \in WaterTemps
  /\ ctl \in [waterTemp : WaterTemps \cup {0},
              filteredWaterTemp : FilteredCommands \cup {0},
              lowPassFilterAlpha : {DefaultAlpha}, simulated : {FALSE}]
  /\ snapshot = ctl
  /\ pc = "wait"

(* The tub warms and cools as it likes. *)
Drift ==
  /\ water' \in WaterTemps
  /\ UNCHANGED <<ctl, snapshot, pc>>

(* Mutant: a reading of zero is taken for a failed one. *)
ReadSensorNonZero ==
  /\ ctl' = IF water = 0 THEN ctl ELSE [ctl EXCEPT !.waterTemp = water]
  /\ UNCHANGED <<water, snapshot, pc>>

(* A good reading; after a failed one the old value stays. *)
ReadSensor ==
  /\ ctl' = [ctl EXCEPT !.waterTemp = water]
  /\ UNCHANGED <<water, snapshot, pc>>

(* hottub.water.temperature.set: a client writes the sensor's own field.   *)
SetWaterTemp(t) ==
  /\ ctl' = [ctl EXCEPT !.waterTemp = t]
  /\ UNCHANGED <<water, snapshot, pc>>

SetFilteredWaterTemp(t) ==
  /\ ctl' = [ctl EXCEPT !.filteredWaterTemp = t]
  /\ UNCHANGED <<water, snapshot, pc>>

SetSimulated(on) ==
  /\ ctl' = [ctl EXCEPT !.simulated = on]
  /\ UNCHANGED <<water, snapshot, pc>>

(* The only setting a setter checks: out of range becomes the default. *)
SetLowPassFilterAlpha(a) ==
  /\ ctl' = [ctl EXCEPT !.lowPassFilterAlpha = IF a < 0 \/ a > 10 THEN DefaultAlpha ELSE a]
  /\ UNCHANGED <<water, snapshot, pc>>

Sample ==
  /\ pc = "wait"
  /\ pc' = "write back"
  /\ \E f \in IF ctl.simulated THEN {ctl.filteredWaterTemp}
              ELSE temperature_filter(ctl.waterTemp, ctl.filteredWaterTemp, LoopAlpha) :
       snapshot' = [ctl EXCEPT !.filteredWaterTemp = f]
  /\ UNCHANGED <<water, ctl>>

WriteBack ==
  /\ pc = "write back"
  /\ pc' = "wait"
  /\ ctl' = snapshot
  /\ UNCHANGED <<water, snapshot>>

(* snapshot_set times out waiting for the lock; its result is ignored. *)
WriteBackTimesOut ==
  /\ pc = "write back"
  /\ pc' = "wait"
  /\ UNCHANGED <<water, ctl, snapshot>>

ClientCommand ==
  \/ \E t \in ReadingCommands : SetWaterTemp(t)
  \/ \E t \in FilteredCommands : SetFilteredWaterTemp(t)
  \/ \E on \in BOOLEAN : SetSimulated(on)
  \/ \E a \in AlphaCommands : SetLowPassFilterAlpha(a)

FilterNext == Drift \/ ReadSensor \/ ClientCommand \/ Sample \/ WriteBack \/ WriteBackTimesOut

(* The lock is held for a copy of a struct, so a write-back cannot time    *)
(* out for ever; a pass lasts a small part of the second between passes,   *)
(* so a working sensor cannot always store its reading in the middle of    *)
(* one, where the write-back overwrites it.                                *)
FilterFairness ==
  /\ WF_filterVars(Sample)
  /\ SF_filterVars(WriteBack)
  /\ SF_filterVars(ReadSensor /\ pc = "wait")

FilterSpec == FilterInit /\ [][FilterNext]_filterVars /\ FilterFairness
-----------------------------------------------------------------------------
(* Type invariant.  Its bounds say that the filter never leaves the range  *)
(* of the readings and commands it was fed.                                *)
FilterTypeOK ==
  /\ water \in WaterTemps
  /\ ctl \in Fields
  /\ snapshot \in Fields
  /\ pc \in {"wait", "write back"}

(* Far from the reading, each pass moves the filtered value closer to it,  *)
(* and never past it: a burn cannot be ended or started by an overshoot of *)
(* the filter.                                                             *)
Approaches ==
  [][pc = "wait" /\ pc' = "write back" /\ ~ctl.simulated =>
       LET n == ctl.waterTemp
           p == ctl.filteredWaterTemp
           f == snapshot'.filteredWaterTemp
       IN /\ p <= n => p <= f /\ f <= n
          /\ n <= p => n <= f /\ f <= p
          /\ (n - p > 5 \/ p - n > 5) => f # p]_filterVars

Near(a, b) == a - b <= 5 /\ b - a <= 5

(* Water that keeps its temperature, read by the sensor, with no client    *)
(* writing the filtered value or, over the sensor, another reading.        *)
Steady(w) ==
  /\ <>[](water = w /\ ~ctl.simulated)
  /\ <>[][pc' = pc => /\ ctl'.filteredWaterTemp = ctl.filteredWaterTemp
                      /\ ctl'.waterTemp \in {ctl.waterTemp, water}]_filterVars

(* Once the water is steady and clients let go of the two temperatures,    *)
(* the filtered value comes within half a degree of the water and stays    *)
(* there, whatever they wrote before and whatever reading the write-back   *)
(* of a pass overwrites.                                                   *)
FollowsWater ==
  \A w \in WaterTemps : Steady(w) => <>[]Near(ctl.filteredWaterTemp, w)
=============================================================================
