------------------------ MODULE ControllerStateProofs ------------------------
(***************************************************************************)
(* The state that the control loop shares with its clients: the filtered   *)
(* temperature in it, for every range of temperatures (TemperatureFilter), *)
(* and what of it may reach the flash, for any settings and any number of  *)
(* clients (SettingsPersistence).                                          *)
(***************************************************************************)
EXTENDS TemperatureFilter, SettingsPersistence, TLAPS

-----------------------------------------------------------------------------
(* The filter. *)
(* The filter of the main task lands between the old value and the         *)
(* reading; it moves when they are more than half a degree apart, and it   *)
(* does not when they are less than half a degree apart.                   *)
LEMMA FilterStep ==
  ASSUME NEW n \in Int, NEW p \in Int,
         NEW f \in temperature_filter(n, p, LoopAlpha)
  PROVE  /\ f \in Int
         /\ p <= n => p <= f /\ f <= n
         /\ n <= p => n <= f /\ f <= p
         /\ n - p > 5 \/ p - n > 5 => f # p
         /\ n - p < 5 /\ p - n < 5 => f = p
<1>1. Clamp(LoopAlpha) = 1
  BY DEF Clamp, LoopAlpha
<1>2. f \in Rounded(n + 9 * p)
  BY <1>1 DEF temperature_filter
<1>3. f \in Int /\ n + 9 * p - 5 <= 10 * f /\ 10 * f <= n + 9 * p + 5
  BY <1>2 DEF Rounded
<1>. QED
  BY <1>3

LEMMA FilterInitTypeOK == FilterInit => FilterTypeOK
<1>. SUFFICES ASSUME FilterInit PROVE FilterTypeOK
  OBVIOUS
<1>1. ctl \in Fields
  <2>1. \A t : t \in WaterTemps \/ t \in FilteredCommands \/ t = 0 => t \in Lowest .. Highest
    BY TemperaturesAreBounded
  <2>2. DefaultAlpha \in 0 .. 10
    BY DEF DefaultAlpha
  <2>. QED
    BY <2>1, <2>2 DEF FilterInit, Fields
<1>. QED
  BY <1>1, Zenon DEF FilterInit, FilterTypeOK

LEMMA SampleInRange ==
  ASSUME FilterTypeOK, Sample
  PROVE  snapshot' \in Fields
<1>1. /\ ctl \in Fields /\ Lowest \in Int /\ Highest \in Int
  BY TemperaturesAreBounded DEF FilterTypeOK
<1>2. PICK f : /\ \/ f = ctl.filteredWaterTemp
                  \/ f \in temperature_filter(ctl.waterTemp, ctl.filteredWaterTemp, LoopAlpha)
               /\ snapshot' = [ctl EXCEPT !.filteredWaterTemp = f]
  BY DEF Sample
<1>3. ctl.waterTemp \in Lowest .. Highest /\ ctl.filteredWaterTemp \in Lowest .. Highest
  BY <1>1 DEF Fields
<1>4. f \in Lowest .. Highest
  <2>1. CASE f \in temperature_filter(ctl.waterTemp, ctl.filteredWaterTemp, LoopAlpha)
    <3>1. ctl.waterTemp \in Int /\ ctl.filteredWaterTemp \in Int
      BY <1>1, <1>3
    <3>2. /\ f \in Int
          /\ ctl.filteredWaterTemp <= ctl.waterTemp =>
               ctl.filteredWaterTemp <= f /\ f <= ctl.waterTemp
          /\ ctl.waterTemp <= ctl.filteredWaterTemp =>
               ctl.waterTemp <= f /\ f <= ctl.filteredWaterTemp
      BY <2>1, <3>1, FilterStep
    <3>. QED
      BY <1>1, <1>3, <3>1, <3>2
  <2>. QED
    BY <1>2, <1>3, <2>1
<1>. QED
  BY <1>1, <1>2, <1>4 DEF Fields

LEMMA AlphaIsChecked ==
  ASSUME NEW a \in Int
  PROVE  (IF a < 0 \/ a > 10 THEN DefaultAlpha ELSE a) \in 0 .. 10
<1>1. CASE a < 0 \/ a > 10
  BY <1>1 DEF DefaultAlpha
<1>2. CASE ~(a < 0 \/ a > 10)
  BY <1>2
<1>. QED
  BY <1>1, <1>2

LEMMA FilterNextTypeOK == FilterTypeOK /\ [FilterNext]_filterVars => FilterTypeOK'
<1>. SUFFICES ASSUME FilterTypeOK, [FilterNext]_filterVars PROVE FilterTypeOK'
  OBVIOUS
<1>. USE DEF FilterTypeOK
<1>1. CASE Sample
  BY <1>1, SampleInRange, Zenon DEF Sample
<1>2. CASE Drift
  BY <1>2 DEF Drift
<1>3. CASE ReadSensor
  <2>1. water \in Lowest .. Highest
    BY TemperaturesAreBounded
  <2>2. ctl' \in Fields
    BY <1>3, <2>1 DEF ReadSensor, Fields
  <2>. QED
    BY <1>3, <2>2 DEF ReadSensor
<1>4. CASE ClientCommand
  <2>1. ctl' \in Fields
    <3>0. CASE \E t \in ReadingCommands : SetWaterTemp(t)
      BY <3>0, TemperaturesAreBounded DEF SetWaterTemp, Fields
    <3>1. CASE \E t \in FilteredCommands : SetFilteredWaterTemp(t)
      BY <3>1, TemperaturesAreBounded DEF SetFilteredWaterTemp, Fields
    <3>2. CASE \E on \in BOOLEAN : SetSimulated(on)
      BY <3>2 DEF SetSimulated, Fields
    <3>3. CASE \E a \in AlphaCommands : SetLowPassFilterAlpha(a)
      <4>1. PICK a \in AlphaCommands :
              ctl' = [ctl EXCEPT !.lowPassFilterAlpha =
                        IF a < 0 \/ a > 10 THEN DefaultAlpha ELSE a]
        BY <3>3 DEF SetLowPassFilterAlpha
      <4>2. a \in Int
        BY TemperaturesAreBounded
      <4>3. (IF a < 0 \/ a > 10 THEN DefaultAlpha ELSE a) \in 0 .. 10
        BY <4>2, AlphaIsChecked
      <4>. QED
        BY <4>1, <4>3 DEF Fields
    <3>. QED
      BY <1>4, <3>0, <3>1, <3>2, <3>3 DEF ClientCommand
  <2>2. UNCHANGED <<water, snapshot, pc>>
    BY <1>4 DEF ClientCommand, SetWaterTemp, SetFilteredWaterTemp, SetSimulated, SetLowPassFilterAlpha
  <2>. QED
    BY <2>1, <2>2
<1>5. CASE WriteBack \/ WriteBackTimesOut
  BY <1>5 DEF WriteBack, WriteBackTimesOut
<1>6. CASE UNCHANGED filterVars
  BY <1>6 DEF filterVars
<1>. QED
  BY <1>1, <1>2, <1>3, <1>4, <1>5, <1>6 DEF FilterNext

(* Whatever readings and commands arrive, and in whatever order they are   *)
(* lost to write-backs, the filtered temperature never leaves their range. *)
THEOREM FilterStaysInRange == FilterSpec => []FilterTypeOK
<1>. QED
  BY FilterInitTypeOK, FilterNextTypeOK, PTL DEF FilterSpec

(* Every pass approaches the reading and never overshoots it.              *)
THEOREM FilterApproaches == FilterSpec => Approaches
<1>1. ASSUME FilterTypeOK, [FilterNext]_filterVars,
             pc = "wait", pc' = "write back", ~ctl.simulated
      PROVE  LET n == ctl.waterTemp
                 p == ctl.filteredWaterTemp
                 f == snapshot'.filteredWaterTemp
             IN /\ p <= n => p <= f /\ f <= n
                /\ n <= p => n <= f /\ f <= p
                /\ (n - p > 5 \/ p - n > 5) => f # p
  <2>1. Sample
    BY <1>1 DEF FilterNext, Drift, ReadSensor, ClientCommand, SetWaterTemp, SetFilteredWaterTemp, SetSimulated,
               SetLowPassFilterAlpha, WriteBack, WriteBackTimesOut, filterVars
  <2>2. ctl.waterTemp \in Int /\ ctl.filteredWaterTemp \in Int /\ ctl \in Fields
    <3>1. ctl \in Fields /\ Lowest \in Int /\ Highest \in Int
      BY <1>1, TemperaturesAreBounded DEF FilterTypeOK
    <3>2. ctl.waterTemp \in Lowest .. Highest /\ ctl.filteredWaterTemp \in Lowest .. Highest
      BY <3>1 DEF Fields
    <3>. QED
      BY <3>1, <3>2
  <2>3. PICK f \in temperature_filter(ctl.waterTemp, ctl.filteredWaterTemp, LoopAlpha) :
           snapshot' = [ctl EXCEPT !.filteredWaterTemp = f]
    BY <1>1, <2>1 DEF Sample
  <2>4. snapshot'.filteredWaterTemp = f
    BY <2>2, <2>3 DEF Fields
  <2>. QED
    BY <2>2, <2>4, FilterStep
<1>2. FilterTypeOK /\ [FilterNext]_filterVars =>
        [pc = "wait" /\ pc' = "write back" /\ ~ctl.simulated =>
           LET n == ctl.waterTemp
               p == ctl.filteredWaterTemp
               f == snapshot'.filteredWaterTemp
           IN /\ p <= n => p <= f /\ f <= n
              /\ n <= p => n <= f /\ f <= p
              /\ (n - p > 5 \/ p - n > 5) => f # p]_filterVars
  BY <1>1
<1>. QED
  BY FilterStaysInRange, <1>2, PTL DEF FilterSpec, Approaches

-----------------------------------------------------------------------------
(* Persistence. *)
(* Between the memset and the load of a boot nothing runs that reads or    *)
(* writes the state.                                                       *)
QuietUntilLoaded ==
  power # "on" => saving = "wait" /\ loop = "wait" /\ marking = {} /\ ~dirty

IInv == TypeOK /\ NeverSavesZeroes /\ QuietUntilLoaded

LEMMA InitEstablishes == Init => IInv
  BY NotSettings
  DEF Init, IInv, TypeOK, NeverSavesZeroes, QuietUntilLoaded, Values, Zero, NoBlob

LEMMA StepsPreserve == IInv /\ [Next]_vars => IInv'
<1> SUFFICES ASSUME IInv, [Next]_vars PROVE IInv'
  OBVIOUS
<1> USE SettingsAssumption, NotSettings
    DEF IInv, TypeOK, NeverSavesZeroes, QuietUntilLoaded, Values
<1>1. CASE PowerFails
  BY <1>1 DEF PowerFails
<1>2. CASE ZeroState
  BY <1>2 DEF ZeroState
<1>3. CASE LoadSettings
  BY <1>3 DEF LoadSettings
<1>4. CASE LoadDefaults
  BY <1>4 DEF LoadDefaults
<1>5. CASE Client
  <2>1. ASSUME NEW c \in Clients, ClientMarks(c) PROVE IInv'
    BY <2>1 DEF ClientMarks
  <2>2. ASSUME NEW c \in Clients, NEW v \in Settings, ClientWrites(c, v) PROVE IInv'
    BY <2>2 DEF ClientWrites
  <2> QED
    BY <1>5, <2>1, <2>2 DEF Client
<1>6. CASE LoopSnapshot
  BY <1>6 DEF LoopSnapshot
<1>7. CASE LoopSets
  BY <1>7 DEF LoopSets
<1>8. CASE LoopWritesBack
  BY <1>8 DEF LoopWritesBack
<1>9. CASE Drain
  BY <1>9 DEF Drain
<1>10. CASE Snapshot
  BY <1>10 DEF Snapshot
<1>11. CASE Commit
  BY <1>11 DEF Commit
<1>12. CASE SaveFails
  BY <1>12 DEF SaveFails
<1>13. CASE UNCHANGED vars
  BY <1>13 DEF vars
<1> QED
  BY <1>1, <1>2, <1>3, <1>4, <1>5, <1>6, <1>7, <1>8, <1>9, <1>10, <1>11, <1>12, <1>13
  DEF Next, Boot, ControlLoop, Persistence

LEMMA Inductive == Spec => []IInv
BY InitEstablishes, StepsPreserve, PTL DEF Spec

(* Type correctness, for any settings. *)
THEOREM SettingsTypeCorrect == Spec => []TypeOK
<1>1. IInv => TypeOK
  BY DEF IInv
<1> QED
  BY <1>1, Inductive, PTL

(* Whatever fails and whenever power does, a cleared state is neither      *)
(* saved nor handed to the control loop.                                   *)
THEOREM ZeroesAreNeverSaved == Spec => []NeverSavesZeroes
<1>1. IInv => NeverSavesZeroes
  BY DEF IInv
<1> QED
  BY <1>1, Inductive, PTL
=============================================================================
