---------------------------- MODULE HotTubControl ----------------------------
(***************************************************************************)
(* The 1 Hz control loop of the hot tub (hot_tub_controller.c), the state  *)
(* it shares with the rest of the firmware (hottub_ctl, guarded by         *)
(* s_mutex, hot_tub_struct_io.c), the clients that write that state        *)
(* through the JSON commands (hot_tub_callbacks.c) and the DS18B20 task    *)
(* that writes the water temperature.                                      *)
(*                                                                         *)
(* Every access to hottub_ctl is a short critical section, so each is one  *)
(* step.  One pass of the loop is four of them: the snapshot (with the     *)
(* decision, which only touches task-local data), the heater setter, the   *)
(* pump setter and the write-back of the whole snapshot.  Clients and the  *)
(* sensor run between any two of them.                                     *)
(*                                                                         *)
(* Temperatures, hystereses and run times are in tenths, as the limits of  *)
(* hot_tub_globals.h are given to one decimal place.                       *)
(***************************************************************************)
EXTENDS Integers

CONSTANTS
  Temperatures,     \* what the sensor or a client may report
  Setpoints,        \* what a client may write to setpointTemp
  HysteresisValues, \* what a client may write to low/highHysteresis
  PreRunTimes,      \* what a client may write to pumpPreRunTime
  PostRunTimes      \* what a client may write to pumpPostRunTime

ASSUME InputsAreTenths ==
  /\ Temperatures \subseteq Int
  /\ Setpoints \subseteq Int
  /\ HysteresisValues \subseteq Int
  /\ PreRunTimes \subseteq Int
  /\ PostRunTimes \subseteq Int

VARIABLES
  ctl,          \* hottub_ctl, the shared state
  snapshot,     \* the loop's local copy; Zeroed when its value is dead
  autoStarted,  \* auto_started_pump
  wasHeating,   \* was_heating: the heater output of the last decision
  heatLockout,  \* heat_lockout
  preTimer,     \* pre_pump_timer
  postTimer,    \* post_pump_timer
  lastPump,     \* history: the pump output of the last decision
  pc            \* which critical section the loop performs next

taskVars == <<autoStarted, wasHeating, heatLockout, preTimer, postTimer, lastPump>>
vars == <<ctl, snapshot, autoStarted, wasHeating, heatLockout, preTimer,
          postTimer, lastPump, pc>>

-----------------------------------------------------------------------------
(* hot_tub_globals.h: limits and defaults, in tenths. *)
HysteresisMin == 1
HysteresisMax == 50
HysteresisDefault == 10
RunTimeMin == 10
RunTimeMax == 200
RunTimeDefault == 20

PumpStates == {"OFF", "LOW", "HIGH"}   \* a number out of range behaves like HIGH
SimModes == {"NONE", "MANUAL"}   \* every mode but SIM_NONE behaves alike here

(* The fields of HotTubController_t the loop reads or writes; it carries   *)
(* the others (lights, units, air temperature, ...) along unread.          *)
Settings ==
  [heaterOn : BOOLEAN, autoMode : BOOLEAN, pumpState : PumpStates,
   simulationMode : SimModes, waterTemp : Int, filteredWaterTemp : Int,
   setpointTemp : Int, lowHysteresis : Int, highHysteresis : Int,
   pumpPreRunTime : Int, pumpPostRunTime : Int]

Zeroed ==
  [heaterOn |-> FALSE, autoMode |-> FALSE, pumpState |-> "OFF",
   simulationMode |-> "NONE", waterTemp |-> 0, filteredWaterTemp |-> 0,
   setpointTemp |-> 0, lowHysteresis |-> 0, highHysteresis |-> 0,
   pumpPreRunTime |-> 0, pumpPostRunTime |-> 0]

(* A C cast of tenths of a second to int seconds truncates towards zero. *)
WholeSeconds(t) == IF t >= 0 THEN t \div 10 ELSE -((-t) \div 10)

InRange(v, lo, hi, default) == IF v < lo \/ v > hi THEN default ELSE v

verify_hysteresis(s) ==
  [s EXCEPT
     !.lowHysteresis = InRange(@, HysteresisMin, HysteresisMax, HysteresisDefault),
     !.highHysteresis = InRange(@, HysteresisMin, HysteresisMax, HysteresisDefault)]

verify_pump_delay_times(s) ==
  [s EXCEPT
     !.pumpPreRunTime = InRange(@, RunTimeMin, RunTimeMax, RunTimeDefault),
     !.pumpPostRunTime = InRange(@, RunTimeMin, RunTimeMax, RunTimeDefault)]

(* The low-pass filter moves the filtered value towards the reading and    *)
(* may stop short of it; module TemperatureFilter has the arithmetic.      *)
temperature_filter(new, prev) ==
  {t \in Temperatures \cup {prev} : (prev <= t /\ t <= new) \/ (new <= t /\ t <= prev)}

needs_heat(s) == s.filteredWaterTemp < s.setpointTemp - s.lowHysteresis
heat_satisfied(s) == s.filteredWaterTemp > s.setpointTemp + s.highHysteresis

-----------------------------------------------------------------------------
(* One pass of the decision, as a chain of stages over a record of the     *)
(* snapshot's outputs and the task's locals.                               *)
Cycle ==
  [heaterOn : BOOLEAN, pumpState : PumpStates, autoStarted : BOOLEAN,
   lockout : BOOLEAN, pre : Int, post : Int]

(* Mutants of CountDown: no lower guard; stuck at one. *)
CountDownUnguarded(n) == n - 1
CountDownToOne(n) == IF n > 1 THEN n - 1 ELSE n

CountDown(n) == IF n > 0 THEN n - 1 ELSE n

BeginCycle(s) ==
  [heaterOn |-> s.heaterOn, pumpState |-> s.pumpState,
   autoStarted |-> autoStarted, lockout |-> heatLockout,
   pre |-> CountDown(preTimer), post |-> CountDown(postTimer)]

(* Mutant of Interlock: only a pre-purge is interlocked. *)
InterlockPrePurgeOnly(c) ==
  IF c.pumpState = "OFF" /\ c.pre > 0
  THEN [c EXCEPT !.heaterOn = FALSE, !.autoStarted = FALSE, !.pre = 0, !.lockout = TRUE]
  ELSE c

(* 1. Manual override and hardware safety interlock. *)
Interlock(c) ==
  IF c.pumpState = "OFF" /\ (c.heaterOn \/ c.pre > 0)
  THEN [c EXCEPT !.heaterOn = FALSE, !.autoStarted = FALSE, !.pre = 0, !.lockout = TRUE]
  ELSE c

StartPump(s, c) ==
  [c EXCEPT !.pumpState = "LOW", !.autoStarted = TRUE,
            !.pre = WholeSeconds(s.pumpPreRunTime)]

ClaimPump(s, c) ==
  [c EXCEPT !.autoStarted = TRUE, !.pre = WholeSeconds(s.pumpPreRunTime)]

(* Mutant of HeatingRequest: lights the heater without waiting for pre = 0. *)
HeatingRequestUnpurged(s, c) ==
  CASE c.heaterOn -> c
    [] ~c.heaterOn /\ c.pre = 0 /\ c.pumpState = "OFF" -> StartPump(s, c)
    [] ~c.heaterOn /\ c.pre = 0 /\ c.pumpState # "OFF" /\ ~c.autoStarted -> ClaimPump(s, c)
    [] OTHER -> [c EXCEPT !.heaterOn = TRUE]

HeatingRequest(s, c) ==
  CASE c.heaterOn \/ c.pre # 0 -> c
    [] ~c.heaterOn /\ c.pre = 0 /\ c.pumpState = "OFF" -> StartPump(s, c)
    [] ~c.heaterOn /\ c.pre = 0 /\ c.pumpState # "OFF" /\ ~c.autoStarted -> ClaimPump(s, c)
    [] OTHER -> [c EXCEPT !.heaterOn = TRUE]

(* Mutants of AutoControl: a demand overrules the lockout; manual mode     *)
(* forgets the heater.                                                     *)
AutoControlIgnoringLockout(s, c) ==
  LET d == [c EXCEPT !.lockout = @ /\ s.autoMode /\ ~heat_satisfied(s)]
  IN CASE ~s.autoMode -> [d EXCEPT !.heaterOn = FALSE, !.pre = 0]
       [] s.autoMode /\ needs_heat(s) /\ d.post = 0 -> HeatingRequest(s, d)
       [] s.autoMode /\ heat_satisfied(s) -> [d EXCEPT !.heaterOn = FALSE, !.pre = 0]
       [] OTHER -> d

AutoControlKeepingHeater(s, c) ==
  IF s.autoMode THEN c ELSE [c EXCEPT !.pre = 0, !.lockout = FALSE]

(* 2. Auto temperature control, or its teardown when auto mode is off. *)
AutoControl(s, c) ==
  LET lockout == c.lockout /\ s.autoMode /\ ~heat_satisfied(s)
      d == [c EXCEPT !.lockout = lockout]
      requested == needs_heat(s) /\ d.post = 0 /\ ~lockout
  IN CASE s.autoMode /\ requested -> HeatingRequest(s, d)
       [] ~s.autoMode \/ (~requested /\ heat_satisfied(s)) ->
            [d EXCEPT !.heaterOn = FALSE, !.pre = 0]
       [] OTHER -> d

(* Mutant of DetectFallingEdge: the pre-purge is not aborted. *)
DetectFallingEdgeKeepingPre(s, c) ==
  IF wasHeating /\ ~c.heaterOn
  THEN [c EXCEPT !.post = WholeSeconds(s.pumpPostRunTime)]
  ELSE c

(* 3. Falling-edge heater detector and post-purge execution. *)
DetectFallingEdge(s, c) ==
  IF wasHeating /\ ~c.heaterOn
  THEN [c EXCEPT !.post = WholeSeconds(s.pumpPostRunTime), !.pre = 0]
  ELSE c

(* Mutant of PostPurge: the last second of the cool-down is not driven. *)
PostPurgeOneShort(c) ==
  CASE c.post > 1 -> [c EXCEPT !.pumpState = "LOW"]
    [] c.post = 0 /\ c.pre = 0 /\ c.autoStarted /\ ~c.heaterOn ->
         [c EXCEPT !.pumpState = "OFF", !.autoStarted = FALSE]
    [] OTHER -> c

PostPurge(c) ==
  CASE c.post > 0 -> [c EXCEPT !.pumpState = "LOW"]
    [] c.post = 0 /\ c.pre = 0 /\ c.autoStarted /\ ~c.heaterOn ->
         [c EXCEPT !.pumpState = "OFF", !.autoStarted = FALSE]
    [] OTHER -> c

Decide(s) == PostPurge(DetectFallingEdge(s, AutoControl(s, Interlock(BeginCycle(s)))))

(* The snapshots a pass may decide on: filtered, then clamped in auto mode. *)
Observations ==
  LET outcomes == IF ctl.simulationMode = "NONE"
                  THEN temperature_filter(ctl.waterTemp, ctl.filteredWaterTemp)
                  ELSE {ctl.filteredWaterTemp}
      observed(f) == [ctl EXCEPT !.filteredWaterTemp = f]
  IN {IF ctl.autoMode THEN verify_pump_delay_times(verify_hysteresis(observed(f)))
                      ELSE observed(f) : f \in outcomes}

-----------------------------------------------------------------------------
(* The blob restored from NVS is any earlier hottub_ctl: its heater, pump  *)
(* and mode may be in any state.  Restarting after a crash is starting.    *)
Init ==
  /\ ctl \in [heaterOn : BOOLEAN, autoMode : BOOLEAN, pumpState : PumpStates,
              simulationMode : SimModes, waterTemp : Temperatures,
              filteredWaterTemp : Temperatures, setpointTemp : Setpoints,
              lowHysteresis : HysteresisValues, highHysteresis : HysteresisValues,
              pumpPreRunTime : PreRunTimes, pumpPostRunTime : PostRunTimes]
  /\ snapshot = Zeroed
  /\ autoStarted = FALSE
  /\ wasHeating = FALSE
  /\ heatLockout = FALSE
  /\ preTimer = 0
  /\ postTimer = 0
  /\ lastPump = "OFF"
  /\ pc = "start heater"

Goto(from, to) == pc = from /\ pc' = to

(* The setters the task calls before its loop (those of fields it reads). *)
StartHeaterOff ==
  /\ Goto("start heater", "start pump")
  /\ ctl' = [ctl EXCEPT !.heaterOn = FALSE]
  /\ UNCHANGED <<snapshot, taskVars>>

StartPumpOff ==
  /\ Goto("start pump", "start sim")
  /\ ctl' = [ctl EXCEPT !.pumpState = "OFF"]
  /\ UNCHANGED <<snapshot, taskVars>>

StartSimNone ==
  /\ Goto("start sim", "wait")
  /\ ctl' = [ctl EXCEPT !.simulationMode = "NONE"]
  /\ UNCHANGED <<snapshot, taskVars>>

(* snapshot_get succeeds and the pass decides.  When the lock times out    *)
(* the loop skips the second, which is a stuttering step.                  *)
Sample ==
  /\ Goto("wait", "set heater")
  /\ \E s \in Observations :
       LET c == Decide(s)
       IN /\ snapshot' = [s EXCEPT !.heaterOn = c.heaterOn, !.pumpState = c.pumpState]
          /\ autoStarted' = c.autoStarted
          /\ wasHeating' = c.heaterOn
          /\ heatLockout' = c.lockout
          /\ preTimer' = c.pre
          /\ postTimer' = c.post
          /\ lastPump' = c.pumpState
  /\ UNCHANGED ctl

WriteHeater ==
  /\ Goto("set heater", "set pump")
  /\ ctl' = [ctl EXCEPT !.heaterOn = snapshot.heaterOn]
  /\ UNCHANGED <<snapshot, taskVars>>

WritePump ==
  /\ Goto("set pump", "write back")
  /\ ctl' = [ctl EXCEPT !.pumpState = snapshot.pumpState]
  /\ UNCHANGED <<snapshot, taskVars>>

(* snapshot_set copies the whole struct; its result is ignored, so a lock  *)
(* timeout leaves hottub_ctl as it is.                                     *)
WriteBack ==
  /\ Goto("write back", "wait")
  /\ ctl' \in {snapshot, ctl}
  /\ snapshot' = Zeroed
  /\ UNCHANGED taskVars

Startup == StartHeaterOff \/ StartPumpOff \/ StartSimNone
Publish == WriteHeater \/ WritePump \/ WriteBack
ControlLoop == Startup \/ Sample \/ Publish

-----------------------------------------------------------------------------
(* The DS18B20 task stores a good reading; after a failed one the old      *)
(* value stays.  Command hottub.water.temperature.set stores one as well.  *)
ReadSensor(t) ==
  /\ ctl' = [ctl EXCEPT !.waterTemp = t]
  /\ UNCHANGED <<snapshot, taskVars, pc>>

(* JSON commands: each calls one setter, which writes one field.  Only     *)
(* lowPassFilterAlpha, which the loop does not read, is range-checked.     *)
ClientWrites(settings) ==
  /\ ctl' = settings
  /\ UNCHANGED <<snapshot, taskVars, pc>>

SetHeaterOn(on) == ClientWrites([ctl EXCEPT !.heaterOn = on])
SetAutoMode(on) == ClientWrites([ctl EXCEPT !.autoMode = on])
SetPumpState(p) == ClientWrites([ctl EXCEPT !.pumpState = p])
SetSimulationMode(m) == ClientWrites([ctl EXCEPT !.simulationMode = m])
SetFilteredWaterTemp(t) == ClientWrites([ctl EXCEPT !.filteredWaterTemp = t])
SetSetpointTemp(t) == ClientWrites([ctl EXCEPT !.setpointTemp = t])
SetLowHysteresis(h) == ClientWrites([ctl EXCEPT !.lowHysteresis = h])
SetHighHysteresis(h) == ClientWrites([ctl EXCEPT !.highHysteresis = h])
SetPumpPreRunTime(t) == ClientWrites([ctl EXCEPT !.pumpPreRunTime = t])
SetPumpPostRunTime(t) == ClientWrites([ctl EXCEPT !.pumpPostRunTime = t])

OtherCommand ==
  \/ \E on \in BOOLEAN : SetHeaterOn(on) \/ SetAutoMode(on)
  \/ \E m \in SimModes : SetSimulationMode(m)
  \/ \E t \in Temperatures : SetFilteredWaterTemp(t)
  \/ \E t \in Setpoints : SetSetpointTemp(t)
  \/ \E h \in HysteresisValues : SetLowHysteresis(h) \/ SetHighHysteresis(h)
  \/ \E t \in PreRunTimes : SetPumpPreRunTime(t)
  \/ \E t \in PostRunTimes : SetPumpPostRunTime(t)

Client == OtherCommand \/ \E p \in PumpStates : SetPumpState(p)
Sensor == \E t \in Temperatures : ReadSensor(t)

Next == ControlLoop \/ Sensor \/ Client

(* The scheduler runs the priority-6 task every second; the sensor may be  *)
(* broken and clients may be silent, so only the loop is fair.             *)
Spec == Init /\ [][Next]_vars /\ WF_vars(ControlLoop)
-----------------------------------------------------------------------------
(* Type invariant: the shared struct, the task's locals and its program    *)
(* counter hold values of their C types, and the pre-purge timer, armed    *)
(* only with a clamped run time, never goes negative.                      *)
TypeOK ==
  /\ ctl \in Settings
  /\ snapshot \in Settings
  /\ autoStarted \in BOOLEAN
  /\ wasHeating \in BOOLEAN
  /\ heatLockout \in BOOLEAN
  /\ preTimer \in Nat
  /\ postTimer \in Int
  /\ lastPump \in PumpStates
  /\ pc \in {"start heater", "start pump", "start sim", "wait",
             "set heater", "set pump", "write back"}

Deciding == pc \in {"set heater", "set pump", "write back"}

(* The interlock: whatever clients wrote before the snapshot, the loop     *)
(* never decides to burn with the pump off, in manual mode, or above the   *)
(* upper threshold (stages 1 and 2 of the main task, together).            *)
HeaterInterlock ==
  Deciding /\ snapshot.heaterOn =>
    /\ snapshot.pumpState # "OFF"
    /\ snapshot.autoMode
    /\ ~heat_satisfied(snapshot)

(* The two purges never overlap; a pre-purge is always one the loop owns   *)
(* and runs the pump for; a post-purge always drives the pump at LOW, even *)
(* against the user.                                                       *)
PurgesDrivePump ==
  /\ preTimer > 0 => postTimer <= 0 /\ autoStarted /\ lastPump # "OFF"
  /\ postTimer > 0 => lastPump = "LOW"

(* While the user's shutoff locks auto-heating out, a pass of the loop     *)
(* neither lights the heater nor starts or claims the pump on its own; the *)
(* pump may only be driven for a cool-down.  It is locked out until a pass *)
(* sees manual mode or water above the upper threshold.                    *)
LockoutHolds ==
  [][pc = "wait" /\ pc' = "set heater" =>
       /\ heatLockout' =>
            /\ snapshot'.heaterOn => ctl.heaterOn
            /\ snapshot'.pumpState \in {ctl.pumpState, "OFF"} \/ postTimer' > 0
            /\ autoStarted' => autoStarted
            /\ preTimer' <= preTimer
       /\ heatLockout /\ ~heatLockout' =>
            ~snapshot'.autoMode \/ heat_satisfied(snapshot')]_vars

(* The cycle of purge, burn and cool-down the locals stand for. *)
Mode ==
  IF wasHeating THEN "Heating"
  ELSE IF postTimer > 0 THEN "Cooling"
  ELSE IF preTimer > 0 THEN "Priming"
  ELSE "Idle"

Promised == INSTANCE HeatingCycle WITH
  mode <- Mode,
  pump <- lastPump,
  owed <- IF postTimer > 0 THEN postTimer ELSE 0,
  manual <- Deciding /\ ~snapshot.autoMode,
  CoolDowns <- WholeSeconds(RunTimeMin) .. WholeSeconds(RunTimeMax)

(* The loop implements the abstract heating cycle, whatever run times the  *)
(* clients set: no burn without a pump or in manual mode, and every burn   *)
(* is followed by a cool-down that runs to its end.  One that ends in auto *)
(* mode has a cool-down of 1 to 20 s; only after one that ends in manual   *)
(* mode may the cool-down be shorter, longer or none.                      *)
ImplementsHeatingCycle == Promised!Spec

(* With auto mode left off, the heater bit does not stay on, whatever the  *)
(* clients wrote to it, and cool-downs end.                                *)
ManualModeStopsHeater ==
  /\ <>[](~ctl.autoMode) => []<>(~ctl.heaterOn)
  /\ <>[](~ctl.autoMode) => <>[](postTimer <= 0)

(* Cold water, however it is read, in auto mode, with nothing in the way.  *)
(* A negative run time leaves a cool-down that never ends.                 *)
HeatDemand ==
  /\ ctl.autoMode
  /\ postTimer >= 0
  /\ ~heatLockout
  /\ ctl.pumpState # "OFF"
  /\ needs_heat(verify_hysteresis(ctl))
  /\ needs_heat(verify_hysteresis([ctl EXCEPT !.filteredWaterTemp = ctl.waterTemp]))

(* A lasting demand for heat is served: no sequence of commands leaves the *)
(* purges, timers and ownership of the pump in a state that wedges it.     *)
DemandIsServed == <>[]HeatDemand => []<>wasHeating
=============================================================================
