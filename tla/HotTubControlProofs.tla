------------------------ MODULE HotTubControlProofs ------------------------
(***************************************************************************)
(* Proofs about HotTubControl, and about its history, for every set of     *)
(* temperatures, setpoints, hystereses and run times a client may send.    *)
(***************************************************************************)
EXTENDS HotTubHistory, TLAPS

(* A C cast to int is an integer, and whole seconds of a run time within   *)
(* the safe limits are positive.                                           *)
LEMMA WholeSecondsInt ==
  ASSUME NEW t \in Int
  PROVE  /\ WholeSeconds(t) \in Int
         /\ t >= 0 => WholeSeconds(t) >= 0
         /\ t >= RunTimeMin => WholeSeconds(t) >= 1
         /\ t >= RunTimeMin /\ t <= RunTimeMax => WholeSeconds(t) <= WholeSeconds(RunTimeMax)
  BY DEF WholeSeconds, RunTimeMin, RunTimeMax

(* The clamps of verify_hysteresis and verify_pump_delay_times. *)
LEMMA VerifiedHysteresis ==
  ASSUME NEW s \in Settings
  PROVE  /\ verify_hysteresis(s) \in Settings
         /\ verify_hysteresis(s).heaterOn = s.heaterOn
         /\ verify_hysteresis(s).pumpState = s.pumpState
         /\ verify_hysteresis(s).autoMode = s.autoMode
         /\ verify_hysteresis(s).lowHysteresis >= HysteresisMin
         /\ verify_hysteresis(s).highHysteresis >= HysteresisMin
<1>. DEFINE Clamp(v) == InRange(v, HysteresisMin, HysteresisMax, HysteresisDefault)
<1>1. /\ Clamp(s.lowHysteresis) \in Int /\ Clamp(s.lowHysteresis) >= HysteresisMin
      /\ Clamp(s.highHysteresis) \in Int /\ Clamp(s.highHysteresis) >= HysteresisMin
  <2>1. s.lowHysteresis \in Int /\ s.highHysteresis \in Int
    BY DEF Settings
  <2>. QED
    BY <2>1 DEF InRange, HysteresisMin, HysteresisMax, HysteresisDefault
<1>2. verify_hysteresis(s) = [[s EXCEPT !.lowHysteresis = Clamp(s.lowHysteresis)]
                                EXCEPT !.highHysteresis = Clamp(s.highHysteresis)]
  BY DEF verify_hysteresis, Settings
<1>. HIDE DEF Clamp
<1>. QED
  BY <1>1, <1>2 DEF Settings

LEMMA VerifiedRunTimes ==
  ASSUME NEW s \in Settings
  PROVE  /\ verify_pump_delay_times(s) \in Settings
         /\ verify_pump_delay_times(s).heaterOn = s.heaterOn
         /\ verify_pump_delay_times(s).pumpState = s.pumpState
         /\ verify_pump_delay_times(s).autoMode = s.autoMode
         /\ verify_pump_delay_times(s).lowHysteresis = s.lowHysteresis
         /\ verify_pump_delay_times(s).highHysteresis = s.highHysteresis
         /\ verify_pump_delay_times(s).pumpPreRunTime >= RunTimeMin
         /\ verify_pump_delay_times(s).pumpPreRunTime <= RunTimeMax
         /\ verify_pump_delay_times(s).pumpPostRunTime >= RunTimeMin
         /\ verify_pump_delay_times(s).pumpPostRunTime <= RunTimeMax
<1>. DEFINE Clamp(v) == InRange(v, RunTimeMin, RunTimeMax, RunTimeDefault)
<1>1. /\ Clamp(s.pumpPreRunTime) \in Int /\ Clamp(s.pumpPreRunTime) >= RunTimeMin
      /\ Clamp(s.pumpPreRunTime) <= RunTimeMax
      /\ Clamp(s.pumpPostRunTime) \in Int /\ Clamp(s.pumpPostRunTime) >= RunTimeMin
      /\ Clamp(s.pumpPostRunTime) <= RunTimeMax
  <2>1. s.pumpPreRunTime \in Int /\ s.pumpPostRunTime \in Int
    BY DEF Settings
  <2>. QED
    BY <2>1 DEF InRange, RunTimeMin, RunTimeMax, RunTimeDefault
<1>2. verify_pump_delay_times(s) = [[s EXCEPT !.pumpPreRunTime = Clamp(s.pumpPreRunTime)]
                                EXCEPT !.pumpPostRunTime = Clamp(s.pumpPostRunTime)]
  BY DEF verify_pump_delay_times, Settings
<1>. HIDE DEF Clamp
<1>. QED
  BY <1>1, <1>2 DEF Settings

(* What a pass decides on: the shared outputs and mode, with a filtered    *)
(* temperature, and clamped settings when auto mode is on.                 *)
LEMMA ObservationsAreSettings ==
  ASSUME TypeOK, NEW s \in Observations
  PROVE  /\ s \in Settings
         /\ s.heaterOn = ctl.heaterOn
         /\ s.pumpState = ctl.pumpState
         /\ s.autoMode = ctl.autoMode
         /\ s.autoMode => /\ s.lowHysteresis >= HysteresisMin
                          /\ s.highHysteresis >= HysteresisMin
                          /\ s.pumpPreRunTime >= RunTimeMin
                          /\ s.pumpPreRunTime <= RunTimeMax
                          /\ s.pumpPostRunTime >= RunTimeMin
                          /\ s.pumpPostRunTime <= RunTimeMax
<1>1. ctl \in Settings
  BY DEF TypeOK
<1>2. PICK f : /\ f \in Int
               /\ s = IF ctl.autoMode
                      THEN verify_pump_delay_times(verify_hysteresis(
                             [ctl EXCEPT !.filteredWaterTemp = f]))
                      ELSE [ctl EXCEPT !.filteredWaterTemp = f]
  <2>1. ctl.filteredWaterTemp \in Int /\ ctl.waterTemp \in Int
    BY <1>1 DEF Settings
  <2>2. temperature_filter(ctl.waterTemp, ctl.filteredWaterTemp) \subseteq Int
    BY <2>1, InputsAreTenths DEF temperature_filter
  <2>. QED
    BY <2>1, <2>2 DEF Observations
<1>3. [ctl EXCEPT !.filteredWaterTemp = f] \in Settings
  BY <1>1, <1>2 DEF Settings
<1>4. CASE ctl.autoMode
  <2> DEFINE e == [ctl EXCEPT !.filteredWaterTemp = f]
             h == verify_hysteresis(e)
  <2>1. /\ e.heaterOn = ctl.heaterOn /\ e.pumpState = ctl.pumpState /\ e.autoMode = ctl.autoMode
        /\ e \in Settings
    BY <1>1, <1>3 DEF Settings
  <2>2. s = verify_pump_delay_times(h)
    BY <1>2, <1>4
  <2> HIDE DEF e
  <2>3. /\ h \in Settings /\ h.heaterOn = e.heaterOn /\ h.pumpState = e.pumpState
        /\ h.autoMode = e.autoMode
        /\ h.lowHysteresis >= HysteresisMin /\ h.highHysteresis >= HysteresisMin
    BY <2>1, VerifiedHysteresis
  <2> HIDE DEF h
  <2>4. /\ s \in Settings /\ s.heaterOn = h.heaterOn /\ s.pumpState = h.pumpState
        /\ s.autoMode = h.autoMode
        /\ s.lowHysteresis = h.lowHysteresis /\ s.highHysteresis = h.highHysteresis
        /\ s.pumpPreRunTime >= RunTimeMin /\ s.pumpPreRunTime <= RunTimeMax
        /\ s.pumpPostRunTime >= RunTimeMin /\ s.pumpPostRunTime <= RunTimeMax
    BY <2>2, <2>3, VerifiedRunTimes
  <2>. QED
    BY <2>1, <2>3, <2>4
<1>5. CASE ~ctl.autoMode
  BY <1>1, <1>2, <1>3, <1>5 DEF Settings
<1>. QED
  BY <1>4, <1>5

-----------------------------------------------------------------------------
(* What every stage of a pass preserves: the outputs and timers are of     *)
(* their types, nothing burns over a stopped pump, and a running pre-purge *)
(* is owned, drives the pump and overlaps no cool-down.                    *)
Sound(c) ==
  /\ c \in Cycle
  /\ c.pre >= 0
  /\ c.heaterOn => c.pumpState # "OFF"
  /\ c.pre > 0 => c.post <= 0 /\ c.autoStarted /\ c.pumpState # "OFF"

(* Stage 1: whatever the clients wrote, the interlock makes it sound.      *)
LEMMA InterlockStage ==
  ASSUME TypeOK, PurgesDrivePump, NEW s \in Settings,
         NEW c, c = Interlock(BeginCycle(s))
  PROVE  /\ Sound(c)
         /\ c.pumpState = s.pumpState
         /\ c.heaterOn => s.heaterOn
         /\ c.autoStarted => autoStarted
         /\ c.pre <= preTimer
         /\ c.pre = CountDown(preTimer) \/ (c.lockout /\ ~c.autoStarted)
         /\ c.post = CountDown(postTimer)
         /\ heatLockout => c.lockout
<1>1. /\ preTimer \in Nat /\ postTimer \in Int
      /\ autoStarted \in BOOLEAN /\ heatLockout \in BOOLEAN
  BY DEF TypeOK
<1>2. /\ CountDown(preTimer) \in Nat /\ CountDown(preTimer) <= preTimer
      /\ CountDown(postTimer) \in Int
      /\ CountDown(preTimer) > 0 => preTimer > 0
      /\ postTimer <= 0 => CountDown(postTimer) <= 0
  BY <1>1 DEF CountDown
<1>. DEFINE b == BeginCycle(s)
<1>3. /\ b.heaterOn = s.heaterOn /\ b.pumpState = s.pumpState
      /\ b.autoStarted = autoStarted /\ b.lockout = heatLockout
      /\ b.pre = CountDown(preTimer) /\ b.post = CountDown(postTimer)
  BY DEF BeginCycle
<1>4. b \in Cycle
  <2>1. s.heaterOn \in BOOLEAN /\ s.pumpState \in PumpStates
    BY DEF Settings
  <2>2. CountDown(preTimer) \in Int
    BY <1>2
  <2>. QED
    BY <1>1, <1>2, <2>1, <2>2, Zenon DEF BeginCycle, Cycle
<1>5. b.pre > 0 => b.post <= 0 /\ b.autoStarted
  <2>1. CountDown(preTimer) > 0 => postTimer <= 0 /\ autoStarted
    BY <1>2, Zenon DEF PurgesDrivePump
  <2>. QED
    BY <1>2, <1>3, <2>1, Zenon
<1>. HIDE DEF b
<1>6. CASE b.pumpState = "OFF" /\ (b.heaterOn \/ b.pre > 0)
  <2>1. c = [b EXCEPT !.heaterOn = FALSE, !.autoStarted = FALSE,
                      !.pre = 0, !.lockout = TRUE]
    BY <1>6 DEF Interlock, b
  <2>2. /\ c \in Cycle /\ ~c.heaterOn /\ ~c.autoStarted /\ c.lockout
        /\ c.pre = 0 /\ c.post = b.post /\ c.pumpState = b.pumpState
    <3>1. c = [heaterOn |-> FALSE, pumpState |-> b.pumpState, autoStarted |-> FALSE,
               lockout |-> TRUE, pre |-> 0, post |-> b.post]
      BY <1>4, <2>1, Zenon DEF Cycle
    <3>2. b.pumpState \in PumpStates /\ b.post \in Int /\ 0 \in Int
      BY <1>4 DEF Cycle
    <3>3. c \in Cycle
      BY <3>1, <3>2 DEF Cycle
    <3>4. ~c.heaterOn /\ ~c.autoStarted /\ c.lockout
      BY <3>1
    <3>5. c.pre = 0 /\ c.post = b.post /\ c.pumpState = b.pumpState
      BY <3>1
    <3>. QED
      BY <3>3, <3>4, <3>5
  <2>3. c.pre <= preTimer /\ c.pre >= 0 /\ ~(c.pre > 0)
    BY <1>1, <2>2
  <2>. QED
    BY <1>3, <2>2, <2>3, Zenon DEF Sound
<1>7. CASE ~(b.pumpState = "OFF" /\ (b.heaterOn \/ b.pre > 0))
  <2>1. c = b
    BY <1>7 DEF Interlock, b
  <2>2. b.pre >= 0 /\ b.pre <= preTimer
    BY <1>1, <1>2, <1>3
  <2>. QED
    BY <1>3, <1>4, <1>5, <1>7, <2>1, <2>2, Zenon DEF Sound
<1>. QED
  BY <1>6, <1>7

(* A pre-purge is armed with the run time of the settings; only one that   *)
(* lasts a second or more keeps the loop from burning at once.             *)
LEMMA HeatingRequestStage ==
  ASSUME NEW s \in Settings, s.pumpPreRunTime >= RunTimeMin,
         NEW c, Sound(c), c.post = 0,
         NEW r, r = HeatingRequest(s, c)
  PROVE  /\ Sound(r) /\ r.post = c.post /\ r.lockout = c.lockout
         /\ r.pre = c.pre \/ (c.pre = 0 /\ r.pre = WholeSeconds(s.pumpPreRunTime))
         /\ r.heaterOn => c.heaterOn \/ (c.pre = 0 /\ c.autoStarted)
<1>. DEFINE purge == WholeSeconds(s.pumpPreRunTime)
<1>1. purge \in Int /\ purge >= 0 /\ purge > 0
  <2>1. s.pumpPreRunTime \in Int
    BY DEF Settings
  <2>. QED
    BY <2>1, WholeSecondsInt
<1>. HIDE DEF purge
<1>2. c \in Cycle /\ c.pre >= 0 /\ c.post <= 0
  BY DEF Sound
<1>3. /\ c.heaterOn \in BOOLEAN /\ c.pumpState \in PumpStates
      /\ c.autoStarted \in BOOLEAN /\ c.lockout \in BOOLEAN
      /\ c.pre \in Int /\ c.post \in Int
  BY <1>2 DEF Cycle
<1>4. CASE c.heaterOn \/ c.pre # 0
  BY <1>4, Zenon DEF HeatingRequest
<1>5. CASE ~c.heaterOn /\ c.pre = 0 /\ c.pumpState = "OFF"
  <2>1. r = [heaterOn |-> c.heaterOn, pumpState |-> "LOW", autoStarted |-> TRUE,
             lockout |-> c.lockout, pre |-> purge, post |-> c.post]
    BY <1>2, <1>5, Zenon DEF HeatingRequest, StartPump, Cycle, purge
  <2>2. r \in Cycle
    BY <1>1, <1>3, <2>1 DEF Cycle, PumpStates
  <2>3. r.pumpState # "OFF" /\ r.autoStarted /\ r.pre = purge /\ r.post = c.post
    BY <2>1
  <2>4. r.lockout = c.lockout /\ ~r.heaterOn
    BY <1>5, <2>1
  <2>. QED
    BY <1>1, <1>2, <1>5, <2>2, <2>3, <2>4, Zenon DEF Sound, purge
<1>6. CASE ~c.heaterOn /\ c.pre = 0 /\ c.pumpState # "OFF" /\ ~c.autoStarted
  <2>1. r = [heaterOn |-> c.heaterOn, pumpState |-> c.pumpState, autoStarted |-> TRUE,
             lockout |-> c.lockout, pre |-> purge, post |-> c.post]
    BY <1>2, <1>6, Zenon DEF HeatingRequest, ClaimPump, Cycle, purge
  <2>2. r \in Cycle
    BY <1>1, <1>3, <2>1 DEF Cycle
  <2>3. r.pumpState = c.pumpState /\ r.autoStarted /\ r.pre = purge /\ r.post = c.post
    BY <2>1
  <2>4. r.lockout = c.lockout /\ ~r.heaterOn
    BY <1>6, <2>1
  <2>. QED
    BY <1>1, <1>2, <1>6, <2>2, <2>3, <2>4, Zenon DEF Sound, purge
<1>7. CASE ~c.heaterOn /\ c.pre = 0 /\ c.pumpState # "OFF" /\ c.autoStarted
  <2>1. r = [heaterOn |-> TRUE, pumpState |-> c.pumpState, autoStarted |-> c.autoStarted,
             lockout |-> c.lockout, pre |-> c.pre, post |-> c.post]
    BY <1>2, <1>7, Zenon DEF HeatingRequest, Cycle
  <2>2. r \in Cycle
    BY <1>3, <2>1 DEF Cycle
  <2>3. r.pumpState = c.pumpState /\ r.pre = c.pre /\ r.post = c.post
    BY <2>1
  <2>4. r.lockout = c.lockout
    BY <2>1
  <2>5. r.pre >= 0 /\ ~(r.pre > 0)
    BY <1>7, <2>3
  <2>. QED
    BY <1>7, <2>2, <2>3, <2>4, <2>5, Zenon DEF Sound
<1>. QED
  BY <1>4, <1>5, <1>6, <1>7, Zenon

(* Stage 2: nothing burns in manual mode or above the upper threshold, and *)
(* while it is locked out the loop asks for nothing.                       *)
LEMMA AutoControlStage ==
  ASSUME NEW s \in Settings,
         s.autoMode => /\ s.lowHysteresis >= HysteresisMin
                       /\ s.highHysteresis >= HysteresisMin
                       /\ s.pumpPreRunTime >= RunTimeMin,
         NEW c, Sound(c),
         NEW d, d = AutoControl(s, c)
  PROVE  /\ Sound(d)
         /\ d.post = c.post
         /\ d.heaterOn => s.autoMode /\ ~heat_satisfied(s)
         /\ d.lockout => /\ d.heaterOn => c.heaterOn
                         /\ d.pumpState = c.pumpState
                         /\ d.autoStarted = c.autoStarted
                         /\ d.pre <= c.pre
         /\ d.pre > 0 => \/ d.pre = c.pre
                         \/ /\ c.pre = 0 /\ ~c.lockout /\ s.autoMode
                            /\ d.pre = WholeSeconds(s.pumpPreRunTime)
         /\ d.heaterOn => c.heaterOn \/ (c.pre = 0 /\ c.autoStarted /\ c.post = 0)
         /\ d.autoStarted => c.autoStarted \/ c.post = 0
         /\ c.lockout /\ ~d.lockout => ~s.autoMode \/ heat_satisfied(s)
<1>. DEFINE lockout == c.lockout /\ s.autoMode /\ ~heat_satisfied(s)
            e == [c EXCEPT !.lockout = lockout]
            requested == needs_heat(s) /\ e.post = 0 /\ ~lockout
<1>1. c \in Cycle /\ c.pre >= 0
  BY DEF Sound
<1>2. /\ c.heaterOn \in BOOLEAN /\ c.pumpState \in PumpStates
      /\ c.autoStarted \in BOOLEAN /\ c.pre \in Int /\ c.post \in Int
  BY <1>1 DEF Cycle
<1>4. lockout \in BOOLEAN
  OBVIOUS
<1>5. d = CASE s.autoMode /\ requested -> HeatingRequest(s, e)
            [] ~s.autoMode \/ (~requested /\ heat_satisfied(s)) ->
                 [e EXCEPT !.heaterOn = FALSE, !.pre = 0]
            [] OTHER -> e
  BY Zenon DEF AutoControl
<1>. HIDE DEF lockout, e
<1>3. e = [heaterOn |-> c.heaterOn, pumpState |-> c.pumpState,
           autoStarted |-> c.autoStarted, lockout |-> lockout,
           pre |-> c.pre, post |-> c.post]
  BY <1>1, <1>4, SMT DEF Cycle, e
<1>6. e \in Cycle
  BY <1>2, <1>3, <1>4 DEF Cycle
<1>7. /\ e.heaterOn = c.heaterOn /\ e.pumpState = c.pumpState
      /\ e.autoStarted = c.autoStarted
  BY <1>3
<1>8. e.lockout = lockout /\ e.pre = c.pre /\ e.post = c.post
  BY <1>3
<1>9. Sound(e)
  BY <1>6, <1>7, <1>8, Zenon DEF Sound
<1>10. CASE s.autoMode /\ requested
  <2>1. d = HeatingRequest(s, e)
    BY <1>5, <1>10, Zenon
  <2>2. /\ Sound(d) /\ d.post = c.post /\ d.lockout = e.lockout
        /\ d.pre = c.pre \/ (c.pre = 0 /\ d.pre = WholeSeconds(s.pumpPreRunTime))
        /\ d.heaterOn => c.heaterOn \/ (c.pre = 0 /\ c.autoStarted)
    <3>1. s.pumpPreRunTime >= RunTimeMin /\ e.post = 0
      BY <1>10
    <3>2. /\ Sound(d) /\ d.post = e.post /\ d.lockout = e.lockout
          /\ d.pre = e.pre \/ (e.pre = 0 /\ d.pre = WholeSeconds(s.pumpPreRunTime))
          /\ d.heaterOn => e.heaterOn \/ (e.pre = 0 /\ e.autoStarted)
      BY <1>9, <2>1, <3>1, HeatingRequestStage
    <3>. QED
      BY <1>7, <1>8, <3>2, Zenon
  <2>3. ~heat_satisfied(s)
    <3>1. /\ s.filteredWaterTemp \in Int /\ s.setpointTemp \in Int
          /\ s.lowHysteresis \in Int /\ s.highHysteresis \in Int
      BY DEF Settings
    <3>2. needs_heat(s) /\ s.lowHysteresis >= 1 /\ s.highHysteresis >= 1
      BY <1>10 DEF HysteresisMin
    <3>. QED
      BY <3>1, <3>2 DEF needs_heat, heat_satisfied
  <2>4. ~d.lockout
    BY <1>8, <1>10, <2>2, Zenon
  <2>5. ~c.lockout /\ c.post = 0
    BY <1>8, <1>10, <2>3, Zenon DEF lockout
  <2>. QED
    BY <1>10, <2>2, <2>3, <2>4, <2>5, Zenon
<1>11. CASE ~(s.autoMode /\ requested)
            /\ (~s.autoMode \/ (~requested /\ heat_satisfied(s)))
  <2>1. d = [e EXCEPT !.heaterOn = FALSE, !.pre = 0]
    BY <1>5, <1>11, Zenon
  <2>2. d = [heaterOn |-> FALSE, pumpState |-> e.pumpState,
             autoStarted |-> e.autoStarted, lockout |-> e.lockout,
             pre |-> 0, post |-> e.post]
    BY <1>6, <2>1, Zenon DEF Cycle
  <2>3. d \in Cycle
    BY <1>2, <1>4, <1>7, <1>8, <2>2 DEF Cycle
  <2>4. ~d.heaterOn /\ d.pumpState = e.pumpState /\ d.autoStarted = e.autoStarted
    BY <2>2
  <2>5. d.pre = 0 /\ d.post = e.post
    BY <2>2
  <2>6. d.pre >= 0 /\ d.pre <= c.pre /\ ~(d.pre > 0)
    BY <1>1, <1>2, <2>5
  <2>7. d.lockout = lockout
    BY <1>8, <2>2
  <2>8. c.lockout /\ ~d.lockout => ~s.autoMode \/ heat_satisfied(s)
    BY <2>7, Zenon DEF lockout
  <2>. QED
    BY <1>7, <1>8, <2>3, <2>4, <2>5, <2>6, <2>8, Zenon DEF Sound
<1>12. CASE ~(s.autoMode /\ requested)
            /\ ~(~s.autoMode \/ (~requested /\ heat_satisfied(s)))
  <2>1. d = e
    BY <1>5, <1>12, Zenon
  <2>2. c.pre <= c.pre
    BY <1>2
  <2>3. c.lockout /\ ~d.lockout => ~s.autoMode \/ heat_satisfied(s)
    BY <1>8, <2>1, Zenon DEF lockout
  <2>. QED
    BY <1>7, <1>8, <1>9, <1>12, <2>1, <2>2, <2>3, Zenon
<1>. QED
  BY <1>10, <1>11, <1>12, Zenon

(* Stage 3: a heater that goes out arms the cool-down and aborts a         *)
(* pre-purge; nothing else changes.                                        *)
LEMMA FallingEdgeStage ==
  ASSUME NEW s \in Settings, NEW d, Sound(d),
         NEW e, e = DetectFallingEdge(s, d)
  PROVE  /\ Sound(e)
         /\ e.heaterOn = d.heaterOn /\ e.pumpState = d.pumpState
         /\ e.autoStarted = d.autoStarted /\ e.lockout = d.lockout
         /\ e.pre <= d.pre
         /\ IF wasHeating /\ ~d.heaterOn
            THEN e.post = WholeSeconds(s.pumpPostRunTime) /\ e.pre = 0
            ELSE e.post = d.post /\ e.pre = d.pre
<1>. DEFINE cooldown == WholeSeconds(s.pumpPostRunTime)
<1>1. cooldown \in Int
  <2>1. s.pumpPostRunTime \in Int
    BY DEF Settings
  <2>. QED
    BY <2>1, WholeSecondsInt
<1>2. d \in Cycle /\ d.pre >= 0
  BY DEF Sound
<1>3. /\ d.heaterOn \in BOOLEAN /\ d.pumpState \in PumpStates
      /\ d.autoStarted \in BOOLEAN /\ d.lockout \in BOOLEAN
      /\ d.pre \in Int /\ d.pre <= d.pre
  BY <1>2 DEF Cycle
<1>4. CASE wasHeating /\ ~d.heaterOn
  <2>1. e = [d EXCEPT !.post = cooldown, !.pre = 0]
    BY <1>4, Zenon DEF DetectFallingEdge
  <2>. HIDE DEF cooldown
  <2>2. e = [heaterOn |-> d.heaterOn, pumpState |-> d.pumpState,
             autoStarted |-> d.autoStarted, lockout |-> d.lockout,
             pre |-> 0, post |-> cooldown]
    BY <1>2, <2>1, Zenon DEF Cycle
  <2>3. e \in Cycle
    BY <1>1, <1>3, <2>2 DEF Cycle
  <2>4. e.heaterOn = d.heaterOn /\ e.pumpState = d.pumpState
    BY <2>2
  <2>5. e.autoStarted = d.autoStarted /\ e.lockout = d.lockout
    BY <2>2
  <2>6. e.pre = 0 /\ e.post = cooldown
    BY <2>2
  <2>7. e.pre >= 0 /\ e.pre <= d.pre /\ ~(e.pre > 0)
    BY <1>2, <1>3, <2>6
  <2>8. e.post = WholeSeconds(s.pumpPostRunTime)
    BY <2>6 DEF cooldown
  <2>9. e.heaterOn => e.pumpState # "OFF"
    BY <1>4, <2>4
  <2>. QED
    BY <1>4, <2>3, <2>4, <2>5, <2>6, <2>7, <2>8, <2>9, Zenon DEF Sound
<1>5. CASE ~(wasHeating /\ ~d.heaterOn)
  BY <1>3, <1>5, Zenon DEF DetectFallingEdge
<1>. QED
  BY <1>4, <1>5

(* Stage 4: a running cool-down drives the pump at LOW; otherwise a pump   *)
(* the loop owns and no longer needs is stopped.                           *)
LEMMA PostPurgeStage ==
  ASSUME NEW e, Sound(e), NEW f, f = PostPurge(e)
  PROVE  /\ Sound(f)
         /\ f.heaterOn = e.heaterOn /\ f.lockout = e.lockout
         /\ f.pre = e.pre /\ f.post = e.post
         /\ f.autoStarted => e.autoStarted
         /\ f.post > 0 => f.pumpState = "LOW"
         /\ f.pumpState \in {e.pumpState, "OFF"} \/ f.post > 0
         /\ f.autoStarted /\ f.pre = 0 => f.heaterOn \/ f.post # 0
<1>1. e \in Cycle /\ e.pre >= 0
  BY DEF Sound
<1>2. /\ e.heaterOn \in BOOLEAN /\ e.pumpState \in PumpStates
      /\ e.autoStarted \in BOOLEAN /\ e.lockout \in BOOLEAN
      /\ e.pre \in Int /\ e.post \in Int
  BY <1>1 DEF Cycle
<1>3. CASE e.post > 0
  <2>1. f = [e EXCEPT !.pumpState = "LOW"]
    BY <1>3 DEF PostPurge
  <2>2. f = [heaterOn |-> e.heaterOn, pumpState |-> "LOW",
             autoStarted |-> e.autoStarted, lockout |-> e.lockout,
             pre |-> e.pre, post |-> e.post]
    BY <1>1, <2>1, SMT DEF Cycle, PumpStates
  <2>3. f \in Cycle
    BY <1>2, <2>2 DEF Cycle, PumpStates
  <2>4. f.heaterOn = e.heaterOn /\ f.lockout = e.lockout
    BY <2>2
  <2>5. f.pumpState = "LOW" /\ f.autoStarted = e.autoStarted
    BY <2>2
  <2>6. f.pre = e.pre /\ f.post = e.post
    BY <2>2
  <2>7. f.pumpState # "OFF" /\ f.post > 0 /\ f.post # 0
    BY <1>2, <1>3, <2>5, <2>6
  <2>. QED
    BY <1>1, <2>3, <2>4, <2>5, <2>6, <2>7, Zenon DEF Sound
<1>4. CASE ~(e.post > 0) /\ e.post = 0 /\ e.pre = 0 /\ e.autoStarted /\ ~e.heaterOn
  <2>1. f = [e EXCEPT !.pumpState = "OFF", !.autoStarted = FALSE]
    BY <1>4, Zenon DEF PostPurge
  <2>2. f = [heaterOn |-> e.heaterOn, pumpState |-> "OFF",
             autoStarted |-> FALSE, lockout |-> e.lockout,
             pre |-> e.pre, post |-> e.post]
    BY <1>1, <2>1, Zenon DEF Cycle
  <2>3. f \in Cycle
    BY <1>2, <2>2 DEF Cycle, PumpStates
  <2>4. f.heaterOn = e.heaterOn /\ f.lockout = e.lockout
    BY <2>2
  <2>5. f.pumpState = "OFF" /\ ~f.autoStarted
    BY <2>2
  <2>6. f.pre = e.pre /\ f.post = e.post
    BY <2>2
  <2>7. ~(f.pre > 0) /\ ~(f.post > 0)
    BY <1>4, <2>6
  <2>. QED
    BY <1>1, <1>4, <2>3, <2>4, <2>5, <2>6, <2>7, Zenon DEF Sound
<1>5. CASE /\ ~(e.post > 0)
           /\ ~(e.post = 0 /\ e.pre = 0 /\ e.autoStarted /\ ~e.heaterOn)
  <2>1. f = e
    BY <1>5, Zenon DEF PostPurge
  <2>2. f.autoStarted /\ f.pre = 0 => f.heaterOn \/ f.post # 0
    BY <1>5, <2>1, Zenon
  <2>. QED
    BY <1>5, <2>1, <2>2, Zenon
<1>. QED
  BY <1>3, <1>4, <1>5, Zenon

(* A whole pass.                                                           *)
LEMMA Decision ==
  ASSUME TypeOK, PurgesDrivePump, NEW s \in Observations,
         NEW c, c = Decide(s)
  PROVE  /\ s \in Settings
         /\ Sound(c)
         /\ c.heaterOn => s.autoMode /\ ~heat_satisfied(s)
         /\ c.post > 0 => c.pumpState = "LOW"
         /\ IF wasHeating /\ ~c.heaterOn
            THEN c.post = WholeSeconds(s.pumpPostRunTime) /\ c.pre = 0
            ELSE c.post = CountDown(postTimer)
         /\ c.lockout => /\ c.heaterOn => ctl.heaterOn
                         /\ c.pumpState \in {ctl.pumpState, "OFF"} \/ c.post > 0
                         /\ c.autoStarted => autoStarted
                         /\ c.pre <= preTimer
         /\ heatLockout /\ ~c.lockout => ~s.autoMode \/ heat_satisfied(s)
<1>1. /\ s \in Settings /\ s.heaterOn = ctl.heaterOn /\ s.pumpState = ctl.pumpState
      /\ s.autoMode => /\ s.lowHysteresis >= HysteresisMin
                       /\ s.highHysteresis >= HysteresisMin
                       /\ s.pumpPreRunTime >= RunTimeMin
  BY ObservationsAreSettings, Zenon
<1>. DEFINE i == Interlock(BeginCycle(s))
            a == AutoControl(s, i)
            e == DetectFallingEdge(s, a)
<1>2. c = PostPurge(e)
  BY Zenon DEF Decide
<1>3. /\ Sound(i) /\ i.pumpState = s.pumpState /\ (i.heaterOn => s.heaterOn)
      /\ (i.autoStarted => autoStarted) /\ i.pre <= preTimer
      /\ i.post = CountDown(postTimer) /\ (heatLockout => i.lockout)
  BY <1>1, InterlockStage
<1>. HIDE DEF i
<1>4. /\ Sound(a) /\ a.post = i.post
      /\ a.heaterOn => s.autoMode /\ ~heat_satisfied(s)
      /\ a.lockout => /\ a.heaterOn => i.heaterOn
                      /\ a.pumpState = i.pumpState
                      /\ a.autoStarted = i.autoStarted
                      /\ a.pre <= i.pre
      /\ i.lockout /\ ~a.lockout => ~s.autoMode \/ heat_satisfied(s)
  BY <1>1, <1>3, AutoControlStage
<1>. HIDE DEF a
<1>5. /\ Sound(e) /\ e.heaterOn = a.heaterOn /\ e.pumpState = a.pumpState
      /\ e.autoStarted = a.autoStarted /\ e.lockout = a.lockout /\ e.pre <= a.pre
      /\ IF wasHeating /\ ~a.heaterOn
         THEN e.post = WholeSeconds(s.pumpPostRunTime) /\ e.pre = 0
         ELSE e.post = a.post
  BY <1>1, <1>4, FallingEdgeStage
<1>. HIDE DEF e
<1>6. /\ Sound(c) /\ c.heaterOn = e.heaterOn /\ c.lockout = e.lockout
      /\ c.pre = e.pre /\ c.post = e.post
      /\ c.autoStarted => e.autoStarted
      /\ c.post > 0 => c.pumpState = "LOW"
      /\ c.pumpState \in {e.pumpState, "OFF"} \/ c.post > 0
  BY <1>2, <1>5, PostPurgeStage
<1>7. c.lockout => c.pre <= preTimer
  <2>1. i.pre \in Int /\ a.pre \in Int /\ e.pre \in Int /\ preTimer \in Int
    <3>1. i \in Cycle /\ a \in Cycle /\ e \in Cycle
      BY <1>3, <1>4, <1>5, Zenon DEF Sound
    <3>2. preTimer \in Nat
      BY DEF TypeOK
    <3>. QED
      BY <3>1, <3>2 DEF Cycle
  <2>. QED
    BY <1>3, <1>4, <1>5, <1>6, <2>1
<1>. QED
  BY <1>1, <1>3, <1>4, <1>5, <1>6, <1>7, Zenon

-----------------------------------------------------------------------------
(* The inductive invariant.  The pre-purge timer stays a natural number    *)
(* only because the pre-purge it is armed with was clamped, and a decision *)
(* is sound only if the timers it starts from are.                         *)
IInv == TypeOK /\ PurgesDrivePump /\ HeaterInterlock

(* The states after the critical sections that only move ctl: the locals,  *)
(* and the snapshot while it is being published, are as they were.         *)
LEMMA OnlyCtlChanges ==
  ASSUME IInv, ctl' \in Settings, UNCHANGED taskVars,
         snapshot' \in Settings,
         Deciding' => Deciding /\ snapshot' = snapshot,
         pc' \in {"start heater", "start pump", "start sim", "wait",
                  "set heater", "set pump", "write back"}
  PROVE  IInv'
<1>1. TypeOK'
  BY DEF IInv, TypeOK, taskVars
<1>2. PurgesDrivePump'
  BY DEF IInv, PurgesDrivePump, taskVars
<1>3. HeaterInterlock'
  BY DEF IInv, HeaterInterlock, heat_satisfied
<1>. QED
  BY <1>1, <1>2, <1>3 DEF IInv

LEMMA ZeroedIsSettings == Zeroed \in Settings
<1>1. 0 \in Int /\ "OFF" \in PumpStates /\ "NONE" \in SimModes
  BY DEF PumpStates, SimModes
<1>. QED
  BY <1>1, Zenon DEF Zeroed, Settings

LEMMA InitIInv == Init => IInv
<1>. SUFFICES ASSUME Init PROVE IInv
  OBVIOUS
<1>1. ctl \in Settings
  <2>1. \A t : t \in Temperatures \/ t \in Setpoints \/ t \in HysteresisValues
               \/ t \in PreRunTimes \/ t \in PostRunTimes => t \in Int
    BY InputsAreTenths
  <2>. QED
    BY <2>1 DEF Init, Settings
<1>2. snapshot \in Settings
  BY ZeroedIsSettings DEF Init
<1>3. preTimer = 0 /\ postTimer = 0
  BY DEF Init
<1>4. TypeOK
  <2>1. preTimer \in Nat /\ postTimer \in Int
    BY <1>3
  <2>2. lastPump \in PumpStates
    BY DEF Init, PumpStates
  <2>. QED
    BY <1>1, <1>2, <2>1, <2>2, Zenon DEF Init, TypeOK
<1>5. PurgesDrivePump
  <2>1. ~(preTimer > 0) /\ ~(postTimer > 0)
    BY <1>3
  <2>. QED
    BY <2>1, Zenon DEF PurgesDrivePump
<1>6. HeaterInterlock
  BY DEF Init, HeaterInterlock, Deciding
<1>. QED
  BY <1>4, <1>5, <1>6 DEF IInv

LEMMA SampleIInv ==
  ASSUME IInv, Sample
  PROVE  IInv'
<1>. USE DEF IInv
<1>1. PICK s \in Observations :
         LET c == Decide(s)
         IN /\ snapshot' = [s EXCEPT !.heaterOn = c.heaterOn, !.pumpState = c.pumpState]
            /\ autoStarted' = c.autoStarted
            /\ wasHeating' = c.heaterOn
            /\ heatLockout' = c.lockout
            /\ preTimer' = c.pre
            /\ postTimer' = c.post
            /\ lastPump' = c.pumpState
  BY DEF Sample
<1>2. pc' = "set heater" /\ ctl' = ctl
  BY DEF Sample, Goto
<1>. DEFINE c == Decide(s)
<1>3. /\ s \in Settings /\ Sound(c)
      /\ c.heaterOn => s.autoMode /\ ~heat_satisfied(s)
      /\ c.post > 0 => c.pumpState = "LOW"
  BY Decision
<1>4. /\ snapshot' = [s EXCEPT !.heaterOn = c.heaterOn, !.pumpState = c.pumpState]
      /\ autoStarted' = c.autoStarted /\ wasHeating' = c.heaterOn
      /\ heatLockout' = c.lockout /\ preTimer' = c.pre
      /\ postTimer' = c.post /\ lastPump' = c.pumpState
  BY <1>1
<1>. HIDE DEF c
<1>5. /\ c.heaterOn \in BOOLEAN /\ c.pumpState \in PumpStates
      /\ c.autoStarted \in BOOLEAN /\ c.lockout \in BOOLEAN
      /\ c.pre \in Nat /\ c.post \in Int
  <2>1. c \in Cycle /\ c.pre >= 0
    BY <1>3, Zenon DEF Sound
  <2>. QED
    BY <2>1 DEF Cycle
<1>6. /\ snapshot' \in Settings /\ snapshot'.heaterOn = c.heaterOn
      /\ snapshot'.pumpState = c.pumpState /\ snapshot'.autoMode = s.autoMode
      /\ snapshot'.filteredWaterTemp = s.filteredWaterTemp
      /\ snapshot'.setpointTemp = s.setpointTemp
      /\ snapshot'.highHysteresis = s.highHysteresis
  <2>1. snapshot' = [[s EXCEPT !.heaterOn = c.heaterOn] EXCEPT !.pumpState = c.pumpState]
    BY <1>3, <1>4 DEF Settings
  <2>. QED
    BY <1>3, <1>5, <2>1 DEF Settings
<1>7. TypeOK'
  BY <1>2, <1>4, <1>5, <1>6, Zenon DEF TypeOK
<1>8. PurgesDrivePump'
  BY <1>3, <1>4, Zenon DEF PurgesDrivePump, Sound
<1>9. HeaterInterlock'
  <2>1. heat_satisfied(snapshot)' <=> heat_satisfied(s)
    BY <1>6 DEF heat_satisfied
  <2>. QED
    BY <1>3, <1>6, <2>1, Zenon DEF HeaterInterlock, Sound
<1>. QED
  BY <1>7, <1>8, <1>9

LEMMA NextIInv == IInv /\ [Next]_vars => IInv'
<1>. SUFFICES ASSUME IInv, [Next]_vars PROVE IInv'
  OBVIOUS
<1>1. ctl \in Settings /\ snapshot \in Settings /\ pc \in {"start heater", "start pump", "start sim", "wait", "set heater", "set pump", "write back"}
  BY DEF IInv, TypeOK
<1>2. CASE Startup
  <2>1. ctl' \in Settings
    <3>1. FALSE \in BOOLEAN /\ "OFF" \in PumpStates /\ "NONE" \in SimModes
      BY DEF PumpStates, SimModes
    <3> QED
      BY <1>1, <1>2, <3>1 DEF Startup, StartHeaterOff, StartPumpOff, StartSimNone, Settings
  <2>2. /\ UNCHANGED taskVars /\ snapshot' = snapshot
        /\ pc' \in {"start pump", "start sim", "wait"}
    BY <1>2 DEF Startup, StartHeaterOff, StartPumpOff, StartSimNone, Goto
  <2>. QED
    BY <1>1, <2>1, <2>2, OnlyCtlChanges DEF Deciding
<1>3. CASE Sample
  BY <1>3, SampleIInv
<1>4. CASE WriteHeater
  <2>1. ctl' \in Settings
    BY <1>1, <1>4 DEF WriteHeater, Settings
  <2>. QED
    BY <1>1, <1>4, <2>1, OnlyCtlChanges DEF WriteHeater, Goto, Deciding
<1>5. CASE WritePump
  <2>1. ctl' \in Settings
    BY <1>1, <1>5 DEF WritePump, Settings
  <2>. QED
    BY <1>1, <1>5, <2>1, OnlyCtlChanges DEF WritePump, Goto, Deciding
<1>6. CASE WriteBack
  <2>1. ctl' \in Settings
    BY <1>1, <1>6 DEF WriteBack
  <2>2. snapshot' \in Settings
    BY <1>6, ZeroedIsSettings DEF WriteBack
  <2>. QED
    BY <1>6, <2>1, <2>2, OnlyCtlChanges DEF WriteBack, Goto, Deciding
<1>7. CASE Sensor \/ Client
  <2>1. ctl' \in Settings
    <3>1. \A t : t \in Temperatures \/ t \in Setpoints \/ t \in HysteresisValues
                 \/ t \in PreRunTimes \/ t \in PostRunTimes => t \in Int
      BY InputsAreTenths
    <3>2. CASE Sensor
      BY <1>1, <3>1, <3>2 DEF Sensor, ReadSensor, Settings
    <3>3. CASE \E on \in BOOLEAN : SetHeaterOn(on) \/ SetAutoMode(on)
      BY <1>1, <3>3 DEF SetHeaterOn, SetAutoMode, ClientWrites, Settings
    <3>4. CASE \E m \in SimModes : SetSimulationMode(m)
      BY <1>1, <3>4 DEF SetSimulationMode, ClientWrites, Settings
    <3>5. CASE \E t \in Temperatures : SetFilteredWaterTemp(t)
      BY <1>1, <3>1, <3>5 DEF SetFilteredWaterTemp, ClientWrites, Settings
    <3>6. CASE \E t \in Setpoints : SetSetpointTemp(t)
      BY <1>1, <3>1, <3>6 DEF SetSetpointTemp, ClientWrites, Settings
    <3>7. CASE \E h \in HysteresisValues : SetLowHysteresis(h) \/ SetHighHysteresis(h)
      BY <1>1, <3>1, <3>7 DEF SetLowHysteresis, SetHighHysteresis, ClientWrites, Settings
    <3>8. CASE \E t \in PreRunTimes : SetPumpPreRunTime(t)
      BY <1>1, <3>1, <3>8 DEF SetPumpPreRunTime, ClientWrites, Settings
    <3>9. CASE \E t \in PostRunTimes : SetPumpPostRunTime(t)
      BY <1>1, <3>1, <3>9 DEF SetPumpPostRunTime, ClientWrites, Settings
    <3>10. CASE \E p \in PumpStates : SetPumpState(p)
      BY <1>1, <3>10 DEF SetPumpState, ClientWrites, Settings
    <3>. QED
      BY <1>7, <3>2, <3>3, <3>4, <3>5, <3>6, <3>7, <3>8, <3>9, <3>10 DEF Client, OtherCommand
  <2>2. UNCHANGED <<snapshot, taskVars, pc>>
    BY <1>7 DEF Sensor, ReadSensor, Client, OtherCommand, ClientWrites,
       SetHeaterOn, SetAutoMode, SetPumpState, SetSimulationMode, SetFilteredWaterTemp,
       SetSetpointTemp, SetLowHysteresis, SetHighHysteresis, SetPumpPreRunTime,
       SetPumpPostRunTime
  <2>. QED
    BY <1>1, <2>1, <2>2, OnlyCtlChanges DEF Deciding
<1>8. CASE UNCHANGED vars
  BY <1>1, <1>8, OnlyCtlChanges DEF vars, taskVars, Deciding
<1>. QED
  BY <1>2, <1>3, <1>4, <1>5, <1>6, <1>7, <1>8 DEF Next, ControlLoop, Publish

-----------------------------------------------------------------------------
LEMMA Inductive == Spec => []IInv
<1>1. IInv /\ [Next]_vars => IInv'
  BY NextIInv
<1>. QED
  BY InitIInv, <1>1, PTL DEF Spec

(* Type correctness of the control loop, for every input.                  *)
THEOREM TypeCorrect == Spec => []TypeOK
<1>1. IInv => TypeOK
  BY DEF IInv
<1>. QED
  BY Inductive, <1>1, PTL

(* For every temperature, setpoint, hysteresis and run time a client may   *)
(* send, valid or not, the loop decides to burn only in auto mode, over a  *)
(* pump it keeps running and below the upper threshold.                    *)
THEOREM HeaterIsInterlocked == Spec => []HeaterInterlock
<1>1. IInv => HeaterInterlock
  BY DEF IInv
<1>. QED
  BY Inductive, <1>1, PTL

(* For every input, the purges never overlap and always drive the pump.    *)
THEOREM PurgesAlwaysDrivePump == Spec => []PurgesDrivePump
<1>1. IInv => PurgesDrivePump
  BY DEF IInv
<1>. QED
  BY Inductive, <1>1, PTL

-----------------------------------------------------------------------------
LEMMA OnlySampleDecides ==
  ASSUME [Next]_vars
  PROVE  Sample \/ UNCHANGED taskVars
<1>. QED
  BY DEF Next, ControlLoop, Startup, StartHeaterOff, StartPumpOff, StartSimNone,
         Publish, WriteHeater, WritePump, WriteBack, Sensor, ReadSensor, Client,
         OtherCommand, ClientWrites, SetHeaterOn, SetAutoMode, SetPumpState,
         SetSimulationMode, SetFilteredWaterTemp, SetSetpointTemp, SetLowHysteresis,
         SetHighHysteresis, SetPumpPreRunTime, SetPumpPostRunTime, vars, taskVars

LEMMA OnlySampleStartsPublishing ==
  ASSUME [Next]_vars, pc = "wait", pc' = "set heater"
  PROVE  Sample
<1>. QED
  BY DEF Next, ControlLoop, Startup, StartHeaterOff, StartPumpOff, StartSimNone,
         Publish, WriteHeater, WritePump, WriteBack, Sensor, ReadSensor, Client,
         OtherCommand, ClientWrites, SetHeaterOn, SetAutoMode, SetPumpState,
         SetSimulationMode, SetFilteredWaterTemp, SetSetpointTemp, SetLowHysteresis,
         SetHighHysteresis, SetPumpPreRunTime, SetPumpPostRunTime, Goto, vars

(* What a pass leaves in the locals and the snapshot, in one place.        *)
LEMMA SampleDecides ==
  ASSUME IInv, Sample
  PROVE  \E s \in Observations :
           LET c == Decide(s)
           IN /\ autoStarted' = c.autoStarted /\ wasHeating' = c.heaterOn
              /\ heatLockout' = c.lockout /\ preTimer' = c.pre
              /\ postTimer' = c.post /\ lastPump' = c.pumpState
              /\ snapshot' = [s EXCEPT !.heaterOn = c.heaterOn, !.pumpState = c.pumpState]
              /\ snapshot' \in Settings
              /\ snapshot'.heaterOn = c.heaterOn
              /\ snapshot'.pumpState = c.pumpState
              /\ snapshot'.autoMode = s.autoMode
              /\ heat_satisfied(snapshot') <=> heat_satisfied(s)
<1>1. PICK s \in Observations :
         LET c == Decide(s)
         IN /\ snapshot' = [s EXCEPT !.heaterOn = c.heaterOn, !.pumpState = c.pumpState]
            /\ autoStarted' = c.autoStarted /\ wasHeating' = c.heaterOn
            /\ heatLockout' = c.lockout /\ preTimer' = c.pre
            /\ postTimer' = c.post /\ lastPump' = c.pumpState
  BY DEF Sample
<1>. DEFINE c == Decide(s)
<1>2. s \in Settings /\ Sound(c)
  BY Decision DEF IInv
<1>3. snapshot' = [s EXCEPT !.heaterOn = c.heaterOn, !.pumpState = c.pumpState]
  BY <1>1
<1>4. /\ snapshot' \in Settings /\ snapshot'.heaterOn = c.heaterOn
      /\ snapshot'.pumpState = c.pumpState /\ snapshot'.autoMode = s.autoMode
      /\ heat_satisfied(snapshot') <=> heat_satisfied(s)
  <2>. HIDE DEF c
  <2>1. c.heaterOn \in BOOLEAN /\ c.pumpState \in PumpStates
    BY <1>2 DEF Sound, Cycle
  <2>2. snapshot' = [[s EXCEPT !.heaterOn = c.heaterOn] EXCEPT !.pumpState = c.pumpState]
    BY <1>2, <1>3 DEF Settings
  <2>3. /\ snapshot'.filteredWaterTemp = s.filteredWaterTemp
        /\ snapshot'.setpointTemp = s.setpointTemp
        /\ snapshot'.highHysteresis = s.highHysteresis
    BY <1>2, <2>2 DEF Settings
  <2>4. heat_satisfied(snapshot') <=> heat_satisfied(s)
    BY <2>3 DEF heat_satisfied
  <2>. QED
    BY <1>2, <2>1, <2>2, <2>4 DEF Settings
<1>. QED
  BY <1>1, <1>4, Zenon

(* For every input, a pass that ends locked out neither lights the heater  *)
(* nor starts or claims the pump, and the lockout ends in a pass that saw  *)
(* manual mode or water above the upper threshold.                         *)
THEOREM LockoutAlwaysHolds == Spec => LockoutHolds
<1>1. ASSUME IInv, [Next]_vars, pc = "wait", pc' = "set heater"
      PROVE  /\ heatLockout' => /\ snapshot'.heaterOn => ctl.heaterOn
                                /\ \/ snapshot'.pumpState \in {ctl.pumpState, "OFF"}
                                   \/ postTimer' > 0
                                /\ autoStarted' => autoStarted
                                /\ preTimer' <= preTimer
             /\ heatLockout /\ ~heatLockout' =>
                  ~snapshot'.autoMode \/ heat_satisfied(snapshot')
  <2>1. Sample
    BY <1>1, OnlySampleStartsPublishing
  <2>2. PICK s \in Observations :
           LET c == Decide(s)
           IN /\ autoStarted' = c.autoStarted /\ heatLockout' = c.lockout
              /\ preTimer' = c.pre /\ postTimer' = c.post
              /\ snapshot'.heaterOn = c.heaterOn
              /\ snapshot'.pumpState = c.pumpState
              /\ snapshot'.autoMode = s.autoMode
              /\ heat_satisfied(snapshot') <=> heat_satisfied(s)
    BY <1>1, <2>1, SampleDecides, Zenon
  <2>. DEFINE c == Decide(s)
  <2>3. /\ c.lockout => /\ c.heaterOn => ctl.heaterOn
                        /\ c.pumpState \in {ctl.pumpState, "OFF"} \/ c.post > 0
                        /\ c.autoStarted => autoStarted
                        /\ c.pre <= preTimer
        /\ heatLockout /\ ~c.lockout => ~s.autoMode \/ heat_satisfied(s)
    BY <1>1, Decision DEF IInv
  <2>. HIDE DEF c
  <2>4. /\ autoStarted' = c.autoStarted /\ heatLockout' = c.lockout
        /\ preTimer' = c.pre /\ postTimer' = c.post
        /\ snapshot'.heaterOn = c.heaterOn /\ snapshot'.pumpState = c.pumpState
    BY <2>2, Zenon DEF c
  <2>5. heatLockout' =>
          /\ snapshot'.heaterOn => ctl.heaterOn
          /\ snapshot'.pumpState \in {ctl.pumpState, "OFF"} \/ postTimer' > 0
          /\ autoStarted' => autoStarted
          /\ preTimer' <= preTimer
    <3>1. (snapshot'.heaterOn => c.heaterOn) /\ (autoStarted' => c.autoStarted)
      BY <2>4, Zenon
    <3>2. /\ c.pre <= preTimer => preTimer' <= preTimer
          /\ c.post > 0 => postTimer' > 0
          /\ heatLockout' => c.lockout
      BY <2>4, Zenon
    <3>. QED
      BY <2>3, <2>4, <3>1, <3>2, Zenon
  <2>6. heatLockout /\ ~heatLockout' => ~snapshot'.autoMode \/ heat_satisfied(snapshot')
    <3>1. /\ ~heatLockout' => ~c.lockout
          /\ ~s.autoMode => ~snapshot'.autoMode
          /\ heat_satisfied(s) => heat_satisfied(snapshot')
      BY <2>2, Zenon DEF c
    <3>. QED
      BY <2>3, <3>1, Zenon
  <2>. QED
    BY <2>5, <2>6, Zenon
<1>2. IInv /\ [Next]_vars =>
        [pc = "wait" /\ pc' = "set heater" =>
           /\ heatLockout' => /\ snapshot'.heaterOn => ctl.heaterOn
                              /\ \/ snapshot'.pumpState \in {ctl.pumpState, "OFF"}
                                 \/ postTimer' > 0
                              /\ autoStarted' => autoStarted
                              /\ preTimer' <= preTimer
           /\ heatLockout /\ ~heatLockout' =>
                ~snapshot'.autoMode \/ heat_satisfied(snapshot')]_vars
  BY <1>1, Zenon
<1>. QED
  BY Inductive, <1>2, PTL DEF Spec, LockoutHolds

-----------------------------------------------------------------------------
(* The heating cycle.                                                      *)

(* One pass: the decision as the abstract cycle sees it.  The run time of  *)
(* a cool-down is clamped in auto mode only.                               *)
LEMMA PassOfCycle ==
  ASSUME IInv, Sample
  PROVE  /\ preTimer' \in Nat /\ postTimer' \in Int /\ postTimer \in Int
         /\ wasHeating' \in BOOLEAN /\ lastPump' \in PumpStates
         /\ snapshot'.autoMode \in BOOLEAN
         /\ wasHeating' => lastPump' # "OFF" /\ snapshot'.autoMode
         /\ preTimer' > 0 => postTimer' <= 0 /\ lastPump' # "OFF"
         /\ postTimer' > 0 => lastPump' = "LOW"
         /\ IF wasHeating /\ ~wasHeating'
            THEN /\ preTimer' = 0
                 /\ snapshot'.autoMode =>
                      /\ postTimer' >= WholeSeconds(RunTimeMin)
                      /\ postTimer' <= WholeSeconds(RunTimeMax)
            ELSE postTimer' = CountDown(postTimer)
<1>1. PICK s \in Observations :
         LET c == Decide(s)
         IN /\ wasHeating' = c.heaterOn /\ preTimer' = c.pre
            /\ postTimer' = c.post /\ lastPump' = c.pumpState
            /\ snapshot'.autoMode = s.autoMode
  BY SampleDecides, Zenon
<1>. DEFINE c == Decide(s)
<1>2. /\ s \in Settings /\ Sound(c)
      /\ c.heaterOn => s.autoMode
      /\ c.post > 0 => c.pumpState = "LOW"
      /\ IF wasHeating /\ ~c.heaterOn
         THEN c.post = WholeSeconds(s.pumpPostRunTime) /\ c.pre = 0
         ELSE c.post = CountDown(postTimer)
  BY Decision DEF IInv
<1>3. /\ wasHeating' = c.heaterOn /\ preTimer' = c.pre
      /\ postTimer' = c.post /\ lastPump' = c.pumpState
      /\ snapshot'.autoMode = s.autoMode
  BY <1>1, Zenon
<1>. HIDE DEF c
<1>4. s.autoMode \in BOOLEAN /\ s.pumpPostRunTime \in Int
  BY <1>2 DEF Settings
<1>5. s.autoMode => /\ WholeSeconds(s.pumpPostRunTime) >= WholeSeconds(RunTimeMin)
                    /\ WholeSeconds(s.pumpPostRunTime) <= WholeSeconds(RunTimeMax)
  <2>1. s.autoMode => s.pumpPostRunTime >= RunTimeMin /\ s.pumpPostRunTime <= RunTimeMax
    BY ObservationsAreSettings DEF IInv
  <2>2. WholeSeconds(RunTimeMin) = 1
    BY DEF WholeSeconds, RunTimeMin
  <2>. QED
    BY <1>4, <2>1, <2>2, WholeSecondsInt
<1>6. /\ c \in Cycle /\ c.pre >= 0 /\ (c.heaterOn => c.pumpState # "OFF")
      /\ c.pre > 0 => c.post <= 0 /\ c.pumpState # "OFF"
  BY <1>2, Zenon DEF Sound
<1>7. /\ c.pre \in Nat /\ c.post \in Int
      /\ c.heaterOn \in BOOLEAN /\ c.pumpState \in PumpStates
  BY <1>6 DEF Cycle
<1>8. postTimer \in Int
  BY DEF IInv, TypeOK
<1>9. IF wasHeating /\ ~wasHeating'
      THEN /\ preTimer' = 0
           /\ snapshot'.autoMode => /\ postTimer' >= WholeSeconds(RunTimeMin)
                                    /\ postTimer' <= WholeSeconds(RunTimeMax)
      ELSE postTimer' = CountDown(postTimer)
  <2>1. CASE wasHeating /\ ~c.heaterOn
    BY <1>2, <1>3, <1>5, <2>1, Zenon
  <2>2. CASE ~(wasHeating /\ ~c.heaterOn)
    BY <1>2, <1>3, <2>2, Zenon
  <2>. QED
    BY <2>1, <2>2
<1>. QED
  BY <1>2, <1>3, <1>4, <1>6, <1>7, <1>8, <1>9, Zenon

(* The cool-down the loop owes: a negative timer owes none.                *)
Owed(n) == IF n > 0 THEN n ELSE 0

LEMMA OwedElapses ==
  ASSUME NEW n \in Int
  PROVE  /\ Owed(n) \in Nat
         /\ Owed(CountDown(n)) = IF Owed(n) > 0 THEN Owed(n) - 1 ELSE 0
         /\ n > 0 => Owed(n) = n /\ Owed(n) > 0
         /\ ~(n > 0) => Owed(n) = 0
         /\ CountDown(n) > 0 => n > 0
BY DEF Owed, CountDown

(* Every pass is a step of the heating cycle: a burn, the quench that ends *)
(* one, a second of cool-down, a second of pre-purge, or rest.             *)
LEMMA PassRefines ==
  ASSUME IInv, Sample
  PROVE  Promised!Decide
<1>1. /\ preTimer' \in Nat /\ postTimer' \in Int /\ postTimer \in Int
      /\ wasHeating' \in BOOLEAN /\ lastPump' \in PumpStates
      /\ snapshot'.autoMode \in BOOLEAN
      /\ wasHeating' => lastPump' # "OFF" /\ snapshot'.autoMode
      /\ preTimer' > 0 => postTimer' <= 0 /\ lastPump' # "OFF"
      /\ postTimer' > 0 => lastPump' = "LOW"
      /\ IF wasHeating /\ ~wasHeating'
         THEN /\ preTimer' = 0
              /\ snapshot'.autoMode =>
                   /\ postTimer' >= WholeSeconds(RunTimeMin)
                   /\ postTimer' <= WholeSeconds(RunTimeMax)
         ELSE postTimer' = CountDown(postTimer)
  BY PassOfCycle
<1>2. /\ (IF postTimer > 0 THEN postTimer ELSE 0) = Owed(postTimer)
      /\ (IF postTimer > 0 THEN postTimer ELSE 0)' = Owed(postTimer')
  BY DEF Owed
<1>3. /\ lastPump' \in {"OFF", "LOW", "HIGH"}
      /\ lastPump' # "OFF" => lastPump' \in {"LOW", "HIGH"}
  BY <1>1 DEF PumpStates
<1>4. /\ (Deciding /\ ~snapshot.autoMode)' = (~snapshot'.autoMode)
      /\ (Deciding /\ ~snapshot.autoMode)' \in BOOLEAN
  <2>1. Deciding'
    BY DEF Sample, Goto, Deciding
  <2>. QED
    BY <2>1, Zenon
<1>5. ~(wasHeating /\ ~wasHeating') => Promised!Elapse
  <2>1. SUFFICES ASSUME ~(wasHeating /\ ~wasHeating') PROVE Promised!Elapse
    OBVIOUS
  <2>2. postTimer' = CountDown(postTimer)
    BY <1>1, <2>1, Zenon
  <2>3. Owed(postTimer') = IF Owed(postTimer) > 0 THEN Owed(postTimer) - 1 ELSE 0
    BY <1>1, <2>2, OwedElapses
  <2>. QED
    BY <1>2, <2>3, Zenon DEF Promised!Elapse
<1>6. /\ postTimer' > 0 => Owed(postTimer') = postTimer' /\ Owed(postTimer') > 0
      /\ ~(postTimer' > 0) => Owed(postTimer') = 0
      /\ Owed(postTimer') \in Nat
  BY <1>1, OwedElapses
<1>7. CASE wasHeating'
  <2>1. Mode' = "Heating"
    BY <1>7 DEF Mode
  <2>2. lastPump' \in {"LOW", "HIGH"} /\ ~(Deciding /\ ~snapshot.autoMode)'
    BY <1>1, <1>3, <1>4, <1>7, Zenon
  <2>3. (IF postTimer > 0 THEN postTimer ELSE 0)' > 0 => lastPump' = "LOW"
    <3>1. CASE postTimer' > 0
      BY <1>1, <3>1, Zenon
    <3>2. CASE ~(postTimer' > 0)
      BY <1>2, <1>6, <3>2
    <3>. QED
      BY <3>1, <3>2
  <2>. QED
    BY <1>4, <1>5, <1>7, <2>1, <2>2, <2>3, Zenon DEF Promised!Decide, Promised!Burn
<1>8. CASE ~wasHeating' /\ wasHeating
  <2>1. Mode = "Heating"
    BY <1>8 DEF Mode
  <2>2. CASE postTimer' > 0
    <3>1. Mode' = "Cooling"
      BY <1>8, <2>2, Zenon DEF Mode
    <3>2. (IF postTimer > 0 THEN postTimer ELSE 0)' \in Nat \ {0}
      BY <1>2, <1>6, <2>2
    <3>3. ~(Deciding /\ ~snapshot.autoMode)' =>
            (IF postTimer > 0 THEN postTimer ELSE 0)' \in
               WholeSeconds(RunTimeMin) .. WholeSeconds(RunTimeMax)
      <4>1. SUFFICES ASSUME snapshot'.autoMode
                     PROVE  postTimer' \in WholeSeconds(RunTimeMin) .. WholeSeconds(RunTimeMax)
        BY <1>2, <1>4, <1>6, <2>2, Zenon
      <4>2. /\ postTimer' >= WholeSeconds(RunTimeMin)
            /\ postTimer' <= WholeSeconds(RunTimeMax)
        BY <1>1, <1>8, <4>1, Zenon
      <4>3. WholeSeconds(RunTimeMin) \in Int /\ WholeSeconds(RunTimeMax) \in Int
        BY WholeSecondsInt DEF RunTimeMin, RunTimeMax
      <4>. QED
        BY <1>1, <4>2, <4>3
    <3>4. lastPump' = "LOW"
      BY <1>1, <2>2, Zenon
    <3>. QED
      BY <1>4, <2>1, <3>1, <3>2, <3>3, <3>4, Zenon DEF Promised!Decide, Promised!Quench
  <2>3. CASE ~(postTimer' > 0)
    <3>1. preTimer' = 0
      BY <1>1, <1>8, Zenon
    <3>2. ~(preTimer' > 0)
      BY <3>1
    <3>3. Mode' = "Idle"
      BY <1>8, <2>3, <3>2, Zenon DEF Mode
    <3>4. (IF postTimer > 0 THEN postTimer ELSE 0)' = 0
      BY <1>2, <1>6, <2>3, Zenon
    <3>5. (Deciding /\ ~snapshot.autoMode)'
      <4>1. SUFFICES ASSUME snapshot'.autoMode PROVE FALSE
        BY <1>1, <1>4, Zenon
      <4>2. postTimer' >= WholeSeconds(RunTimeMin)
        BY <1>1, <1>8, <4>1, Zenon
      <4>3. WholeSeconds(RunTimeMin) = 1
        BY DEF WholeSeconds, RunTimeMin
      <4>. QED
        BY <1>1, <2>3, <4>2, <4>3
    <3>. QED
      BY <1>3, <1>4, <2>1, <3>3, <3>4, <3>5, Zenon
         DEF Promised!Decide, Promised!QuenchUncooled
  <2>. QED
    BY <2>2, <2>3
<1>9. CASE ~wasHeating' /\ ~wasHeating
  <2>1. Mode # "Heating"
    <3>1. Mode = IF postTimer > 0 THEN "Cooling"
                 ELSE IF preTimer > 0 THEN "Priming" ELSE "Idle"
      BY <1>9, Zenon DEF Mode
    <3>. QED
      BY <3>1
  <2>2. CASE postTimer' > 0
    <3>1. postTimer > 0
      <4>1. postTimer' = CountDown(postTimer)
        BY <1>1, <1>9, Zenon
      <4>. QED
        BY <1>1, <2>2, <4>1, OwedElapses
    <3>2. Mode = "Cooling" /\ Mode' = "Cooling"
      BY <1>9, <2>2, <3>1, Zenon DEF Mode
    <3>3. (IF postTimer > 0 THEN postTimer ELSE 0)' > 0 /\ lastPump' = "LOW"
      BY <1>1, <1>2, <1>6, <2>2, Zenon
    <3>. QED
      BY <1>4, <1>5, <1>9, <3>2, <3>3, Zenon DEF Promised!Decide, Promised!Cool
  <2>3. CASE ~(postTimer' > 0) /\ preTimer' > 0
    <3>1. Mode' = "Priming"
      BY <1>9, <2>3, Zenon DEF Mode
    <3>2. (IF postTimer > 0 THEN postTimer ELSE 0)' = 0 /\ lastPump' \in {"LOW", "HIGH"}
      BY <1>1, <1>2, <1>3, <1>6, <2>3, Zenon
    <3>. QED
      BY <1>4, <1>5, <1>9, <2>1, <3>1, <3>2, Zenon DEF Promised!Decide, Promised!Prime
  <2>4. CASE ~(postTimer' > 0) /\ ~(preTimer' > 0)
    <3>1. Mode' = "Idle"
      BY <1>9, <2>4, Zenon DEF Mode
    <3>2. (IF postTimer > 0 THEN postTimer ELSE 0)' = 0
      BY <1>2, <1>6, <2>4, Zenon
    <3>. QED
      BY <1>3, <1>4, <1>5, <1>9, <2>1, <3>1, <3>2, Zenon DEF Promised!Decide, Promised!Rest
  <2>. QED
    BY <2>2, <2>3, <2>4
<1>. QED
  BY <1>7, <1>8, <1>9

(* Between two passes only the carrying out of a decision is seen, and its *)
(* end.                                                                    *)
LEMMA OnlyWriteBackSettles ==
  ASSUME IInv, [Next]_vars, ~Sample
  PROVE  \/ (Deciding' <=> Deciding) /\ snapshot' = snapshot
         \/ ~Deciding'
<1>. QED
  BY DEF Next, ControlLoop, Startup, StartHeaterOff, StartPumpOff,
         StartSimNone, Publish, WriteHeater, WritePump, WriteBack, Sensor, ReadSensor,
         Client, OtherCommand, ClientWrites, SetHeaterOn, SetAutoMode, SetPumpState,
         SetSimulationMode, SetFilteredWaterTemp, SetSetpointTemp, SetLowHysteresis,
         SetHighHysteresis, SetPumpPreRunTime, SetPumpPostRunTime, Goto, Deciding,
         vars

(* The loop implements the heating cycle for every input, run times below  *)
(* the minimum or negative included: no burn without a pump or in manual   *)
(* mode, every burn is followed by its whole cool-down, and one that ends  *)
(* in auto mode has a cool-down within the limits.                         *)
THEOREM LoopImplementsHeatingCycle == Spec => ImplementsHeatingCycle
<1>1. Init => Promised!Init
  <2>. SUFFICES ASSUME Init PROVE Promised!Init
    OBVIOUS
  <2>1. lastPump = "OFF" /\ ~wasHeating /\ ~Deciding
    BY DEF Init, Deciding
  <2>2. preTimer = 0 /\ postTimer = 0
    BY DEF Init
  <2>3. ~(preTimer > 0) /\ ~(postTimer > 0)
    BY <2>2
  <2>4. Mode = "Idle" /\ (IF postTimer > 0 THEN postTimer ELSE 0) = 0
    BY <2>1, <2>3, Zenon DEF Mode
  <2>. QED
    BY <2>1, <2>4, Zenon DEF Promised!Init
<1>2. IInv /\ [Next]_vars => [Promised!Next]_(Promised!vars)
  <2>. SUFFICES ASSUME IInv, [Next]_vars
                PROVE  [Promised!Next]_(Promised!vars)
    OBVIOUS
  <2>1. CASE Sample
    BY <2>1, PassRefines DEF Promised!Next
  <2>2. CASE ~Sample
    <3>1. UNCHANGED taskVars
      BY <2>2, OnlySampleDecides
    <3>2. /\ Mode' = Mode /\ lastPump' = lastPump
          /\ (IF postTimer > 0 THEN postTimer ELSE 0)' = IF postTimer > 0 THEN postTimer ELSE 0
      BY <3>1 DEF taskVars, Mode
    <3>3. CASE (Deciding' <=> Deciding) /\ snapshot' = snapshot
      <4>1. (Deciding /\ ~snapshot.autoMode)' = (Deciding /\ ~snapshot.autoMode)
        BY <3>3, Zenon
      <4>. QED
        BY <3>2, <4>1 DEF Promised!vars
    <3>4. CASE ~Deciding'
      <4>1. (Deciding /\ ~snapshot.autoMode)' = FALSE
        BY <3>4, Zenon
      <4>. QED
        BY <3>2, <4>1, Zenon DEF Promised!Next, Promised!Settle
    <3>. QED
      BY <2>2, <3>3, <3>4, OnlyWriteBackSettles
  <2>. QED
    BY <2>1, <2>2
<1>. QED
  BY Inductive, <1>1, <1>2, PTL DEF Spec, ImplementsHeatingCycle, Promised!Spec

-----------------------------------------------------------------------------
(* What the pass says of its purges: an armed pre-purge lasts at most the  *)
(* longest run time; the heater is lit at its end, or when the loop owns   *)
(* the pump and no cool-down is left; a pump the loop owns without a       *)
(* pre-purge runs for the heater or for a cool-down.                       *)
LEMMA DecisionPurge ==
  ASSUME TypeOK, PurgesDrivePump, NEW s \in Observations,
         NEW c, c = Decide(s)
  PROVE  /\ c.pre > 0 => \/ c.pre = CountDown(preTimer)
                         \/ /\ CountDown(preTimer) = 0
                            /\ c.pre <= WholeSeconds(RunTimeMax)
         /\ c.heaterOn => \/ ctl.heaterOn
                          \/ CountDown(preTimer) = 0 /\ autoStarted /\ CountDown(postTimer) = 0
         /\ c.autoStarted /\ c.pre = 0 => c.heaterOn \/ c.post # 0
         /\ c.autoStarted => autoStarted \/ CountDown(postTimer) = 0
<1>1. /\ s \in Settings /\ s.heaterOn = ctl.heaterOn
      /\ s.autoMode => /\ s.lowHysteresis >= HysteresisMin
                       /\ s.highHysteresis >= HysteresisMin
                       /\ s.pumpPreRunTime >= RunTimeMin
                       /\ s.pumpPreRunTime <= RunTimeMax
  BY ObservationsAreSettings, Zenon
<1>. DEFINE i == Interlock(BeginCycle(s))
            a == AutoControl(s, i)
            e == DetectFallingEdge(s, a)
<1>2. c = PostPurge(e)
  BY Zenon DEF Decide
<1>3. /\ Sound(i) /\ (i.heaterOn => s.heaterOn) /\ (i.autoStarted => autoStarted)
      /\ i.pre = CountDown(preTimer) \/ (i.lockout /\ ~i.autoStarted)
      /\ i.post = CountDown(postTimer)
  BY <1>1, InterlockStage
<1>. HIDE DEF i
<1>4. /\ Sound(a)
      /\ a.pre > 0 => \/ a.pre = i.pre
                      \/ /\ i.pre = 0 /\ ~i.lockout /\ s.autoMode
                         /\ a.pre = WholeSeconds(s.pumpPreRunTime)
      /\ a.heaterOn => i.heaterOn \/ (i.pre = 0 /\ i.autoStarted /\ i.post = 0)
      /\ a.autoStarted => i.autoStarted \/ i.post = 0
  BY <1>1, <1>3, AutoControlStage
<1>. HIDE DEF a
<1>5. /\ Sound(e) /\ e.heaterOn = a.heaterOn /\ e.autoStarted = a.autoStarted
      /\ e.pre = 0 \/ e.pre = a.pre
  BY <1>1, <1>4, FallingEdgeStage
<1>. HIDE DEF e
<1>6. /\ c.heaterOn = e.heaterOn /\ c.pre = e.pre /\ c.post = e.post
      /\ c.autoStarted => e.autoStarted
      /\ c.autoStarted /\ c.pre = 0 => c.heaterOn \/ c.post # 0
  BY <1>2, <1>5, PostPurgeStage
<1>7. ASSUME c.pre > 0
      PROVE  \/ c.pre = CountDown(preTimer)
             \/ CountDown(preTimer) = 0 /\ c.pre <= WholeSeconds(RunTimeMax)
  <2>1. c.pre = a.pre /\ a.pre > 0
    <3>1. c.pre # 0
      BY <1>7
    <3>. QED
      BY <1>5, <1>6, <1>7, <3>1, Zenon
  <2>2. CASE a.pre = i.pre
    <3>1. i.autoStarted
      BY <1>3, <2>1, <2>2, Zenon DEF Sound
    <3>. QED
      BY <1>3, <2>1, <2>2, <3>1, Zenon
  <2>3. CASE i.pre = 0 /\ ~i.lockout /\ s.autoMode /\ a.pre = WholeSeconds(s.pumpPreRunTime)
    <3>1. s.pumpPreRunTime \in Int
      BY <1>1 DEF Settings
    <3>2. a.pre <= WholeSeconds(RunTimeMax)
      BY <1>1, <2>3, <3>1, WholeSecondsInt
    <3>. QED
      BY <1>3, <2>1, <2>3, <3>2, Zenon
  <2>. QED
    BY <1>4, <2>1, <2>2, <2>3, Zenon
<1>8. ASSUME c.heaterOn, ~ctl.heaterOn
      PROVE  CountDown(preTimer) = 0 /\ autoStarted /\ CountDown(postTimer) = 0
  <2>1. i.pre = 0 /\ i.autoStarted /\ i.post = 0
    BY <1>1, <1>3, <1>4, <1>5, <1>6, <1>8, Zenon
  <2>. QED
    BY <1>3, <2>1, Zenon
<1>9. c.autoStarted => autoStarted \/ CountDown(postTimer) = 0
  BY <1>3, <1>4, <1>5, <1>6, Zenon
<1>. QED
  BY <1>6, <1>7, <1>8, <1>9, Zenon

(* The run cap only bounds the exploration: it must not cut off what the   *)
(* longest pre-purge asks for.                                             *)
CapIsEnough == RunCap >= WholeSeconds(RunTimeMax)

(* A running pre-purge has had the seconds it has counted down.  A pump    *)
(* the loop owns without one has not stopped since the heater burnt; or    *)
(* the cool-down is of a negative length, which never ends by itself and   *)
(* lets no demand through.                                                 *)
PurgeInv ==
  /\ pumpRun \in Nat /\ pumpRun <= RunCap
  /\ armed \in Nat /\ armed <= RunCap
  /\ burntSince \in BOOLEAN
  /\ preTimer > 0 => pumpRun + preTimer >= armed + 1
  /\ wasHeating => burntSince
  /\ autoStarted /\ preTimer = 0 => burntSince \/ postTimer < 0

LEMMA LongestPurge == WholeSeconds(RunTimeMax) \in Nat /\ WholeSeconds(RunTimeMax) >= 1
  BY DEF WholeSeconds, RunTimeMax

LEMMA CountsDown ==
  ASSUME NEW n \in Int
  PROVE  /\ n > 0 => CountDown(n) = n - 1
         /\ n <= 0 => CountDown(n) = n
  BY DEF CountDown

(* The pass that arms a pre-purge runs the pump already.                   *)
LEMMA FirstSecond ==
  ASSUME NEW run \in Nat, run >= 1, NEW left \in Nat
  PROVE  run + left >= left + 1
  OBVIOUS

(* A second of pre-purge is a second that the pump runs, up to the cap.    *)
LEMMA SecondServed ==
  ASSUME NEW cap \in Nat, NEW run \in Nat, NEW asked \in Nat, NEW left \in Nat,
         asked <= cap, left > 1, run + left >= asked + 1,
         NEW longer \in Nat, longer = cap \/ longer = run + 1
  PROVE  longer + (left - 1) >= asked + 1
  OBVIOUS

(* A history step is a step of the loop, or leaves all it sees alone.      *)
LEMMA HistoryStep ==
  ASSUME [HNext]_allVars
  PROVE  /\ [Next]_vars
         /\ (Sample /\ Remember) \/ UNCHANGED <<taskVars, pumpRun, armed, burntSince>>
<1>1. CASE Sample /\ Remember
  BY <1>1 DEF Next, ControlLoop
<1>2. ASSUME NEW p \in PumpStates, HCommand(p)
      PROVE  Client /\ UNCHANGED <<taskVars, pumpRun, armed, burntSince>>
  BY <1>2 DEF HCommand, Client, SetPumpState, ClientWrites
<1>3. CASE Startup /\ UNCHANGED historyVars
  BY <1>3 DEF Startup, StartHeaterOff, StartPumpOff, StartSimNone, Next, ControlLoop,
              historyVars, taskVars
<1>4. CASE Publish /\ UNCHANGED historyVars
  BY <1>4 DEF Publish, WriteHeater, WritePump, WriteBack, Next, ControlLoop,
              historyVars, taskVars
<1>5. CASE Sensor /\ UNCHANGED historyVars
  BY <1>5 DEF Sensor, ReadSensor, Next, historyVars, taskVars
<1>6. CASE OtherCommand /\ UNCHANGED historyVars
  <2>1. UNCHANGED taskVars
    BY <1>6 DEF OtherCommand, ClientWrites, SetHeaterOn, SetAutoMode, SetSimulationMode,
                SetFilteredWaterTemp, SetSetpointTemp, SetLowHysteresis, SetHighHysteresis,
                SetPumpPreRunTime, SetPumpPostRunTime, taskVars
  <2>. QED
    BY <1>6, <2>1 DEF Next, Client, historyVars
<1>7. CASE UNCHANGED allVars
  BY <1>7 DEF allVars, vars, historyVars, taskVars
<1>8. ASSUME Client
      PROVE  [Next]_vars
  BY <1>8 DEF Next
<1>. QED
  BY <1>1, <1>2, <1>3, <1>4, <1>5, <1>6, <1>7, <1>8 DEF HNext

LEMMA InitPurgeInv == HInit => PurgeInv
<1>. SUFFICES ASSUME HInit PROVE PurgeInv
  OBVIOUS
<1>1. /\ pumpRun = 0 /\ armed = 0 /\ burntSince = FALSE
      /\ preTimer = 0 /\ wasHeating = FALSE /\ autoStarted = FALSE
  BY DEF HInit, Init
<1>2. pumpRun \in Nat /\ pumpRun <= RunCap /\ armed \in Nat /\ armed <= RunCap /\ ~(preTimer > 0)
  BY <1>1, RunCapIsNat
<1>. QED
  BY <1>1, <1>2, Zenon DEF PurgeInv

(* A pass keeps it: it arms a pre-purge, counts one down, ends it by       *)
(* burning, or gives the pump up.                                          *)
LEMMA PassPurgeInv ==
  ASSUME CapIsEnough, IInv, PurgeInv, Sample, Remember
  PROVE  PurgeInv'
<1>1. PICK s \in Observations :
         LET c == Decide(s)
         IN /\ autoStarted' = c.autoStarted /\ wasHeating' = c.heaterOn
            /\ preTimer' = c.pre /\ postTimer' = c.post /\ lastPump' = c.pumpState
  BY SampleDecides, Zenon
<1>. DEFINE c == Decide(s)
<1>2. /\ autoStarted' = c.autoStarted /\ wasHeating' = c.heaterOn
      /\ preTimer' = c.pre /\ postTimer' = c.post /\ lastPump' = c.pumpState
  BY <1>1
<1>3. TypeOK /\ PurgesDrivePump
  BY DEF IInv
<1>4. /\ Sound(c)
      /\ c.post > 0 => c.pumpState = "LOW"
      /\ IF wasHeating /\ ~c.heaterOn
         THEN c.pre = 0
         ELSE c.post = CountDown(postTimer)
  BY <1>3, Decision, Zenon
<1>5. /\ c.pre > 0 => \/ c.pre = CountDown(preTimer)
                      \/ CountDown(preTimer) = 0 /\ c.pre <= WholeSeconds(RunTimeMax)
      /\ c.autoStarted /\ c.pre = 0 => c.heaterOn \/ c.post # 0
      /\ c.autoStarted => autoStarted \/ CountDown(postTimer) = 0
  BY <1>3, DecisionPurge, Zenon
<1>. HIDE DEF c
<1>6. /\ preTimer \in Nat /\ postTimer \in Int
      /\ preTimer' \in Nat /\ postTimer' \in Int
  <2>1. c \in Cycle /\ c.pre >= 0
    BY <1>4, Zenon DEF Sound
  <2>2. c.pre \in Nat /\ c.post \in Int
    BY <2>1 DEF Cycle
  <2>. QED
    BY <1>2, <1>3, <2>2, Zenon DEF TypeOK
<1>7. /\ CountDown(preTimer) = IF preTimer > 0 THEN preTimer - 1 ELSE 0
      /\ postTimer > 0 => CountDown(postTimer) = postTimer - 1
      /\ postTimer <= 0 => CountDown(postTimer) = postTimer
  BY <1>6, CountsDown
<1>8. RunCap \in Nat /\ RunCap >= 1 /\ WholeSeconds(RunTimeMax) <= RunCap
  BY RunCapIsNat, LongestPurge DEF CapIsEnough
<1>9. /\ pumpRun \in Nat /\ pumpRun <= RunCap /\ armed \in Nat /\ armed <= RunCap
      /\ burntSince \in BOOLEAN
  BY Zenon DEF PurgeInv
<1>10. /\ pumpRun' = IF lastPump' = "OFF" THEN 0
                     ELSE IF pumpRun < RunCap THEN pumpRun + 1 ELSE pumpRun
       /\ armed' = IF Arms THEN preTimer' ELSE armed
       /\ burntSince' = (lastPump' # "OFF" /\ (wasHeating' \/ burntSince))
  BY DEF Remember
<1>11. /\ pumpRun' \in Nat /\ pumpRun' <= RunCap
       /\ lastPump' # "OFF" => pumpRun' = RunCap \/ pumpRun' = pumpRun + 1
       /\ lastPump' # "OFF" => pumpRun' >= 1
  BY <1>8, <1>9, <1>10
<1>12. ASSUME preTimer' > 0
       PROVE  armed' \in Nat /\ armed' <= RunCap /\ pumpRun' + preTimer' >= armed' + 1
  <2>1. lastPump' # "OFF"
    <3>1. c.pre > 0
      BY <1>2, <1>12
    <3>. QED
      BY <1>2, <1>4, <3>1, Zenon DEF Sound
  <2>2. pumpRun' >= 1 /\ (pumpRun' = RunCap \/ pumpRun' = pumpRun + 1)
    BY <1>11, <2>1, Zenon
  <2>3. pumpRun' \in Nat /\ pumpRun \in Nat /\ armed \in Nat /\ armed <= RunCap
    BY <1>9, <1>11, Zenon
  <2>4. CASE preTimer > 1
    <3>1. preTimer' = preTimer - 1
      <4>1. CountDown(preTimer) = preTimer - 1 /\ preTimer - 1 # 0
        BY <1>6, <1>7, <2>4
      <4>2. preTimer' = CountDown(preTimer) \/ CountDown(preTimer) = 0
        BY <1>2, <1>5, <1>12
      <4>. QED
        BY <4>1, <4>2
    <3>2. ~Arms
      BY <1>6, <3>1 DEF Arms
    <3>3. armed' = armed
      BY <1>10, <3>2, Zenon
    <3>4. pumpRun + preTimer >= armed + 1
      <4>1. preTimer > 0
        BY <1>6, <2>4
      <4>. QED
        BY <4>1 DEF PurgeInv
    <3>5. pumpRun' + preTimer' >= armed + 1
      <4>1. RunCap \in Nat /\ preTimer \in Nat
        BY <1>6, <1>8
      <4>2. pumpRun' + (preTimer - 1) >= armed + 1
        BY <2>2, <2>3, <2>4, <3>4, <4>1, SecondServed
      <4>. QED
        BY <3>1, <4>2
    <3>. QED
      BY <2>3, <3>3, <3>5
  <2>5. CASE ~(preTimer > 1)
    <3>1. CountDown(preTimer) = 0
      BY <1>6, <1>7, <2>5
    <3>2. preTimer' <= WholeSeconds(RunTimeMax)
      <4>1. preTimer' = 0 \/ preTimer' <= WholeSeconds(RunTimeMax)
        BY <1>2, <1>5, <1>12, <3>1
      <4>. QED
        BY <1>12, <4>1
    <3>3. preTimer' <= RunCap
      BY <1>6, <1>8, <3>2, LongestPurge
    <3>4. Arms
      BY <1>6, <1>12, <2>5 DEF Arms
    <3>5. armed' = preTimer'
      BY <1>10, <3>4, Zenon
    <3>6. pumpRun' >= 1 /\ pumpRun' \in Nat /\ preTimer' \in Nat
      BY <1>6, <2>2, <2>3
    <3>7. pumpRun' + preTimer' >= preTimer' + 1
      BY <3>6, FirstSecond
    <3>. QED
      BY <3>3, <3>5, <3>6, <3>7, Zenon
  <2>. QED
    BY <2>4, <2>5
<1>13. ASSUME ~(preTimer' > 0)
       PROVE  armed' = armed /\ preTimer' = 0
  <2>1. preTimer' = 0
    BY <1>6, <1>13
  <2>2. ~Arms
    BY <1>6, <1>13 DEF Arms
  <2>. QED
    BY <1>10, <2>1, <2>2, Zenon
<1>14. wasHeating' => burntSince'
  <2>1. wasHeating' => lastPump' # "OFF"
    BY <1>2, <1>4, Zenon DEF Sound
  <2>. QED
    BY <1>10, <2>1, Zenon
<1>15. ASSUME autoStarted', preTimer' = 0, ~wasHeating', ~(postTimer' < 0)
       PROVE  burntSince'
  <2>1. postTimer' > 0 /\ lastPump' # "OFF"
    <3>1. postTimer' # 0
      BY <1>2, <1>5, <1>15, Zenon
    <3>2. postTimer' > 0
      BY <1>6, <1>15, <3>1
    <3>3. c.post > 0
      BY <1>2, <3>2
    <3>. QED
      BY <1>2, <1>4, <3>2, <3>3
  <2>2. CASE wasHeating
    <3>1. burntSince
      BY <2>2, Zenon DEF PurgeInv
    <3>. QED
      BY <1>10, <2>1, <3>1, Zenon
  <2>3. CASE ~wasHeating
    <3>1. postTimer' = CountDown(postTimer)
      BY <1>2, <1>4, <2>3, Zenon
    <3>2. postTimer > 0
      BY <1>6, <1>7, <2>1, <3>1
    <3>3. autoStarted
      <4>1. CountDown(postTimer) # 0
        BY <1>6, <2>1, <3>1
      <4>. QED
        BY <1>2, <1>5, <1>15, <4>1, Zenon
    <3>4. preTimer = 0 /\ ~(postTimer < 0)
      BY <1>3, <1>6, <3>2 DEF PurgesDrivePump
    <3>5. burntSince
      BY <3>3, <3>4, Zenon DEF PurgeInv
    <3>. QED
      BY <1>10, <2>1, <3>5, Zenon
  <2>. QED
    BY <2>2, <2>3
<1>16. armed' \in Nat /\ armed' <= RunCap /\ burntSince' \in BOOLEAN
  BY <1>9, <1>10, <1>12, <1>13, Zenon
<1>. QED
  BY <1>11, <1>12, <1>14, <1>15, <1>16, Zenon DEF PurgeInv

LEMMA NextPurgeInv ==
  ASSUME CapIsEnough
  PROVE  IInv /\ PurgeInv /\ [HNext]_allVars => PurgeInv'
<1>. SUFFICES ASSUME IInv, PurgeInv, [HNext]_allVars PROVE PurgeInv'
  OBVIOUS
<1>1. CASE Sample /\ Remember
  BY <1>1, PassPurgeInv
<1>2. CASE UNCHANGED <<taskVars, pumpRun, armed, burntSince>>
  BY <1>2 DEF taskVars, PurgeInv
<1>. QED
  BY <1>1, <1>2, HistoryStep

(* The heater is lit by the loop at the last second of a pre-purge, or     *)
(* over a pump it owns.                                                    *)
LEMMA PassServesPurge ==
  ASSUME IInv, PurgeInv, [HNext]_allVars, Pass, ~ctl.heaterOn, wasHeating'
  PROVE  pumpRun >= armed \/ burntSince
<1>1. Sample
  BY HistoryStep, OnlySampleStartsPublishing DEF Pass
<1>2. PICK s \in Observations : wasHeating' = Decide(s).heaterOn
  BY <1>1, SampleDecides, Zenon
<1>3. CountDown(preTimer) = 0 /\ autoStarted /\ CountDown(postTimer) = 0
  BY <1>2, DecisionPurge, Zenon DEF IInv
<1>4. /\ preTimer \in Nat /\ postTimer \in Int
      /\ pumpRun \in Nat /\ armed \in Nat
  BY DEF IInv, TypeOK, PurgeInv
<1>5. preTimer <= 1 /\ ~(postTimer < 0)
  BY <1>3, <1>4 DEF CountDown
<1>6. CASE preTimer = 0
  BY <1>3, <1>5, <1>6, Zenon DEF PurgeInv
<1>7. CASE preTimer = 1
  <2>1. pumpRun + 1 >= armed + 1
    BY <1>7 DEF PurgeInv
  <2>. QED
    BY <1>4, <2>1
<1>. QED
  BY <1>4, <1>5, <1>6, <1>7

(* Whatever the clients switch, for every run time, valid or not, the      *)
(* heater the loop lights has had its pre-purge, or a pump that has not    *)
(* stood still since the heater last burnt.                                *)
THEOREM PrePurgeIsServed ==
  ASSUME CapIsEnough
  PROVE  HSpec => PrePurgeServed
<1>1. HInit => IInv /\ PurgeInv
  BY InitIInv, InitPurgeInv DEF HInit
<1>2. IInv /\ PurgeInv /\ [HNext]_allVars => IInv' /\ PurgeInv'
  BY NextIInv, NextPurgeInv, HistoryStep
<1>3. IInv /\ PurgeInv /\ [HNext]_allVars =>
        [Pass /\ ~ctl.heaterOn /\ wasHeating' => pumpRun >= armed \/ burntSince]_allVars
  BY PassServesPurge
<1>. QED
  BY <1>1, <1>2, <1>3, PTL DEF HSpec, PrePurgeServed
=============================================================================
