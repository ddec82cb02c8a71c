--------------------------- MODULE HotTubHistory ---------------------------
(***************************************************************************)
(* HotTubControl with history variables, for the properties that relate a  *)
(* decision of the loop to earlier commands and earlier decisions.         *)
(***************************************************************************)
EXTENDS HotTubControl

CONSTANT RunCap   \* pumpRun counts up to here

ASSUME RunCapIsNat == RunCap \in Nat

VARIABLES
  shutOff,      \* the last pump command was OFF, and no pass has started since
  pumpRun,      \* consecutive decisions that kept the pump running
  armed,        \* the pre-purge, in seconds, the pump was last armed with
  burntSince    \* the heater has burnt since the pump last stood still

historyVars == <<shutOff, pumpRun, armed, burntSince>>
allVars == <<vars, historyVars>>

HInit ==
  /\ Init
  /\ shutOff = FALSE
  /\ pumpRun = 0
  /\ armed = 0
  /\ burntSince = FALSE

Arms == preTimer' > preTimer \/ (preTimer' > 0 /\ preTimer' = preTimer)

Remember ==
  /\ shutOff' = FALSE
  /\ pumpRun' = IF lastPump' = "OFF" THEN 0
                ELSE IF pumpRun < RunCap THEN pumpRun + 1 ELSE pumpRun
  /\ armed' = IF Arms THEN preTimer' ELSE armed
  /\ burntSince' = (lastPump' # "OFF" /\ (wasHeating' \/ burntSince))

HCommand(p) ==
  /\ SetPumpState(p)
  /\ shutOff' = (p = "OFF")
  /\ UNCHANGED <<pumpRun, armed, burntSince>>

HNext ==
  \/ Sample /\ Remember
  \/ \E p \in PumpStates : HCommand(p)
  \/ (Startup \/ Publish \/ Sensor \/ OtherCommand) /\ UNCHANGED historyVars

HSpec == HInit /\ [][HNext]_allVars /\ WF_vars(ControlLoop)

(* A pass of the loop starts. *)
Pass == pc = "wait" /\ pc' = "set heater"

-----------------------------------------------------------------------------
(* The loop lights the heater itself only over a pump it has kept running  *)
(* for the whole pre-purge it armed, or, out of a burn or its cool-down,   *)
(* over one that has not stood still since the heater last burnt: water    *)
(* flows before the heater does, whatever the clients switch.  A client    *)
(* may light the heater without a pre-purge; the burn the loop goes on     *)
(* with after that one has none either, but the pump has not stopped.      *)
PrePurgeServed ==
  [][Pass /\ ~ctl.heaterOn /\ wasHeating' => pumpRun >= armed \/ burntSince]_allVars

(* "If user manually turns pump OFF while heater was ON ... Kill heater    *)
(* immediately" (stage 1 of the main task): when a client switches the     *)
(* pump off during a burn, the next pass puts the heater out.              *)
ManualShutoffKillsHeater ==
  [][Pass /\ wasHeating /\ shutOff => ~wasHeating']_allVars
=============================================================================
