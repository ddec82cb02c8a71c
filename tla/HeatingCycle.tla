---------------------------- MODULE HeatingCycle ----------------------------
(***************************************************************************)
(* What the control loop promises about burning, second by second: the     *)
(* heater is preceded by a pump that runs and followed by a cool-down that *)
(* the loop sees through.  With auto mode on, the cool-down is within the  *)
(* limits of its settings; with auto mode off its length is the client's,  *)
(* down to none at all.  HotTubControl implements it.                      *)
(***************************************************************************)
EXTENDS Integers

CONSTANT CoolDowns  \* the cool-downs, in seconds, that auto mode may order

VARIABLES
  mode,   \* "Idle", "Priming", "Heating" or "Cooling"
  pump,   \* the pump output it decided on
  owed,   \* seconds of cool-down still to run
  manual  \* the decision that is being carried out is one without auto mode

vars == <<mode, pump, owed, manual>>

Init == mode = "Idle" /\ pump = "OFF" /\ owed = 0 /\ manual = FALSE

(* A second of cool-down passes. *)
Elapse == owed' = IF owed > 0 THEN owed - 1 ELSE 0

(* A second's decision is carried out. *)
Settle == manual' = FALSE /\ UNCHANGED <<mode, pump, owed>>

(* Nothing is owed: the outputs may rest, with the pump as the user has it. *)
Rest ==
  /\ mode # "Heating"
  /\ mode' = "Idle"
  /\ Elapse
  /\ owed' = 0
  /\ pump' \in {"OFF", "LOW", "HIGH"}

(* The pump runs ahead of the heater. *)
Prime ==
  /\ mode # "Heating"
  /\ mode' = "Priming"
  /\ pump' \in {"LOW", "HIGH"}
  /\ Elapse
  /\ owed' = 0

(* The heater burns, only ever over a running pump and in auto mode; a     *)
(* cool-down cut short by a burn keeps the pump at LOW for the seconds it  *)
(* had left.                                                               *)
Burn ==
  /\ mode' = "Heating"
  /\ pump' \in {"LOW", "HIGH"}
  /\ ~manual'
  /\ Elapse
  /\ owed' > 0 => pump' = "LOW"

(* The heater goes out and its cool-down is owed. *)
Quench ==
  /\ mode = "Heating"
  /\ mode' = "Cooling"
  /\ owed' \in Nat \ {0}
  /\ ~manual' => owed' \in CoolDowns
  /\ pump' = "LOW"

(* Without auto mode nothing checks the run time: there may be none. *)
QuenchUncooled ==
  /\ mode = "Heating"
  /\ mode' = "Idle"
  /\ manual'
  /\ owed' = 0
  /\ pump' \in {"OFF", "LOW", "HIGH"}

Cool ==
  /\ mode = "Cooling"
  /\ mode' = "Cooling"
  /\ Elapse
  /\ owed' > 0
  /\ pump' = "LOW"

Decide == manual' \in BOOLEAN /\ (Rest \/ Prime \/ Burn \/ Quench \/ QuenchUncooled \/ Cool)

Next == Decide \/ Settle

Spec == Init /\ [][Next]_vars
=============================================================================
