\* A reading below and one above the thresholds.  The run times start with their
\* default of two seconds; a client may set a post-run time of minus one, which
\* the loop corrects in auto mode and takes as it is in manual mode.
SPECIFICATION HSpec
CONSTANTS
  Temperatures = {300, 340}
  Setpoints = {320}
  HysteresisValues = {10}
  PreRunTimes = {20}
  PostRunTimes <- NegativePostRunTimes
  RunCap = 2
INVARIANTS TypeOK HeaterInterlock PurgesDrivePump
PROPERTIES LockoutHolds PrePurgeServed ImplementsHeatingCycle ManualModeStopsHeater DemandIsServed
