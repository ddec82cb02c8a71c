\* Valid run times; a client may switch the pump off at any moment.
SPECIFICATION HSpec
CONSTANTS
  Temperatures = {300, 320, 340}
  Setpoints = {320}
  HysteresisValues = {10}
  PreRunTimes = {20}
  PostRunTimes = {10}
  RunCap = 3
PROPERTY ManualShutoffKillsHeater
