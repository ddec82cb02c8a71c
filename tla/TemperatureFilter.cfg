\* Two water temperatures twelve tenths apart: the filtered value crosses the
\* tie and the dead band in both directions.
SPECIFICATION FilterSpec
CONSTANTS
  Lowest = 0
  Highest = 12
  WaterTemps = {0, 12}
  ReadingCommands = {0, 7}
  FilteredCommands = {5}
  AlphaCommands = {5, 11}
INVARIANT FilterTypeOK
PROPERTIES Approaches FollowsWater
