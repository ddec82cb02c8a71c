\* Six seconds over two starts of the device, the first of which may be about to wrap.
SPECIFICATION Spec
CONSTANTS
  SequenceModulus = 7
  GapSeconds = 3
  MaxPoints = 3
  Skews <- MCSkews
  Unset = Unset
  FirstSequences = {0, 5}
  MaxTime = 6
  MaxBoots = 2
  MaxInFlight = 2
INVARIANTS TypeOK NoLineAcrossAGap TimeGoesForward
