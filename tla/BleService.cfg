\* A message of 60 bytes fits an MTU of 63; with one of 55 it takes three chunks, the
\* last of which is empty since the header is short; with the default no chunk fits.
\* Two numbers for three senders.
SPECIFICATION Spec
CONSTANTS
  Lengths = {60}
  Mtus = {55, 63}
  HeaderLengths = {14}
  MaxId = 2
INVARIANTS TypeOK EndMeansAll AcknowledgedFirst
PROPERTY Reachable
