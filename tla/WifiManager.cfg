\* Two networks in flash, in use and on offer; a queue of one is often full.
SPECIFICATION Spec
CONSTANTS
  Networks = {home, other}
  Candidates = {home, other}
  None = None
  QueueLength = 1
  StationAttempts = 2
  ProvisionAttempts = 2
  RetryAttempts = 2
  MaxEvents = 2
INVARIANTS TypeOK MarksAreBacked DriverMatchesFlags CredentialsMatchFlash
SYMMETRY Symmetry
