\* No phone interferes, and the queue never fills up.  The system really stops.
SPECIFICATION Spec
CONSTANTS
  Networks = {home}
  Candidates = {}
  None = None
  QueueLength = 3
  StationAttempts = 2
  ProvisionAttempts = 1
  RetryAttempts = 1
  MaxEvents = 2
PROPERTY StationRecovers
CHECK_DEADLOCK FALSE
