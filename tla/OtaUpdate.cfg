\* With the boot loader's rollback on, so that the code that counts and rolls
\* back runs; with it off no image is ever pending (OtaNoRollback.cfg).
SPECIFICATION Spec
CONSTANTS
  RollbackEnabled = TRUE
  BootFailureLimit = 3
INVARIANTS TypeOK SurvivesPowerLoss ReservationIsExact RollbackIsReady
PROPERTY UpdatesEnd
