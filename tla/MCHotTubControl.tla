--------------------------- MODULE MCHotTubControl ---------------------------
(* A value a configuration file cannot write. *)
EXTENDS HotTubHistory

\* A negative post-run time, which no setter refuses.
NegativePostRunTimes == {-10}
=============================================================================
