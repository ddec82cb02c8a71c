---------------------------- MODULE MCWifiManager ----------------------------
(***************************************************************************)
(* WifiManager for model checking: networks are interchangeable.           *)
(***************************************************************************)
EXTENDS WifiManager, TLC

Symmetry == Permutations(Networks)
=============================================================================
