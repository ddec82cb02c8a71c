---------------------------- MODULE MCStatusPage ----------------------------
(* StatusPage with a device clock that is right or a second slow. *)
EXTENDS StatusPage

MCSkews == {-1, 0}
=============================================================================
