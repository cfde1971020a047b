-------------------------- MODULE MCResidentThread --------------------------
(* Values for the constants of ResidentThread: 1, 2 follow each other, 4   *)
(* and 6 are each behind a gap.                                            *)
EXTENDS ResidentThread

GappedActions == {1, 2, 4, 6}
=============================================================================
