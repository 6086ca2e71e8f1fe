--------------------------- MODULE MCTimerManager ---------------------------
(***************************************************************************)
(* Instances of TimerManager for TLC.                                      *)
(***************************************************************************)
EXTENDS TimerManager, TLC

CONSTANTS u1, u2, a, b

Symmetry == Permutations(Users) \cup Permutations(Waiters)
=============================================================================
