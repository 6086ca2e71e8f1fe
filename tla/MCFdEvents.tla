----------------------------- MODULE MCFdEvents -----------------------------
(***************************************************************************)
(* Instances of FdEvents for TLC.                                          *)
(***************************************************************************)
EXTENDS FdEvents, TLC

CONSTANTS j1, j2, t1, t2, f1, f2
=============================================================================
