------------------------------ MODULE MCHookIO ------------------------------
(***************************************************************************)
(* Instances of HookIO for TLC.                                            *)
(***************************************************************************)
EXTENDS HookIO, TLC

CONSTANTS r1, r2, k1, t1, t2

OneFile == [j \in Jobs |-> 1]
TwoFiles == [j \in Jobs |-> IF j = r1 THEN 1 ELSE 2]
=============================================================================
