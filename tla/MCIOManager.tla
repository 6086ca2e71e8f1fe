---------------------------- MODULE MCIOManager ----------------------------
(***************************************************************************)
(* Instances of IOManager for TLC.                                         *)
(***************************************************************************)
EXTENDS IOManager, TLC

CONSTANTS w1, w2, c1, c2, c3

NoBatch == <<>>
NoPins == [j \in Jobs |-> AnyThread]
=============================================================================
