---------------------------- MODULE MCScheduler ----------------------------
(***************************************************************************)
(* Instances of Scheduler for TLC.                                         *)
(***************************************************************************)
EXTENDS Scheduler, TLC

CONSTANTS w1, w2, c1, c2, c3, f1

NoBatch == <<>>
Pair == <<c1, c2>>
NoPins == [j \in Jobs |-> AnyThread]
PinF1 == [j \in Jobs |-> IF j = f1 THEN w1 ELSE AnyThread]
=============================================================================
