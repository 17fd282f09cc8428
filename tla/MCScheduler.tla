---------------------------- MODULE MCScheduler ----------------------------
(* Small instances of Scheduler, with its diagnostic.                      *)
EXTENDS Consistency, TLC

CONSTANTS g1, g2, a, b, c, low, high

TwoUsers == {low, high}
TwoRanks == low :> 1 @@ high :> 2

(* Two single-GPU jobs of different users and a two-GPU job of `high'.     *)
OwnerABC == a :> low @@ b :> high @@ c :> high
CountABC == a :> 1 @@ b :> 1 @@ c :> 2

GPUSymmetry == Permutations(GPUs)
=============================================================================
