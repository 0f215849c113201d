---------------------------- MODULE MC_ReduceAxis ----------------------------
(* Shapes of rank 1..3 with sizes 1..2, axis lists of up to two entries in *)
(* -3..3: negative axes, out-of-range axes, all axes reduced, and an axis  *)
(* named twice.                                                            *)
EXTENDS ReduceAxis

MC_MaxRank == 3
MC_MaxDim == 2
MC_MaxAxes == 2
=============================================================================
