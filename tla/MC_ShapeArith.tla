---------------------------- MODULE MC_ShapeArith ----------------------------
(* Sizes 0..6, filters 1..3, dilations 0..2, strides -1..3: every branch   *)
(* of every function, inputs smaller than the dilated filter, odd and even *)
(* padding, and the raising arguments.                                     *)
EXTENDS ShapeArith

MC_MaxSize == 6
MC_MaxFilter == 3
MC_MaxDilation == 2
MC_MaxStride == 3
=============================================================================
