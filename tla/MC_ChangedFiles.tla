---------------------------- MODULE MC_ChangedFiles ----------------------------
(* Diffs of up to two changed files: every directory and extension alone   *)
(* and every pair, so that each branch meets every later one.              *)
EXTENDS ChangedFiles

MC_MaxLines == 2
=============================================================================
