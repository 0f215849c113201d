---------------------------- MODULE MC_CaseExpect ----------------------------
(* Json names of up to two segments after their word, one or two cases:   *)
(* "_case", "_sub_case" and "_fuzz_case" inside a json name, with each of  *)
(* the three suffixes.                                                     *)
EXTENDS CaseExpect

MC_MaxSegs == 2
MC_MaxCases == 2
=============================================================================
