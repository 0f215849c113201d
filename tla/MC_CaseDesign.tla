---------------------------- MODULE MC_CaseDesign ----------------------------
(* Two case names, one or two json files of up to two objects: a name      *)
(* repeated within a file and across files, a case not selected, a         *)
(* compile_flag object, and an ms_python_train case before another case.   *)
EXTENDS CaseDesign

CONSTANTS n1, n2

MC_Names == {n1, n2}
MC_MaxObjs == 2
MC_MaxFiles == 2
=============================================================================
