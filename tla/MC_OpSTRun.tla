----------------------------- MODULE MC_OpSTRun -----------------------------
(* Two or three cases, one or two outputs per case; no reload, or one      *)
(* "mi compare" of the saved report.                                       *)
EXTENDS OpSTRun

CONSTANTS c1, c2, c3

MC_CaseOrder2 == <<c1, c2>>
MC_CaseOrder3 == <<c1, c2, c3>>
MC_NOut == 2
MC_NOut1 == 1
MC_NoReload == 0
MC_OneReload == 1
=============================================================================
