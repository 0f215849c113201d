----------------------------- MODULE CaseExpect -----------------------------
(***************************************************************************)
(* How a reported case finds the expect of the json case it came from      *)
(* (src/main/st_report.py: OpSTReport.set_expect, and                      *)
(* OpSTCaseReport.update_case_expect as _summary_txt calls it for every    *)
(* case of the report).                                                    *)
(*                                                                         *)
(* set_expect maps each json case name to its expect; a reported case is   *)
(* a sub case whose name is the json case name followed by the suffix of   *)
(* the sub-case generator (outside src/), and update_case_expect recovers  *)
(* the json case name by cutting the name at the last "_sub_case", else    *)
(* the last "_fuzz_case", else the last "_case".                           *)
(*                                                                         *)
(* A name is abstracted to its "_"-led segments: a leading word without    *)
(* "_", then segments "_case", "_sub", "_fuzz", or "_n" (any other text).  *)
(* The markers are then runs of segments ("_sub_case" is <<"_sub",         *)
(* "_case">>), since no marker can start inside a segment, and `in`,       *)
(* rfind and slicing are the same operations on segment sequences.         *)
(***************************************************************************)
EXTENDS Naturals, Sequences, SequencesExt

CONSTANTS
    MaxSegs,   \* a json case name has at most MaxSegs segments after its word
    MaxCases   \* the json file has 1..MaxCases cases

Segs == {"_case", "_sub", "_fuzz", "_n"}
JsonNames == {<<"w">> \o s : s \in BoundedSeq(Segs, MaxSegs)}
\* The suffix a generator appends: "_case_%03d", "_sub_case_%03d" or
\* "_fuzz_case_%03d".
GenSuffixes == {<<"_case", "_n">>, <<"_sub", "_case", "_n">>, <<"_fuzz", "_case", "_n">>}
\* The "expect" key of a json case: absent, a valid value, or another one.
ExpectKeys == {"absent", "success", "failed", "other"}
JsonCases == [name : JsonNames, expect : ExpectKeys, suffix : GenSuffixes]

SUB_CASE_MARK == <<"_sub", "_case">>
FUZZ_CASE_MARK == <<"_fuzz", "_case">>
CASE_MARK == <<"_case">>

-----------------------------------------------------------------------------

\* The positions at which pat occurs in name.
Occurrences(name, pat) ==
    {i \in 1..(Len(name) - Len(pat) + 1) : SubSeq(name, i, i + Len(pat) - 1) = pat}

\* str.rfind: the position of the last occurrence; 0 stands for -1.
RFind(name, pat) ==
    IF Occurrences(name, pat) = {} THEN 0 ELSE Max(Occurrences(name, pat))

\* Mutant: the cut is at the first occurrence (str.find).
ParentCaseNameFirst(name) ==
    LET pat == IF Occurrences(name, SUB_CASE_MARK) # {} THEN SUB_CASE_MARK
               ELSE IF Occurrences(name, FUZZ_CASE_MARK) # {} THEN FUZZ_CASE_MARK
               ELSE CASE_MARK
    IN SubSeq(name, 1, Min(Occurrences(name, pat)) - 1)

\* update_case_expect's parent name: case_name[:sub_str_index].  Every
\* reported name carries a generator suffix, so rfind never returns -1.
ParentCaseName(name) ==
    LET idx == IF Occurrences(name, SUB_CASE_MARK) # {} THEN RFind(name, SUB_CASE_MARK)
               ELSE IF Occurrences(name, FUZZ_CASE_MARK) # {} THEN RFind(name, FUZZ_CASE_MARK)
               ELSE RFind(name, CASE_MARK)
    IN SubSeq(name, 1, idx - 1)

\* set_expect: every case name maps to success, then to its expect value
\* when that is success or failed.
SetExpect(cases) ==
    LET Put(d, c) ==
            LET v == IF c.expect \in {"success", "failed"} THEN c.expect ELSE "success"
            IN [n \in DOMAIN d \cup {c.name} |-> IF n = c.name THEN v ELSE d[n]]
    IN FoldLeft(Put, [n \in {} |-> "success"], cases)

\* update_case_expect: failed when the parent name maps to failed; the
\* expect is left as it was otherwise.
UpdateCaseExpect(name, dict, expect) ==
    LET parent == ParentCaseName(name)
    IN IF parent \in DOMAIN dict /\ dict[parent] = "failed" THEN "failed" ELSE expect

-----------------------------------------------------------------------------

VARIABLES
    jsonCases,   \* the cases of the json file, with the suffix of their sub case
    expectDict,  \* OpSTReport.expect_dict
    caseExpect,  \* the expect of each reported case
    pc

vars == <<jsonCases, expectDict, caseExpect, pc>>

\* The report: one sub case per json case, in file order.
ReportNames == [i \in DOMAIN jsonCases |-> jsonCases[i].name \o jsonCases[i].suffix]

\* case_design refuses a json name given twice, so the names are distinct.
Init ==
    /\ jsonCases \in {cs \in UNION {[1..n -> JsonCases] : n \in 1..MaxCases} :
                        \A i, j \in DOMAIN cs : i # j => cs[i].name # cs[j].name}
    /\ expectDict = [n \in {} |-> "success"]
    /\ caseExpect = [i \in DOMAIN jsonCases |-> "success"]
    /\ pc = "set_expect"

\* The json file is read into expect_dict.
SetExpectCall ==
    /\ pc = "set_expect"
    /\ expectDict' = SetExpect(jsonCases)
    /\ pc' = "summary"
    /\ UNCHANGED <<jsonCases, caseExpect>>

\* _summary_txt runs update_case_expect on every case of the report.
SummaryExpect ==
    /\ pc = "summary"
    /\ caseExpect' = [i \in DOMAIN caseExpect |->
                        UpdateCaseExpect(ReportNames[i], expectDict, caseExpect[i])]
    /\ pc' = "done"
    /\ UNCHANGED <<jsonCases, expectDict>>

\* The process has exited.
Exited == pc = "done" /\ UNCHANGED vars

Next == SetExpectCall \/ SummaryExpect \/ Exited

Spec == Init /\ [][Next]_vars

-----------------------------------------------------------------------------
(* Properties.                                                             *)

TypeOK ==
    /\ DOMAIN caseExpect = DOMAIN jsonCases
    /\ \A i \in DOMAIN caseExpect : caseExpect[i] \in {"success", "failed"}
    /\ \A n \in DOMAIN expectDict : expectDict[n] \in {"success", "failed"}
    /\ pc \in {"set_expect", "summary", "done"}

\* The rank of the marker update_case_expect looks for first.
Rank(pat) == IF pat = SUB_CASE_MARK THEN 3 ELSE IF pat = FUZZ_CASE_MARK THEN 2 ELSE 1
SuffixMarker(s) == SubSeq(s, 1, Len(s) - 1)
\* The json case name, joined to its suffix's marker, spells a marker that
\* update_case_expect looks for before that one ("w_sub" + "_case").
Shadowed(c) ==
    \E pat \in {SUB_CASE_MARK, FUZZ_CASE_MARK} :
        /\ Rank(pat) > Rank(SuffixMarker(c.suffix))
        /\ Occurrences(c.name \o SuffixMarker(c.suffix), pat) # {}

\* After the summary, every reported case has the expect of the json case
\* it was generated from.
ExpectFollowsParent ==
    pc = "done" =>
        \A i \in DOMAIN jsonCases :
            caseExpect[i] = "failed" <=> jsonCases[i].expect = "failed"

\* update_case_expect finds the json case of a sub case, "_case" or a
\* marker of the suffix's own rank inside the json name included, unless
\* the json name, alone or joined to the suffix, spells "_sub_case" or
\* "_fuzz_case" above the suffix's marker: only then is the cut made
\* inside the json name.
ParentFoundUnlessShadowed ==
    \A i \in DOMAIN jsonCases :
        ParentCaseName(ReportNames[i]) = jsonCases[i].name <=> ~Shadowed(jsonCases[i])

=============================================================================
