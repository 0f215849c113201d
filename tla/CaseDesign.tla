----------------------------- MODULE CaseDesign -----------------------------
(***************************************************************************)
(* The design of the test cases of msopst run (src/main/case_design.py):   *)
(* CaseDesign.design checks the json paths, then generate_cases walks      *)
(* every object of every json file: a compile_flag object sets the flag,   *)
(* every other object must carry the required keys                         *)
(* (check_required_key_valid), a case not named by --case_name is skipped, *)
(* a name seen before is refused, and the sub-case generator (outside      *)
(* src/) adds the case's sub cases.                                         *)
(*                                                                         *)
(* ConstManager.REQUIRED_KEYS is a module-level list that                  *)
(* check_required_key_valid appends to, so it is state that outlives the   *)
(* call that changed it: it is the variable `requiredKeys`.                *)
(* A json object is abstracted to its name, its st_mode, and whether it    *)
(* lacks one of the base required keys; the sub cases of a case to the     *)
(* case's name.                                                             *)
(***************************************************************************)
EXTENDS Naturals, Sequences, SequencesExt

CONSTANTS
    Names,      \* case names
    MaxObjs,    \* a json file has at most MaxObjs objects
    MaxFiles    \* --input lists at most MaxFiles json files

\* The keys of ConstManager.REQUIRED_KEYS, abstracted to one, and st_mode.
BASE == "base"
ST_MODE == "st_mode"

CaseObjs == [flag : {FALSE}, name : Names, mode : {"absent", "ms_python_train", "other"},
             lacksBase : BOOLEAN]
FlagObj == [flag |-> TRUE, name |-> "none", mode |-> "absent", lacksBase |-> FALSE]
\* A path not ending in .json is refused before it is read: its objects
\* never matter.
JsonFiles == [json : {TRUE}, objs : BoundedSeq(CaseObjs \cup {FlagObj}, MaxObjs)]
             \cup [json : {FALSE}, objs : {<<>>}]
\* --case_name: 'all' or a list of names.
Selections == {[all |-> TRUE, names |-> {}]}
              \cup {[all |-> FALSE, names |-> s] : s \in SUBSET Names \ {{}}}

\* The loop's state: the name-to-file map (as the set of names), the cases
\* generated, the compile flag, and the exception that ended it.
Progress(keys, seen, total, flag, exc) ==
    [keys |-> keys, seen |-> seen, total |-> total, flag |-> flag, exc |-> exc]

-----------------------------------------------------------------------------

\* check_required_key_valid: an ms_python_train case appends st_mode to the
\* list it is given, then every key of the list must be in the object.
CheckRequiredKeyValid(keys, o) ==
    LET ks == IF o.mode = "ms_python_train" THEN Append(keys, ST_MODE) ELSE keys
        Missing(k) == (k = BASE /\ o.lacksBase) \/ (k = ST_MODE /\ o.mode = "absent")
    IN [keys |-> ks, ok |-> \A i \in DOMAIN ks : ~Missing(ks[i])]

\* Mutant: a name seen before is not refused.
GetTotalCaseNoDupCheck(st, o) ==
    [st EXCEPT !.seen = @ \cup {o.name}, !.total = Append(@, o.name)]

\* _get_total_case: a name already in the map raises; otherwise the name
\* is mapped and its sub cases are generated.
GetTotalCase(st, o) ==
    IF o.name \in st.seen THEN [st EXCEPT !.exc = "duplicate"]
    ELSE [st EXCEPT !.seen = @ \cup {o.name}, !.total = Append(@, o.name)]

\* One iteration of the inner loop of generate_cases.
DesignObj(sel, st, o) ==
    IF st.exc # "none" THEN st
    ELSE IF o.flag THEN [st EXCEPT !.flag = TRUE]
    ELSE LET chk == CheckRequiredKeyValid(st.keys, o)
         IN IF ~chk.ok THEN [st EXCEPT !.keys = chk.keys, !.exc = "missing_key"]
            ELSE IF ~sel.all /\ o.name \notin sel.names THEN [st EXCEPT !.keys = chk.keys]
            ELSE GetTotalCase([st EXCEPT !.keys = chk.keys], o)

\* generate_cases: the objects of every file, in order.
GenerateCases(sel, keys, files) ==
    FoldLeft(LAMBDA st, o : DesignObj(sel, st, o),
             Progress(keys, {}, <<>>, FALSE, "none"),
             FlattenSeq([i \in DOMAIN files |-> files[i].objs]))

\* check_argument_valid: every path of --input must end in .json.
CheckArgumentValid(files) == \A i \in DOMAIN files : files[i].json

\* design: check_argument_valid raises before any file is read; no case
\* generated raises.
Design(sel, keys, files) ==
    IF ~CheckArgumentValid(files)
    THEN Progress(keys, {}, <<>>, FALSE, "invalid_path")
    ELSE LET st == GenerateCases(sel, keys, files)
         IN IF st.exc = "none" /\ st.total = <<>> THEN [st EXCEPT !.exc = "no_case"]
            ELSE st

-----------------------------------------------------------------------------

VARIABLES
    requiredKeys,  \* ConstManager.REQUIRED_KEYS
    files,         \* the json files of --input, in order
    sel,           \* --case_name
    outcome,       \* what the last design call returned or raised
    calls          \* how many CaseDesign(...).design() calls have run

vars == <<requiredKeys, files, sel, outcome, calls>>

Init ==
    /\ requiredKeys = <<BASE>>
    /\ files \in UNION {[1..n -> JsonFiles] : n \in 1..MaxFiles}
    /\ sel \in Selections
    /\ outcome = Progress(<<BASE>>, {}, <<>>, FALSE, "none")
    /\ calls = 0

\* One design() call; the list it appended to stays appended.
DesignCall ==
    /\ calls = 0
    /\ outcome' = Design(sel, requiredKeys, files)
    /\ requiredKeys' = outcome'.keys
    /\ calls' = calls + 1
    /\ UNCHANGED <<files, sel>>

\* The process has exited.
Exited == calls > 0 /\ UNCHANGED vars

Next == DesignCall \/ Exited

Spec == Init /\ [][Next]_vars

-----------------------------------------------------------------------------
(* Properties.                                                             *)

TypeOK ==
    /\ requiredKeys \in Seq({BASE, ST_MODE})
    /\ outcome.seen \subseteq Names
    /\ outcome.total \in Seq(Names)
    /\ outcome.exc \in {"none", "invalid_path", "missing_key", "duplicate", "no_case"}
    /\ calls \in 0..1

AllObjs == FlattenSeq([i \in DOMAIN files |-> files[i].objs])
Cases == SelectSeq(AllObjs, LAMBDA o : ~o.flag)
Selected(o) == sel.all \/ o.name \in sel.names

\* A successful design returns every selected case of every file once, in
\* file order: the selected names of the json objects, which must then be
\* all distinct.
DesignedCasesInOrder ==
    calls > 0 /\ outcome.exc = "none" =>
        /\ outcome.total = [i \in 1..Len(SelectSeq(Cases, Selected)) |->
                              SelectSeq(Cases, Selected)[i].name]
        /\ \A i, j \in DOMAIN outcome.total : i # j => outcome.total[i] # outcome.total[j]

\* A case is refused for a missing key only when it lacks a key it must
\* have: a base key, or st_mode for an ms_python_train case (which has it).
\* Whatever cases came before it, a well-formed case is never refused.
RejectsOnlyMalformedCases ==
    calls > 0 /\ outcome.exc = "missing_key" =>
        \E i \in DOMAIN Cases : Cases[i].lacksBase

=============================================================================
