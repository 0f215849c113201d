---------------------------- MODULE ChangedFiles ----------------------------
(***************************************************************************)
(* The CI helper that picks the C++ unit-test suites to run for a pull     *)
(* request (src/scripts/parse_changed_files.py):                           *)
(* get_file_change_info_from_ci sorts every line of the `git diff` file    *)
(* list into a FileChangeInfo by its path prefix, and                      *)
(* get_change_relate_ut_dir_list turns the non-empty lists into UT suites. *)
(*                                                                         *)
(* A path is abstracted to the prefix it starts with and its extension:    *)
(* the prefixes the code tests are disjoint directories, except            *)
(* tests/ut/plugin_test/common, which two branches test.                   *)
(***************************************************************************)
EXTENDS Integers, Sequences, SequencesExt

CONSTANT MaxLines   \* the diff lists at most MaxLines changed files

\* The directory a changed path lies in, under ops/built-in/ (roots) or
\* ops/built-in/tests/ut/ (the *_test, graph_fusion and plugin_* ones).
Roots == {"aicpu", "aicpu_test", "tests_utils",            \* aicpu, tests/utils
          "fusion_pass", "graph_fusion",
          "binary_utils", "binary_om_test",                \* kernel/binary_config/utils
          "op_proto", "ops_test",
          "op_tiling", "op_tiling_test",
          "tf_plugin", "plugin_tensorflow", "plugin_common", \* framework/tf_plugin
          "onnx_plugin", "plugin_onnx",                    \* framework/onnx_plugin
          "elsewhere"}
Exts == {".py", ".cc", ".h", ".cpp", ".json"}
Line == [root : Roots, ext : Exts]

UTs == {"CPU_UT", "PASS_UT", "OM_UT", "TILING_UT", "PROTO_UT", "PLUGIN_UT",
        "ONNX_PLUGIN_UT"}
OTHER_FILE == "OTHER_FILE"

VARIABLES
    ciFile,   \* the diff file: whether it exists, and its lines
    ran,      \* the script has run
    result    \* what get_change_relate_ut_dir_list returned

vars == <<ciFile, ran, result>>

NoInfo == [proto |-> <<>>, tiling |-> <<>>, pass |-> <<>>, om |-> <<>>,
           aicpu |-> <<>>, plugin |-> <<>>, onnx |-> <<>>, other |-> <<>>]

-----------------------------------------------------------------------------

\* Mutant: the binary om branch does not test the file extension.
ClassifyAnyBinary(info, lines, l) ==
    IF l.ext = ".py" THEN info
    ELSE IF l.root \in {"aicpu", "aicpu_test", "tests_utils"}
    THEN [info EXCEPT !.aicpu = Append(@, l)]
    ELSE IF l.root \in {"fusion_pass", "graph_fusion"}
    THEN [info EXCEPT !.pass = Append(@, l)]
    ELSE IF l.root \in {"binary_utils", "binary_om_test"}
    THEN [info EXCEPT !.om = Append(@, l)]
    ELSE IF l.root \in {"op_proto", "ops_test"}
    THEN [info EXCEPT !.proto = Append(@, l)]
    ELSE IF l.root \in {"op_tiling", "op_tiling_test"}
    THEN [info EXCEPT !.tiling = Append(@, lines)]
    ELSE IF l.root \in {"tf_plugin", "plugin_tensorflow", "plugin_common"}
    THEN [info EXCEPT !.plugin = Append(@, l)]
    ELSE IF l.root \in {"onnx_plugin", "plugin_onnx", "plugin_common"}
    THEN [info EXCEPT !.onnx = Append(@, l)]
    ELSE [info EXCEPT !.other = Append(@, l)]

\* One iteration of the loop over the lines: .py files are skipped, the
\* first matching branch takes the line; the tiling branch appends the
\* whole list of lines (`lines`, not `line`); plugin_test/common is tested
\* by the tf_plugin branch before the onnx one.
Classify(info, lines, l) ==
    IF l.ext = ".py" THEN info
    ELSE IF l.root \in {"aicpu", "aicpu_test", "tests_utils"}
    THEN [info EXCEPT !.aicpu = Append(@, l)]
    ELSE IF l.root \in {"fusion_pass", "graph_fusion"}
    THEN [info EXCEPT !.pass = Append(@, l)]
    ELSE IF l.root \in {"binary_utils", "binary_om_test"} /\ l.ext \in {".cc", ".h", ".cpp"}
    THEN [info EXCEPT !.om = Append(@, l)]
    ELSE IF l.root \in {"op_proto", "ops_test"}
    THEN [info EXCEPT !.proto = Append(@, l)]
    ELSE IF l.root \in {"op_tiling", "op_tiling_test"}
    THEN [info EXCEPT !.tiling = Append(@, lines)]
    ELSE IF l.root \in {"tf_plugin", "plugin_tensorflow", "plugin_common"}
    THEN [info EXCEPT !.plugin = Append(@, l)]
    ELSE IF l.root \in {"onnx_plugin", "plugin_onnx", "plugin_common"}
    THEN [info EXCEPT !.onnx = Append(@, l)]
    ELSE [info EXCEPT !.other = Append(@, l)]

\* get_file_change_info_from_ci: None when the diff file is missing, else
\* the FileChangeInfo built by the loop.
GetFileChangeInfoFromCi(file) ==
    IF ~file.exists THEN [isNone |-> TRUE, info |-> NoInfo]
    ELSE [isNone |-> FALSE,
          info |-> FoldLeft(LAMBDA info, l : Classify(info, file.lines, l),
                            NoInfo, file.lines)]

\* Mutant: OTHER_FILE is added to relate_ut instead of other_file.
RelateUtListOtherAsUt(info) ==
    LET If(list, S) == IF list # <<>> THEN S ELSE {}
    IN [uts   |-> If(info.aicpu, {"CPU_UT"}) \cup If(info.pass, {"PASS_UT"})
                  \cup If(info.tiling, {"TILING_UT"})
                  \cup If(info.proto, {"PROTO_UT", "PASS_UT", "PLUGIN_UT"})
                  \cup If(info.plugin, {"PLUGIN_UT"})
                  \cup If(info.onnx, {"ONNX_PLUGIN_UT"})
                  \cup If(info.om, {"OM_UT"}) \cup If(info.other, {OTHER_FILE}),
        other |-> {}]

\* _get_relate_ut_list_by_file_change: the suites of the non-empty lists;
\* a proto change also runs the pass and plugin suites.
RelateUtList(info) ==
    LET If(list, S) == IF list # <<>> THEN S ELSE {}
    IN [uts   |-> If(info.aicpu, {"CPU_UT"}) \cup If(info.pass, {"PASS_UT"})
                  \cup If(info.tiling, {"TILING_UT"})
                  \cup If(info.proto, {"PROTO_UT", "PASS_UT", "PLUGIN_UT"})
                  \cup If(info.plugin, {"PLUGIN_UT"})
                  \cup If(info.onnx, {"ONNX_PLUGIN_UT"})
                  \cup If(info.om, {"OM_UT"}),
        other |-> If(info.other, {OTHER_FILE})]

\* get_change_relate_ut_dir_list: None ("run all c++") without change info.
\* The two sets are returned as str(set); they are kept as the sets they
\* print, the order of a set's repr carrying no information.
GetChangeRelateUtDirList(file) ==
    LET r == GetFileChangeInfoFromCi(file)
    IN IF r.isNone THEN [none |-> TRUE, uts |-> {}, other |-> {}]
       ELSE [none |-> FALSE] @@ RelateUtList(r.info)

-----------------------------------------------------------------------------

Init ==
    /\ ciFile \in [exists : BOOLEAN, lines : BoundedSeq(Line, MaxLines)]
    /\ ran = FALSE
    /\ result = [none |-> FALSE, uts |-> {}, other |-> {}]

\* The script runs on the diff file.
Run ==
    /\ ~ran
    /\ ran' = TRUE
    /\ result' = GetChangeRelateUtDirList(ciFile)
    /\ UNCHANGED ciFile

Returned == ran /\ UNCHANGED vars

Next == Run \/ Returned

Spec == Init /\ [][Next]_vars

-----------------------------------------------------------------------------
(* Properties.                                                             *)

TypeOK ==
    /\ ciFile \in [exists : BOOLEAN, lines : Seq(Line)]
    /\ ran \in BOOLEAN
    /\ result \in [none : BOOLEAN, uts : SUBSET UTs, other : SUBSET {OTHER_FILE}]

\* The suites a change in a directory concerns, as the branches of the
\* classification and the suite selection list them.
Concerns(l) ==
    CASE l.ext = ".py" -> {}
      [] l.root \in {"aicpu", "aicpu_test", "tests_utils"} -> {"CPU_UT"}
      [] l.root \in {"fusion_pass", "graph_fusion"} -> {"PASS_UT"}
      [] l.root \in {"binary_utils", "binary_om_test"} ->
            IF l.ext \in {".cc", ".h", ".cpp"} THEN {"OM_UT"} ELSE {}
      [] l.root \in {"op_proto", "ops_test"} -> {"PROTO_UT", "PASS_UT", "PLUGIN_UT"}
      [] l.root \in {"op_tiling", "op_tiling_test"} -> {"TILING_UT"}
      [] l.root \in {"tf_plugin", "plugin_tensorflow"} -> {"PLUGIN_UT"}
      [] l.root = "plugin_common" -> {"PLUGIN_UT", "ONNX_PLUGIN_UT"}
      [] l.root \in {"onnx_plugin", "plugin_onnx"} -> {"ONNX_PLUGIN_UT"}
      [] OTHER -> {}

ChangedLines == {ciFile.lines[i] : i \in DOMAIN ciFile.lines}

\* A changed C++ file that no suite concerns (not under a known directory,
\* or a non-C++ file of the binary om utils) is reported as OTHER_FILE,
\* and OTHER_FILE is reported for nothing else, whatever other files the
\* pull request changes.
OtherFileExactly ==
    ran /\ ~result.none =>
        (OTHER_FILE \in result.other
           <=> \E l \in ChangedLines : l.ext # ".py" /\ Concerns(l) = {})

\* Every suite a changed file concerns is selected, and no other.
SelectsConcernedSuites ==
    ran /\ ~result.none =>
        result.uts = UNION {Concerns(l) : l \in ChangedLines}

=============================================================================
