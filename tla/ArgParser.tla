----------------------------- MODULE ArgParser -----------------------------
(***************************************************************************)
(* The msopst command line (src/main/arg_parser.py, MsopstArgParser) and   *)
(* the threshold the comparison then uses for a case                       *)
(* (src/main/result_comparer.py, ResultCompare._get_err_thr).              *)
(*                                                                         *)
(* argparse's wiring is left out; what is kept is the dispatch on the      *)
(* command, the defaults it supplies, and every check that raises.  The    *)
(* text of an option is abstracted to the class of Python value it         *)
(* denotes: `ast.literal_eval` is modelled by what it returns or raises.   *)
(* The validators of utils (outside src/) are abstracted to their verdict: *)
(* a name is "valid" or "invalid", a float pair "[p,q]" passes             *)
(* check_list_float and "[bad,bad]" does not.                              *)
(***************************************************************************)
EXTENDS Naturals, Sequences

\* sys.argv[1:]: no command, create, mi without a subcommand, three mi
\* subcommands, run.
Cmds == {"none", "create", "mi", "mi_gen", "mi_gen_testcase", "mi_compare", "run"}
NameArgs == {"all", "valid", "invalid", ""}
SocArgs == {"valid", "invalid"}
DeviceArgs == {"0", "7", "-1", "x", ""}
\* --error_threshold: absent, or the text of an empty list, a float pair,
\* a pair the float check refuses, a one-element list, a tuple, a float, a
\* bare name, and an unterminated list.
ThrTexts == {"absent", "[]", "[p,q]", "[bad,bad]", "[p]", "(p,q)", "p", "x", "[p,"}
Argvs == [cmd : Cmds, caseName : NameArgs, soc : SocArgs, device : DeviceArgs,
          thr : ThrTexts]
\* The error_threshold of a case's op_params: absent, [] or a pair.
CaseThrs == {"absent", "[]", "pair"}

\* A list value: its length and where it came from.
ThrList(n, src) == [len |-> n, src |-> src]
Unset == ThrList(0, "unset")   \* self.err_thr = '' (empty, falsy)

Ok(thr) == [exc |-> "none", thr |-> thr]
Exc(e) == [exc |-> e, thr |-> Unset]

\* The value ast.literal_eval gives for a text, or the exception it raises.
LiteralEval(t) ==
    CASE t = "[]"        -> [exc |-> "none", type |-> "list", len |-> 0, valid |-> TRUE]
      [] t = "[p,q]"     -> [exc |-> "none", type |-> "list", len |-> 2, valid |-> TRUE]
      [] t = "[bad,bad]" -> [exc |-> "none", type |-> "list", len |-> 2, valid |-> FALSE]
      [] t = "[p]"       -> [exc |-> "none", type |-> "list", len |-> 1, valid |-> TRUE]
      [] t = "(p,q)"     -> [exc |-> "none", type |-> "tuple", len |-> 2, valid |-> TRUE]
      [] t = "p"         -> [exc |-> "none", type |-> "float", len |-> 0, valid |-> TRUE]
      [] t = "x"         -> [exc |-> "ValueError", type |-> "none", len |-> 0, valid |-> FALSE]
      [] t = "[p,"       -> [exc |-> "SyntaxError", type |-> "none", len |-> 0, valid |-> FALSE]

\* Mutant: a list of any non-zero length goes to the float check.
CheckErrorThresholdAnyLength(v, src) ==
    IF v.type = "list" /\ v.len = 0 THEN Ok(ThrList(0, src))
    ELSE IF v.type = "list" /\ v.valid THEN Ok(ThrList(v.len, src))
    ELSE Exc("OpTestGenException")

\* _check_error_threshold: [] is kept, a pair must pass check_list_float,
\* anything else raises.
CheckErrorThreshold(v, src) ==
    IF v.type = "list" /\ v.len = 0 THEN Ok(ThrList(0, src))
    ELSE IF v.type = "list" /\ v.len = 2 /\ v.valid THEN Ok(ThrList(2, src))
    ELSE Exc("OpTestGenException")

\* Mutant: an absent option is given the mi compare default.
GenErrorThresholdDefaultPair(text, src) ==
    IF text = "absent" THEN CheckErrorThreshold(LiteralEval("[p,q]"), "mi_default")
    ELSE LET v == LiteralEval(text)
         IN IF v.exc = "ValueError" THEN Exc("OpTestGenException")
            ELSE IF v.exc = "SyntaxError" THEN Exc("SyntaxError")
            ELSE CheckErrorThreshold(v, src)

\* _gen_error_threshold: None becomes []; a ValueError of literal_eval is
\* turned into the tool's exception, a SyntaxError is not caught.
GenErrorThreshold(text, src) ==
    IF text = "absent" THEN CheckErrorThreshold(LiteralEval("[]"), src)
    ELSE LET v == LiteralEval(text)
         IN IF v.exc = "ValueError" THEN Exc("OpTestGenException")
            ELSE IF v.exc = "SyntaxError" THEN Exc("SyntaxError")
            ELSE CheckErrorThreshold(v, src)

\* _check_case_name_valid, _check_soc_version (check_name_valid) and
\* _check_device_id (str.isdigit).
CaseNameOK(n) == n # "invalid"
SocOK(s) == s = "valid"
DeviceOK(d) == d \in {"0", "7"}

\* The --error_threshold text the parser sees: mi compare's default is
\* "[0.01, 0.05]", run's is None.
ThrText(a) == IF a.cmd = "mi_compare" /\ a.thr = "absent" THEN "[p,q]" ELSE a.thr
ThrSource(a) == IF a.cmd = "mi_compare" /\ a.thr = "absent" THEN "mi_default" ELSE "cli"

\* _check_mi_args: the checks of the mi subcommands.
CheckMiArgs(a) ==
    CASE a.cmd = "mi_gen" ->
            IF CaseNameOK(a.caseName) THEN Ok(Unset) ELSE Exc("OpTestGenException")
      [] a.cmd = "mi_gen_testcase" ->
            IF DeviceOK(a.device) THEN Ok(Unset) ELSE Exc("OpTestGenException")
      [] a.cmd = "mi_compare" -> GenErrorThreshold(ThrText(a), ThrSource(a))

\* _check_run_args: case name, soc version, device id, then the threshold;
\* the first failing check raises.
CheckRunArgs(a) ==
    IF ~CaseNameOK(a.caseName) \/ ~SocOK(a.soc) \/ ~DeviceOK(a.device)
    THEN Exc("OpTestGenException")
    ELSE GenErrorThreshold(ThrText(a), ThrSource(a))

\* MsopstArgParser.__init__: no command, or mi without a subcommand,
\* raises; create only copies its options.
ParseArgv(a) ==
    CASE a.cmd \in {"none", "mi"} -> Exc("OpTestGenException")
      [] a.cmd = "create" -> Ok(Unset)
      [] a.cmd = "run" -> CheckRunArgs(a)
      [] OTHER -> CheckMiArgs(a)

\* _get_err_thr: a non-empty command-line list wins, then a truthy
\* threshold of the case, then ConstManager.DEFAULT_ERROR_THRESHOLD.
GetErrThr(errThr, caseThr) ==
    IF errThr.len > 0 THEN errThr.src
    ELSE IF caseThr = "pair" THEN "case"
    ELSE "default"

-----------------------------------------------------------------------------

VARIABLES
    argv,     \* the command line
    caseThr,  \* the error_threshold in the compared case's op_params
    parsed,   \* the outcome of MsopstArgParser(): exception, err_thr
    used,     \* the threshold CompareData was given for the case
    pc

vars == <<argv, caseThr, parsed, used, pc>>

Init ==
    /\ argv \in Argvs
    /\ caseThr \in CaseThrs
    /\ parsed = Ok(Unset)
    /\ used = "none"
    /\ pc = "parse"

\* The parser object is built from sys.argv.
ParseArgs ==
    /\ pc = "parse"
    /\ parsed' = ParseArgv(argv)
    /\ pc' = IF parsed'.exc = "none" /\ argv.cmd \in {"run", "mi_compare"}
             THEN "compare" ELSE "done"
    /\ UNCHANGED <<argv, caseThr, used>>

\* The driver hands err_thr to ResultCompare, which compares the case's
\* output with the threshold _get_err_thr picks.
CompareCase ==
    /\ pc = "compare"
    /\ used' = GetErrThr(parsed.thr, caseThr)
    /\ pc' = "done"
    /\ UNCHANGED <<argv, caseThr, parsed>>

\* The process has exited.
Finished == pc = "done" /\ UNCHANGED vars

Next == ParseArgs \/ CompareCase \/ Finished

Spec == Init /\ [][Next]_vars

-----------------------------------------------------------------------------
(* Properties.                                                             *)

TypeOK ==
    /\ argv \in Argvs
    /\ caseThr \in CaseThrs
    /\ parsed.exc \in {"none", "OpTestGenException", "SyntaxError"}
    /\ parsed.thr \in [len : Nat, src : {"unset", "cli", "mi_default"}]
    /\ used \in {"none", "cli", "mi_default", "case", "default"}
    /\ pc \in {"parse", "compare", "done"}

\* The texts that denote a threshold CompareData can use: an empty list
\* (no threshold) or a pair of floats.
GoodThr(t) == t \in {"absent", "[]", "[p,q]"}
OtherArgsOK == CaseNameOK(argv.caseName) /\ SocOK(argv.soc) /\ DeviceOK(argv.device)

\* run and mi compare accept the threshold option exactly when it denotes
\* an empty list or a float pair (the other arguments being valid), and
\* what they keep is then empty or a pair: no list of another length, no
\* tuple and no scalar reaches the comparison.
AcceptedThresholdWellFormed ==
    pc # "parse" /\ argv.cmd \in {"run", "mi_compare"} =>
        /\ (argv.cmd = "mi_compare" \/ OtherArgsOK) =>
              (parsed.exc = "none" <=> GoodThr(argv.thr))
        /\ parsed.exc = "none" => parsed.thr.len \in {0, 2}

\* In msopst run, a case is compared with the threshold the user gave on
\* the command line, else with its own from the case json, else with the
\* tool default.
RunThresholdPrecedence ==
    pc = "done" /\ argv.cmd = "run" /\ parsed.exc = "none" =>
        used = IF argv.thr = "[p,q]" THEN "cli"
               ELSE IF caseThr = "pair" THEN "case" ELSE "default"

\* A case that sets its own error_threshold is compared with it whenever
\* the user gives none on the command line, in run and in mi compare.
CaseThresholdHonoured ==
    pc = "done" /\ parsed.exc = "none" /\ argv.cmd \in {"run", "mi_compare"}
      /\ argv.thr = "absent" /\ caseThr = "pair" => used = "case"

=============================================================================
