------------------------------- MODULE OpSTRun -------------------------------
(***************************************************************************)
(* One "msopst run" of the operator system-test harness, seen through the  *)
(* report it keeps (src/main/st_report.py, src/main/op_st_case_info.py):   *)
(* case design, expected-data generation (src/main/data_generator.py), ATC *)
(* single-op conversion (src/main/atc_transform_om.py), the device run     *)
(* that writes result.txt, the result comparison                           *)
(* (src/main/result_comparer.py) and the summary.                          *)
(*                                                                         *)
(* The report is modelled with its object identities: every                *)
(* OpSTStageResult is an entry of `objs`, and a case trace is a sequence   *)
(* of entry ids, so that one object appended to the trace of every case    *)
(* (AtcTransformOm.add_op_st_stage_result, ResultTxtParser) is shared as   *)
(* it is in the code, and add_stage_result's in-place overwrite of older   *)
(* entries is seen by every trace that holds them.                         *)
(***************************************************************************)
EXTENDS Naturals, Sequences, FiniteSets, SequencesExt, Functions

CONSTANTS
    CaseOrder,   \* the case names, in the order of the case json files
    NOut,        \* the number of outputs (output_desc) of every case
    MaxReloads   \* how many "mi compare" runs on the saved report are explored

Cases == ToSet(CaseOrder)

ASSUME /\ Len(CaseOrder) = Cardinality(Cases)
       /\ NOut \in Nat \ {0}
       /\ MaxReloads \in Nat

SUCCESS == "success"
FAILED  == "failed"
Statuses == {SUCCESS, FAILED}

\* The "expect" field of a case json: success, failed, or anything else.
ExpectValues == {SUCCESS, FAILED, "other"}

StageNames == {"atc_single_op_convert", "run_acl_code", "compare_data"}
StageRecord == [stage : StageNames, status : Statuses]

\* The third column of a result.txt line; "[error]" stands for any other word.
RunResults == {"[pass]", "[fail]", "[error]"}

\* What comparing one output yields: CompareData's "Pass" or "Failed", or
\* "Skip" when the result file, the expect file or the dtype is missing.
Outcomes == {"Skip", "Pass", "Failed"}

Phases == {"design", "gen", "atc", "run", "compare", "summary", "save",
           "done", "aborted"}

VARIABLES
    pc,            \* the step of the run the harness is in
    caseJson,      \* per case: has an expect function, has inputs, "expect"
    expectDict,    \* OpSTReport.expect_dict
    reportList,    \* OpSTReport.report_list, as the case names in order
    objs,          \* every OpSTStageResult object ever created
    stages,        \* OpSTCaseTrace.stage_result of each case: ids into objs
    expectPaths,   \* len(OpSTCase.expect_data_paths) of each case
    compiled,      \* environment: the cases ATC produced a model for
    atcFailed,     \* environment: the atc command exited with an error
    resultFile,    \* environment: run/out/result_files/result.txt exists
    resultLines,   \* environment: the lines of result.txt
    compared,      \* the CompareData results of the last comparison of each case
    caseStatus,    \* OpSTCaseReport.status
    caseExpect,    \* OpSTCaseReport.expect
    totalCnt, successCnt, failedCnt,  \* OpSTReport counters
    saved,         \* the report_list of st_report.json, as written by save
    reloads        \* the number of "mi compare" processes run so far

vars == <<pc, caseJson, expectDict, reportList, objs, stages, expectPaths,
          compiled, atcFailed, resultFile, resultLines, compared,
          caseStatus, caseExpect, totalCnt, successCnt, failedCnt,
          saved, reloads>>

CaseJsons == [withExpect : BOOLEAN, hasInputs : BOOLEAN, expect : ExpectValues]
ResultLine == [case : Cases, result : RunResults, wellFormed : BOOLEAN]
\* One entry of report_list in st_report.json (OpSTCaseReport.to_json_obj).
SavedCase == [case : Cases, status : Statuses, expect : Statuses,
              trace : Seq(StageRecord)]

ReportCases == Range(reportList)

-----------------------------------------------------------------------------
(* The report.                                                             *)

\* Mutant: add_stage_result without the loop that overwrites older entries.
AddStageAppendOnly(os, st, cs, rec) ==
    [objs   |-> os \o <<rec>>,
     stages |-> [c \in DOMAIN st |->
                   IF c \in cs THEN Append(st[c], Len(os) + 1) ELSE st[c]]]

\* OpSTCaseTrace.add_stage_result, applied with one shared object `rec` to
\* the traces of the cases in cs: every entry with the same stage name in
\* those traces is overwritten in place, then the new object is appended.
AddStage(os, st, cs, rec) ==
    LET id  == Len(os) + 1
        hit == {i \in DOMAIN os : /\ os[i].stage = rec.stage
                                  /\ \E c \in cs : i \in Range(st[c])}
    IN [objs   |-> ([i \in hit |-> [os[i] EXCEPT !.status = rec.status]] @@ os) \o <<rec>>,
        stages |-> [c \in cs |-> Append(st[c], id)] @@ st]

\* OpSTReport.get_case_report: a report exists only when the name is unique.
GetCaseReport(c) == Cardinality({i \in 1..Len(reportList) : reportList[i] = c}) = 1

\* OpSTReport.set_expect: a value other than success or failed is success.
SetExpect(v) == IF v \in Statuses THEN v ELSE SUCCESS

-----------------------------------------------------------------------------
(* Case design (CaseDesign.design) and report creation.                    *)

Init ==
    /\ pc = "design"
    /\ caseJson \in [Cases -> CaseJsons]
    /\ expectDict = [c \in {} |-> SUCCESS]
    /\ reportList = <<>>
    /\ objs = <<>>
    /\ stages = [c \in Cases |-> <<>>]
    /\ expectPaths = [c \in Cases |-> 0]
    /\ compiled = [c \in Cases |-> FALSE]
    /\ atcFailed = FALSE
    /\ resultFile = FALSE
    /\ resultLines = <<>>
    /\ compared = [c \in Cases |-> {}]
    /\ caseStatus = [c \in Cases |-> SUCCESS]
    /\ caseExpect = [c \in Cases |-> SUCCESS]
    /\ totalCnt = 0 /\ successCnt = 0 /\ failedCnt = 0
    /\ saved = <<>>
    /\ reloads = 0

\* The case json is read, one report per case is added with an empty trace
\* (OpSTCaseReport starts with status and expect success), and set_expect
\* fills expect_dict from the same json.
Design ==
    /\ pc = "design"
    /\ reportList' = CaseOrder
    /\ expectDict' = [c \in Cases |-> SetExpect(caseJson[c].expect)]
    /\ pc' = "gen"
    /\ UNCHANGED <<caseJson, objs, stages, expectPaths, compiled, atcFailed,
                   resultFile, resultLines, compared, caseStatus, caseExpect,
                   totalCnt, successCnt, failedCnt,
                   saved, reloads>>

-----------------------------------------------------------------------------
(* Data generation (DataGenerator.generate).                               *)

\* The loop over the cases returns at the first case without inputs, so
\* only the cases before it are generated.
GeneratedCases ==
    LET stop == SelectInSeq(CaseOrder, LAMBDA c : ~caseJson[c].hasInputs)
        n    == IF stop = 0 THEN Len(CaseOrder) ELSE stop - 1
    IN {CaseOrder[i] : i \in 1..n}

\* Every generated case with an expect function gets the k tensors its
\* function returns written as expect data; the others keep no paths.
GenerateData ==
    /\ pc = "gen"
    /\ \E k \in [Cases -> 1..NOut] :
          expectPaths' = [c \in Cases |->
                            IF c \in GeneratedCases /\ caseJson[c].withExpect
                            THEN k[c] ELSE 0]
    /\ pc' = "atc"
    /\ UNCHANGED <<caseJson, expectDict, reportList, objs, stages, compiled,
                   atcFailed, resultFile, resultLines, compared, caseStatus,
                   caseExpect, totalCnt, successCnt, failedCnt,
                   saved, reloads>>

\* _get_tensors_and_func: the user's expect function raises, which ends the run.
GenerateDataFails ==
    /\ pc = "gen"
    /\ \E c \in GeneratedCases : caseJson[c].withExpect
    /\ pc' = "aborted"
    /\ UNCHANGED <<caseJson, expectDict, reportList, objs, stages, expectPaths,
                   compiled, atcFailed, resultFile, resultLines, compared,
                   caseStatus, caseExpect, totalCnt, successCnt, failedCnt,
                   saved, reloads>>

-----------------------------------------------------------------------------
(* ATC conversion (AtcTransformOm.transform_acl_json_to_om).               *)

AtcSuccess == [stage |-> "atc_single_op_convert", status |-> SUCCESS]
AtcFailure == [stage |-> "atc_single_op_convert", status |-> FAILED]

\* The op_models directory exists when atc produced at least one model.
OpModelsExist(comp) == \E c \in Cases : comp[c]

\* The except branch re-raises (check_path_exists) unless some case is
\* expected to fail or op_models exists.
AtcAborts(comp) == FAILED \notin Range(expectDict) /\ ~OpModelsExist(comp)

\* atc exits 0: _execute_atc_cmd records success for every case, and the
\* trailing add_op_st_stage_result records success again.
AtcSucceeds ==
    /\ pc = "atc"
    /\ LET r1 == AddStage(objs, stages, ReportCases, AtcSuccess)
           r2 == AddStage(r1.objs, r1.stages, ReportCases, AtcSuccess)
       IN objs' = r2.objs /\ stages' = r2.stages
    /\ compiled' = [c \in Cases |-> TRUE]
    /\ atcFailed' = FALSE
    /\ pc' = "run"
    /\ UNCHANGED <<caseJson, expectDict, reportList, expectPaths, resultFile,
                   resultLines, compared, caseStatus, caseExpect, totalCnt,
                   successCnt, failedCnt,
                   saved, reloads>>

\* atc fails having converted the cases of comp: failure is recorded for
\* every case and the run ends with the exception of check_path_exists.
AtcFailsAborts ==
    /\ pc = "atc"
    /\ \E comp \in [Cases -> BOOLEAN] \ {[c \in Cases |-> TRUE]} :
          /\ AtcAborts(comp)
          /\ LET r1 == AddStage(objs, stages, ReportCases, AtcFailure)
             IN objs' = r1.objs /\ stages' = r1.stages
          /\ compiled' = comp
    /\ atcFailed' = TRUE
    /\ pc' = "aborted"
    /\ UNCHANGED <<caseJson, expectDict, reportList, expectPaths, resultFile,
                   resultLines, compared, caseStatus, caseExpect, totalCnt,
                   successCnt, failedCnt,
                   saved, reloads>>

\* atc fails but the except branch does not raise: failure is recorded,
\* then control falls through to the add_op_st_stage_result(SUCCESS) that
\* follows the try statement.
AtcFailsContinues ==
    /\ pc = "atc"
    /\ \E comp \in [Cases -> BOOLEAN] \ {[c \in Cases |-> TRUE]} :
          /\ ~AtcAborts(comp)
          /\ LET r1 == AddStage(objs, stages, ReportCases, AtcFailure)
                 r2 == AddStage(r1.objs, r1.stages, ReportCases, AtcSuccess)
             IN objs' = r2.objs /\ stages' = r2.stages
          /\ compiled' = comp
    /\ atcFailed' = TRUE
    /\ pc' = "run"
    /\ UNCHANGED <<caseJson, expectDict, reportList, expectPaths, resultFile,
                   resultLines, compared, caseStatus, caseExpect, totalCnt,
                   successCnt, failedCnt,
                   saved, reloads>>

-----------------------------------------------------------------------------
(* The device run (the generated acl program, outside this repository).    *)
(* It writes one line per case in case order, and may stop after any line  *)
(* or never write result.txt; a case without a model cannot pass; a line   *)
(* may be malformed.                                                       *)

\* Every result.txt the program can write: a line for each of the first n
\* cases, each with a result word, well-formed or not.
ResultFiles ==
    {[i \in 1..n |-> [case |-> CaseOrder[i], result |-> res[CaseOrder[i]],
                      wellFormed |-> wf[CaseOrder[i]]]] :
        n \in 0..Len(CaseOrder), res \in [Cases -> RunResults], wf \in [Cases -> BOOLEAN]}

DeviceRun ==
    /\ pc = "run"
    /\ \/ /\ resultFile' = FALSE
          /\ resultLines' = <<>>
       \/ /\ resultFile' = TRUE
          /\ resultLines' \in ResultFiles
          /\ \A i \in DOMAIN resultLines' :
                resultLines'[i].result = "[pass]" => compiled[resultLines'[i].case]
    /\ pc' = "compare"
    /\ UNCHANGED <<caseJson, expectDict, reportList, objs, stages, expectPaths,
                   compiled, atcFailed, compared, caseStatus, caseExpect,
                   totalCnt, successCnt, failedCnt,
                   saved, reloads>>

-----------------------------------------------------------------------------
(* Result comparison (ResultCompare.compare).                              *)

\* ResultTxtParser.parser_result_txt: lines that are not three fields with
\* a numeric index are skipped.
ParsedLines == SelectSeq(resultLines, LAMBDA l : l.wellFormed)

\* The CompareData results the outputs of the cases can give: one for each
\* expect path of the case (only those are ever compared).
OutcomeChoices ==
    {f \in [Cases -> UNION {[1..n -> Outcomes] : n \in 0..NOut}] :
        \A c \in Cases : Len(f[c]) = expectPaths[c]}

\* _get_compare_result_list: the CompareData result of each expect path
\* whose result file, expect file and dtype are present.
CompareResults(out, c) ==
    SelectSeq([i \in 1..expectPaths[c] |-> out[c][i]], LAMBDA r : r # "Skip")

\* Mutant: a "Failed" comparison does not fail the case.
CompareStatusIgnoringFailed(results) == IF results = <<>> THEN FAILED ELSE SUCCESS

\* Mutant: an empty result list counts as a successful comparison.
CompareStatusNoEmptyCheck(results) ==
    IF \E i \in 1..Len(results) : results[i] = "Failed" THEN FAILED ELSE SUCCESS

\* _get_compare_stage_result: failed when nothing was compared or one
\* comparison failed.
CompareStatus(results) ==
    IF results = <<>> \/ \E i \in 1..Len(results) : results[i] = "Failed"
    THEN FAILED ELSE SUCCESS

\* Mutant: the result word itself is recorded as the status.
RunStageStatusRaw(result) == result

\* _get_run_stage_result: the stage status a "[pass]" or "[fail]" line gives.
RunStageStatus(result) == IF result = "[pass]" THEN SUCCESS ELSE FAILED

Stage(name, status) == [stage |-> name, status |-> status]

\* One iteration of the loop in compare over a parsed line, on the
\* accumulated report `a`; out gives the CompareData result of each output.
CompareLine(out, a, l) ==
    LET c  == l.case
        Add(rec) == AddStage(a.objs, a.stages, {c}, rec)
        With(r, cmp) == [objs |-> r.objs, stages |-> r.stages, compared |-> cmp]
    IN
    IF ~GetCaseReport(c) \/ l.result \notin {"[pass]", "[fail]"} THEN a
    ELSE IF ~caseJson[c].withExpect \/ l.result = "[fail]"
    THEN With(Add(Stage("run_acl_code", RunStageStatus(l.result))), a.compared)
    \* _get_case_info: the run succeeded; no expect data fails the comparison
    ELSE LET r1 == Add(Stage("run_acl_code", SUCCESS))
             Add2(rec) == AddStage(r1.objs, r1.stages, {c}, rec)
             results == CompareResults(out, c)
         IN IF expectPaths[c] = 0
            THEN With(Add2(Stage("compare_data", FAILED)), a.compared)
            ELSE With(Add2(Stage("compare_data", CompareStatus(results))),
                      [a.compared EXCEPT ![c] = Range(results)])

\* result.txt is missing: run_acl_code fails for every case, nothing is read.
CompareNoResultTxt ==
    /\ pc = "compare"
    /\ ~resultFile
    /\ LET r == AddStage(objs, stages, ReportCases,
                         Stage("run_acl_code", FAILED))
       IN objs' = r.objs /\ stages' = r.stages
    /\ pc' = "summary"
    /\ UNCHANGED <<caseJson, expectDict, reportList, expectPaths, compiled,
                   atcFailed, resultFile, resultLines, compared, caseStatus,
                   caseExpect, totalCnt, successCnt, failedCnt,
                   saved, reloads>>

Compare ==
    /\ pc = "compare"
    /\ resultFile
    /\ \E out \in OutcomeChoices :
          LET a == FoldLeft(LAMBDA acc, l : CompareLine(out, acc, l),
                            [objs |-> objs, stages |-> stages,
                             compared |-> compared],
                            ParsedLines)
          IN /\ objs' = a.objs
             /\ stages' = a.stages
             /\ compared' = a.compared
    /\ pc' = "summary"
    /\ UNCHANGED <<caseJson, expectDict, reportList, expectPaths, compiled,
                   atcFailed, resultFile, resultLines, caseStatus, caseExpect,
                   totalCnt, successCnt, failedCnt,
                   saved, reloads>>

-----------------------------------------------------------------------------
(* Summary (OpSTReport.console_print, _summary_txt).                       *)

\* OpSTCaseReport.update_case_status: failed if any entry of the trace is
\* not a success; a status once failed is never reset.
UpdateCaseStatus(c) ==
    IF \E i \in Range(stages[c]) : objs[i].status # SUCCESS
    THEN FAILED ELSE caseStatus[c]

\* OpSTCaseReport.update_case_expect: the expect of the parent json case.
UpdateCaseExpect(c) ==
    IF c \in DOMAIN expectDict /\ expectDict[c] = FAILED
    THEN FAILED ELSE caseExpect[c]

Summary ==
    /\ pc = "summary"
    /\ reportList # <<>>
    /\ caseStatus' = [c \in Cases |->
                        IF c \in ReportCases THEN UpdateCaseStatus(c)
                                             ELSE caseStatus[c]]
    /\ caseExpect' = [c \in Cases |->
                        IF c \in ReportCases THEN UpdateCaseExpect(c)
                                             ELSE caseExpect[c]]
    \* update_cnt, once per entry of report_list
    /\ LET ok == {i \in 1..Len(reportList) :
                    caseStatus'[reportList[i]] = caseExpect'[reportList[i]]}
       IN /\ totalCnt' = totalCnt + Len(reportList)
          /\ successCnt' = successCnt + Cardinality(ok)
          /\ failedCnt' = failedCnt + Len(reportList) - Cardinality(ok)
    /\ pc' = "save"
    /\ UNCHANGED <<caseJson, expectDict, reportList, objs, stages, expectPaths,
                   compiled, atcFailed, resultFile, resultLines, compared,
                   saved, reloads>>

-----------------------------------------------------------------------------
(* The saved report (OpSTReport.save, load) and "mi compare" on it.        *)

\* OpSTCaseReport.to_json_obj: the case, its status and expect, and its
\* trace by value (OpSTCaseTrace.to_json_obj writes each stage object).
SavedEntry(c) ==
    [case |-> c, status |-> caseStatus[c], expect |-> caseExpect[c],
     trace |-> [k \in 1..Len(stages[c]) |-> objs[stages[c][k]]]]

\* save: the report_list is written to st_report.json.
Save ==
    /\ pc = "save"
    /\ saved' = [i \in 1..Len(reportList) |-> SavedEntry(reportList[i])]
    /\ pc' = "done"
    /\ UNCHANGED <<caseJson, expectDict, reportList, objs, stages, expectPaths,
                   compiled, atcFailed, resultFile, resultLines, compared,
                   caseStatus, caseExpect, totalCnt, successCnt, failedCnt,
                   reloads>>

\* OpSTCaseReport.parser_json_obj: a new case report whose trace is rebuilt
\* object by object (OpSTCaseTrace.parser_json_obj); the saved status and
\* expect are not read, the constructor sets both to success.
LoadedObjs(sv) == FlattenSeq([i \in 1..Len(sv) |-> sv[i].trace])

LoadedStages(sv) ==
    LET off(i) == Len(FlattenSeq([j \in 1..(i - 1) |-> sv[j].trace]))
    IN [c \in Cases |->
          IF \E i \in 1..Len(sv) : sv[i].case = c
          THEN LET i == CHOOSE j \in 1..Len(sv) : sv[j].case = c
               IN [k \in 1..Len(sv[i].trace) |-> off(i) + k]
          ELSE <<>>]

\* Mutant: the loaded cases are added to the report of the earlier run,
\* whose counters are not reset.
ReloadKeepingCounters ==
    /\ pc = "done"
    /\ saved # <<>>
    /\ reloads < MaxReloads
    /\ objs' = LoadedObjs(saved)
    /\ stages' = LoadedStages(saved)
    /\ reportList' = [i \in 1..Len(saved) |-> saved[i].case]
    /\ caseStatus' = [c \in Cases |-> SUCCESS]
    /\ caseExpect' = [c \in Cases |-> SUCCESS]
    /\ reloads' = reloads + 1
    /\ pc' \in {"run", "compare"}
    /\ UNCHANGED <<caseJson, expectDict, expectPaths, compiled, atcFailed,
                   resultFile, resultLines, compared, saved, totalCnt,
                   successCnt, failedCnt>>

\* A new process builds a fresh OpSTReport (counters 0, empty expect_dict)
\* and loads st_report.json into it; the comparison then reads result.txt
\* again, as it is, or after the device program was run again.
Reload ==
    /\ pc = "done"
    /\ saved # <<>>
    /\ reloads < MaxReloads
    /\ objs' = LoadedObjs(saved)
    /\ stages' = LoadedStages(saved)
    /\ reportList' = [i \in 1..Len(saved) |-> saved[i].case]
    /\ expectDict' = [c \in {} |-> SUCCESS]
    /\ caseStatus' = [c \in Cases |-> SUCCESS]
    /\ caseExpect' = [c \in Cases |-> SUCCESS]
    /\ totalCnt' = 0 /\ successCnt' = 0 /\ failedCnt' = 0
    /\ reloads' = reloads + 1
    /\ pc' \in {"run", "compare"}
    /\ UNCHANGED <<caseJson, expectPaths, compiled, atcFailed, resultFile,
                   resultLines, compared, saved>>

\* The process has exited.
Finished ==
    /\ pc \in {"done", "aborted"}
    /\ UNCHANGED vars

Next ==
    \/ Design
    \/ GenerateData \/ GenerateDataFails
    \/ AtcSucceeds \/ AtcFailsAborts \/ AtcFailsContinues
    \/ DeviceRun
    \/ CompareNoResultTxt \/ Compare
    \/ Summary
    \/ Save
    \/ Reload
    \/ Finished

Spec == Init /\ [][Next]_vars

-----------------------------------------------------------------------------
(* Properties.                                                             *)

TypeOK ==
    /\ pc \in Phases
    /\ caseJson \in [Cases -> CaseJsons]
    /\ DOMAIN expectDict \subseteq Cases /\ Range(expectDict) \subseteq Statuses
    /\ reportList \in Seq(Cases)
    /\ objs \in Seq(StageRecord)
    /\ stages \in [Cases -> Seq(DOMAIN objs)]
    /\ expectPaths \in [Cases -> 0..NOut]
    /\ compiled \in [Cases -> BOOLEAN]
    /\ atcFailed \in BOOLEAN /\ resultFile \in BOOLEAN
    /\ resultLines \in Seq(ResultLine)
    /\ compared \in [Cases -> SUBSET {"Pass", "Failed"}]
    /\ caseStatus \in [Cases -> Statuses] /\ caseExpect \in [Cases -> Statuses]
    /\ {totalCnt, successCnt, failedCnt} \subseteq Nat
    /\ saved \in Seq(SavedCase)
    /\ reloads \in 0..MaxReloads

\* The status of the most recent entry of stage s in the trace of c.
LatestStatus(c, s) ==
    LET ids == SelectSeq(stages[c], LAMBDA i : objs[i].stage = s)
    IN IF ids = <<>> THEN "none" ELSE objs[Last(ids)].status

\* What a case's verdict should be: failed when the latest outcome of some
\* stage is a failure.
Verdict(c) ==
    IF \E s \in StageNames : LatestStatus(c, s) = FAILED THEN FAILED ELSE SUCCESS

ExpectOf(c) == IF c \in DOMAIN expectDict THEN expectDict[c] ELSE SUCCESS

\* The device reported "[fail]" for c on a line the parser accepts.
DeviceReportedFail(c) ==
    \E i \in 1..Len(resultLines) : /\ resultLines[i].case = c
                                   /\ resultLines[i].result = "[fail]"
                                   /\ resultLines[i].wellFormed

\* The summary counts (update_cnt after update_case_status and
\* update_case_expect) agree with the traces: a stage recorded several
\* times (atc success after failure, run_acl_code) counts by its latest
\* outcome, and every case is counted once, as success exactly when its
\* verdict is what its json case expects.
SummaryAgreesWithTraces ==
    pc = "done" =>
        /\ totalCnt = Cardinality(Cases)
        /\ successCnt = Cardinality({c \in Cases : Verdict(c) = ExpectOf(c)})
        /\ failedCnt = totalCnt - successCnt

\* A failure the harness observed is never reported as a passing case:
\* a "[fail]" line of result.txt or an output CompareData found different
\* makes the case's status failed, whatever was recorded for it before or
\* after (ResultCompare._get_compare_stage_result, _get_run_stage_result,
\* OpSTCaseReport.update_case_status).
RecordedFailureWins ==
    pc = "done" =>
        \A c \in Cases :
            (DeviceReportedFail(c) \/ "Failed" \in compared[c])
                => caseStatus[c] = FAILED

\* compare_data is recorded as a success only when at least one output was
\* compared and every compared output passed; outputs whose files or dtype
\* are missing are skipped (ResultCompare._get_compare_result_list).
CompareVerdictSound ==
    \A c \in Cases :
        LatestStatus(c, "compare_data") = SUCCESS => compared[c] = {"Pass"}

\* When atc fails, the report says so: the latest atc_single_op_convert
\* entry of every case is a failure (AtcTransformOm.transform_acl_json_to_om).
AtcFailureRecorded ==
    atcFailed /\ pc \notin {"design", "gen", "atc"} =>
        \A c \in ReportCases : LatestStatus(c, "atc_single_op_convert") = FAILED

\* A case reported as a success was run on the device with success: its
\* trace holds a successful run_acl_code entry.
EveryPassingCaseRan ==
    pc = "done" =>
        \A c \in Cases :
            caseStatus[c] = SUCCESS => LatestStatus(c, "run_acl_code") = SUCCESS

\* A case with inputs and an expect function whose device run passed has
\* expect data to be compared with (DataGenerator.generate, "support no
\* input scene").
ExpectedOutputsGenerated ==
    pc = "done" =>
        \A c \in Cases :
            /\ caseJson[c].withExpect /\ caseJson[c].hasInputs
            /\ \E i \in 1..Len(ParsedLines) : ParsedLines[i] = [case |-> c,
                                         result |-> "[pass]", wellFormed |-> TRUE]
            => expectPaths[c] > 0

\* The summary of an "mi compare" on the saved report judges every case
\* against the "expect" of its json case, as the summary of the run did:
\* st_report.json carries it (OpSTCaseReport.to_json_obj writes "expect").
ExpectSurvivesReload ==
    pc = "done" =>
        successCnt = Cardinality({c \in Cases :
                                    Verdict(c) = SetExpect(caseJson[c].expect)})

=============================================================================
