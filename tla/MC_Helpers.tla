----------------------------- MODULE MC_Helpers -----------------------------
(***************************************************************************)
(* The parts of the repository that share no state, checked in one model: *)
(* the window and division arithmetic (ShapeArith), the axis helpers and  *)
(* the tuple sum (ReduceAxis), the dtype support lookups and their        *)
(* decorator (DslSupport), the CI suite selection (ChangedFiles), the     *)
(* command line with the threshold choice of the comparison (ArgParser),  *)
(* the design of the cases from their json files (CaseDesign), the        *)
(* acl_op.json written for atc (AclOpJson), the parent-name lookup of the *)
(* report (CaseExpect), the parameters of the user's expect function     *)
(* (ExpectParams), and msopst run (OpSTRun) twice: two cases with two     *)
(* outputs each and no reload ("st"), and two cases with one output and   *)
(* one "mi compare" of the saved report ("recompare").  The model is      *)
(* their disjoint sum: `part` picks the part one behaviour runs; the      *)
(* variables of the others keep an idle value.                            *)
(***************************************************************************)
EXTENDS Naturals

VARIABLES
    part,
    sFn, sArgs, sRes,          \* ShapeArith
    rFn, rArgs, rCall, rRes,   \* ReduceAxis
    dFn, dEnv, dArgs, dRes,    \* DslSupport
    ciFile, ran, result,       \* ChangedFiles
    aArgv, aCaseThr, aParsed, aUsed, aPc,  \* ArgParser
    kRequiredKeys, kFiles, kSel, kOutcome, kCalls,  \* CaseDesign
    jCases, jFlag, jContent, jRan,  \* AclOpJson
    oPc, oCaseJson, oExpectDict, oReportList, oObjs, oStages, oExpectPaths, oCompiled,
    oAtcFailed, oResultFile, oResultLines, oCompared, oCaseStatus, oCaseExpect, oTotalCnt, oSuccessCnt, oFailedCnt, oSaved, oReloads,  \* OpSTRun
    pPc, pCaseJson, pExpectDict, pReportList, pObjs, pStages, pExpectPaths, pCompiled,
    pAtcFailed, pResultFile, pResultLines, pCompared, pCaseStatus, pCaseExpect, pTotalCnt, pSuccessCnt, pFailedCnt, pSaved, pReloads,  \* OpSTRun, reload
    xJsonCases, xExpectDict, xCaseExpect, xPc,  \* CaseExpect
    eCase, eInfo, eParams, ePc  \* ExpectParams

\* Sizes 0..6, filters 1..3, dilations 0..2, strides -1..3: every branch of
\* every window function, inputs smaller than the dilated filter, odd and
\* even padding, and the raising arguments.
S == INSTANCE ShapeArith WITH MaxSize <- 6, MaxFilter <- 3, MaxDilation <- 2,
                              MaxStride <- 3, fn <- sFn, args <- sArgs, res <- sRes
\* Shapes of rank 1..3 with sizes 1..2, axis lists of up to two entries in
\* -3..3: negative and out-of-range axes, all axes reduced, an axis twice;
\* tuple_sum on every dtype class, with and without a float32 cast.
R == INSTANCE ReduceAxis WITH MaxRank <- 3, MaxDim <- 2, MaxAxes <- 2,
                              fn <- rFn, args <- rArgs, call <- rCall, res <- rRes
D == INSTANCE DslSupport WITH fn <- dFn, env <- dEnv, args <- dArgs, res <- dRes
\* Diffs of up to two changed files: every pair of directories, including
\* a file with a suite next to one without.
C == INSTANCE ChangedFiles WITH MaxLines <- 2
\* Every command, every class of argument and threshold text.
A == INSTANCE ArgParser WITH argv <- aArgv, caseThr <- aCaseThr, parsed <- aParsed,
                             used <- aUsed, pc <- aPc
\* Two case names; up to two json files of up to two objects: a name twice,
\* in one file and across files, a compile_flag object, every st_mode.
K == INSTANCE CaseDesign WITH Names <- {"n1", "n2"}, MaxObjs <- 2, MaxFiles <- 2,
                              requiredKeys <- kRequiredKeys, files <- kFiles,
                              sel <- kSel, outcome <- kOutcome, calls <- kCalls
\* Up to two testcases of up to two inputs: a repeated input name, an
\* optional input, two testcases with one op dict, either attr spelling.
J == INSTANCE AclOpJson WITH MaxCases <- 2, MaxInputs <- 2, cases <- jCases,
                             flag <- jFlag, content <- jContent, ran <- jRan
\* Two cases, two outputs per case, no reload: every ATC outcome, every
\* result.txt, every comparison outcome of each output.
O == INSTANCE OpSTRun WITH CaseOrder <- <<"c1", "c2">>, NOut <- 2, MaxReloads <- 0,
        pc <- oPc,
        caseJson <- oCaseJson,
        expectDict <- oExpectDict,
        reportList <- oReportList,
        objs <- oObjs,
        stages <- oStages,
        expectPaths <- oExpectPaths,
        compiled <- oCompiled,
        atcFailed <- oAtcFailed,
        resultFile <- oResultFile,
        resultLines <- oResultLines,
        compared <- oCompared,
        caseStatus <- oCaseStatus,
        caseExpect <- oCaseExpect,
        totalCnt <- oTotalCnt,
        successCnt <- oSuccessCnt,
        failedCnt <- oFailedCnt,
        saved <- oSaved,
        reloads <- oReloads

\* Two cases, one output per case, one "mi compare" of the saved report:
\* the report reloaded into a fresh OpSTReport and compared again.
P == INSTANCE OpSTRun WITH CaseOrder <- <<"c1", "c2">>, NOut <- 1, MaxReloads <- 1,
        pc <- pPc,
        caseJson <- pCaseJson,
        expectDict <- pExpectDict,
        reportList <- pReportList,
        objs <- pObjs,
        stages <- pStages,
        expectPaths <- pExpectPaths,
        compiled <- pCompiled,
        atcFailed <- pAtcFailed,
        resultFile <- pResultFile,
        resultLines <- pResultLines,
        compared <- pCompared,
        caseStatus <- pCaseStatus,
        caseExpect <- pCaseExpect,
        totalCnt <- pTotalCnt,
        successCnt <- pSuccessCnt,
        failedCnt <- pFailedCnt,
        saved <- pSaved,
        reloads <- pReloads
\* Json names of up to two segments after their word, each suffix.
X == INSTANCE CaseExpect WITH MaxSegs <- 2, MaxCases <- 1, jsonCases <- xJsonCases,
                              expectDict <- xExpectDict, caseExpect <- xCaseExpect,
                              pc <- xPc
\* Cases of up to two inputs and two outputs and one attr, over two names:
\* an input and an output of one name, an input named twice, an optional
\* input, a case without inputs.
E == INSTANCE ExpectParams WITH MaxDescs <- 2, case <- eCase, info <- eInfo,
                                params <- eParams, pc <- ePc

Parts == {"shape", "reduce", "dsl", "changed", "args", "design", "acljson", "st", "recompare", "expect", "params"}

sVars == <<sFn, sArgs, sRes>>
rVars == <<rFn, rArgs, rCall, rRes>>
dVars == <<dFn, dEnv, dArgs, dRes>>
cVars == <<ciFile, ran, result>>
aVars == <<aArgv, aCaseThr, aParsed, aUsed, aPc>>
kVars == <<kRequiredKeys, kFiles, kSel, kOutcome, kCalls>>
jVars == <<jCases, jFlag, jContent, jRan>>
oVars == <<oPc, oCaseJson, oExpectDict, oReportList, oObjs, oStages, oExpectPaths, oCompiled, oAtcFailed, oResultFile, oResultLines, oCompared, oCaseStatus, oCaseExpect, oTotalCnt, oSuccessCnt, oFailedCnt, oSaved, oReloads>>
pVars == <<pPc, pCaseJson, pExpectDict, pReportList, pObjs, pStages, pExpectPaths, pCompiled, pAtcFailed, pResultFile, pResultLines, pCompared, pCaseStatus, pCaseExpect, pTotalCnt, pSuccessCnt, pFailedCnt, pSaved, pReloads>>
xVars == <<xJsonCases, xExpectDict, xCaseExpect, xPc>>
eVars == <<eCase, eInfo, eParams, ePc>>
vars == <<part, sVars, rVars, dVars, cVars, aVars, kVars, jVars, oVars, pVars, xVars, eVars>>

SIdle == sFn = "none" /\ sArgs = [a |-> 0, b |-> 0] /\ sRes = S!Raise
RIdle == /\ rFn = "none" /\ rRes = R!Raise /\ rCall = R!NoCall
         /\ rArgs = [shape |-> <<1>>, axis |-> [kind |-> "none", vals |-> <<>>],
                     keepdims |-> FALSE]
DIdle == /\ dFn = "none" /\ dRes = D!Raise /\ dEnv = [soc |-> "other", unify |-> FALSE]
         /\ dArgs = [prefixed |-> FALSE, name |-> "vfoo", dtype |-> "None"]
CIdle == /\ ciFile = [exists |-> FALSE, lines |-> <<>>] /\ ran = FALSE
         /\ result = [none |-> FALSE, uts |-> {}, other |-> {}]
AIdle == /\ aArgv = [cmd |-> "none", caseName |-> "all", soc |-> "valid",
                     device |-> "0", thr |-> "absent"]
         /\ aCaseThr = "absent" /\ aParsed = A!Ok(A!Unset) /\ aUsed = "none"
         /\ aPc = "done"
KIdle == /\ kRequiredKeys = <<K!BASE>> /\ kFiles = <<[json |-> TRUE, objs |-> <<>>]>>
         /\ kSel = [all |-> TRUE, names |-> {}] /\ kCalls = 0
         /\ kOutcome = K!Progress(<<K!BASE>>, {}, <<>>, FALSE, "none")

JIdle == /\ jCases = <<>> /\ jFlag = FALSE /\ jRan = FALSE
         /\ jContent = [raised |-> FALSE, flag |-> FALSE, dicts |-> <<>>, done |-> <<>>]
\* The run rests in an initial state, with one fixed case json.
OIdleJson == CHOOSE j \in [{"c1", "c2"} -> O!CaseJsons] : TRUE
XIdle == /\ xJsonCases = <<>> /\ xExpectDict = [n \in {} |-> "success"]
         /\ xCaseExpect = <<>> /\ xPc = "done"
EIdle == /\ eCase = [inputs |-> <<>>, outputs |-> <<>>, attrs |-> <<>>]
         /\ eInfo = <<>> /\ eParams = E!NoParams.params /\ ePc = "returned"

Init ==
    /\ part \in Parts
    /\ IF part = "shape" THEN S!Init ELSE SIdle
    /\ IF part = "reduce" THEN R!Init ELSE RIdle
    /\ IF part = "dsl" THEN D!Init ELSE DIdle
    /\ IF part = "changed" THEN C!Init ELSE CIdle
    /\ IF part = "args" THEN A!Init ELSE AIdle
    /\ IF part = "design" THEN K!Init ELSE KIdle
    /\ IF part = "acljson" THEN J!Init ELSE JIdle
    /\ IF part = "st" THEN O!Init ELSE oCaseJson = OIdleJson /\ O!Init
    /\ IF part = "recompare" THEN P!Init ELSE pCaseJson = OIdleJson /\ P!Init
    /\ IF part = "expect" THEN X!Init ELSE XIdle
    /\ IF part = "params" THEN E!Init ELSE EIdle

Next ==
    \/ part = "shape" /\ S!Next /\ UNCHANGED <<part, rVars, dVars, cVars, aVars, kVars, jVars, oVars, pVars, xVars, eVars>>
    \/ part = "reduce" /\ R!Next /\ UNCHANGED <<part, sVars, dVars, cVars, aVars, kVars, jVars, oVars, pVars, xVars, eVars>>
    \/ part = "dsl" /\ D!Next /\ UNCHANGED <<part, sVars, rVars, cVars, aVars, kVars, jVars, oVars, pVars, xVars, eVars>>
    \/ part = "changed" /\ C!Next /\ UNCHANGED <<part, sVars, rVars, dVars, aVars, kVars, jVars, oVars, pVars, xVars, eVars>>
    \/ part = "args" /\ A!Next /\ UNCHANGED <<part, sVars, rVars, dVars, cVars, kVars, jVars, oVars, pVars, xVars, eVars>>
    \/ part = "design" /\ K!Next /\ UNCHANGED <<part, sVars, rVars, dVars, cVars, aVars, jVars, oVars, pVars, xVars, eVars>>
    \/ part = "acljson" /\ J!Next /\ UNCHANGED <<part, sVars, rVars, dVars, cVars, aVars, kVars, oVars, pVars, xVars, eVars>>
    \/ part = "st" /\ O!Next /\ UNCHANGED <<part, sVars, rVars, dVars, cVars, aVars, kVars, jVars, pVars, xVars, eVars>>
    \/ part = "recompare" /\ P!Next /\ UNCHANGED <<part, sVars, rVars, dVars, cVars, aVars, kVars, jVars, oVars, xVars, eVars>>
    \/ part = "expect" /\ X!Next /\ UNCHANGED <<part, sVars, rVars, dVars, cVars, aVars, kVars, jVars, oVars, pVars, eVars>>
    \/ part = "params" /\ E!Next /\ UNCHANGED <<part, sVars, rVars, dVars, cVars, aVars, kVars, jVars, oVars, pVars, xVars>>

Spec == Init /\ [][Next]_vars

-----------------------------------------------------------------------------
(* Properties: those of each helper, stated in its module.  Each is       *)
(* checked in the behaviours of its part: the variables of the other      *)
(* parts keep their idle values, which never change.                      *)

\* A part's property, required in the behaviours of that part.
In(pt, prop) == part = pt => prop

\* Every helper's results have the shape its callers index into.
TypeOK ==
    /\ part \in Parts
    /\ In("shape", S!TypeOK) /\ In("reduce", R!TypeOK) /\ In("dsl", D!TypeOK)
    /\ In("changed", C!TypeOK) /\ In("args", A!TypeOK) /\ In("design", K!TypeOK)
    /\ In("acljson", J!TypeOK) /\ In("st", O!TypeOK) /\ In("recompare", P!TypeOK)
    /\ In("expect", X!TypeOK) /\ In("params", E!TypeOK)

\* tf_get_windowed_output_size*: a VALID output size counts the windows
\* that fit in the input.
ValidMatchesTF == In("shape", S!ValidMatchesTF)

\* tf_get_windowed_output_size*: a SAME output size counts the stride
\* steps, with the least padding, the odd unit after.
SameMatchesTF == In("shape", S!SameMatchesTF)

\* int_ceil_div and align round up to the least quotient and multiple.
CeilDivAndAlignMatch == In("shape", S!CeilDivAndAlignMatch)

\* refine_axis normalises, sorts and range-checks every axis.
RefineAxisMatches == In("reduce", R!RefineAxisMatches)

\* reduce_axis_check returns each named dimension once, sorted.
ReduceAxisCheckMatches == In("reduce", R!ReduceAxisCheckMatches)

\* __tuple_reduce_compute adds every element into its own output element.
TupleSumSupport == In("reduce", R!TupleSumSupport)

\* tuple_sum's decorator sums tensors of one shape, keeps a float dtype,
\* and widens any other to float32 when the chip can cast it there.
AutoCastSound == In("reduce", R!AutoCastSound)

DecoratorAdmitsExactlySupported == In("dsl", D!DecoratorAdmitsExactlySupported)

\* get_change_relate_ut_dir_list reports OTHER_FILE exactly for a changed
\* C++ file no suite concerns.
OtherFileExactly == In("changed", C!OtherFileExactly)

\* run and mi compare accept exactly the thresholds that are an empty list
\* or a float pair, and keep nothing else.
AcceptedThresholdWellFormed == In("args", A!AcceptedThresholdWellFormed)

\* msopst run compares a case with the user's threshold, else the case's,
\* else the default.
RunThresholdPrecedence == In("args", A!RunThresholdPrecedence)

\* CaseDesign.design returns the selected cases of the json files once
\* each, in file order, or raises.
DesignedCasesInOrder == In("design", K!DesignedCasesInOrder)

\* acl_op.json lists the compile flag first when set, then every distinct
\* op dict of the testcases once, in first-occurrence order.
AclJsonListsEachCaseOnce == In("acljson", J!AclJsonListsEachCaseOnce)

\* msopst run: the summary counters agree with the latest outcome of every
\* stage of every case, a [fail] line or a Failed comparison fails the
\* case, and compare_data passes only when some output was compared and
\* all compared outputs passed.
SummaryAgreesWithTraces == In("st", O!SummaryAgreesWithTraces) /\ In("recompare", P!SummaryAgreesWithTraces)
RecordedFailureWins == In("st", O!RecordedFailureWins) /\ In("recompare", P!RecordedFailureWins)
CompareVerdictSound == In("st", O!CompareVerdictSound) /\ In("recompare", P!CompareVerdictSound)

\* update_case_expect finds the json case of a sub case unless the json
\* name, alone or joined to the suffix, spells a marker of higher rank.
ParentFoundUnlessShadowed == In("expect", X!ParentFoundUnlessShadowed)

\* generate passes an input's data to the expect function exactly when the
\* input is named, not optional, and no later desc or attr takes its name.
InputDataReachesExpect == In("params", E!InputDataReachesExpect)

=============================================================================
