----------------------------- MODULE AclOpJson -----------------------------
(***************************************************************************)
(* The acl_op.json that msopst run hands to atc                            *)
(* (src/main/atc_transform_om.py, AtcTransformOm.create_acl_op_json_content *)
(* with _get_testcase_dict, _get_desc_dic and _get_trans_data_info): one   *)
(* op description per distinct testcase, after the compile flag.           *)
(*                                                                         *)
(* A testcase is abstracted to what its op description is built from: its *)
(* input descs (a name or none, whether the format or type marks it        *)
(* optional, a shape), one output desc, and the value of its data_type    *)
(* attr, either spelling of float16.                                       *)
(* ATTR_TYPE_SUPPORT_TYPE_MAP (outside src/) is one pair, "float16" ->     *)
(* "DT_FLOAT16".  The content is a record: whether the compile_flag dict   *)
(* leads it, and the op dicts after it (no op dict equals the compile      *)
(* dict, whose only key is compile_flag).  ConstInput (outside src/) adds  *)
(* nothing here: no input is const.                                        *)
(***************************************************************************)
EXTENDS Naturals, Sequences, SequencesExt

CONSTANTS
    MaxCases,   \* the case list has at most MaxCases testcases
    MaxInputs   \* a testcase has at most MaxInputs input descs

DescNames == {"none", "x"}
Descs == [name : DescNames, optional : BOOLEAN, shape : {"s1", "s2"}]
OutDescs == [name : {"x"}, optional : {FALSE}, shape : {"s1"}]
AttrValues == {"float16", "DT_FLOAT16"}
Testcases == [inputs : BoundedSeq(Descs, MaxInputs), outputs : [1..1 -> OutDescs],
              attr : AttrValues]

-----------------------------------------------------------------------------

\* _get_trans_data_info: an optional desc has no shape, and UNDEFINED type
\* and format.
TransDataInfo(d) ==
    IF d.optional THEN [shape |-> "none", type |-> "UNDEFINED"]
    ELSE [shape |-> d.shape, type |-> "T"]

\* _get_desc_dic raises when a desc of the list has the name of an earlier
\* one; the list of names starts empty for the input and for the output descs.
RepeatsName(t) ==
    \E ds \in {t.inputs, t.outputs} :
        \E i, j \in DOMAIN ds : i < j /\ ds[i].name # "none" /\ ds[i].name = ds[j].name

\* The data_type attr value as _get_testcase_dict leaves it, in the
\* testcase's own dict as well as in the op dict.
MapAttr(v) == IF v = "float16" THEN "DT_FLOAT16" ELSE v

\* _get_desc_dic for one list: the trans info, and the name when it is set.
DescDic(ds) == [i \in DOMAIN ds |-> TransDataInfo(ds[i]) @@ [name |-> ds[i].name]]

\* _get_testcase_dict.
TestcaseDict(t) ==
    [inputs |-> DescDic(t.inputs), outputs |-> DescDic(t.outputs),
     attr |-> MapAttr(t.attr)]

\* Mutant: every op dict is appended, repeated ones included.
CreateContentNoDedup(cases, flag) ==
    LET Step(acc, t) ==
            IF acc.raised THEN acc
            ELSE IF RepeatsName(t) THEN [acc EXCEPT !.raised = TRUE]
            ELSE [acc EXCEPT !.dicts = Append(@, TestcaseDict(t)),
                             !.done = Append(@, [t EXCEPT !.attr = MapAttr(@)])]
    IN FoldLeft(Step, [raised |-> FALSE, flag |-> flag, dicts |-> <<>>, done |-> <<>>],
                cases)

\* create_acl_op_json_content: the compile dict when the flag is set, then
\* each testcase's dict unless an equal one is already in the content.
\* The loop stops at the first testcase whose descs repeat a name; the
\* testcases before it have had their attr value mapped in place (`done`).
CreateContent(cases, flag) ==
    LET Step(acc, t) ==
            IF acc.raised THEN acc
            ELSE IF RepeatsName(t) THEN [acc EXCEPT !.raised = TRUE]
            ELSE [acc EXCEPT !.dicts = IF TestcaseDict(t) \in Range(@) THEN @
                                       ELSE Append(@, TestcaseDict(t)),
                             !.done = Append(@, [t EXCEPT !.attr = MapAttr(@)])]
    IN FoldLeft(Step, [raised |-> FALSE, flag |-> flag, dicts |-> <<>>, done |-> <<>>],
                cases)

-----------------------------------------------------------------------------

VARIABLES
    cases,     \* AtcTransformOm.testcase_list
    flag,      \* the compile_flag design found (not None)
    content,   \* what create_acl_op_json_content wrote, or its exception
    ran

vars == <<cases, flag, content, ran>>

Init ==
    /\ cases \in UNION {[1..n -> Testcases] : n \in 1..MaxCases}
    /\ flag \in BOOLEAN
    /\ content = [raised |-> FALSE, flag |-> FALSE, dicts |-> <<>>, done |-> <<>>]
    /\ ran = FALSE

\* create_acl_op: the content is built, the testcases' attr values are
\* mapped in place as far as the loop got, and the file is written.
CreateAclOp ==
    /\ ~ran
    /\ content' = CreateContent(cases, flag)
    /\ cases' = content'.done \o SubSeq(cases, Len(content'.done) + 1, Len(cases))
    /\ ran' = TRUE
    /\ UNCHANGED flag

Returned == ran /\ UNCHANGED vars

Next == CreateAclOp \/ Returned

Spec == Init /\ [][Next]_vars

-----------------------------------------------------------------------------
(* Properties.                                                             *)

TypeOK ==
    /\ cases \in Seq(Testcases)
    /\ flag \in BOOLEAN
    /\ content.raised \in BOOLEAN
    /\ ran \in BOOLEAN

\* The position of the first testcase of the list whose op dict is d.
FirstIndex(d) == SelectInSeq(cases, LAMBDA t : TestcaseDict(t) = d)

\* acl_op.json lists the compile flag first when design found one, then
\* the op dict of every testcase exactly once, in the order the testcases
\* first give it; testcases differing only in what the op dict leaves out
\* (an optional input's shape, float16 against DT_FLOAT16) share an entry.
AclJsonListsEachCaseOnce ==
    ran /\ ~content.raised =>
        /\ content.flag = flag
        /\ Range(content.dicts) = {TestcaseDict(cases[i]) : i \in DOMAIN cases}
        /\ \A i, j \in DOMAIN content.dicts :
              i < j => FirstIndex(content.dicts[i]) < FirstIndex(content.dicts[j])

=============================================================================
