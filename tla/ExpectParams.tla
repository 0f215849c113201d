---------------------------- MODULE ExpectParams ----------------------------
(***************************************************************************)
(* The keyword arguments msopst run hands to the user's expect function    *)
(* (src/main/data_generator.py: DataGenerator.generate with                *)
(* _generate_params_desc and _get_input_desc_and_gen_data).                *)
(*                                                                         *)
(* A case is abstracted to the names of its descs and attrs: an input     *)
(* desc has a name or none and is optional or not (its type is in         *)
(* OPTIONAL_TYPE_LIST); an output desc has a name or none; an attr has a   *)
(* name.  What a parameter carries is named by where it came from: the     *)
(* data generated for input i, the dict of output j, the value of attr k.  *)
(* The data, its file and its shape are left out: they are what is passed, *)
(* not which name it is passed under.                                      *)
(***************************************************************************)
EXTENDS Naturals, Sequences, SequencesExt

CONSTANTS
    MaxDescs   \* a case has at most MaxDescs input and MaxDescs output descs

Names == {"none", "x", "y"}
InDescs == [name : Names, optional : BOOLEAN]
OutDescs == [name : Names]
AttrDescs == [name : {"x", "a"}]
Cases == [inputs : BoundedSeq(InDescs, MaxDescs), outputs : BoundedSeq(OutDescs, MaxDescs),
          attrs : BoundedSeq(AttrDescs, 1)]

\* What a parameter carries.
Carried(src, i) == [src |-> src, idx |-> i]

-----------------------------------------------------------------------------

\* An input of an optional type is skipped; every output and attr is passed.
Passed(d) == ~("optional" \in DOMAIN d /\ d.optional)

\* The entries a list of descs puts into the parameters, in order: one for
\* every desc that is passed and has a name.
Entries(ds, src) ==
    LET idx == SelectSeq([i \in DOMAIN ds |-> i],
                         LAMBDA i : Passed(ds[i]) /\ ds[i].name # "none")
    IN [k \in DOMAIN idx |-> [name |-> ds[idx[k]].name, val |-> Carried(src, idx[k])]]

\* _get_input_desc_and_gen_data: the inputs that are not optional get their
\* data, and a named one is a parameter.
InputEntries(c) == Entries(c.inputs, "input")

\* _generate_params_desc's loop over output_desc: a named output is a
\* parameter carrying its dtype, shape and format.
OutputEntries(c) == Entries(c.outputs, "output")

\* generate's loop over the case's attrs.
AttrEntries(c) == Entries(c.attrs, "attr")

\* calc_func_params_tmp.update and param_info_list.append for one entry.
Put(acc, e) ==
    [info |-> Append(acc.info, e.name), params |-> (e.name :> e.val) @@ acc.params]

NoParams == [info |-> <<>>, params |-> [n \in {} |-> Carried("input", 0)]]

\* Mutant: the outputs are put before the inputs.
ParamsDescOutputsFirst(c) ==
    FoldLeft(Put, NoParams, OutputEntries(c) \o InputEntries(c) \o AttrEntries(c))

\* _generate_params_desc, then the attrs: the inputs, the outputs and the
\* attrs in turn; a later entry of a name replaces the earlier one in the
\* parameters, and the printed list names both.
ParamsDesc(c) ==
    FoldLeft(Put, NoParams, InputEntries(c) \o OutputEntries(c) \o AttrEntries(c))

-----------------------------------------------------------------------------

VARIABLES
    case,     \* the case generate is at
    info,     \* param_info_list
    params,   \* calc_func_params_tmp
    pc

vars == <<case, info, params, pc>>

Init ==
    /\ case \in Cases
    /\ info = <<>>
    /\ params = NoParams.params
    /\ pc = "gen"

\* generate, for a case with inputs: the parameters of the expect function.
GenParams ==
    /\ pc = "gen"
    /\ Len(case.inputs) >= 1
    /\ info' = ParamsDesc(case).info
    /\ params' = ParamsDesc(case).params
    /\ pc' = "done"
    /\ UNCHANGED case

\* generate returns at a case without inputs.
GenSkips ==
    /\ pc = "gen"
    /\ Len(case.inputs) < 1
    /\ pc' = "returned"
    /\ UNCHANGED <<case, info, params>>

Finished == pc \in {"done", "returned"} /\ UNCHANGED vars

Next == GenParams \/ GenSkips \/ Finished

Spec == Init /\ [][Next]_vars

-----------------------------------------------------------------------------
(* Properties.                                                             *)

TypeOK ==
    /\ case \in Cases
    /\ info \in Seq(Names \cup {"a"})
    /\ \A n \in DOMAIN params : params[n].src \in {"input", "output", "attr"}
    /\ pc \in {"gen", "done", "returned"}

\* No desc or attr after input i of the case has its name (an optional
\* input is skipped, so it replaces nothing).
NotRenamedLater(i) ==
    LET n == case.inputs[i].name
    IN /\ \A j \in DOMAIN case.inputs : j > i /\ ~case.inputs[j].optional => case.inputs[j].name # n
       /\ \A j \in DOMAIN case.outputs : case.outputs[j].name # n
       /\ \A j \in DOMAIN case.attrs : case.attrs[j].name # n

\* The data generate made for an input reaches the expect function exactly
\* when the input has a name, is not of an optional type, and no later
\* input, no output desc and no attr has that name.  _get_desc_dic lets an
\* input and an output share a name; then generate passes the output's
\* dict under it and the input data is lost.
InputDataReachesExpect ==
    pc = "done" =>
        \A i \in DOMAIN case.inputs :
            (\E n \in DOMAIN params : params[n] = Carried("input", i))
                <=> /\ case.inputs[i].name # "none"
                    /\ ~case.inputs[i].optional
                    /\ NotRenamedLater(i)

=============================================================================
