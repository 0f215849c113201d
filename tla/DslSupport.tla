----------------------------- MODULE DslSupport -----------------------------
(***************************************************************************)
(* The dtype support lookups of the DSL (src/auto_schedule/python/util.py):*)
(* dsl_support_dtype, dsl_check_support over DSL_CHECK_SUPPORT_MAP and      *)
(* UNIFY_DSL_CHECK_SUPPORT_MAP, and dtype_check_decorator, which refuses a  *)
(* DSL call whose operand dtype the lookup does not support.               *)
(*                                                                         *)
(* The tables are transcribed for a slice of the API names and of the      *)
(* dtypes, on the soc versions MINI, CLOUD, MINI_NG1 and SHISI; "other"    *)
(* stands for a soc version that no entry lists.  Tensors are abstracted   *)
(* to their dtype.                                                         *)
(***************************************************************************)
EXTENDS Integers, Sequences, TLC

Dtypes == {"float16", "float32", "int32", "int16"}
Socs == {"MINI", "CLOUD", "MINI_NG1", "SHISI", "other"}
\* dsl names with a table entry, the two aliases, and a name without one.
Names == {"broadcast", "round_d", "reduce_sum", "reduce_prod", "vadd",
          "vcmp", "vsel", "concat", "sum", "round_half_up", "vfoo"}
\* The dtype argument of dsl_check_support: None, "", a non-string, a dtype.
DtypeArgs == Dtypes \cup {"None", "", "nonstr"}

F16 == "float16"  F32 == "float32"  I32 == "int32"  I16 == "int16"

\* An entry maps "AllSoc" and the socs it lists to their dtypes.
FullEntry(all, mini, cloud, ng1, shisi) ==
    ("AllSoc" :> all) @@ ("MINI" :> mini) @@ ("CLOUD" :> cloud)
        @@ ("MINI_NG1" :> ng1) @@ ("SHISI" :> shisi)

\* DSL_CHECK_SUPPORT_MAP (the entries of the modelled names).
DslCheckSupportMap ==
    ("broadcast" :> FullEntry({F16, F32, I32, I16}, {F16, F32, I32, I16},
                              {F16, F32, I32, I16}, {F16, F32, I32, I16},
                              {F16, F32, I32, I16}))
    @@ ("round_d" :> FullEntry({F16}, {}, {F16, F32}, {F16, F32}, {F16}))
    @@ ("reduce_sum" :> FullEntry({F16}, {F16, F32}, {F16, F32}, {F16, F32}, {F16}))
    @@ ("reduce_prod" :> FullEntry({F16}, {F16, F32}, {F16, F32}, {F16, F32}, {F16}))
    @@ ("vadd" :> FullEntry({F16, I32}, {F16, F32, I32}, {F16, F32, I32},
                            {F16, F32, I32}, {F16, I32}))
    @@ ("vcmp" :> FullEntry({F16}, {F16}, {F16, F32}, {F16, F32}, {F16}))
    @@ ("vsel" :> FullEntry({F16}, {F16}, {F16, F32}, {F16, F32}, {F16}))
    @@ ("concat" :> ("AllSoc" :> {F16, F32, I32, I16}))

\* UNIFY_DSL_CHECK_SUPPORT_MAP.
UnifyDslCheckSupportMap ==
    ("reduce_prod" :> FullEntry({F16}, {F16, F32}, {F16, F32}, {F16, F32}, {F16}))
    @@ ("vsel" :> FullEntry({F16}, {F16}, {F16}, {F16, F32}, {F16}))

-----------------------------------------------------------------------------

\* The aliases both lookups apply.
Canonical(name) ==
    CASE name \in {"reduce_sum", "sum"} -> "reduce_sum"
      [] name \in {"round_half_up", "round_d"} -> "round_d"
      [] OTHER -> name

\* The entry of a name: the unify table first in dynamic-static unify mode.
EntryOf(name, unify) ==
    IF unify /\ name \in DOMAIN UnifyDslCheckSupportMap
    THEN [found |-> TRUE, e |-> UnifyDslCheckSupportMap[name]]
    ELSE IF name \in DOMAIN DslCheckSupportMap
    THEN [found |-> TRUE, e |-> DslCheckSupportMap[name]]
    ELSE [found |-> FALSE, e |-> <<>>]

\* The soc's dtypes, or those of "AllSoc" when the soc has no row; an
\* empty row is a row.
SocDtypes(e, soc) ==
    IF soc \in DOMAIN e THEN [found |-> TRUE, d |-> e[soc]]
    ELSE IF "AllSoc" \in DOMAIN e THEN [found |-> TRUE, d |-> e["AllSoc"]]
    ELSE [found |-> FALSE, d |-> {}]

\* dsl_support_dtype: the dtypes of the name on this soc, [] if none.
DslSupportDtype(name, soc, unify) ==
    LET en == EntryOf(Canonical(name), unify)
        sd == SocDtypes(en.e, soc)
    IN IF ~en.found \/ ~sd.found THEN {} ELSE sd.d

\* dsl_check_support("te.lang.cce." + name if prefixed, dtype): no prefix
\* or a non-string dtype is False; a None or empty dtype only asks whether
\* the name has a row for the soc.
DslCheckSupport(prefixed, name, dtype, soc, unify) ==
    LET en == EntryOf(Canonical(name), unify)
        sd == SocDtypes(en.e, soc)
    IN /\ prefixed
       /\ dtype # "nonstr"
       /\ en.found /\ sd.found
       /\ dtype \in {"None", ""} \/ dtype \in sd.d

-----------------------------------------------------------------------------
(* dtype_check_decorator.  A decorated call is abstracted to the kind of    *)
(* its first argument (a Python int or float, a tensor, a list of tensors, *)
(* a list of something else, anything else) and its dtype, and for vsel    *)
(* to whether each of the two value operands is a tensor and its dtype.    *)

DecNames == {"broadcast", "concat", "vsel", "vcmp", "vadd", "round_d", "reduce_prod"}

Scalar(d) == [is |-> "scalar", d |-> d]
Tensor(d) == [is |-> "tensor", d |-> d]
Operands == {Scalar(F16)} \cup {Tensor(d) : d \in Dtypes}

\* The calls a DSL function can receive: broadcast takes a Python number or
\* a tensor, concat a list, the others a tensor first.
DecArgs ==
    [name : {"broadcast"}, arg0 : {"int", "float", "tensor"}, d0 : Dtypes,
     lhs : {Scalar(F16)}, rhs : {Scalar(F16)}]
    \cup [name : {"concat"}, arg0 : {"list_tensor", "list_other", "other"},
          d0 : Dtypes, lhs : {Scalar(F16)}, rhs : {Scalar(F16)}]
    \cup [name : {"vsel"}, arg0 : {"tensor", "other"}, d0 : {"bool"},
          lhs : Operands, rhs : Operands]
    \cup [name : {"vcmp", "vadd", "round_d", "reduce_prod"},
          arg0 : {"tensor", "other"}, d0 : Dtypes,
          lhs : {Scalar(F16)}, rhs : {Scalar(F16)}]

Raise == [raised |-> TRUE, ok |-> FALSE, dtypes |-> {}]
Ret(ok, ds) == [raised |-> FALSE, ok |-> ok, dtypes |-> ds]
Called == Ret(TRUE, {})

\* The dtype the decorator judges a call by, before the vsel override:
\* int32 for a Python int, float16 for a float, else the first tensor's.
JudgeDtype(a) ==
    IF a.name = "broadcast" /\ a.arg0 = "int" THEN I32
    ELSE IF a.name = "broadcast" /\ a.arg0 = "float" THEN F16
    ELSE a.d0

\* The first argument has the kind the function requires.
FirstArgOK(a) ==
    CASE a.name = "broadcast" -> TRUE
      [] a.name = "concat"    -> a.arg0 = "list_tensor"
      [] OTHER                -> a.arg0 = "tensor"

\* _get_vsel_dtype: the dtype of lhs if it is a tensor, else of rhs, else None.
GetVselDtype(lhs, rhs) ==
    IF lhs.is = "tensor" THEN lhs.d
    ELSE IF rhs.is = "tensor" THEN rhs.d
    ELSE "None"

\* _is_skip_dtype_check: in unify mode only a vsel of two scalars; else
\* vcmp, vsel and vcmpsel.
IsSkipDtypeCheck(a, unify) ==
    IF unify THEN a.name = "vsel" /\ a.lhs.is # "tensor" /\ a.rhs.is # "tensor"
    ELSE a.name \in {"vcmp", "vsel", "vcmpsel"}

\* Mutant: the comparisons are skipped in unify mode too.
DtypeCheckDecoratorSkipCompare(a, soc, unify) ==
    LET judged == IF a.name = "vsel" THEN GetVselDtype(a.lhs, a.rhs) ELSE JudgeDtype(a)
    IN IF ~FirstArgOK(a) THEN Raise
       ELSE IF IsSkipDtypeCheck(a, FALSE) \/ IsSkipDtypeCheck(a, unify) THEN Called
       ELSE IF ~DslCheckSupport(TRUE, a.name, judged, soc, unify) THEN Raise
       ELSE Called

DtypeCheckDecorator(a, soc, unify) ==
    LET judged == IF a.name = "vsel" THEN GetVselDtype(a.lhs, a.rhs) ELSE JudgeDtype(a)
    IN IF ~FirstArgOK(a) THEN Raise
       ELSE IF IsSkipDtypeCheck(a, unify) THEN Called
       ELSE IF ~DslCheckSupport(TRUE, a.name, judged, soc, unify) THEN Raise
       ELSE Called

-----------------------------------------------------------------------------

CheckArgs == [prefixed : BOOLEAN, name : Names, dtype : DtypeArgs]
Env == [soc : Socs, unify : BOOLEAN]

VARIABLES
    fn,     \* the function called, "none" before the call
    env,    \* the soc version and whether dynamic-static unify mode is on
    args,   \* its arguments
    res     \* what it returned, or Raise

vars == <<fn, env, args, res>>

Init ==
    /\ fn = "none"
    /\ env \in Env
    /\ args \in CheckArgs \cup DecArgs
    /\ res = Raise

CallDslSupportDtype ==
    /\ fn = "none" /\ args \in CheckArgs /\ args.prefixed /\ args.dtype = "None"
    /\ fn' = "support_dtype"
    /\ res' = Ret(TRUE, DslSupportDtype(args.name, env.soc, env.unify))
    /\ UNCHANGED <<env, args>>

CallDslCheckSupport ==
    /\ fn = "none" /\ args \in CheckArgs
    /\ fn' = "check_support"
    /\ res' = Ret(DslCheckSupport(args.prefixed, args.name, args.dtype,
                                  env.soc, env.unify), {})
    /\ UNCHANGED <<env, args>>

CallDecorated ==
    /\ fn = "none" /\ args \in DecArgs
    /\ fn' = "decorated"
    /\ res' = DtypeCheckDecorator(args, env.soc, env.unify)
    /\ UNCHANGED <<env, args>>

\* The call has returned or raised.
Returned == fn # "none" /\ UNCHANGED vars

Next == CallDslSupportDtype \/ CallDslCheckSupport \/ CallDecorated \/ Returned

Spec == Init /\ [][Next]_vars

-----------------------------------------------------------------------------
(* Properties.                                                             *)

TypeOK ==
    /\ fn \in {"none", "support_dtype", "check_support", "decorated"}
    /\ env \in Env
    /\ args \in CheckArgs \cup DecArgs
    /\ res \in [raised : BOOLEAN, ok : BOOLEAN, dtypes : SUBSET Dtypes]

OperandDtypes ==
    IF args.name = "vsel"
    THEN {o.d : o \in {o \in {args.lhs, args.rhs} : o.is = "tensor"}}
    ELSE IF args.name = "broadcast" /\ args.arg0 # "tensor" THEN {JudgeDtype(args)}
    ELSE {args.d0}

\* A decorated DSL call other than vsel reaches the compute function
\* exactly when its first argument is of the required kind and its dtype is
\* one the soc supports for that API; vcmp is left unchecked outside unify
\* mode only.
DecoratorAdmitsExactlySupported ==
    fn = "decorated" /\ args.name # "vsel" /\ (env.unify \/ args.name # "vcmp") =>
        (~res.raised <=> /\ args.arg0 \in {"int", "float", "tensor", "list_tensor"}
                         /\ OperandDtypes \subseteq DslSupportDtype(args.name, env.soc, env.unify))

\* In unify mode a vsel reaches the compute function only when the dtype
\* of every tensor value operand is supported for vsel on the soc.
VselChecksBothOperands ==
    fn = "decorated" /\ args.name = "vsel" /\ env.unify /\ ~res.raised =>
        OperandDtypes \subseteq DslSupportDtype(args.name, env.soc, env.unify)

=============================================================================
