----------------------------- MODULE ReduceAxis -----------------------------
(***************************************************************************)
(* The reduce-axis helpers of the DSL (src/auto_schedule/python/util.py:   *)
(* refine_axis, _axis_value_type_check, reduce_axis_check) and the shape   *)
(* and index arithmetic of the tuple reduction                             *)
(* (src/auto_schedule/python/reduction_compute.py, _tuple_reduce_op and    *)
(* its __tuple_reduce_compute, and the _auto_cast_of_tuple_reduce          *)
(* decorator of tuple_sum).                                                *)
(*                                                                         *)
(* The tensor expression that tvm.compute builds is modelled by what it    *)
(* computes: for each output index, how many times each input element is  *)
(* added into it.  compute_func maps an output index and a value of every *)
(* reduce variable to an input index; the sum runs over all values of all  *)
(* reduce variables.                                                       *)
(* The decorator's tensors are abstracted to their dtype (both tensors     *)
(* share one) and whether their shapes agree; is_cast_support(dtype,       *)
(* "float32") depends on the chip's vconv intrinsics and is an input.      *)
(***************************************************************************)
EXTENDS Integers, Sequences, FiniteSets, SequencesExt, TLC

CONSTANTS
    MaxRank,   \* shapes have 1..MaxRank dimensions
    MaxDim,    \* of sizes 1..MaxDim
    MaxAxes    \* an axis list has at most MaxAxes entries

Raise == [raised |-> TRUE, val |-> <<>>, sums |-> <<>>, dtype |-> "none"]
Ret(v) == [raised |-> FALSE, val |-> v, sums |-> <<>>, dtype |-> "none"]

Shapes == UNION {[1..r -> 1..MaxDim] : r \in 1..MaxRank}
AxisValues == -MaxRank..MaxRank
\* The axis argument: None, a single int, or a list of ints.
Axes == {[kind |-> "none", vals |-> <<>>]}
        \cup {[kind |-> "int", vals |-> <<v>>] : v \in AxisValues}
        \cup {[kind |-> "list", vals |-> s] : s \in BoundedSeq(AxisValues, MaxAxes)}

Args == [shape : Shapes, axis : Axes, keepdims : BOOLEAN]

FnNames == {"refine_axis", "reduce_axis_check", "tuple_sum"}

Dtypes == {"float16", "float32", "int32", "int8"}
\* A tuple_sum call: the tensors' dtype, whether their shapes agree, and
\* whether the dtype can be cast to float32 on the chip.
Calls == [dtype : Dtypes, sameShape : BOOLEAN, castF32 : BOOLEAN]
NoCall == [dtype |-> "float16", sameShape |-> TRUE, castF32 |-> TRUE]

VARIABLES
    fn,     \* the function called, "none" before the call
    args,   \* its arguments
    call,   \* the tensors and call form of a tuple_sum call
    res     \* what it returned, or Raise

vars == <<fn, args, call, res>>

\* The index tuples (0-based coordinates) of a shape.
Indices(shape) == {i \in [1..Len(shape) -> 0..(MaxDim - 1)] :
                      \A d \in 1..Len(shape) : i[d] < shape[d]}

SortAsc(s) == SortSeq(s, LAMBDA x, y : x < y)

-----------------------------------------------------------------------------
(* util.py                                                                 *)

\* Mutant: a negative axis is taken as counted from the front.
RefineAxisNoNormalise(axis, shape) ==
    LET n == Len(shape)
    IN IF \E k \in DOMAIN axis.vals : axis.vals[k] >= n \/ axis.vals[k] < -n
       THEN Raise
       ELSE Ret(SortAsc([k \in DOMAIN axis.vals |->
                           IF axis.vals[k] < 0 THEN -axis.vals[k] - 1
                                               ELSE axis.vals[k]]))

\* refine_axis: a single axis becomes a list; negative axes count from the
\* end; an axis out of range raises; the result is sorted, duplicates kept.
RefineAxis(axis, shape) ==
    LET n == Len(shape)
        laxis(i) == IF i < 0 THEN n + i ELSE i
    IN IF \E k \in DOMAIN axis.vals : laxis(axis.vals[k]) >= n \/ laxis(axis.vals[k]) < 0
       THEN Raise
       ELSE Ret(SortAsc([k \in DOMAIN axis.vals |-> laxis(axis.vals[k])]))

\* _axis_value_type_check: an axis outside -shape_len..shape_len-1 raises,
\* a negative one counts from the end.
AxisValueTypeCheck(shapeLen, v) ==
    IF v >= shapeLen \/ v < -shapeLen THEN Raise
    ELSE Ret(IF v < 0 THEN shapeLen + v ELSE v)

\* Mutant: the checked axes are sorted without making them a set.
ReduceAxisCheckNoDedup(shapeLen, axis) ==
    LET checked == [k \in DOMAIN axis.vals |-> AxisValueTypeCheck(shapeLen, axis.vals[k])]
    IN IF axis.kind # "list" \/ \E k \in DOMAIN checked : checked[k].raised
       THEN Raise
       ELSE Ret(SortAsc([k \in DOMAIN checked |-> checked[k].val]))

\* reduce_axis_check: list(axis) comes first, so a single int raises the
\* TypeError of list(); the hasattr branch after it is never taken.  A list
\* is checked entry by entry, then made a set and sorted.
ReduceAxisCheck(shapeLen, axis) ==
    LET checked == [k \in DOMAIN axis.vals |-> AxisValueTypeCheck(shapeLen, axis.vals[k])]
    IN IF axis.kind # "list" \/ \E k \in DOMAIN checked : checked[k].raised
       THEN Raise
       ELSE Ret(SetToSortSeq({checked[k].val : k \in DOMAIN checked},
                             LAMBDA x, y : x < y))

-----------------------------------------------------------------------------
(* reduction_compute.py                                                    *)

\* Mutant: the "all axis reduce" fallback to [1] is missing.
ResReshapeNoFallback(shape, axis, keepdims) ==
    FlattenSeq([d \in 1..Len(shape) |->
                  IF (d - 1) \notin ToSet(axis) THEN <<shape[d]>>
                  ELSE IF keepdims THEN <<1>> ELSE <<>>])

\* res_reshape: the kept dimensions, a 1 for each reduced one with
\* keepdims, and [1] when nothing is left.
ResReshape(shape, axis, keepdims) ==
    LET dims == [d \in 1..Len(shape) |->
                   IF (d - 1) \notin ToSet(axis) THEN <<shape[d]>>
                   ELSE IF keepdims THEN <<1>> ELSE <<>>]
        r == FlattenSeq(dims)
    IN IF r = <<>> THEN <<1>> ELSE r

\* Mutant: count_indice does not advance on a reduced axis with keepdims.
ComputeIndexNoKeepdimsStep(shape, axis, keepdims, indice, k) ==
    LET step(acc, d) ==
          IF (d - 1) \notin ToSet(axis)
          THEN [ci |-> acc.ci + 1, cr |-> acc.cr,
                res |-> Append(acc.res, indice[acc.ci + 1])]
          ELSE [ci |-> acc.ci, cr |-> acc.cr + 1,
                res |-> Append(acc.res, k[acc.cr + 1])]
    IN FoldLeft(step, [ci |-> 0, cr |-> 0, res |-> <<>>],
                [d \in 1..Len(shape) |-> d]).res

\* compute_func: the input index read for output index `indice` and the
\* values k of the reduce variables (reduce_axises, one per entry of axis).
ComputeIndex(shape, axis, keepdims, indice, k) ==
    LET step(acc, d) ==
          IF (d - 1) \notin ToSet(axis)
          THEN [ci |-> acc.ci + 1, cr |-> acc.cr,
                res |-> Append(acc.res, indice[acc.ci + 1])]
          ELSE [ci |-> IF keepdims THEN acc.ci + 1 ELSE acc.ci,
                cr |-> acc.cr + 1,
                res |-> Append(acc.res, k[acc.cr + 1])]
    IN FoldLeft(step, [ci |-> 0, cr |-> 0, res |-> <<>>],
                [d \in 1..Len(shape) |-> d]).res

\* The values of the reduce variables: k_j ranges over data_shape[axis[j]].
ReduceValues(shape, axis) ==
    {k \in [DOMAIN axis -> 0..(MaxDim - 1)] :
        \A j \in DOMAIN axis : k[j] < shape[axis[j] + 1]}

\* _tuple_reduce_op with in_op "tuple_reduce_sum": None raises, an empty
\* axis copies the tensors, otherwise the axes are refined and the sum is
\* built.  sums[o][i] is how often input element i is added into output o.
TupleReduceSum(shape, axis, keepdims) ==
    IF axis.kind = "none" THEN Raise
    ELSE IF axis.kind = "list" /\ axis.vals = <<>>
    THEN [raised |-> FALSE, val |-> shape, dtype |-> "none",
          sums |-> [o \in Indices(shape) |-> [i \in Indices(shape) |->
                                                IF i = o THEN 1 ELSE 0]]]
    ELSE LET r == RefineAxis(axis, shape)
             ax == r.val
             out == ResReshape(shape, ax, keepdims)
         IN IF r.raised THEN Raise
            ELSE [raised |-> FALSE, val |-> out, dtype |-> "none",
                  sums |-> [o \in Indices(out) |-> [i \in Indices(shape) |->
                     Cardinality({k \in ReduceValues(shape, ax) :
                                    ComputeIndex(shape, ax, keepdims, o, k) = i})]]]

\* _auto_cast_of_tuple_reduce._is_last_axis: whether the axis as given
\* (an int becomes a one-element list, None is [None]) names len(shape)-1.
IsLastAxis(shape, axis) == (Len(shape) - 1) \in ToSet(axis.vals)

\* Mutant: an unsupported dtype is always cast to float16.
DealTensorDtypeNoF32(dtype, supported, castF32) ==
    IF dtype \in supported THEN dtype ELSE "float16"

\* _deal_tensor_dtype: a supported dtype is kept; another is cast to
\* float32 when the chip casts it there, else to float16.
DealTensorDtype(dtype, supported, castF32) ==
    IF dtype \in supported THEN dtype
    ELSE IF "float32" \in supported /\ castF32 THEN "float32"
    ELSE "float16"

\* _auto_cast_of_tuple_reduce around tuple_sum: the two tensors must have
\* one shape, and are cast to a supported dtype (int32 too when the last
\* axis is not reduced) before the call.  The `decorator` wrapper binds the
\* call to tuple_sum's signature with its defaults, so args always has three
\* entries and the pass-through branch is never taken.  The result is the
\* dtype the sum computes in, or Raise.
AutoCastOfTupleReduce(shape, axis, c) ==
    LET supported == {"float16", "float32"}
                     \cup (IF ~IsLastAxis(shape, axis) THEN {"int32"} ELSE {})
    IN IF ~c.sameShape THEN [raised |-> TRUE, dtype |-> c.dtype]
       ELSE [raised |-> FALSE, dtype |-> DealTensorDtype(c.dtype, supported, c.castF32)]

-----------------------------------------------------------------------------

Init ==
    /\ fn = "none"
    /\ res = Raise
    /\ args \in Args
    /\ call = NoCall

CallRefineAxis ==
    /\ fn = "none" /\ args.axis.kind # "none"
    /\ fn' = "refine_axis"
    /\ res' = RefineAxis(args.axis, args.shape)
    /\ UNCHANGED <<args, call>>

CallReduceAxisCheck ==
    /\ fn = "none"
    /\ fn' = "reduce_axis_check"
    /\ res' = ReduceAxisCheck(Len(args.shape), args.axis)
    /\ UNCHANGED <<args, call>>

\* tuple_sum through its decorator: the decorator's checks and casts come
\* first, then _tuple_reduce_op on the cast tensors.
CallTupleSum ==
    /\ fn = "none"
    /\ fn' = "tuple_sum"
    /\ \E c \in Calls :
          /\ call' = c
          /\ LET cast == AutoCastOfTupleReduce(args.shape, args.axis, c)
                 sum == TupleReduceSum(args.shape, args.axis, args.keepdims)
             IN res' = IF cast.raised \/ sum.raised THEN Raise
                       ELSE [sum EXCEPT !.dtype = cast.dtype]
    /\ UNCHANGED args

\* The call has returned or raised.
Returned == fn # "none" /\ UNCHANGED vars

Next == CallRefineAxis \/ CallReduceAxisCheck \/ CallTupleSum \/ Returned

Spec == Init /\ [][Next]_vars

-----------------------------------------------------------------------------
(* Reference definitions and properties.                                   *)

TypeOK ==
    /\ fn \in FnNames \cup {"none"}
    /\ args \in Args
    /\ call \in Calls
    /\ res.raised \in BOOLEAN
    /\ fn = "tuple_sum" /\ ~res.raised => res.dtype \in Dtypes
    /\ fn \in {"refine_axis", "reduce_axis_check"} /\ ~res.raised =>
          res.val \in Seq(0..(MaxRank - 1))
    \* a tensor built by tvm.compute has at least one dimension
    /\ fn = "tuple_sum" /\ ~res.raised =>
          res.val \in Seq(1..MaxDim) /\ res.val # <<>>

Rank == Len(args.shape)
InRange(v) == v \in -Rank..(Rank - 1)
\* The dimension an accepted axis value names (Python's negative indexing).
Dim(v) == v % Rank
AxisOK == \A k \in DOMAIN args.axis.vals : InRange(args.axis.vals[k])
Reduced == {Dim(args.axis.vals[k]) : k \in DOMAIN args.axis.vals}

\* refine_axis raises exactly for an axis outside -rank..rank-1, and
\* otherwise returns the dimensions the axes name, sorted, one entry per
\* axis given.
RefineAxisMatches ==
    fn = "refine_axis" =>
        /\ res.raised <=> ~AxisOK
        /\ ~res.raised =>
              /\ IsSorted(res.val, LAMBDA x, y : x <= y)
              /\ ToBag(res.val) = ToBag([k \in DOMAIN args.axis.vals |->
                                            Dim(args.axis.vals[k])])

\* reduce_axis_check on an axis list raises exactly for an axis outside
\* -rank..rank-1, and otherwise returns each named dimension once, sorted.
ReduceAxisCheckMatches ==
    fn = "reduce_axis_check" /\ args.axis.kind = "list" =>
        /\ res.raised <=> ~AxisOK
        /\ ~res.raised =>
              /\ IsSorted(res.val, LAMBDA x, y : x < y)
              /\ ToSet(res.val) = Reduced

\* The output index an input element of the tuple sum belongs to: its
\* coordinates on the kept dimensions, with 0 on the reduced ones under
\* keepdims; when every dimension is reduced away, index <<0>>.
Proj(i) ==
    IF args.axis.kind = "list" /\ args.axis.vals = <<>> THEN i
    ELSE LET kept == SelectSeq([d \in 1..Rank |-> d],
                               LAMBDA d : (d - 1) \notin Reduced \/ args.keepdims)
             p == [j \in 1..Len(kept) |->
                     IF kept[j] - 1 \in Reduced THEN 0 ELSE i[kept[j]]]
         IN IF p = <<>> THEN <<0>> ELSE p

\* __tuple_reduce_compute adds every input element into the output element
\* it projects to and into no other, with and without keepdims, for a
\* single axis, negative axes and all axes reduced.
TupleSumSupport ==
    fn = "tuple_sum" /\ ~res.raised =>
        \A i \in Indices(args.shape) :
            /\ Proj(i) \in DOMAIN res.sums
            /\ \A o \in DOMAIN res.sums : res.sums[o][i] > 0 <=> o = Proj(i)

\* Each input element is added exactly once into the sum (numpy.sum, and
\* reduce_axis_check, treat an axis named twice as named once).
TupleSumEachOnce ==
    fn = "tuple_sum" /\ ~res.raised =>
        \A o \in DOMAIN res.sums, i \in Indices(args.shape) :
            res.sums[o][i] = IF o = Proj(i) THEN 1 ELSE 0

\* tuple_sum, through its decorator, sums two tensors of one shape in
\* float16, float32 or int32: a float tensor keeps its dtype, an int32 sum
\* is only ever of int32 tensors, and any other dtype is widened to
\* float32 when the chip can cast it there.
AutoCastSound ==
    fn = "tuple_sum" /\ ~res.raised =>
        /\ call.sameShape
        /\ res.dtype \in {"float16", "float32", "int32"}
        /\ call.dtype \in {"float16", "float32"} => res.dtype = call.dtype
        /\ res.dtype = "int32" => call.dtype = "int32"
        /\ res.dtype # call.dtype /\ call.castF32 => res.dtype = "float32"

=============================================================================
