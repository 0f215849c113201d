----------------------------- MODULE ShapeArith -----------------------------
(***************************************************************************)
(* The integer shape arithmetic of the DSL helpers: the TensorFlow rule    *)
(* for the output size and padding of a window                             *)
(* (src/auto_schedule/python/common.py, tf_get_windowed_output_size_...) and *)
(* the ceiling division and alignment of src/auto_schedule/python/util.py  *)
(* (int_ceil_div, align).                                                  *)
(*                                                                         *)
(* Each function is an operator returning either Ret(<<values>>) or Raise  *)
(* (the RuntimeError the code raises).  The state machine makes one call   *)
(* of one function on arguments drawn from bounded ranges, so that TLC     *)
(* checks every function on every argument against a reference definition *)
(* written without the code's integer formulas.                            *)
(***************************************************************************)
EXTENDS Integers, Sequences, FiniteSets

CONSTANTS
    MaxSize,      \* input_size and num_a / x_1 range over 0..MaxSize
    MaxFilter,    \* filter_size ranges over 1..MaxFilter (a kernel has an element)
    MaxDilation,  \* dilation_rate ranges over 0..MaxDilation
    MaxStride     \* stride ranges over -1..MaxStride, num_b / x_2 over 0..MaxStride

Paddings == {"VALID", "SAME", "EXPLICIT"}

Raise == [raised |-> TRUE, val |-> <<>>]
Ret(t) == [raised |-> FALSE, val |-> t]

WindowArgs == [in : 0..MaxSize, filter : 1..MaxFilter, dilation : 0..MaxDilation,
               stride : -1..MaxStride, padding : Paddings]
DivArgs == [a : 0..MaxSize, b : 0..MaxStride]

FnNames == {"v2", "verbose", "size", "int_ceil_div", "align"}

VARIABLES
    fn,     \* the function called, "none" before the call
    args,   \* its arguments
    res     \* what it returned or Raise

vars == <<fn, args, res>>

-----------------------------------------------------------------------------
(* tf_get_windowed_output_size_verbose_v2 and its wrappers.                *)

\* Mutant: VALID rounds the window count down from (in - eff + stride - 1).
ValidOutputShort(in, eff, s) == (in - eff + s - 1) \div s

\* VALID: the windows that fit inside the input; no padding.
ValidOutput(in, eff, s) == (in - eff + s) \div s

\* Mutant: SAME rounds in / stride up by one too many.
SameOutputLong(in, s) == (in + s) \div s

\* SAME: one window per stride step started inside the input.
SameOutput(in, s) == (in + s - 1) \div s

\* Mutant: the odd unit of padding goes before instead of after.
SamePaddingBeforeFirst(out, in, eff, s) ==
    LET need == IF (out - 1) * s + eff - in > 0 THEN (out - 1) * s + eff - in ELSE 0
    IN <<need - need \div 2, need \div 2>>

\* SAME: the padding needed for the last window, split floor before and
\* the rest after.
SamePadding(out, in, eff, s) ==
    LET need == IF (out - 1) * s + eff - in > 0 THEN (out - 1) * s + eff - in ELSE 0
    IN <<need \div 2, need - need \div 2>>

TfGetWindowedOutputSizeVerboseV2(in, filter, dilation, stride, padding) ==
    LET eff == (filter - 1) * dilation + 1
    IN IF stride <= 0 \/ dilation < 1 THEN Raise
       ELSE IF padding = "VALID"
       THEN Ret(<<ValidOutput(in, eff, stride), 0, 0>>)
       ELSE IF padding = "SAME"
       THEN LET out == SameOutput(in, stride)
            IN Ret(<<out>> \o SamePadding(out, in, eff, stride))
       ELSE Raise

\* tf_get_windowed_output_size_verbose: dilation rate 1.
TfGetWindowedOutputSizeVerbose(in, filter, stride, padding) ==
    TfGetWindowedOutputSizeVerboseV2(in, filter, 1, stride, padding)

\* Mutant: the verbose triple is returned as it is.
TfGetWindowedOutputSizeTriple(in, filter, stride, padding) ==
    IF padding = "EXPLICIT" THEN Raise
    ELSE TfGetWindowedOutputSizeVerbose(in, filter, stride, padding)

\* tf_get_windowed_output_size: EXPLICIT is refused; the output size and
\* the padding before are returned.
TfGetWindowedOutputSize(in, filter, stride, padding) ==
    IF padding = "EXPLICIT" THEN Raise
    ELSE LET r == TfGetWindowedOutputSizeVerbose(in, filter, stride, padding)
         IN IF r.raised THEN r ELSE Ret(<<r.val[1], r.val[2]>>)

-----------------------------------------------------------------------------
(* int_ceil_div and align.                                                 *)

\* Mutant: the ceiling division adds the whole divisor.
IntCeilDivPlusB(a, b) == IF b = 0 THEN Raise ELSE Ret(<<(a + b) \div b>>)

IntCeilDiv(a, b) == IF b = 0 THEN Raise ELSE Ret(<<(a + b - 1) \div b>>)

\* Mutant: align rounds down to a multiple.
AlignDown(a, b) == IF b = 0 THEN Raise ELSE Ret(<<(a \div b) * b>>)

Align(a, b) == IF b = 0 THEN Raise ELSE Ret(<<((a + b - 1) \div b) * b>>)

-----------------------------------------------------------------------------

Init ==
    /\ fn = "none"
    /\ res = Raise
    /\ args \in WindowArgs \cup DivArgs

CallV2 ==
    /\ fn = "none" /\ args \in WindowArgs
    /\ fn' = "v2"
    /\ res' = TfGetWindowedOutputSizeVerboseV2(args.in, args.filter,
                                               args.dilation, args.stride,
                                               args.padding)
    /\ UNCHANGED args

CallVerbose ==
    /\ fn = "none" /\ args \in WindowArgs /\ args.dilation = 1
    /\ fn' = "verbose"
    /\ res' = TfGetWindowedOutputSizeVerbose(args.in, args.filter, args.stride,
                                             args.padding)
    /\ UNCHANGED args

CallSize ==
    /\ fn = "none" /\ args \in WindowArgs /\ args.dilation = 1
    /\ fn' = "size"
    /\ res' = TfGetWindowedOutputSize(args.in, args.filter, args.stride,
                                      args.padding)
    /\ UNCHANGED args

CallIntCeilDiv ==
    /\ fn = "none" /\ args \in DivArgs
    /\ fn' = "int_ceil_div"
    /\ res' = IntCeilDiv(args.a, args.b)
    /\ UNCHANGED args

CallAlign ==
    /\ fn = "none" /\ args \in DivArgs
    /\ fn' = "align"
    /\ res' = Align(args.a, args.b)
    /\ UNCHANGED args

\* The call has returned or raised.
Returned == fn # "none" /\ UNCHANGED vars

Next == CallV2 \/ CallVerbose \/ CallSize \/ CallIntCeilDiv \/ CallAlign \/ Returned

Spec == Init /\ [][Next]_vars

-----------------------------------------------------------------------------
(* Reference definitions and properties.                                   *)

TypeOK ==
    /\ fn \in FnNames \cup {"none"}
    /\ args \in WindowArgs \cup DivArgs
    /\ res.raised \in BOOLEAN /\ res.val \in Seq(Int)
    /\ fn # "none" /\ ~res.raised =>
          Len(res.val) = CASE fn = "size" -> 2
                           [] fn \in {"v2", "verbose"} -> 3
                           [] OTHER -> 1

Eff == (args.filter - 1) * args.dilation + 1
WindowCall == fn \in {"v2", "verbose", "size"}

\* The window starts 0, s, 2s, ... of a VALID convolution: those whose
\* window of eff elements lies inside the input.
ValidStarts == {k \in 0..args.in : k * args.stride + Eff <= args.in}

\* The window starts of a SAME convolution: one per stride step inside the
\* input.
SameStarts == {k \in 0..args.in : k * args.stride < args.in}

\* The windowed output size of a VALID window (tf_get_windowed_output_size*
\* with padding "VALID") is the number of windows that fit in the input,
\* whenever it is not negative, for every input, filter, dilation and
\* stride the functions accept.
ValidMatchesTF ==
    WindowCall /\ ~res.raised /\ args.padding = "VALID" /\ res.val[1] >= 0
        => res.val[1] = Cardinality(ValidStarts)

\* The output size of a SAME window is the number of stride steps inside
\* the input, and for a non-empty output the padding is the least that
\* lets the last dilated window end inside the padded input, split with
\* the odd unit after, as TensorFlow does.
SameMatchesTF ==
    WindowCall /\ ~res.raised /\ args.padding = "SAME" =>
        /\ res.val[1] = Cardinality(SameStarts)
        /\ fn # "size" /\ res.val[1] > 0 =>
              LET before == res.val[2]
                  after  == res.val[3]
                  Fits(p) == (res.val[1] - 1) * args.stride + Eff <= args.in + p
              IN /\ Fits(before + after)
                 /\ before + after = 0 \/ ~Fits(before + after - 1)
                 /\ before <= after /\ after <= before + 1

\* int_ceil_div(a, b) is the least q with q * b >= a, and align(a, b) the
\* least multiple of b that is at least a, for every size a and every
\* positive b; b = 0 raises.
CeilDivAndAlignMatch ==
    fn \in {"int_ceil_div", "align"} =>
        IF args.b = 0 THEN res.raised
        ELSE LET q == CHOOSE n \in 0..args.a : n * args.b >= args.a
                         /\ \A m \in 0..(n - 1) : m * args.b < args.a
             IN res = Ret(<<IF fn = "int_ceil_div" THEN q ELSE q * args.b>>)

\* TensorFlow rejects a window whose computed output size is negative; the
\* code's VALID branch returns it.
ValidOutputNonNegative ==
    WindowCall /\ ~res.raised => res.val[1] >= 0

=============================================================================
