------------------------------ MODULE IsaFloat ------------------------------
(***************************************************************************)
(* The floating-point instructions of riscv.def and the macros of          *)
(* floating_point_handler.def that find their exception flags by hand.     *)
(*                                                                         *)
(* A number is its class, its sign and, when finite, a magnitude n/d in    *)
(* units of which Unit make 1.0; each precision has its own grid of        *)
(* magnitudes.  The host computes as IEEE 754 says, to nearest even.       *)
(***************************************************************************)
EXTENDS Integers, FiniteSets

CONSTANTS
  Unit,          \* the units in 1.0
  Grid,          \* magnitudes of each precision, "S" and "D"
  MinNormal,     \* and the least normal one
  Bits,          \* width of WORD and LONG
  Operands,      \* the values registers start from
  FloatSteps

VARIABLES
  freg,          \* two registers: value and whether it is NaN-boxed
  fflags, xreg,  \* the flags of the CSR and the last integer result
  fsteps

floatVars == <<freg, fflags, xreg, fsteps>>

Finite(neg, n, d) == [kind |-> "finite", neg |-> neg, n |-> n, d |-> d]
Inf(neg) == [kind |-> "inf", neg |-> neg, n |-> 0, d |-> 1]
QNaN == [kind |-> "qnan", neg |-> FALSE, n |-> 0, d |-> 1]
IsNaN(v) == v.kind \in {"qnan", "snan"}
IsInf(v) == v.kind = "inf"
IsZero(v) == v.kind = "finite" /\ v.n = 0
Opposite(v) == [v EXCEPT !.neg = ~@]
Signed1(v) == IF v.neg THEN -1 ELSE 1

\* Exact arithmetic, as far as infinities and NaNs let it.
WAdd(v, w) ==
  LET s == (Signed1(v) * v.n * w.d) + (Signed1(w) * w.n * v.d)
  IN  CASE IsNaN(v) \/ IsNaN(w) -> QNaN
        [] IsInf(v) /\ IsInf(w) -> IF v.neg = w.neg THEN v ELSE QNaN
        [] IsInf(v) -> v
        [] IsInf(w) -> w
        [] OTHER -> Finite(s < 0 \/ (s = 0 /\ v.neg /\ w.neg), IF s < 0 THEN -s ELSE s, v.d * w.d)
WMul(v, w) ==
  LET neg == v.neg # w.neg
  IN  CASE IsNaN(v) \/ IsNaN(w) -> QNaN
        [] (IsInf(v) /\ IsZero(w)) \/ (IsZero(v) /\ IsInf(w)) -> QNaN
        [] IsInf(v) \/ IsInf(w) -> Inf(neg)
        [] OTHER -> Finite(neg, v.n * w.n, v.d * w.d * Unit)
WDiv(v, w) ==
  LET neg == v.neg # w.neg
  IN  CASE IsNaN(v) \/ IsNaN(w) -> QNaN
        [] (IsInf(v) /\ IsInf(w)) \/ (IsZero(v) /\ IsZero(w)) -> QNaN
        [] IsInf(v) \/ IsZero(w) -> Inf(neg)
        [] IsInf(w) -> Finite(neg, 0, 1)
        [] OTHER -> Finite(neg, v.n * w.d * Unit, v.d * w.n)

\* To the nearest magnitude of a precision; halfway, to the even one.  From
\* half a step past the largest, to infinity.
Least(S) == CHOOSE m \in S : \A k \in S : m <= k
Largest == [p \in {"S", "D"} |-> CHOOSE m \in Grid[p] : \A k \in Grid[p] : k <= m]
After ==
  [p \in {"S", "D"} |-> [m \in Grid[p] |->
     IF m = Largest[p]
     THEN m + Least({k \in {m - g : g \in Grid[p]} : k > 0})
     ELSE Least({k \in Grid[p] : k > m})]]
Even ==
  [p \in {"S", "D"} |-> [m \in Grid[p] |-> Cardinality({k \in Grid[p] : k < m}) % 2 = 0]]
RoundTo(p, v) ==
  LET m == CHOOSE k \in Grid[p] : k * v.d <= v.n /\ (k = Largest[p] \/ v.n < After[p][k] * v.d)
      half == (m + After[p][m]) * v.d
      up == 2 * v.n > half \/ (2 * v.n = half /\ ~Even[p][m])
  IN  IF v.kind # "finite" THEN v
      ELSE IF ~up THEN Finite(v.neg, m, 1)
      ELSE IF m = Largest[p] THEN Inf(v.neg)
      ELSE Finite(v.neg, After[p][m], 1)

\* The root of a value, and whether it is exact.
SqrtOf(p, v) ==
  LET sq == v.n * Unit
      m == CHOOSE k \in Grid[p] : k * k <= sq /\ sq < After[p][k] * After[p][k]
      half == m + After[p][m]
  IN  CASE IsNaN(v) \/ (v.neg /\ ~IsZero(v)) -> QNaN
        [] IsInf(v) \/ IsZero(v) -> v
        [] OTHER -> Finite(FALSE, IF half * half < 4 * sq THEN After[p][m] ELSE m, 1)
SqrtIsExact(p, v) == LET r == SqrtOf(p, v) IN IsInf(v) \/ r.n * r.n = v.n * Unit

Fused == {"MADD", "MSUB", "NMADD", "NMSUB"}
Arith == {"ADD", "SUB", "MUL", "DIV"}
Product(op, a, b) == IF op \in {"NMADD", "NMSUB"} THEN Opposite(WMul(a, b)) ELSE WMul(a, b)
Addend(op, c) == IF op \in {"MSUB", "NMADD"} THEN Opposite(c) ELSE c

\* EXPR in the wider type the NX handler uses, and as the host rounds it: a
\* fused operation twice.
Wide(op, a, b, c) ==
  CASE op = "ADD" -> WAdd(a, b)
    [] op = "SUB" -> WAdd(a, Opposite(b))
    [] op = "MUL" -> WMul(a, b)
    [] op = "DIV" -> WDiv(a, b)
    [] OTHER -> WAdd(Product(op, a, b), Addend(op, c))
Host(p, op, a, b, c) ==
  IF op = "SQRT" THEN SqrtOf(p, a)
  ELSE IF op \in Fused
       THEN RoundTo(p, WAdd(RoundTo(p, Product(op, a, b)), Addend(op, c)))
       ELSE RoundTo(p, Wide(op, a, b, c))

\* C's ==.
SameNumber(v, w) ==
  /\ ~IsNaN(v) /\ ~IsNaN(w)
  /\ IF IsInf(v) \/ IsInf(w) THEN v.kind = w.kind /\ v.neg = w.neg
     ELSE Signed1(v) * v.n * w.d = Signed1(w) * w.n * v.d
LessNumber(v, w) ==
  LET value(u) == IF IsInf(u) THEN 1000000 ELSE u.n
  IN  ~IsNaN(v) /\ ~IsNaN(w) /\ Signed1(v) * value(v) < Signed1(w) * value(w)

\* IEEE754_SINGLE_DEFINE, IEEE754_DOUBLE_DEFINE.
TypeOf(p, v) ==
  CASE IsZero(v) -> "ZERO_TYPE"
    [] v.kind = "qnan" -> "Q_NAN"
    [] v.kind = "snan" -> "S_NAN"
    [] IsInf(v) -> IF v.neg THEN "N_INF" ELSE "P_INF"
    [] v.n < MinNormal[p] * v.d -> IF v.neg THEN "N_SUBN" ELSE "P_SUBN"
    [] OTHER -> IF v.neg THEN "N_NORM" ELSE "P_NORM"

-----------------------------------------------------------------------------
(* The exception handlers.                                                 *)

Infs == {"P_INF", "N_INF"}
MulIsInvalid(t1, t2) ==
  \/ t1 \in Infs /\ t2 = "ZERO_TYPE"
  \/ t1 = "ZERO_TYPE" /\ t2 \in Infs
  \/ "S_NAN" \in {t1, t2}
Quiet(t1, t2) == "Q_NAN" \in {t1, t2}

\* FLOAT_EXCEPTION_NV_HANDLER.  MADD and NMSUB have no break and go on into
\* the case of MSUB and NMADD, with what "quiet" has become.
NV(op, t1, t2, t3, tp) ==
  LET opposed == tp \in Infs /\ t3 \in Infs /\ tp # t3
      alike == tp \in Infs /\ tp = t3
      quiet == Quiet(t1, t2)
      added == op \in {"MADD", "NMSUB"} /\ ~quiet
  IN  CASE op = "ADD" -> \/ t1 \in Infs /\ t2 \in Infs /\ t1 # t2
                         \/ "S_NAN" \in {t1, t2}
        [] op = "SUB" -> (t1 \in Infs /\ t1 = t2) \/ "S_NAN" \in {t1, t2}
        [] op = "MUL" -> MulIsInvalid(t1, t2)
        [] op = "DIV" -> \/ t1 = "ZERO_TYPE" /\ t2 = "ZERO_TYPE"
                         \/ t1 \in Infs /\ t2 \in Infs
                         \/ "S_NAN" \in {t1, t2}
        [] op = "SQRT" -> t1 \in {"N_NORM", "N_SUBN", "N_INF", "S_NAN"}
        [] op = "CMP" -> {t1, t2} \cap {"S_NAN", "Q_NAN"} # {}
        [] op = "EQ" -> "S_NAN" \in {t1, t2}
        [] op \in Fused ->
             \/ MulIsInvalid(t1, t2)
             \/ added /\ (opposed \/ "S_NAN" \in {tp, t3})
             \/ /\ ~quiet /\ ~(added /\ Quiet(tp, t3))
                /\ alike \/ "S_NAN" \in {tp, t3}

\* FLOAT_EXCEPTION_OF_HANDLER and UF: an infinite result overflows, a subnormal
\* one underflows; the fused operations write 1 as !0 and OF for UF.
OF(op, tp, tr) == op \in Arith \cup Fused /\ (tr \in Infs \/ (op \in Fused /\ tp \in Infs))
UF(op, tr) == op \in Arith /\ tr \in {"P_SUBN", "N_SUBN"}
LastDigit(p, v) ==
  v.kind = "finite" /\ v.n = After[p][0]
FusedUF(p, op, prod, res) ==
  op \in Fused /\ (LastDigit(p, prod) \/ LastDigit(p, res))

\* SINGLE_/DOUBLE_FLOAT_EXCEPTION_HANDLER for operands a, b, c; res is EXPR and
\* prod the product of a fused operation.
Raised(p, op, a, b, c, res, prod) ==
  LET T(v) == TypeOf(p, v)
      tp == IF op \in Fused THEN T(prod) ELSE "ZERO_TYPE"
      nv == NV(op, T(a), T(b), T(c), tp)
      dz == ~nv /\ op = "DIV" /\ IsZero(b)
      of == ~nv /\ ~dz /\ OF(op, tp, T(res))
      uf == ~nv /\ ~dz /\ ~of
      inexact == CASE op = "SQRT" -> ~(SqrtIsExact(p, a) /\ SameNumber(SqrtOf(p, a), res))
                   [] op \in Arith \cup Fused -> ~SameNumber(Wide(op, a, b, c), res)
                   [] OTHER -> FALSE
  IN  {f \in {"NV", "DZ", "OF", "UF", "NX"} :
         \/ f = "NV" /\ nv
         \/ f = "DZ" /\ dz
         \/ f = "OF" /\ (of \/ (uf /\ FusedUF(p, op, prod, res)))
         \/ f = "UF" /\ uf /\ UF(op, T(res))
         \/ f = "NX" /\ ~nv /\ inexact}
Flags(p, op, a, b, c, res) == Raised(p, op, a, b, c, res, RoundTo(p, Product(op, a, b)))

-----------------------------------------------------------------------------
(* The instructions.  A result is a value, and the flags.                *)

Old == {"old"}   \* the CSR is left as it is

\* NAN_BOXED_CHECK.
Checked(p, r) ==
  IF p = "S" /\ ~r.boxed /\ ~IsZero(r.v) THEN QNaN ELSE r.v

\* FADD .. FSQRT and the fused ones.  The operands are checked for the flags
\* and read as they are for the result; a fused double operation stores the
\* bits of its NaN as a number.
Stored(p, op, res, flags) ==
  LET nan == IF p = "D" /\ op \in Fused THEN Finite(FALSE, Largest["D"], 1) ELSE QNaN
  IN  [v |-> IF "NV" \in flags THEN nan ELSE res, flags |-> flags]
Handled(p, op, r1, r2, r3, res) ==
  Stored(p, op, res, Flags(p, op, Checked(p, r1), Checked(p, r2), Checked(p, r3), res))
Compute(p, op, r1, r2, r3) == Handled(p, op, r1, r2, r3, Host(p, op, r1.v, r2.v, r3.v))

\* FEQ, FLT, FLE.
Compared(p, op, r1, r2, a, b) ==
  [v |-> IF /\ ~IsNaN(a) /\ ~IsNaN(b)
            /\ \/ op \in {"FEQ", "FLE"} /\ SameNumber(r1.v, r2.v)
               \/ op \in {"FLT", "FLE"} /\ LessNumber(r1.v, r2.v)
         THEN 1 ELSE 0,
   flags |-> Flags(p, IF op = "FEQ" THEN "EQ" ELSE "CMP", a, b, a, a)]
CompareOf(p, op, r1, r2) == Compared(p, op, r1, r2, Checked(p, r1), Checked(p, r2))

\* F_SINGLE_CMP, F_DOUBLE_CMP: unless both are finite, the lower of two codes.
Code(v) == CASE v.kind = "qnan" -> 102
             [] v.kind = "snan" -> 103
             [] IsInf(v) -> IF v.neg THEN -202 ELSE 202
             [] OTHER -> 1
Lower(op, a, b) ==
  LET first == IF op = "FMIN" THEN LessNumber(a, b) \/ (SameNumber(a, b) /\ a.neg)
               ELSE LessNumber(b, a) \/ (SameNumber(a, b) /\ ~a.neg)
      low == IF Code(a) < Code(b) THEN Code(a) ELSE Code(b)
      invalid == "snan" \in {a.kind, b.kind}
      result == CASE Code(a) = 1 /\ Code(b) = 1 -> IF first THEN a ELSE b
                  [] IsNaN(a) /\ IsNaN(b) -> QNaN
                  [] low = 102 -> QNaN
                  [] low = 202 -> Inf(FALSE)
                  [] low = -202 -> Inf(TRUE)
                  [] low = 1 -> IF Code(a) = 1 THEN a ELSE b
                  [] OTHER -> Finite(FALSE, 0, 1)
  IN  [v |-> result, flags |-> IF invalid THEN {"NV"} ELSE Old]
MinMax(p, op, r1, r2) == Lower(op, Checked(p, r1), Checked(p, r2))

\* FCLASS: the number of the bit.
Class(p, v) ==
  CASE TypeOf(p, v) = "ZERO_TYPE" -> IF v.neg THEN 3 ELSE 4
    [] TypeOf(p, v) = "P_INF" -> 7
    [] TypeOf(p, v) = "N_INF" -> 0
    [] v.kind = "qnan" -> IF p = "D" /\ v.neg THEN 8 ELSE 9
    [] v.kind = "snan" -> 8
    [] TypeOf(p, v) = "P_SUBN" -> 5
    [] TypeOf(p, v) = "N_SUBN" -> 2
    [] OTHER -> IF v.neg THEN 1 ELSE 6

\* FSGNJ, FSGNJN, FSGNJX.
SignInject(p, op, r1, r2) ==
  LET a == Checked(p, r1)   b == Checked(p, r2)
  IN  [a EXCEPT !.neg = CASE op = "FSGNJ" -> b.neg
                          [] op = "FSGNJN" -> ~b.neg
                          [] op = "FSGNJX" -> a.neg # b.neg]

-----------------------------------------------------------------------------
(* FLOAT_FORMAT_CONVERT, to the integers.                                  *)

IntMax(t) == IF t \in {"WORD", "LONG"} THEN 2 ^ (Bits[t] - 1) - 1 ELSE 2 ^ Bits[t] - 1
IntMin(t) == IF t \in {"WORD", "LONG"} THEN -1 * 2 ^ (Bits[t] - 1) ELSE 0
IntRange(t) == IntMin(t) .. IntMax(t)
\* The bound an integer becomes when it is compared with a float.
BoundAs(p, k) == RoundTo(p, Finite(k < 0, (IF k < 0 THEN -k ELSE k) * Unit, 1))

\* RNE_EXE .. RUP_EXE: what is right of the point of a negative number is
\* negative, so RNE never rounds it.
Rounded(v, rm) ==
  LET whole == v.n \div Unit
      rest == v.n % Unit
      up == CASE rm = "RNE" -> /\ ~v.neg
                               /\ 2 * rest > Unit \/ (2 * rest = Unit /\ whole % 2 = 1)
              [] rm = "RTZ" -> FALSE
              [] rm = "RDN" -> v.neg /\ rest # 0
              [] rm = "RUP" -> ~v.neg /\ rest # 0
  IN  Signed1(v) * (whole + (IF up THEN 1 ELSE 0))

RM_Swapped(rm) == <<"RNE", "RTZ", "RUP", "RDN">>[(rm % 4) + 1]

\* RM reads two of its three bits.
RM(rm) == <<"RNE", "RTZ", "RDN", "RUP">>[(rm % 4) + 1]

\* A cast out of range: the host's indefinite integer, or the bits left over.
Cast(t, k) == IF k \in IntRange(t) THEN k
              ELSE IF t \in {"WORD", "LONG"} THEN IntMin(t) ELSE k % 2 ^ Bits[t]

\* The bits of a zero are read back as the result: those of -0 are not 0, a
\* single leaves half a LONG unset, and a double is a zero if a float of it is.
ZeroBits(p, v, t) ==
  LET word == t \in {"WORD", "U_WORD"}
  IN  IF v.n # 0 \/ (p = "S" /\ ~word) THEN IntRange(t)
      ELSE IF v.neg /\ (p = "S" \/ ~word)
           THEN {IF IntMin(t) = 0 THEN 2 ^ (Bits[t] - 1) ELSE IntMin(t)} ELSE {0}

\* The results the conversion may have, as a set.
Convert(p, v, t, rm) ==
  LET seen == RoundTo("S", v)
      k == Rounded(v, RM(rm))
      above(n) == LessNumber(BoundAs(p, IntMax(t)), Finite(n < 0, IF n < 0 THEN -n ELSE n, 1))
      low == IF IntMin(t) = 0 THEN (IF v.neg THEN IntMin(IF t = "U_WORD" THEN "WORD" ELSE "LONG")
                                    ELSE 0) ELSE IntMin(t)
      under == v.neg /\ v.n > -1 * low * Unit
      One(n, f) == {[v |-> n, flags |-> f]}
  IN  CASE IsNaN(v) -> One(IntMax(t), IF v.kind = "qnan" \/ p = "D" THEN Old ELSE {"NV"})
        [] IsInf(seen) -> One(IF seen.neg THEN IntMin(t) ELSE IntMax(t), {"NV"})
        [] IsZero(seen) -> {[v |-> n, flags |-> Old] : n \in ZeroBits(p, v, t)}
        [] ~v.neg /\ above(v.n) -> One(IntMax(t), {"NV"})
        [] under -> One(IntMin(t), {"NV"})
        [] k > 0 /\ above(k * Unit) -> One(IntMax(t), {"NV"})
        [] k < IntMin(t) -> One(IntMin(t), {"NV"})
        [] OTHER -> One(Cast(t, k), IF k * Unit # Signed1(v) * v.n THEN {"NX"} ELSE Old)

\* FCVT_S_D: a bit-wise comparison that is wrong for two positive numbers calls
\* every one of them out of range.  The value is right, but for a zero the bits
\* of the double's lower half are read back.
FCVT_S_D(v) ==
  LET single == RoundTo("S", v)
  IN  IF IsNaN(v) THEN {[v |-> QNaN, flags |-> Old]}
      ELSE IF ~IsZero(single)
      THEN {[v |-> single, flags |-> IF IsInf(single) \/ ~v.neg THEN {"NV"} ELSE Old]}
      ELSE {[v |-> Finite(FALSE, n, 1), flags |-> Old] :
              n \in IF v.n = 0 THEN {0} ELSE {0, Largest["S"]}}

\* FCVT_S_*, FCVT_D_* from integers: a C cast.
FromInteger(p, k) == RoundTo(p, Finite(k < 0, (IF k < 0 THEN -k ELSE k) * Unit, 1))

-----------------------------------------------------------------------------
(* The instructions as steps on two registers of one precision.  What a    *)
(* program does with the flags decides whether they must stick.            *)

Boxed(v) == [v |-> v, boxed |-> TRUE]

FloatStarts == UNION {{[p |-> p, r |-> o] : o \in Operands[p]} : p \in {"S", "D"}}
FloatInit ==
  /\ freg \in FloatStarts
  /\ fflags = {} /\ xreg = 0 /\ fsteps = 0

\* SET_CSRS(FFLAGS, ..) replaces the flags.
NewFlags(f) == IF f = Old THEN fflags ELSE f
WriteF(v) == freg' = [freg EXCEPT !.r[1] = Boxed(v)]
Step == fsteps < FloatSteps /\ fsteps' = fsteps + 1

StepCompute(op) ==
  \E e \in {Compute(freg.p, op, freg.r[1], freg.r[2], freg.r[3])} :
    Step /\ WriteF(e.v) /\ fflags' = NewFlags(e.flags) /\ UNCHANGED xreg
StepMinMax(op) ==
  \E e \in {MinMax(freg.p, op, freg.r[1], freg.r[2])} :
    Step /\ WriteF(e.v) /\ fflags' = NewFlags(e.flags) /\ UNCHANGED xreg
StepSign(op) ==
  Step /\ WriteF(SignInject(freg.p, op, freg.r[1], freg.r[2])) /\ UNCHANGED <<fflags, xreg>>
StepCompare(op) ==
  \E e \in {CompareOf(freg.p, op, freg.r[1], freg.r[2])} :
    Step /\ xreg' = e.v /\ fflags' = NewFlags(e.flags) /\ UNCHANGED freg
StepClass ==
  Step /\ xreg' = Class(freg.p, freg.r[1].v) /\ UNCHANGED <<freg, fflags>>
StepToInteger(t, rm) ==
  \E e \in Convert(freg.p, freg.r[1].v, t, rm) :
    Step /\ xreg' = e.v /\ fflags' = NewFlags(e.flags) /\ UNCHANGED freg
\* SET_FPR writes the lower half of a register only.
StepFromInteger ==
  /\ Step /\ UNCHANGED <<fflags, xreg>>
  /\ freg' = [freg EXCEPT !.r[1].v = FromInteger(freg.p, xreg),
                          !.r[1].boxed = (@ \/ freg.p = "D")]
\* The other registers are not converted: a double read as a single is its lower
\* half, unboxed, and a single read as a double is a NaN.
StepFormat ==
  LET half == [v |-> Finite(FALSE, Largest["S"], 1), boxed |-> FALSE]
  IN  /\ Step /\ UNCHANGED xreg
      /\ IF freg.p = "D"
         THEN \E e \in FCVT_S_D(freg.r[1].v) :
                /\ freg' = [p |-> "S", r |-> <<[v |-> e.v, boxed |-> FALSE], half, half>>]
                /\ fflags' = NewFlags(e.flags)
         ELSE /\ freg' = [p |-> "D", r |-> <<freg.r[1], Boxed(QNaN), Boxed(QNaN)>>]
              /\ UNCHANGED fflags

FloatNext ==
  \/ \E op \in Arith \cup Fused \cup {"SQRT"} : StepCompute(op)
  \/ \E op \in {"FMIN", "FMAX"} : StepMinMax(op)
  \/ \E op \in {"FSGNJ", "FSGNJN", "FSGNJX"} : StepSign(op)
  \/ \E op \in {"FEQ", "FLT", "FLE"} : StepCompare(op)
  \/ StepClass
  \/ \E t \in {"WORD", "U_WORD", "LONG", "U_LONG"}, rm \in {0, 1, 2, 3, 7} : StepToInteger(t, rm)
  \/ StepFromInteger
  \/ StepFormat

FloatSpec == FloatInit /\ [][FloatNext]_floatVars

-----------------------------------------------------------------------------
(* What IEEE 754 and the instruction set manual say.                       *)

RefRaised(p, op, a, b, c, exact, value) ==
  LET vs == {a} \cup (IF op = "SQRT" THEN {} ELSE {b}) \cup (IF op \in Fused THEN {c} ELSE {})
      nv == \/ \E v \in vs : v.kind = "snan"
            \/ (IsNaN(value) /\ \A v \in vs : ~IsNaN(v))
            \/ (op \in Fused /\ ~IsNaN(a) /\ ~IsNaN(b) /\ IsNaN(WMul(a, b)))
      dz == op = "DIV" /\ IsZero(b) /\ a.kind = "finite" /\ ~IsZero(a)
      over == op # "SQRT" /\ exact.kind = "finite" /\ IsInf(value)
      inexact == IF op = "SQRT" THEN ~IsNaN(value) /\ ~SqrtIsExact(p, a)
                 ELSE exact.kind = "finite" /\ ~SameNumber(exact, value)
      tiny == value.kind = "finite" /\ value.n < MinNormal[p] * value.d
  IN  {f \in {"NV", "DZ", "OF", "UF", "NX"} :
         \/ (f = "NV" /\ nv)       \/ (f = "DZ" /\ dz)
         \/ (f = "OF" /\ over)     \/ (f = "NX" /\ inexact)
         \/ (f = "UF" /\ inexact /\ tiny)}
RefValue(p, op, a, b, c) ==
  IF op = "SQRT" THEN SqrtOf(p, a) ELSE RoundTo(p, Wide(op, a, b, c))
RefFlags(p, op, a, b, c) ==
  RefRaised(p, op, a, b, c, Wide(op, a, b, c), RefValue(p, op, a, b, c))

Boxed3 == \A k \in 1 .. 3 : freg.r[k].boxed
Seen(f) == IF f = Old THEN {} ELSE f

\* Where the handlers are known to be wrong: any operand that is not finite (a
\* NaN is called inexact, an infinity an overflow), a fused operation whose
\* product is not exact or whose product or result ends in the last digit.
ArithmeticDeviates(p, op, r, res) ==
  LET product == Product(op, r[1].v, r[2].v)
  IN  \/ \E k \in 1 .. (IF op \in Fused THEN 3 ELSE 2) : r[k].v.kind # "finite"
      \/ op \in Fused /\ (\/ ~SameNumber(RoundTo(p, product), product)
                         \/ LastDigit(p, RoundTo(p, product)) \/ LastDigit(p, res))

\* The result of an operation on finite numbers is the IEEE one and so are its
\* flags, but for UF, found by tests and comparisons written out by hand: exact
\* overflow bounds, division by zero, the root of a negative number, inexactness.
FloatArithmeticIsRight ==
  Boxed3 => \A op \in Arith \cup Fused \cup {"SQRT"} :
    LET a == freg.r[1].v   b == freg.r[2].v   c == freg.r[3].v
    IN  \A e \in {Compute(freg.p, op, freg.r[1], freg.r[2], freg.r[3])} :
        \/ ArithmeticDeviates(freg.p, op, freg.r, e.v)
        \/ /\ e.v = RefValue(freg.p, op, a, b, c)
           /\ e.flags \ {"UF"} = RefFlags(freg.p, op, a, b, c) \ {"UF"}

RefMinMax(op, a, b) ==
  CASE IsNaN(a) /\ IsNaN(b) -> QNaN
    [] IsNaN(a) -> b
    [] IsNaN(b) -> a
    [] SameNumber(a, b) -> IF a.neg = (op = "FMIN") THEN a ELSE b
    [] OTHER -> IF LessNumber(a, b) = (op = "FMIN") THEN a ELSE b

\* The lower code is not the larger value, and +inf's is above a NaN's.
MinMaxDeviates(op, a, b) ==
  \/ op = "FMAX" /\ {a.kind, b.kind} \subseteq {"inf", "finite"} /\ IsInf(a) # IsInf(b)
  \/ op = "FMAX" /\ {a, b} = {Inf(TRUE), Inf(FALSE)}
  \/ \E v, w \in {a, b} : IsNaN(v) /\ w = Inf(FALSE)

\* Order, minimum, maximum and equality, with their NaNs, infinities and signed
\* zeros, and the invalid flag a quiet or a signalling NaN raises in each.
FloatOrderIsRight ==
  LET a == freg.r[1].v   b == freg.r[2].v
      nans == \E v \in {a, b} : IsNaN(v)
      signals == "snan" \in {a.kind, b.kind}
  IN  Boxed3 =>
        /\ \A op \in {"FMIN", "FMAX"} :
             \A e \in {MinMax(freg.p, op, freg.r[1], freg.r[2])} :
                 \/ MinMaxDeviates(op, a, b)
                 \/ /\ IF IsNaN(e.v) THEN nans /\ IsNaN(RefMinMax(op, a, b))
                       ELSE e.v = RefMinMax(op, a, b)
                    /\ ("NV" \in e.flags) = signals
        /\ \A op \in {"FEQ", "FLT", "FLE"} :
             \A e \in {CompareOf(freg.p, op, freg.r[1], freg.r[2])} :
                 /\ e.v = 1 <=> \/ op # "FEQ" /\ LessNumber(a, b)
                                \/ op # "FLT" /\ SameNumber(a, b)
                 /\ e.flags = {f \in {"NV"} : signals \/ (nans /\ op # "FEQ")}

RefRounded(v, rm) ==
  LET whole == v.n \div Unit
      rest == v.n % Unit
      up == CASE rm = 0 -> 2 * rest > Unit \/ (2 * rest = Unit /\ whole % 2 = 1)
              [] rm = 1 -> FALSE
              [] rm = 2 -> v.neg /\ rest # 0
              [] rm = 3 -> ~v.neg /\ rest # 0
  IN  Signed1(v) * (whole + (IF up THEN 1 ELSE 0))
RefConvert(v, t, rm) ==
  LET k == RefRounded(v, rm)
      One(n, f) == [v |-> n, flags |-> f]
  IN  CASE IsNaN(v) -> One(IntMax(t), {"NV"})
        [] IsInf(v) -> One(IF v.neg THEN IntMin(t) ELSE IntMax(t), {"NV"})
        [] k > IntMax(t) -> One(IntMax(t), {"NV"})
        [] k < IntMin(t) -> One(IntMin(t), {"NV"})
        [] OTHER -> One(k, IF k * Unit # Signed1(v) * v.n THEN {"NX"} ELSE {})

\* NaNs that raise nothing, what a float of it is zero or infinite, the number
\* the upper bound rounds to, a fraction below the lower bound, and RNE of a
\* negative number.
ConvertDeviates(p, v, t, rm) ==
  \/ v.kind = "qnan" \/ (IsNaN(v) /\ p = "D")
  \/ IsZero(RoundTo("S", v)) \/ IsInf(v) # IsInf(RoundTo("S", v))
  \/ ~v.neg /\ v.n > IntMax(t) * Unit /\ v = BoundAs(p, IntMax(t))
  \/ v.neg /\ v.n > -1 * IntMin(t) * Unit /\ RefRounded(v, rm) = IntMin(t)
  \/ v.neg /\ rm = 0

\* A conversion to an integer saturates at the bounds of its type, rounds as its
\* rm field says and raises NV or NX, for each of the four types.
FloatConvertsRight ==
  freg.r[1].boxed => \A t \in {"WORD", "U_WORD", "LONG", "U_LONG"}, rm \in 0 .. 3 :
    LET v == freg.r[1].v
    IN  \A ref \in {RefConvert(v, t, rm)} :
        \/ ConvertDeviates(freg.p, v, t, rm)
        \/ \A e \in Convert(freg.p, v, t, rm) : e.v = ref.v /\ Seen(e.flags) = ref.flags

\* What the instructions on floating point numbers compute, order and convert,
\* and the flags they raise, is what the standard says but for what is listed.
FloatIsRight == FloatArithmeticIsRight /\ FloatOrderIsRight /\ FloatConvertsRight
=============================================================================
