--------------------------------- MODULE Numeric -------------------------------
(* The numeric instructions of interpreter.c on values of reduced width.  An
   integer of w bits is its unsigned value; a float is its bit pattern, of a
   format fmt = [exp, sig] with that many bits of exponent and significand.  The
   code's constants (0x4f000000U, ...) are the patterns named in its comments,
   written here as functions of the format.  What the C compiler, libm or the
   processor does (a cast, a comparison of floats) is modelled by what IEEE 754
   and C define; arithmetic and rounding functions on floats are left out. *)
EXTENDS Integers, Sequences, FiniteSets, Bitwise

CONSTANTS Bits32, Bits64,   \* widths of i32 and i64: powers of 2, as the shift masks need
          F32, F64          \* the formats

ASSUME WidthsAssumption == Bits32 \in {2, 4, 8} /\ Bits64 \in {4, 8, 16} /\ Bits32 < Bits64
ASSUME FormatsAssumption == F32.exp < F64.exp /\ F32.sig < F64.sig

Wrap(w, v) == v % 2^w
SIGNED(w, v) == IF v >= 2^(w - 1) THEN v - 2^w ELSE v
SIGNED_MAX(w) == 2^(w - 1)
UNSIGNED_MAX(w) == 2^w - 1
Truth(b) == IF b THEN 1 ELSE 0
Magnitude(n) == IF n < 0 THEN -n ELSE n

PUSH(v) == [trap |-> "none", v |-> v]
TRAP(t) == [trap |-> t, v |-> 0]

(* --------------------------------- integers -------------------------------- *)
\* the quotient and the remainder of C, which round to zero
Quotient(a, b) ==
  LET q == Magnitude(a) \div Magnitude(b) IN IF (a < 0) = (b < 0) THEN q ELSE -q
Remainder(a, b) == a - b * Quotient(a, b)

Compare(op, a, b) ==
  CASE op = "eq" -> a = b [] op = "ne" -> a # b
    [] op = "lt" -> a < b [] op = "le" -> a <= b
    [] op = "gt" -> a > b [] op = "ge" -> a >= b

BINOP(w, op, a, b) ==
  CASE op = "add" -> PUSH(Wrap(w, a + b))
    [] op = "sub" -> PUSH(Wrap(w, a - b))
    [] op = "mul" -> PUSH(Wrap(w, a * b))
    [] op = "and" -> PUSH(a & b)
    [] op = "or"  -> PUSH(a | b)
    [] op = "xor" -> PUSH(a ^^ b)

BINOP_COMPARE(op, a, b) == PUSH(Truth(Compare(op, a, b)))
BINOP_SIGNED(w, op, a, b) == PUSH(Truth(Compare(op, SIGNED(w, a), SIGNED(w, b))))

SHIFT_MASK(w, b) == b % w

BINOP_SHIFT(w, op, a, b) ==
  LET k == SHIFT_MASK(w, b)
  IN CASE op = "shl" -> PUSH(Wrap(w, a * 2^k))
       [] op = "shr_u" -> PUSH(a \div 2^k)
       [] op = "shr_s" -> PUSH(Wrap(w, SIGNED(w, a) \div 2^k))

BINOP_ROT(w, op, a, b) ==
  LET k == SHIFT_MASK(w, b)
  IN CASE k = 0 -> PUSH(a)
       [] k # 0 /\ op = "rotl" -> PUSH(Wrap(w, a * 2^k) | (a \div 2^(w - k)))
       [] k # 0 /\ op = "rotr" -> PUSH((a \div 2^k) | Wrap(w, a * 2^(w - k)))

BINOP_DIV_REM_U(w, op, a, b) ==
  IF b = 0 THEN TRAP("integer divide by zero")
  ELSE PUSH(IF op = "div_u" THEN a \div b ELSE a % b)

\* mutant: the quotient that does not fit is computed
BINOP_DIV_SUnchecked(w, a, b) ==
  IF b = 0 THEN TRAP("integer divide by zero")
  ELSE PUSH(Wrap(w, Quotient(SIGNED(w, a), SIGNED(w, b))))

BINOP_DIV_S(w, a, b) ==
  CASE b = 0 -> TRAP("integer divide by zero")
    [] a = SIGNED_MAX(w) /\ b = UNSIGNED_MAX(w) -> TRAP("integer overflow")
    [] OTHER -> PUSH(Wrap(w, Quotient(SIGNED(w, a), SIGNED(w, b))))

BINOP_REM_S(w, a, b) ==
  CASE b = 0 -> TRAP("integer divide by zero")
    [] a = SIGNED_MAX(w) /\ b = UNSIGNED_MAX(w) -> PUSH(0)
    [] OTHER -> PUSH(Wrap(w, Remainder(SIGNED(w, a), SIGNED(w, b))))

Bit(v, i) == (v \div 2^i) % 2
Ones(w, v) == {i \in 0 .. w - 1 : Bit(v, i) = 1}

CountBits(w, op, v) ==
  CASE v = 0 -> PUSH(IF op = "popcnt" THEN 0 ELSE w)
    [] v # 0 /\ op = "clz" ->
         PUSH(w - 1 - (CHOOSE i \in Ones(w, v) : \A j \in Ones(w, v) : i >= j))
    [] v # 0 /\ op = "ctz" -> PUSH(CHOOSE i \in Ones(w, v) : \A j \in Ones(w, v) : i <= j)
    [] v # 0 /\ op = "popcnt" -> PUSH(Cardinality(Ones(w, v)))

Arithmetic == {"add", "sub", "mul", "and", "or", "xor"}
Relations == {"eq", "ne", "lt", "le", "gt", "ge"}
IntBinops ==
  [family : {"binop"}, op : Arithmetic] \cup [family : {"unsigned", "signed"}, op : Relations]
  \cup [family : {"shift"}, op : {"shl", "shr_u", "shr_s"}]
  \cup [family : {"rot"}, op : {"rotl", "rotr"}] \cup [family : {"div"}, op : {"div_u", "rem_u"}]
  \cup [family : {"div_s"}, op : {"div_s"}] \cup [family : {"rem_s"}, op : {"rem_s"}]

IntBinop(w, i, a, b) ==
  CASE i.family = "binop" -> BINOP(w, i.op, a, b)
    [] i.family = "unsigned" -> BINOP_COMPARE(i.op, a, b)
    [] i.family = "signed" -> BINOP_SIGNED(w, i.op, a, b)
    [] i.family = "shift" -> BINOP_SHIFT(w, i.op, a, b)
    [] i.family = "rot" -> BINOP_ROT(w, i.op, a, b)
    [] i.family = "div" -> BINOP_DIV_REM_U(w, i.op, a, b)
    [] i.family = "div_s" -> BINOP_DIV_S(w, a, b)
    [] i.family = "rem_s" -> BINOP_REM_S(w, a, b)

I32Binop(i, a, b) == IntBinop(Bits32, i, a, b)
I64Binop(i, a, b) == IntBinop(Bits64, i, a, b)

IntUnops == {"clz", "ctz", "popcnt", "eqz"}
IntUnop(w, op, v) == IF op = "eqz" THEN PUSH(Truth(v = 0)) ELSE CountBits(w, op, v)

I32_WRAP_I64(v) == PUSH(Wrap(Bits32, v))
I64_EXTEND_S_I32(v) == PUSH(Wrap(Bits64, SIGNED(Bits32, v)))
I64_EXTEND_U_I32(v) == PUSH(v)

\* the value of a store and of a load of m bits, MEM_TYPE_* and MEM_TYPE_EXTEND_*
STORED(m, v) == Wrap(m, v)
LOADED(w, m, signed, v) == PUSH(Wrap(w, IF signed THEN SIGNED(m, v) ELSE v))

(* ---------------------------------- floats --------------------------------- *)
Bias(f) == 2^(f.exp - 1) - 1
SIGN_MASK(f) == 2^(f.exp + f.sig)
INF(f) == (2^f.exp - 1) * 2^f.sig
NEG_ZERO(f) == SIGN_MASK(f)
NEG_INF(f) == SIGN_MASK(f) + INF(f)
NEG_ONE(f) == SIGN_MASK(f) + Bias(f) * 2^f.sig
QUIET_NAN_BIT(f) == 2^(f.sig - 1)
QUIET_NAN(f) == INF(f) + QUIET_NAN_BIT(f)
FloatMax(f) == INF(f) - 1
Floats(f) == 0 .. 2 * SIGN_MASK(f) - 1

is_nan(f, bits) == (bits > INF(f) /\ bits < NEG_ZERO(f)) \/ bits > NEG_INF(f)
is_zero(f, bits) == bits = 0 \/ bits = NEG_ZERO(f)
Negative(f, bits) == bits >= NEG_ZERO(f)
Unsigned(f, bits) == bits % SIGN_MASK(f)
WithSign(f, bits, neg) == Unsigned(f, bits) + (IF neg THEN SIGN_MASK(f) ELSE 0)

\* A finite value without its sign is Units(f, bits) * 2^UnitExp(f, bits).
Exponent(f, bits) == Unsigned(f, bits) \div 2^f.sig
Units(f, bits) == (bits % 2^f.sig) + (IF Exponent(f, bits) = 0 THEN 0 ELSE 2^f.sig)
UnitExp(f, bits) ==
  (IF Exponent(f, bits) = 0 THEN 1 ELSE Exponent(f, bits)) - Bias(f) - f.sig

Length(n) == CHOOSE k \in 0 .. 30 : n < 2^k /\ (k = 0 \/ n >= 2^(k - 1))

(* n * 2^e in the format f, rounded to the nearest, ties to even: what a cast
   to the format does. *)
Rounded(f, n, e) ==
  LET top == e + Length(n) - 1 - f.sig
      q == IF top < 1 - Bias(f) - f.sig THEN 1 - Bias(f) - f.sig ELSE top
      half == n % 2^(q - e)
      up == 2 * half > 2^(q - e) \/ (2 * half = 2^(q - e) /\ (n \div 2^(q - e)) % 2 = 1)
      r == CASE e >= q -> n * 2^(e - q)
             [] e < q /\ q - e > Length(n) -> 0
             [] OTHER -> (n \div 2^(q - e)) + Truth(up)
      bits == (q + f.sig + Bias(f) - 1) * 2^f.sig + r
  IN IF bits > INF(f) THEN INF(f) ELSE bits

CastInt(f, v) == IF v = 0 THEN 0 ELSE WithSign(f, Rounded(f, Magnitude(v), 0), v < 0)
CONVERT_U(f, v) == PUSH(CastInt(f, v))
CONVERT_S(w, f, v) == PUSH(CastInt(f, SIGNED(w, v)))

\* The whole part and whether there is a fraction; a value of 2^MaxWhole or more is that.
MaxWhole == 20
Whole(f, bits) ==
  LET e == UnitExp(f, bits)
      n == Units(f, bits)
  IN CASE e >= 0 -> IF e + f.sig >= MaxWhole THEN 2^MaxWhole ELSE n * 2^e
       [] e < 0 /\ -e > f.sig + 1 -> 0
       [] OTHER -> n \div 2^(-e)
HasFraction(f, bits) ==
  LET e == UnitExp(f, bits)
  IN Units(f, bits) # 0 /\ e < 0 /\ (-e > f.sig \/ Units(f, bits) % 2^(-e) # 0)
CastToInt(f, bits) == IF Negative(f, bits) THEN -Whole(f, bits) ELSE Whole(f, bits)

\* mutant: the first value above the range is let through
is_in_range_trunc_sInclusive(w, f, bits) ==
  \/ bits <= CastInt(f, 2^(w - 1))
  \/ bits >= NEG_ZERO(f) /\ bits <= CastInt(f, -(2^(w - 1)))

\* below 2^(w-1) or 2^w, which the format has
is_in_range_trunc_s(w, f, bits) ==
  \/ bits < CastInt(f, 2^(w - 1))
  \/ bits >= NEG_ZERO(f) /\ bits <= CastInt(f, -(2^(w - 1)))

is_in_range_trunc_u(w, f, bits) ==
  \/ bits < CastInt(f, 2^w)
  \/ bits >= NEG_ZERO(f) /\ bits < NEG_ONE(f)

\* from double to i32: at most the largest integer, which this format has too
is_in_range_i32_trunc_s_f64(bits) ==
  \/ bits <= CastInt(F64, 2^(Bits32 - 1) - 1)
  \/ bits >= NEG_ZERO(F64) /\ bits <= CastInt(F64, -(2^(Bits32 - 1)))

is_in_range_i32_trunc_u_f64(bits) ==
  \/ bits <= CastInt(F64, 2^Bits32 - 1)
  \/ bits >= NEG_ZERO(F64) /\ bits < NEG_ONE(F64)

TRUNC(w, f, in_range, bits) ==
  CASE is_nan(f, bits) -> TRAP("invalid conversion to integer")
    [] ~is_nan(f, bits) /\ ~in_range -> TRAP("integer overflow")
    [] OTHER -> PUSH(Wrap(w, CastToInt(f, bits)))

TRUNC_S(w, f, bits) ==
  TRUNC(w, f, IF w = Bits32 /\ f = F64 THEN is_in_range_i32_trunc_s_f64(bits)
              ELSE is_in_range_trunc_s(w, f, bits), bits)
TRUNC_U(w, f, bits) ==
  TRUNC(w, f, IF w = Bits32 /\ f = F64 THEN is_in_range_i32_trunc_u_f64(bits)
              ELSE is_in_range_trunc_u(w, f, bits), bits)

\* the double of a float and half a unit above the largest float
Promoted(bits) ==
  IF is_nan(F32, bits)
  THEN WithSign(F64, INF(F64) + ((bits % 2^F32.sig) | QUIET_NAN_BIT(F32)) * 2^(F64.sig - F32.sig),
                Negative(F32, bits))
  ELSE IF Unsigned(F32, bits) = INF(F32) THEN WithSign(F64, INF(F64), Negative(F32, bits))
  ELSE IF is_zero(F32, bits) THEN WithSign(F64, 0, Negative(F32, bits))
  ELSE WithSign(F64, Rounded(F64, Units(F32, bits), UnitExp(F32, bits)), Negative(F32, bits))
F64_PROMOTE_F32(bits) == PUSH(Promoted(bits))

MaxAsF64 == Promoted(FloatMax(F32))
HalfAboveMax == MaxAsF64 + 2^(F64.sig - F32.sig - 1)

\* is_in_range_f64_demote_f32_round_to_f32_max and its negative
RoundsToMax(bits) == Unsigned(F64, bits) > MaxAsF64 /\ Unsigned(F64, bits) < HalfAboveMax

is_in_range_f64_demote_f32(bits) == Unsigned(F64, bits) <= MaxAsF64

F32_DEMOTE_F64(bits) ==
  LET neg == Negative(F64, bits)
      tag == IF is_nan(F64, bits)
             THEN QUIET_NAN_BIT(F32) | ((bits \div 2^(F64.sig - F32.sig)) % 2^F32.sig) ELSE 0
  IN CASE is_in_range_f64_demote_f32(bits) ->
            PUSH(WithSign(F32, IF is_zero(F64, bits) THEN 0
                               ELSE Rounded(F32, Units(F64, bits), UnitExp(F64, bits)), neg))
       [] RoundsToMax(bits) -> PUSH(WithSign(F32, FloatMax(F32), neg))
       [] OTHER -> PUSH(WithSign(F32, INF(F32) + tag, neg))

\* floats in their order; the zeros are equal to the comparisons of C
Order(f, bits) == IF Negative(f, bits) THEN -Unsigned(f, bits) ELSE bits

FLOAT_COMPARE(f, op, a, b) ==
  PUSH(Truth(IF is_nan(f, a) \/ is_nan(f, b) THEN op = "ne"
             ELSE Compare(op, Order(f, a), Order(f, b))))

\* mutant: the zeros are left to the comparison of floats
MINMAX_FLOATUnsigned(f, op, a, b) ==
  CASE is_nan(f, a) -> PUSH(a | QUIET_NAN_BIT(f))
    [] ~is_nan(f, a) /\ is_nan(f, b) -> PUSH(b | QUIET_NAN_BIT(f))
    [] OTHER -> PUSH(IF Compare(op, Order(f, a), Order(f, b)) THEN a ELSE b)

\* op is "lt" for min and "gt" for max
MINMAX_FLOAT(f, op, a, b) ==
  CASE is_nan(f, a) -> PUSH(a | QUIET_NAN_BIT(f))
    [] ~is_nan(f, a) /\ is_nan(f, b) -> PUSH(b | QUIET_NAN_BIT(f))
    [] ~is_nan(f, a) /\ ~is_nan(f, b) /\ Negative(f, a) # Negative(f, b) ->
         PUSH(IF ~Compare(op, a, b) THEN a ELSE b)
    [] OTHER -> PUSH(IF Compare(op, Order(f, a), Order(f, b)) THEN a ELSE b)

\* BINOP_FLOAT_DIV by a zero; the other quotients are the processor's
DivideByZero(f, a, b) ==
  CASE is_nan(f, a) -> PUSH(a | QUIET_NAN(f))
    [] is_zero(f, a) -> PUSH(QUIET_NAN(f))
    [] OTHER -> PUSH(WithSign(f, INF(f), Negative(f, a) # Negative(f, b)))

FloatSign(f, op, a) ==
  PUSH(WithSign(f, a, IF op = "neg" THEN ~Negative(f, a) ELSE FALSE))
COPYSIGN(f, a, b) == PUSH(WithSign(f, a, Negative(f, b)))

FloatBinops == {"div", "min", "max", "copysign"} \cup Relations
FloatBinop(f, op, a, b) ==
  CASE op = "div" -> DivideByZero(f, a, b)
    [] op = "min" -> MINMAX_FLOAT(f, "lt", a, b)
    [] op = "max" -> MINMAX_FLOAT(f, "gt", a, b)
    [] op = "copysign" -> COPYSIGN(f, a, b)
    [] OTHER -> FLOAT_COMPARE(f, op, a, b)

F32Binop(op, a, b) == FloatBinop(F32, op, a, b)
F64Binop(op, a, b) == FloatBinop(F64, op, a, b)
================================================================================
