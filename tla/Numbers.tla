--------------------------------- MODULE Numbers -------------------------------
(* The number code of the repository run on every value of small words: the
   interpreter's numeric instructions (Numeric), integer and float literals
   (Literal) and the variable-length integers of the binary format (Leb128).
   Each action runs one operation on chosen operands and leaves it, with its
   result, in job; what the operation should have given is defined here by other
   means and compared in the properties. *)
EXTENDS Literal, Leb128

CONSTANTS Samples64,    \* operands for the instructions on i64
          SamplesF64,   \* operands for the instructions on f64
          IntLiterals,  \* [sign, hex, digits]
          HexLiterals,  \* [type, neg, digits, exp_sign, exp]
          LebBits,      \* the width of the integers written as LEB128
          Float, Double \* the formats of the literals

VARIABLE job
Idle == [run |-> "idle"]

\* r is the record of the operation's result
Run(run, on, r) == job' = [run |-> run, on |-> on, r |-> r]

Values(w) == 0 .. 2^w - 1

I32Ops ==
  \E i \in IntBinops, a, b \in Values(Bits32) :
    Run("int", [w |-> Bits32, i |-> i, a |-> a, b |-> b], I32Binop(i, a, b))

I64Ops ==
  \E i \in IntBinops, a, b \in Samples64 :
    Run("int", [w |-> Bits64, i |-> i, a |-> a, b |-> b], I64Binop(i, a, b))

BitOps ==
  \E w \in {Bits32, Bits64}, op \in IntUnops : \E v \in Values(w) :
    Run("bits", [w |-> w, op |-> op, v |-> v], IntUnop(w, op, v))

Resize ==
  \/ \E v \in Values(Bits64) : Run("resize", [op |-> "wrap", v |-> v], I32_WRAP_I64(v))
  \/ \E v \in Values(Bits32) : Run("resize", [op |-> "extend_s", v |-> v], I64_EXTEND_S_I32(v))
  \/ \E v \in Values(Bits32) : Run("resize", [op |-> "extend_u", v |-> v], I64_EXTEND_U_I32(v))

\* a store of m bits and a load from the same place
Access ==
  \E w \in {Bits32, Bits64}, signed \in BOOLEAN : \E m \in {w \div 4, w \div 2, w}, v \in Values(w) :
    Run("access", [w |-> w, m |-> m, signed |-> signed, v |-> v],
        LOADED(w, m, signed, STORED(m, v)))

Truncate ==
  \E w \in {Bits32, Bits64}, f \in {F32, F64} : \E bits \in Floats(f) :
    \/ Run("trunc", [w |-> w, f |-> f, bits |-> bits, min |-> -(2^(w - 1)), max |-> 2^(w - 1) - 1],
           TRUNC_S(w, f, bits))
    \/ Run("trunc", [w |-> w, f |-> f, bits |-> bits, min |-> 0, max |-> 2^w - 1],
           TRUNC_U(w, f, bits))

Convert ==
  \E w \in {Bits32, Bits64}, f \in {F32, F64} : \E v \in Values(w) :
    \/ Run("convert", [f |-> f, v |-> v], CONVERT_U(f, v))
    \/ Run("convert", [f |-> f, v |-> SIGNED(w, v)], CONVERT_S(w, f, v))

Demote == \E bits \in Floats(F64) : Run("demote", bits, F32_DEMOTE_F64(bits))
Promote == \E bits \in Floats(F32) : Run("promote", bits, F64_PROMOTE_F32(bits))

F32Ops ==
  \E op \in FloatBinops, a, b \in Floats(F32) :
    /\ op = "div" => is_zero(F32, b)
    /\ Run("float", [f |-> F32, op |-> op, a |-> a, b |-> b], F32Binop(op, a, b))

F64Ops ==
  \E op \in FloatBinops, a, b \in SamplesF64 :
    /\ op = "div" => is_zero(F64, b)
    /\ Run("float", [f |-> F64, op |-> op, a |-> a, b |-> b], F64Binop(op, a, b))

Signs ==
  \E f \in {F32, F64}, op \in {"abs", "neg"} : \E a \in Floats(f) :
    Run("sign", [f |-> f, op |-> op, a |-> a], FloatSign(f, op, a))

ReadInt ==
  \E l \in IntLiterals, unsigned_only \in BOOLEAN :
    \/ Run("literal", [w |-> Bits32, l |-> l, unsigned |-> unsigned_only],
           wasm_parse_int32(l, unsigned_only))
    \/ Run("literal", [w |-> Bits64, l |-> l, unsigned |-> unsigned_only],
           wasm_parse_int64(l, unsigned_only))

\* the functions for doubles
wasm_write_double_hex(bits) == wasm_write_float_hex(Double, bits)
parse_double_hex(l) == parse_float_hex(Double, l)
wasm_parse_double(l) == wasm_parse_float(Double, l)

WriteFloat ==
  \/ \E bits \in Floats(Float) :
       Run("hex", [f |-> Float, bits |-> bits],
           wasm_parse_float(Float, wasm_write_float_hex(Float, bits)))
  \/ \E bits \in Floats(Double) :
       Run("hex", [f |-> Double, bits |-> bits], wasm_parse_double(wasm_write_double_hex(bits)))

ReadHex ==
  \E l \in HexLiterals :
    \/ Run("hexfloat", [f |-> Float, l |-> l], parse_float_hex(Float, l))
    \/ Run("hexfloat", [f |-> Double, l |-> l], parse_double_hex(l))

WriteLeb ==
  \/ \E v \in Values(LebBits) : \E bytes \in {wasm_write_u32_leb128(v, LebBits),
                                               wasm_write_fixed_u32_leb128(v, LebBits)} :
       Run("leb", [v |-> v, n |-> Len(bytes)],
           wasm_read_u32_leb128(bytes, 0, Len(bytes), LebBits))
  \/ \E v \in Values(LebBits) :
       LET bytes == wasm_write_i32_leb128(SIGNED(LebBits, v), LebBits)
       IN Run("leb", [v |-> SIGNED(LebBits, v), n |-> Len(bytes)],
              wasm_read_i32_leb128(bytes, 0, Len(bytes), LebBits))

Next ==
  \/ /\ job = Idle
     /\ \/ I32Ops \/ I64Ops \/ BitOps \/ Resize \/ Access \/ Truncate \/ Convert \/ Demote \/ Promote
        \/ F32Ops \/ F64Ops \/ Signs \/ ReadInt \/ WriteFloat \/ ReadHex \/ WriteLeb
  \/ job # Idle /\ job' = Idle

Spec == job = Idle /\ [][Next]_job

(* -------------------------------- properties ------------------------------- *)
\* Integers x with x % 2^w = v.
Means(w, v, x) == v = x % 2^w

\* The bits of a rotated word: bit i comes from bit i - k.
Rotated(w, a, k, r) == \A i \in 0 .. w - 1 : Bit(r, i) = Bit(a, (i - k) % w)

DividesTo(a, b, q, r) ==
  a = b * q + r /\ Magnitude(r) < Magnitude(b) /\ (r = 0 \/ (r < 0) = (a < 0))

\* The quotients of a by b that a signed word has: at most one.
Quotients(w, a, b) ==
  {q \in -(2^(w - 1)) .. 2^(w - 1) - 1 : b # 0 /\ DividesTo(a, b, q, a - b * q)}

IntegerExact(w, i, a, b, r) ==
  LET sa == SIGNED(w, a)
      sb == SIGNED(w, b)
  IN CASE i.op = "div_s" -> IF Quotients(w, sa, sb) = {} THEN r.trap # "none"
                            ELSE r.trap = "none" /\ SIGNED(w, r.v) \in Quotients(w, sa, sb)
       [] i.op = "rem_s" -> IF b = 0 THEN r.trap # "none"
                            ELSE /\ r.trap = "none"
                                 /\ \E q \in -(2^(w - 1)) .. 2^(w - 1) :
                                      DividesTo(sa, sb, q, SIGNED(w, r.v))
       [] i.op \in {"div_u", "rem_u"} /\ b = 0 -> r.trap # "none"
       [] i.op = "div_u" /\ b # 0 -> DividesTo(a, b, r.v, a - b * r.v)
       [] i.op = "rem_u" /\ b # 0 -> \E q \in 0 .. a : DividesTo(a, b, q, r.v)
       [] i.op = "rotl" -> Rotated(w, a, b % w, r.v)
       [] i.op = "rotr" -> Rotated(w, a, w - (b % w), r.v)
       [] i.op = "shr_s" -> \E k \in 0 .. 2^(b % w) - 1 : sa = SIGNED(w, r.v) * 2^(b % w) + k
       [] i.op = "sub" -> Means(w, r.v, sa - sb)
       [] i.op = "mul" -> Means(w, r.v, sa * sb)
       [] i.family = "signed" /\ i.op = "lt" -> r.v = 1 <=> (sa - sb < 0)
       [] OTHER -> r.trap = "none" /\ r.v \in Values(w)

(* Every i32 and i64 instruction on integers gives the value the operation has
   modulo the width, and traps exactly when there is none: the quotient of the
   least integer by -1 and a division by zero trap, the remainder by -1 does not
   (BINOP_DIV_S, BINOP_REM_S, BINOP_ROT, BINOP_SHIFT of interpreter.c).  A value
   that is stored and loaded again by fewer bits keeps those bits and has the
   others equal to its sign or zero (LOAD and STORE). *)
IntegersExact ==
  /\ job.run = "int" => IntegerExact(job.on.w, job.on.i, job.on.a, job.on.b, job.r)
  /\ job.run = "access" =>
       \A i \in 0 .. job.on.w - 1 :
         Bit(job.r.v, i) = IF i < job.on.m THEN Bit(job.on.v, i)
                           ELSE IF job.on.signed THEN Bit(job.on.v, job.on.m - 1) ELSE 0

(* A float becomes an integer only if its whole part fits, so that the cast in C
   is defined, and is refused only if it is not a number or lies outside the
   range of the type (the is_in_range_*_trunc_* tests of interpreter.c on bit
   patterns). *)
TruncInRange ==
  job.run = "trunc" =>
    LET x == CastToInt(job.on.f, job.on.bits)
        past == HasFraction(job.on.f, job.on.bits)
    IN IF job.r.trap = "none"
       THEN x \in job.on.min .. job.on.max /\ Means(job.on.w, job.r.v, x)
       ELSE \/ is_nan(job.on.f, job.on.bits)
            \/ x > job.on.max \/ (x = job.on.max /\ past)
            \/ x < job.on.min \/ (x = job.on.min /\ past /\ Negative(job.on.f, job.on.bits))
            \/ Unsigned(job.on.f, job.on.bits) = INF(job.on.f)

\* -0 is before 0
Before(f, a, b) ==
  LET Rank(x) == IF Negative(f, x) THEN -1 - Unsigned(f, x) ELSE x IN Rank(a) <= Rank(b)

Quiet(f, bits) == is_nan(f, bits) /\ Bit(bits, f.sig - 1) = 1

MinMaxOf(f, op, a, b, r) ==
  LET nan == is_nan(f, a) \/ is_nan(f, b)
  IN CASE op \in {"min", "max"} /\ nan -> Quiet(f, r)
       [] op = "min" /\ ~nan -> r \in {a, b} /\ Before(f, r, a) /\ Before(f, r, b)
       [] op = "max" /\ ~nan -> r \in {a, b} /\ Before(f, a, r) /\ Before(f, b, r)
       [] op = "div" -> \/ Quiet(f, r) /\ (is_nan(f, a) \/ is_zero(f, a))
                        \/ r = WithSign(f, INF(f), Negative(f, a) # Negative(f, b))
       [] OTHER -> TRUE

DemotedOf(bits, r) ==
  IF is_nan(F64, bits) THEN Quiet(F32, r)
  ELSE /\ Negative(F32, r) = Negative(F64, bits)
       /\ Unsigned(F64, bits) \notin {0, INF(F64)} =>
            Unsigned(F32, r) = Rounded(F32, Units(F64, bits), UnitExp(F64, bits))

(* The minimum and the maximum of two floats are a quiet NaN if either is one,
   else the operand that comes first or last when -0 is before 0, in either order
   of the operands; a quotient by zero has the sign of both.  A double becomes the
   nearest float also at the edge of the range, where the code decides by bit
   patterns, and a float that becomes a double comes back (MINMAX_FLOAT,
   BINOP_FLOAT_DIV, F32_DEMOTE_F64 and F64_PROMOTE_F32 of interpreter.c). *)
FloatsExact ==
  /\ job.run = "float" => MinMaxOf(job.on.f, job.on.op, job.on.a, job.on.b, job.r.v)
  /\ job.run = "demote" => DemotedOf(job.on, job.r.v)
  /\ job.run = "promote" /\ ~is_nan(F32, job.on) => F32_DEMOTE_F64(job.r.v).v = job.on

Number(l) == FoldLeft(LAMBDA n, d : n * (IF l.hex THEN 16 ELSE 10) + d, 0, l.digits)

(* A literal that is accepted means its digits modulo the 64-bit word, and one
   whose digits fit the word is accepted exactly when its value is one of the type,
   signed or unsigned; a longer one may pass for a smaller number, because the test
   for overflow sees only some of them. *)
ReadAsInt(w, l, unsigned, r) ==
  LET n == Number(l)
      x == IF l.sign = "-" THEN -n ELSE n
      wrapped == IF l.sign = "-" THEN -(n % 2^Bits64) ELSE n % 2^Bits64
  IN /\ r.ok => Means(w, r.v, wrapped)
     /\ l.digits # <<>> /\ n < 2^Bits64 /\ (l.sign = "" \/ ~unsigned) =>
          (r.ok <=> -(2^(w - 1)) <= x /\ x < 2^w)

(* The text of a float or double reads back as the same bits: zeros, subnormal
   values, infinities and every NaN (wasm_write_float_hex, wasm_parse_float). *)
HexRoundTrip ==
  job.run = "hex" => job.r.asserts /\ job.r.bits = job.on.bits

\* The digits as one number and the exponent of its last digit.
AllDigits(l) == FoldLeft(LAMBDA n, d : IF d = Dot THEN n ELSE n * 16 + d, 0, l.digits)
AfterDot(l) ==
  FoldLeft(LAMBDA n, d : IF d = Dot THEN 0 ELSE IF n = -1 THEN -1 ELSE n + 1, -1, l.digits)
LastExp(l) ==
  LET e == FoldLeft(LAMBDA n, d : n * 10 + d, 0, l.exp)
      dot == IF AfterDot(l) = -1 THEN 0 ELSE AfterDot(l)
  IN (IF l.exp_sign = "-" THEN -e ELSE e) - 4 * dot

Nearest(f, l) ==
  IF AllDigits(l) = 0 THEN 0 ELSE Rounded(f, AllDigits(l), LastExp(l))

\* The nearest value is the value itself.
Representable(f, l) ==
  LET k == UnitExp(f, Nearest(f, l)) - LastExp(l)
  IN /\ Nearest(f, l) < INF(f)
     /\ IF k >= 0 THEN k <= 20 /\ Units(f, Nearest(f, l)) * 2^k = AllDigits(l)
        ELSE -k <= 12 /\ Units(f, Nearest(f, l)) = AllDigits(l) * 2^(-k)

\* A value the format has is read as it is, any other as a float at most one from the nearest.
ReadAsFloat(f, l, r) ==
  /\ Representable(f, l) => r.asserts /\ Unsigned(f, r.bits) = Nearest(f, l)
  /\ Unsigned(f, r.bits) - Nearest(f, l) \in {-1, 0, 1}

\* a zero before the dot, with other digits before it and after the dot
ZeroBetween(l) ==
  \E i \in DOMAIN l.digits :
    /\ l.digits[i] = Dot /\ i > 1 /\ l.digits[i - 1] = 0
    /\ \E j \in 1 .. i - 1 : l.digits[j] # 0
    /\ \E j \in i + 1 .. Len(l.digits) : l.digits[j] # 0

(* An integer literal is refused outside the range of its type and has its value
   inside, except where an overflow goes unnoticed (wasm_parse_int32,
   wasm_parse_int64); a hexadecimal float is read as its value or, if the format
   does not have that, as a neighbour of the nearest, wherever the dot and the zeros
   are, unless zeros before the dot stand between other digits (parse_float_hex). *)
LiteralsExact ==
  /\ job.run = "literal" => ReadAsInt(job.on.w, job.on.l, job.on.unsigned, job.r)
  /\ job.run = "hexfloat" /\ ~ZeroBetween(job.on.l) => ReadAsFloat(job.on.f, job.on.l, job.r)

(* What is written as a variable-length integer is read back, by as many bytes,
   signed or unsigned, in the shortest or the fixed form (LEB128_LOOP_UNTIL of
   binary-writer.c, wasm_read_u32_leb128 and wasm_read_i32_leb128). *)
LebRoundTrip ==
  job.run = "leb" => job.r = [n |-> job.on.n, v |-> job.on.v]
================================================================================
