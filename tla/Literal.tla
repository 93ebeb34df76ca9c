--------------------------------- MODULE Literal -------------------------------
(* literal.c: integer and floating-point literals.  A literal is a record of its
   parts; digits are the values of the characters.  The functions for floats and
   for doubles are one text with other constants (the prefix F32_ or F64_), here
   one operator with a format.  Decimal floats are left to strtof and strtod. *)
EXTENDS Numeric, SequencesExt

HEX_DIGIT_BITS == 4

(* --------------------------------- integers -------------------------------- *)
NoParse == [ok |-> FALSE, v |-> 0]

\* Digits over the base overflow a word of Bits64 bits if the value gets smaller.
wasm_parse_uint64(hex, digits) ==
  LET base == IF hex THEN 16 ELSE 10
      Step(acc, d) ==
        LET value == Wrap(Bits64, acc.v * base + d)
        IN [ok |-> acc.ok /\ d < base /\ acc.v <= value, v |-> value]
  IN IF digits = <<>> THEN NoParse ELSE FoldLeft(Step, [ok |-> TRUE, v |-> 0], digits)

ParseInt(w, l, unsigned_only) ==
  LET u == wasm_parse_uint64(l.hex, l.digits)
  IN CASE l.sign # "" /\ unsigned_only -> NoParse
       [] ~u.ok -> NoParse
       [] l.sign = "-" -> IF u.v > 2^(w - 1) THEN NoParse ELSE [ok |-> TRUE, v |-> Wrap(w, -u.v)]
       [] OTHER -> IF u.v >= 2^w THEN NoParse ELSE u

wasm_parse_int32(l, unsigned_only) == ParseInt(Bits32, l, unsigned_only)
wasm_parse_int64(l, unsigned_only) == ParseInt(Bits64, l, unsigned_only)

(* ---------------------------------- floats --------------------------------- *)
\* an element of the digits of a hexadecimal float
Dot == -1

WordBits(f) == 1 + f.exp + f.sig
MAX_EXP(f) == 2^(f.exp - 1)
MIN_EXP(f) == -Bias(f)

\* The bits, and whether the assertions on the parts hold.
make_float(f, neg, exp, sig) ==
  [bits |-> Wrap(WordBits(f), WithSign(f, (exp + Bias(f)) * 2^f.sig + sig, neg)),
   asserts |-> exp \in MIN_EXP(f) .. MAX_EXP(f) /\ sig < 2^f.sig]

shift_float_and_round_to_nearest(sig, shift) ==
  (sig + (IF Bit(sig, shift) = 1 THEN 2^(shift - 1) ELSE 0)) \div 2^shift

ParseFailed == [bits |-> -1, asserts |-> TRUE]

parse_float_nan(f, l) ==
  LET Step(tag, d) == IF tag = -1 \/ tag * 16 + d >= 2^f.sig THEN -1 ELSE tag * 16 + d
      tag == IF l.tag = <<>> THEN QUIET_NAN_BIT(f) ELSE FoldLeft(Step, 0, l.tag)
  IN IF tag \in {-1, 0} THEN ParseFailed ELSE make_float(f, l.neg, MAX_EXP(f), tag)

(* The significand is collected up to the precision of the format and a digit
   more; zeros only count once a digit that is not zero follows. *)
SigDigit(f, s, d) ==
  LET shift == s.shift + HEX_DIGIT_BITS
  IN IF d # 0 /\ (s.sig = 0 \/ s.bits + shift <= f.sig + 1 + HEX_DIGIT_BITS)
     THEN [s EXCEPT !.sig = Wrap(WordBits(f), @ * 2^shift) + d,
                    !.exp = IF s.dot THEN @ - shift ELSE @,
                    !.shift = 0, !.bits = @ + HEX_DIGIT_BITS]
     ELSE [s EXCEPT !.shift = shift]

\* mutant: the zeros before the dot are not counted
SigDotForgets(s) == [s EXCEPT !.shift = 0, !.dot = TRUE]

SigDot(s) ==
  [s EXCEPT !.exp = IF s.sig # 0 THEN @ + s.shift ELSE @, !.shift = 0, !.dot = TRUE]

Significand(f, digits) ==
  LET s == FoldLeft(LAMBDA acc, d : IF d = Dot THEN SigDot(acc) ELSE SigDigit(f, acc, d),
                    [sig |-> 0, shift |-> 0, bits |-> 0, exp |-> 0, dot |-> FALSE], digits)
  IN IF s.dot THEN s ELSE [s EXCEPT !.exp = @ + s.shift]

\* The digits of the exponent are read until the value is an infinity or a zero.
LiteralExponent(f, l, sig_exp) ==
  LET add == CASE l.exp_sign = "-" -> -sig_exp [] l.exp_sign = "+" -> sig_exp [] OTHER -> 0
      Step(acc, d) == IF acc.stop THEN acc
                      ELSE [v |-> acc.v * 10 + d, stop |-> acc.v * 10 + d + add >= MAX_EXP(f)]
      e == FoldLeft(Step, [v |-> 0, stop |-> FALSE], l.exp)
  IN IF l.exp_sign = "-" THEN -e.v ELSE e.v

\* the significand with n bits, rounded when it has more
ToBits(sig, n) ==
  LET len == Length(sig)
  IN CASE len > n -> shift_float_and_round_to_nearest(sig, len - n)
       [] len < n -> sig * 2^(n - len)
       [] OTHER -> sig

MakeSubnormal(f, neg, exp, sig) ==
  LET shift == MIN_EXP(f) - exp
      top == ToBits(sig, f.sig)
      s == IF shift = 0 THEN top ELSE shift_float_and_round_to_nearest(top, shift) % 2^f.sig
  IN make_float(f, neg, MIN_EXP(f), IF shift < f.sig THEN s ELSE 0)

MakeNormal(f, neg, exp, sig) ==
  LET s == ToBits(sig, f.sig + 1)
  IN make_float(f, neg, IF s >= 2^(f.sig + 1) THEN exp + 1 ELSE exp, s % 2^f.sig)

FromParts(f, neg, sig, exp) ==
  CASE exp >= MAX_EXP(f) -> make_float(f, neg, MAX_EXP(f), 0)
    [] exp <= MIN_EXP(f) -> MakeSubnormal(f, neg, exp, sig)
    [] OTHER -> MakeNormal(f, neg, exp, sig)

parse_float_hex(f, l) ==
  LET s == Significand(f, l.digits)
  IN IF s.sig = 0 THEN make_float(f, l.neg, MIN_EXP(f), 0)
     ELSE FromParts(f, l.neg, s.sig,
                    LiteralExponent(f, l, s.exp) + s.exp + Length(s.sig) - 1)

wasm_parse_float(f, l) ==
  CASE l.type = "hexfloat" -> parse_float_hex(f, l)
    [] l.type = "infinity" -> make_float(f, l.neg, MAX_EXP(f), 0)
    [] l.type = "nan" -> parse_float_nan(f, l)

(* ----------------------------------- writing ------------------------------- *)
Decimal(n) == IF n >= 100 THEN <<n \div 100, (n \div 10) % 10, n % 10>>
              ELSE IF n >= 10 THEN <<n \div 10, n % 10>> ELSE <<n>>

\* the hex digits of a word of n nybbles, from the top
Nybbles(v, n) == [i \in 1 .. n |-> (v \div 16^(n - i)) % 16]
StripLeading(s) ==
  LET used == {i \in DOMAIN s : s[i] # 0}
  IN IF used = {} THEN <<>> ELSE SubSeq(s, CHOOSE i \in used : \A j \in used : i <= j, Len(s))
StripTrailing(s) ==
  LET used == {i \in DOMAIN s : s[i] # 0}
  IN IF used = {} THEN <<>> ELSE SubSeq(s, 1, CHOOSE i \in used : \A j \in used : i >= j)

NumNybbles(f) == WordBits(f) \div HEX_DIGIT_BITS

\* mutant: the implicit one of a subnormal value is kept
SubnormalKept(f, sig) == sig
Subnormal(f, sig) == Wrap(WordBits(f), sig * 2^(WordBits(f) - Length(sig) + 1))

wasm_write_float_hex(f, bits) ==
  LET neg == Negative(f, bits)
      exp == Exponent(f, bits) - Bias(f)
      sig == bits % 2^f.sig
      top == sig * 2^(WordBits(f) - f.sig)
      subnormal == exp = MIN_EXP(f) /\ sig # 0
      e == IF subnormal THEN exp - (WordBits(f) - Length(top)) ELSE exp
      digits == StripTrailing(Nybbles(IF subnormal THEN Subnormal(f, top) ELSE top, NumNybbles(f)))
      zero == sig = 0 /\ exp = MIN_EXP(f)
  IN CASE exp = MAX_EXP(f) /\ sig = 0 -> [type |-> "infinity", neg |-> neg]
       [] exp = MAX_EXP(f) /\ sig # 0 ->
            [type |-> "nan", neg |-> neg,
             tag |-> IF sig = QUIET_NAN_BIT(f) THEN <<>> ELSE StripLeading(Nybbles(sig, NumNybbles(f)))]
       [] zero -> [type |-> "hexfloat", neg |-> neg, digits |-> <<0>>, exp_sign |-> "+", exp |-> <<0>>]
       [] OTHER -> [type |-> "hexfloat", neg |-> neg,
                    digits |-> <<1>> \o (IF sig = 0 THEN <<>> ELSE <<Dot>> \o digits),
                    exp_sign |-> IF e < 0 THEN "-" ELSE "+", exp |-> Decimal(Magnitude(e))]
================================================================================
