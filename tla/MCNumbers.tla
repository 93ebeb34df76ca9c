-------------------------------- MODULE MCNumbers ------------------------------
(* Instances of Numbers: i32 is a nybble and i64 a byte; the floats have 8 and
   12 bits, so that the smaller holds more than i64 and the larger every i32; the
   formats of the literals have 12 and 8 bits, with a significand that does not
   and one that does end at a hex digit. *)
EXTENDS Numbers

MCF32 == [exp |-> 5, sig |-> 2]
MCF64 == [exp |-> 6, sig |-> 5]
MCFloat == [exp |-> 4, sig |-> 7]
MCDouble == [exp |-> 3, sig |-> 4]

MCSamples64 == {0, 1, 2, 3, 7, 8, 15, 100, 126, 127, 128, 129, 200, 253, 254, 255}
MCSamplesF64 ==
  {s * SIGN_MASK(F64) + e * 2^F64.sig + t :
     s \in 0 .. 1, e \in {0, 1, 31, 62, 63}, t \in {0, 1, 16, 31}}

Strings(chars, n) == UNION {[1 .. k -> chars] : k \in 0 .. n}

MCIntLiterals ==
  [sign : {"", "+", "-"}, hex : {FALSE}, digits : Strings({0, 1, 2, 5, 6, 8, 9}, 3)]
  \cup [sign : {"", "+", "-"}, hex : {TRUE}, digits : Strings({0, 1, 7, 8, 15}, 3)]

\* with a dot at one place or none
Dotted(s) == {s} \cup {SubSeq(s, 1, i) \o <<Dot>> \o SubSeq(s, i + 1, Len(s)) : i \in DOMAIN s}

MCHexLiterals ==
  [type : {"hexfloat"}, neg : {FALSE}, exp_sign : {"", "+", "-"}, exp : {<<0>>, <<3>>, <<7>>},
   digits : UNION {Dotted(s) : s \in Strings({0, 1, 8, 15}, 3) \ {<<>>}}]
================================================================================
