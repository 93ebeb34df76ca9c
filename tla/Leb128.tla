--------------------------------- MODULE Leb128 --------------------------------
(* The variable-length integers of the binary format, as binary-writer.c writes
   them and binary-reader.c reads them.  A byte is a natural number below 256;
   its high bit says that another byte follows.  The code puts 7 bits in a byte
   and reads words of 32 and 64 bits; GroupBits and the widths are parameters so
   that an instance can have values of several bytes in a small file, and so
   that every value of a word can be tried. *)
EXTENDS Integers, Sequences

CONSTANT GroupBits
ASSUME GroupBitsAssumption == GroupBits \in 1 .. 7

Group == 2^GroupBits
Cont == 128
MaxLebBytes(bits) == (bits + GroupBits - 1) \div GroupBits

Digit(v, i) == (v \div Group^(i - 1)) % Group

\* LEB128_LOOP_UNTIL with the number of rounds n its end condition gives
LebBytes(v, n) == [i \in 1 .. n |-> Digit(v, i) + (IF i < n THEN Cont ELSE 0)]

size_u32_leb128(v, bits) ==
  CHOOSE n \in 1 .. MaxLebBytes(bits) :
    v \div Group^n = 0 /\ (n = 1 \/ v \div Group^(n - 1) # 0)

wasm_write_u32_leb128(v, bits) == LebBytes(v, size_u32_leb128(v, bits))

\* every byte but the last has the high bit set, whatever the value
wasm_write_fixed_u32_leb128(v, bits) == LebBytes(v, MaxLebBytes(bits))

\* The last group must show the sign.
SignedEnd(v, n) ==
  IF v < 0 THEN v \div Group^n = -1 /\ Digit(v, n) >= Group \div 2
  ELSE v \div Group^n = 0 /\ Digit(v, n) < Group \div 2

wasm_write_i32_leb128(v, bits) ==
  LET ends == {n \in 1 .. MaxLebBytes(bits) : SignedEnd(v, n)}
  IN LebBytes(v, CHOOSE n \in ends : \A j \in ends : n <= j)

(* ---------------------------------- reading -------------------------------- *)
\* The number of bytes up to the first without the high bit, at offset off (from
\* 0) before end; 0 when there is none within the longest encoding.
LebLength(data, off, end, bits) ==
  LET last == {n \in 1 .. MaxLebBytes(bits) : off + n <= end /\ data[off + n] < Cont}
  IN IF last = {} THEN 0 ELSE CHOOSE n \in last : \A j \in last : n <= j

RawValue(data, off, n) ==
  LET sum[i \in 0 .. n] == IF i = 0 THEN 0
                           ELSE sum[i - 1] + (data[off + i] % Group) * Group^(i - 1)
  IN sum[n]

\* the bits of the word that the longest encoding leaves for its last byte
TopBits(bits) == bits - GroupBits * (MaxLebBytes(bits) - 1)

Failed == [n |-> 0, v |-> 0]

wasm_read_u32_leb128(data, off, end, bits) ==
  LET n == LebLength(data, off, end, bits)
  IN IF n = 0 \/ (n = MaxLebBytes(bits) /\ data[off + n] >= 2^TopBits(bits)) THEN Failed
     ELSE [n |-> n, v |-> RawValue(data, off, n)]

\* mutant: the sign bit is not extended
SignExtendNot(v, bits) == v

SignExtend(v, bits) == IF v >= 2^(bits - 1) THEN v - 2^bits ELSE v

(* In the last byte of the longest encoding the bits above the word must repeat
   the sign bit; a shorter one is extended from its own last bit. *)
wasm_read_i32_leb128(data, off, end, bits) ==
  LET n == LebLength(data, off, end, bits)
      top == data[off + n]
      sign == (top \div 2^(TopBits(bits) - 1)) % 2
      above == top \div 2^TopBits(bits)
  IN CASE n = 0 -> Failed
       [] n = MaxLebBytes(bits) ->
            IF above # sign * (2^(GroupBits - TopBits(bits)) - 1) THEN Failed
            ELSE [n |-> n, v |-> SignExtend(RawValue(data, off, n) % 2^bits, bits)]
       [] OTHER -> [n |-> n, v |-> SignExtend(RawValue(data, off, n), GroupBits * n)]
================================================================================
