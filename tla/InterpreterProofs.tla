------------------------- MODULE InterpreterProofs --------------------------
(***************************************************************************)
(* Proofs about Interpreter: the thread's stacks keep within their sizes,  *)
(* and, frame by frame, the value stack of a running thread has the types  *)
(* the compiler computed for the instruction at the pc, so that no run of  *)
(* a checked module reads below the stack, leaves the istream or fails the *)
(* assertion of copy_results.                                              *)
(***************************************************************************)
EXTENDS Interpreter, TypingProofs

-----------------------------------------------------------------------------
(* FlattenSeq, which is a recursive function.                              *)

\* A set of natural numbers has a smallest one.
LEMMA SmallestFacts ==
  ASSUME NEW S, S \subseteq Nat, S # {}
  PROVE  \E x \in S : \A y \in S : x <= y
<1> DEFINE R == {ss \in Nat \X Nat : ss[1] < ss[2]}
<1>1. IsWellFoundedOn(R, Nat)
  BY NatLessThanWellFounded DEF OpToRel
<1>2. \A x, y \in Nat : y < x => <<y, x>> \in R
  OBVIOUS
<1> HIDE DEF R
<1>3. PICK x \in S : \A y \in S : ~(<<y, x>> \in R)
  BY <1>1, WFMin
<1>4. ASSUME NEW y \in S PROVE x <= y
  <2>1. x \in Nat /\ y \in Nat
    OBVIOUS
  <2>2. ~(y < x)
    BY <1>2, <1>3, <2>1
  <2>3. QED
    BY <2>1, <2>2
<1>5. QED
  BY <1>4

\* g is the function flatten of FlattenSeq, for the first n sequences of s.
UnfoldAt(g, s, i) == IF i = 1 THEN s[i] ELSE g[i - 1] \o s[i]

Unfolds(g, s, n) == g = [i \in 1 .. n |-> UnfoldAt(g, s, i)]

\* Its elements, one by one.
LEMMA UnfoldsFacts ==
  ASSUME NEW g, NEW s, NEW n, Unfolds(g, s, n), NEW i \in 1 .. n
  PROVE  g[i] = UnfoldAt(g, s, i)
BY DEF Unfolds

\* There is only one such function.
LEMMA UnfoldsUnique ==
  ASSUME NEW g, NEW h, NEW s, NEW m \in Nat, NEW n \in Nat, m <= n,
         Unfolds(g, s, m), NEW t, Unfolds(h, t, n),
         \A i \in 1 .. m : s[i] = t[i]
  PROVE  \A i \in 1 .. m : g[i] = h[i]
<1> DEFINE Bad == {i \in 1 .. m : g[i] # h[i]}
<1>1. SUFFICES ASSUME Bad # {} PROVE FALSE
  OBVIOUS
<1>2. Bad \subseteq Nat /\ Bad \subseteq 1 .. m /\ \A i \in 1 .. m : i \notin Bad => g[i] = h[i]
  OBVIOUS
<1>3. \A i \in Bad : g[i] # h[i]
  OBVIOUS
<1> HIDE DEF Bad
<1>4. PICK i \in Bad : \A j \in Bad : i <= j
  BY <1>1, <1>2, SmallestFacts
<1>5. i \in 1 .. m /\ i \in 1 .. n
  BY <1>2, <1>4
<1>6. g[i] = UnfoldAt(g, s, i)
  BY <1>5, UnfoldsFacts
<1>7. h[i] = UnfoldAt(h, t, i)
  BY <1>5, UnfoldsFacts
<1>8. i # 1 => g[i - 1] = h[i - 1]
  <2>1. i # 1 => i - 1 \in 1 .. m /\ ~(i <= i - 1)
    BY <1>5
  <2>2. QED
    BY <1>2, <1>4, <2>1
<1>9. g[i] = h[i]
  BY <1>5, <1>6, <1>7, <1>8 DEF UnfoldAt
<1>10. QED
  BY <1>3, <1>9

\* What one more sequence adds to it.
Agree(s, t, n) == \A i \in 1 .. n : s[i] = t[i]

Grown(s, t, n, g, h) ==
  /\ n \in Nat /\ n # 0 /\ Agree(s, t, n)
  /\ Unfolds(g, s, n) /\ Unfolds(h, t, n + 1)

Joined(h, g, t, n) == h[n + 1] = g[n] \o t[n + 1]

\* Unfolding one more list puts it before what unfolds from the rest.
LEMMA UnfoldsExtends ==
  ASSUME NEW s, NEW t, NEW n, NEW g, NEW h, Grown(s, t, n, g, h)
  PROVE  Joined(h, g, t, n)
<1>0. n \in Nat /\ n # 0 /\ Unfolds(g, s, n) /\ Unfolds(h, t, n + 1)
      /\ Agree(s, t, n)
  BY DEF Grown
<1>1. PICK m \in Nat : m = n + 1
  BY <1>0
<1>2. n <= m /\ m \in 1 .. m /\ n \in 1 .. n /\ m # 1 /\ m - 1 = n
  BY <1>0, <1>1
<1>3. Unfolds(h, t, m) /\ \A i \in 1 .. n : s[i] = t[i]
  BY <1>0, <1>1 DEF Agree
<1>4. \A i \in 1 .. n : g[i] = h[i]
  BY <1>0, <1>2, <1>3, UnfoldsUnique
<1>5. h[m] = UnfoldAt(h, t, m)
  BY <1>2, <1>3, UnfoldsFacts
<1>6. h[m] = h[n] \o t[m]
  BY <1>2, <1>5 DEF UnfoldAt
<1>7. QED
  BY <1>1, <1>2, <1>4, <1>6 DEF Joined

\* And there is one.
LEMMA UnfoldsExists ==
  ASSUME NEW S, NEW s \in Seq(Seq(S)), NEW n \in 1 .. Len(s)
  PROVE  \E g \in [1 .. n -> Seq(S)] : Unfolds(g, s, n)
<1> DEFINE Good(k) == \E g \in [1 .. k -> Seq(S)] : Unfolds(g, s, k)
           Bad == {k \in 1 .. Len(s) : ~Good(k)}
<1>1. SUFFICES ASSUME Bad # {} PROVE FALSE
  OBVIOUS
<1>2. Bad \subseteq Nat /\ Bad \subseteq 1 .. Len(s)
      /\ \A k \in 1 .. Len(s) : k \notin Bad => Good(k)
  OBVIOUS
<1>3. \A k \in Bad : ~Good(k)
  OBVIOUS
<1> HIDE DEF Bad
<1>4. PICK k \in Bad : \A j \in Bad : k <= j
  BY <1>1, <1>2, SmallestFacts
<1>5. k \in 1 .. Len(s) /\ s[k] \in Seq(S)
  BY <1>2, <1>4
<1>6. CASE k = 1
  <2> DEFINE g == [i \in 1 .. 1 |-> s[1]]
  <2>1. g \in [1 .. 1 -> Seq(S)]
    BY <1>5, <1>6
  <2>2. Unfolds(g, s, 1)
    BY DEF Unfolds, UnfoldAt
  <2>3. QED
    BY <1>3, <1>4, <1>6, <2>1, <2>2
<1>7. CASE k # 1
  <2>1. k - 1 \in 1 .. Len(s) /\ ~(k <= k - 1) /\ k \in Nat
    BY <1>5, <1>7
  <2>2. Good(k - 1)
    BY <1>2, <1>4, <2>1
  <2>3. PICK g \in [1 .. k - 1 -> Seq(S)] : Unfolds(g, s, k - 1)
    BY <2>2
  <2>4. \A i \in 1 .. k - 1 : g[i] = UnfoldAt(g, s, i)
    BY <2>3, UnfoldsFacts
  <2>5. PICK x : x = g[k - 1] \o s[k]
    OBVIOUS
  <2>6. x \in Seq(S)
    <3>1. g[k - 1] \in Seq(S) /\ s[k] \in Seq(S)
      BY <1>5, <2>1, <2>3
    <3>2. QED
      BY <2>5, <3>1, ConcatFacts
  <2> DEFINE h == [i \in 1 .. k |-> IF i = k THEN x ELSE g[i]]
  <2>7. /\ h[k] = x /\ \A i \in 1 .. k - 1 : h[i] = g[i]
        /\ DOMAIN h = 1 .. k /\ h = [i \in 1 .. k |-> h[i]]
    BY <2>1
  <2>8. h \in [1 .. k -> Seq(S)]
    <3>1. \A i \in 1 .. k : i # k => i \in 1 .. k - 1
      BY <2>1
    <3>2. QED
      BY <2>3, <2>6, <3>1
  <2> HIDE DEF h
  <2>9. \A i \in 1 .. k : h[i] = UnfoldAt(h, s, i)
    <3>1. SUFFICES ASSUME NEW i \in 1 .. k
                   PROVE  h[i] = UnfoldAt(h, s, i)
      OBVIOUS
    <3>2. CASE i = k
      <4>0. k - 1 \in 1 .. k - 1
        BY <2>1
      <4>1. h[k - 1] = g[k - 1] /\ i # 1
        BY <1>7, <2>7, <3>2, <4>0
      <4>2. QED
        BY <2>5, <2>7, <3>2, <4>1 DEF UnfoldAt
    <3>3. CASE i # k
      <4>1. i \in 1 .. k - 1 /\ (i # 1 => i - 1 \in 1 .. k - 1)
        BY <2>1, <3>3
      <4>2. h[i] = g[i] /\ (i # 1 => h[i - 1] = g[i - 1])
        BY <2>7, <4>1
      <4>3. g[i] = UnfoldAt(g, s, i)
        BY <2>4, <4>1
      <4>4. QED
        BY <4>2, <4>3 DEF UnfoldAt
    <3>4. QED
      BY <3>2, <3>3
  <2>10. Unfolds(h, s, k)
    BY <2>7, <2>9 DEF Unfolds
  <2>11. QED
    BY <1>3, <1>4, <2>8, <2>10
<1>8. QED
  BY <1>6, <1>7

\* FlattenSeq is its last value.
LEMMA FlattenUnfolds ==
  ASSUME NEW S, NEW s \in Seq(Seq(S)), Len(s) # 0
  PROVE  \E g \in [1 .. Len(s) -> Seq(S)] :
           Unfolds(g, s, Len(s)) /\ FlattenSeq(s) = g[Len(s)]
<1>1. Len(s) \in 1 .. Len(s) /\ Len(s) \in Nat
  OBVIOUS
<1>2. PICK h \in [1 .. Len(s) -> Seq(S)] : Unfolds(h, s, Len(s))
  BY <1>1, UnfoldsExists
<1>3. PICK n \in Nat : n = Len(s)
  BY <1>1
<1>4. PICK g : g = CHOOSE f : Unfolds(f, s, n)
  OBVIOUS
<1>5. Unfolds(g, s, n)
  BY <1>2, <1>3, <1>4
<1>6. FlattenSeq(s) = g[n]
  <2>1. FlattenSeq(s) = (CHOOSE f : Unfolds(f, s, Len(s)))[Len(s)]
    BY Zenon DEF FlattenSeq, Unfolds, UnfoldAt
  <2>2. QED
    BY <1>3, <1>4, <2>1
<1>7. \A i \in 1 .. n : g[i] = h[i]
  <2>1. n <= n /\ \A i \in 1 .. n : s[i] = s[i]
    OBVIOUS
  <2>2. Unfolds(h, s, n)
    BY <1>2, <1>3
  <2>3. QED
    BY <1>5, <2>1, <2>2, UnfoldsUnique
<1>8. QED
  BY <1>1, <1>2, <1>3, <1>6, <1>7

\* The empty sequence.
LEMMA EmptySeq ==
  ASSUME NEW S, NEW s \in Seq(S), Len(s) = 0
  PROVE  s = <<>>
OBVIOUS

\* Flattening no lists gives no elements.
LEMMA FlattenEmpty ==
  ASSUME NEW s, Len(s) = 0
  PROVE  FlattenSeq(s) = s
BY DEF FlattenSeq

\* Flattening keeps the type of the elements.
LEMMA FlattenTyped ==
  ASSUME NEW S, NEW s \in Seq(Seq(S))
  PROVE  FlattenSeq(s) \in Seq(S)
<1>1. CASE Len(s) = 0
  <2>1. s = <<>>
    BY <1>1
  <2>2. FlattenSeq(s) = s
    BY <1>1, FlattenEmpty, Zenon
  <2>3. <<>> \in Seq(S)
    OBVIOUS
  <2>4. QED
    BY <2>1, <2>2, <2>3, Zenon
<1>2. CASE Len(s) # 0
  <2>1. PICK g \in [1 .. Len(s) -> Seq(S)] : FlattenSeq(s) = g[Len(s)]
    BY <1>2, FlattenUnfolds
  <2>2. Len(s) \in 1 .. Len(s)
    BY <1>2
  <2>3. QED
    BY <2>1, <2>2
<1>3. QED
  BY <1>1, <1>2

\* One more sequence is put behind the others.
LEMMA FlattenAppend ==
  ASSUME NEW S, NEW s \in Seq(Seq(S)), NEW t \in Seq(Seq(S)), NEW x \in Seq(S),
         Len(t) = Len(s) + 1, t[Len(t)] = x, \A i \in 1 .. Len(s) : t[i] = s[i]
  PROVE  FlattenSeq(t) = FlattenSeq(s) \o x
<1>1. PICK n \in Nat : n = Len(s)
  OBVIOUS
<1>2. Len(t) = n + 1 /\ Len(t) # 0 /\ n + 1 \in Nat /\ n + 1 \in 1 .. n + 1
  BY <1>1
<1>3. PICK h : Unfolds(h, t, n + 1) /\ FlattenSeq(t) = h[n + 1]
  BY <1>2, FlattenUnfolds
<1>4. h[n + 1] = UnfoldAt(h, t, n + 1)
  BY <1>2, <1>3, UnfoldsFacts
<1>5. CASE n = 0
  <2>0. s = <<>> /\ Len(s) = 0
    <3>1. Len(s) = 0
      BY <1>1, <1>5
    <3>2. QED
      BY <3>1, EmptySeq
  <2>1. s = <<>> /\ FlattenSeq(s) = s
    BY <2>0, FlattenEmpty, Zenon
  <2>2. FlattenSeq(t) = x
    <3>1. UnfoldAt(h, t, 1) = t[1] /\ n + 1 = 1
      BY <1>5 DEF UnfoldAt
    <3>2. QED
      BY <1>2, <1>3, <1>4, <3>1
  <2>3. QED
    BY <2>1, <2>2
<1>6. CASE n # 0
  <2>1. PICK g : Unfolds(g, s, n) /\ FlattenSeq(s) = g[n]
    BY <1>1, <1>6, FlattenUnfolds
  <2>2. Agree(s, t, n)
    BY <1>1 DEF Agree
  <2>3. Grown(s, t, n, g, h)
    BY <1>3, <1>6, <2>1, <2>2 DEF Grown
  <2>4. Joined(h, g, t, n)
    BY <2>3, UnfoldsExtends
  <2>5. t[n + 1] = x
    BY <1>2
  <2>6. QED
    BY <1>3, <2>1, <2>4, <2>5 DEF Joined
<1>7. QED
  BY <1>5, <1>6

-----------------------------------------------------------------------------
(* What the instructions look up.                                          *)

Values == Types \cup {"zero"}

\* The names in the table of opcodes.
LEMMA OpcodeNames ==
  \A op \in Opcodes :
    op \in {"i32_add", "i32_div_s", "i32_wrap_i64", "i64_eqz", "i32_load",
            "i64_store", "grow_memory", "current_memory"}
BY CompilerAssumption DEF OpcodeTable

\* What an opcode pushes is as long as its result, and what it can trap with is
\* a result of the interpreter.
LEMMA OpcodeFacts ==
  ASSUME NEW op \in Opcodes
  PROVE  /\ OpcodeTable[op].params \in Seq(Types)
         /\ OpcodeTable[op].result \in Sigs
         /\ OpcodeTable[op].push \in Sigs
         /\ Len(OpcodeTable[op].push) = Len(OpcodeTable[op].result)
         /\ OpcodeTable[op].traps \subseteq Traps
<1>1. /\ OpcodeTable[op].params \in Seq(Types) /\ OpcodeTable[op].result \in Sigs
  BY CompilerAssumption
<1>2. CASE op = "i64_eqz"
  <2>1. /\ OpcodeTable[op].params = <<"i64">> /\ OpcodeTable[op].push = <<"i64">>
        /\ OpcodeTable[op].result = <<"i32">> /\ OpcodeTable[op].traps = {}
    BY <1>2 DEF OpcodeTable
  <2>2. "i64" \in Types
    BY <1>1, <2>1
  <2>3. <<"i64">> \in Sigs
    BY <2>2 DEF Sigs
  <2>4. QED
    BY <1>1, <2>1, <2>3
<1>3. CASE op # "i64_eqz"
  <2>1. op \in {"i32_add", "i32_div_s", "i32_wrap_i64", "i32_load",
                "i64_store", "grow_memory", "current_memory"}
    BY <1>3, OpcodeNames
  <2>2. OpcodeTable[op].push = OpcodeTable[op].result
    BY <2>1 DEF OpcodeTable
  <2>3. OpcodeTable[op].traps \subseteq Traps
    BY <2>1 DEF OpcodeTable, Traps
  <2>4. QED
    BY <1>1, <2>2, <2>3
<1>4. QED
  BY <1>2, <1>3

\* How deep the instructions reach.
LEMMA OperandFacts ==
  ASSUME NEW c
  PROVE  /\ c.op \in {"br_unless", "br_table", "drop", "set_global",
                      "call_indirect"} => Operands(c) = 1
         /\ c.op = "select" => Operands(c) = 3
         /\ c.op \in {"get_local", "tee_local"} => Operands(c) = c.a
         /\ c.op = "set_local" => Operands(c) = c.a + 1
         /\ c.op = "drop_keep" => Operands(c) = c.a + c.b
         /\ c.op = "call_host" => Operands(c) = Len(Funcs[c.a].params)
         /\ c.op \in Opcodes => Operands(c) = Len(OpcodeTable[c.op].params)
<1>1. DOMAIN OpcodeTable = {"i32_add", "i32_div_s", "i32_wrap_i64", "i64_eqz",
                            "i32_load", "i64_store", "grow_memory",
                            "current_memory"}
  BY DEF OpcodeTable
<1>2. c.op \in {"br_unless", "br_table", "drop", "set_global",
                "call_indirect"} => Operands(c) = 1
  BY <1>1 DEF Operands
<1>3. c.op = "select" => Operands(c) = 3
  BY <1>1 DEF Operands
<1>4. c.op \in {"get_local", "tee_local"} => Operands(c) = c.a
  BY <1>1 DEF Operands
<1>5. c.op = "set_local" => Operands(c) = c.a + 1
  BY <1>1 DEF Operands
<1>6. c.op = "drop_keep" => Operands(c) = c.a + c.b
  BY <1>1 DEF Operands
<1>7. c.op = "call_host" => Operands(c) = Len(Funcs[c.a].params)
  BY <1>1 DEF Operands
<1>8. c.op \in Opcodes => Operands(c) = Len(OpcodeTable[c.op].params)
  <2>1. c.op \in Opcodes => c.op \in DOMAIN OpcodeTable
    BY CompilerAssumption
  <2>2. QED
    BY <1>1, <2>1 DEF Operands
<1>9. QED
  BY <1>2, <1>3, <1>4, <1>5, <1>6, <1>7, <1>8

\* What is left when values are popped, also below the bottom.
LEMMA BelowFacts ==
  ASSUME NEW S, NEW s \in Seq(S), NEW n \in Nat
  PROVE  /\ Truncate(s, Len(s) - n) \in Seq(S)
         /\ Len(Truncate(s, Len(s) - n)) <= Len(s)
<1>0. Len(s) - n \in Int /\ Len(s) - n <= Len(s)
  OBVIOUS
<1>1. PICK k \in Int : k = Len(s) - n /\ k <= Len(s)
  BY <1>0
<1>2. Truncate(s, k) \in Seq(S) /\ Len(Truncate(s, k)) <= Len(s)
  BY <1>1 DEF Truncate
<1>3. QED
  BY <1>1, <1>2

\* Types are values.
LEMMA TypesAreValues ==
  ASSUME NEW ts \in Seq(Types)
  PROVE  ts \in Seq(Values)
BY DEF Values

\* What wasm_call_host leaves.
LEMMA HostFacts ==
  ASSUME NEW stack \in Seq(Values), Len(stack) <= ValueStackSize,
         NEW f \in DOMAIN Funcs, NEW out \in wasm_call_host(stack, Funcs[f])
  PROVE  /\ out.stack \in Seq(Values) /\ Len(out.stack) <= ValueStackSize
         /\ out.result \in Traps \cup {"ok"}
         /\ out.result = "ok" =>
              out.stack = Truncate(stack, Len(stack) - Len(Funcs[f].params))
                            \o Funcs[f].results
<1>1. PICK rest, res : /\ rest = Truncate(stack, Len(stack) - Len(Funcs[f].params))
                       /\ res = Funcs[f].results
  OBVIOUS
<1>2. \/ out \in [stack : {rest}, result : Traps]
      \/ /\ res = <<>> /\ out = [stack |-> rest, result |-> "ok"]
      \/ /\ ~(Len(rest) >= ValueStackSize)
         /\ out = [stack |-> rest \o res, result |-> "ok"]
  <2>1. \/ out = [stack |-> rest, result |-> "host_trapped"]
        \/ out = [stack |-> rest, result |-> "host_result_type_mismatch"]
        \/ out = [stack |-> rest, result |-> "value_stack_exhausted"]
        \/ /\ res = <<>> /\ out = [stack |-> rest, result |-> "ok"]
        \/ /\ ~(Len(rest) >= ValueStackSize)
           /\ out = [stack |-> rest \o res, result |-> "ok"]
    BY <1>1 DEF wasm_call_host
  <2>2. QED
    BY <2>1 DEF Traps
<1>3. Funcs[f].params \in Seq(Types) /\ Funcs[f].results \in Sigs
  BY FuncFacts
<1>4. rest \in Seq(Values) /\ Len(rest) <= ValueStackSize /\ Len(rest) \in Nat
  <2>1. PICK n \in Nat : n = Len(Funcs[f].params)
    BY <1>3
  <2>2. /\ Truncate(stack, Len(stack) - n) \in Seq(Values)
        /\ Len(Truncate(stack, Len(stack) - n)) <= Len(stack)
    BY BelowFacts
  <2>3. QED
    BY <1>1, <2>1, <2>2, InterpreterAssumption
<1>5. res \in Seq(Values) /\ Len(res) \in 0 .. 1
  <2>1. res \in Seq(Types) /\ Len(res) \in 0 .. 1
    BY <1>1, <1>3, SigFacts
  <2>2. QED
    BY <2>1, TypesAreValues
<1>6. rest \o res \in Seq(Values) /\ Len(rest \o res) = Len(rest) + Len(res)
  BY <1>4, <1>5, ConcatFacts
<1>7. CASE out \in [stack : {rest}, result : Traps]
  <2>1. "ok" \notin Traps
    BY DEF Traps
  <2>2. QED
    BY <1>4, <1>7, <2>1
<1>8. CASE res = <<>> /\ out = [stack |-> rest, result |-> "ok"]
  <2>1. rest \o res = rest
    BY <1>4, <1>8
  <2>2. out.stack = rest /\ out.result = "ok"
    BY <1>8
  <2>3. QED
    BY <1>1, <1>4, <2>1, <2>2
<1>9. CASE /\ ~(Len(rest) >= ValueStackSize)
           /\ out = [stack |-> rest \o res, result |-> "ok"]
  <2>1. PICK all : all = rest \o res
    OBVIOUS
  <2>2. out.stack = all /\ out.result = "ok"
    BY <1>9, <2>1, Zenon
  <2>3. Len(all) <= ValueStackSize
    <3>1. PICK n, m \in Nat : n = Len(rest) /\ m = Len(res)
      BY <1>4, <1>5
    <3>2. ~(n >= ValueStackSize) /\ m \in 0 .. 1
      BY <1>5, <1>9, <3>1
    <3>3. Len(all) = n + m
      BY <1>6, <2>1, <3>1
    <3>4. QED
      BY <3>2, <3>3, InterpreterAssumption
  <2>4. QED
    BY <1>1, <1>6, <2>1, <2>2, <2>3, Zenon
<1>10. QED
  BY <1>2, <1>7, <1>8, <1>9

\* Arguments that push_args accepts are those of the signature.
LEMMA PushArgs ==
  ASSUME NEW f \in DOMAIN Funcs, NEW args \in ArgLists
  PROVE  /\ push_args(Funcs[f], args) \in Traps \cup {"ok"}
         /\ push_args(Funcs[f], args) = "ok" =>
              args = Funcs[f].params /\ Len(args) <= ValueStackSize
<1>1. /\ Funcs[f].params \in Seq(Types) /\ args \in Seq(Types)
  BY FuncFacts, InterpreterAssumption
<1>2. PICK params : params = Funcs[f].params
  OBVIOUS
<1>3. push_args(Funcs[f], args) \in {"argument_type_mismatch",
                                     "value_stack_exhausted", "ok"}
  BY DEF push_args
<1>4. ASSUME push_args(Funcs[f], args) = "ok"
      PROVE  args = Funcs[f].params /\ Len(args) <= ValueStackSize
  <2>1. /\ Len(args) = Len(params)
        /\ \A i \in DOMAIN args : params[i] = args[i] /\ ~(i > ValueStackSize)
    BY <1>2, <1>4 DEF push_args
  <2>2. args = params
    BY <1>1, <1>2, <2>1, SeqEqual
  <2>3. Len(args) <= ValueStackSize
    <3>1. PICK n \in Nat : n = Len(args) /\ DOMAIN args = 1 .. n
      BY <1>1
    <3>2. n = 0 \/ n \in 1 .. n
      BY <3>1
    <3>3. QED
      BY <2>1, <3>1, <3>2, InterpreterAssumption
  <2>4. QED
    BY <1>2, <2>2, <2>3
<1>5. QED
  BY <1>3, <1>4 DEF Traps

-----------------------------------------------------------------------------
(* The sizes of the stacks.                                                *)

\* The thread between two instructions, whatever module it runs.
ThreadOK ==
  /\ pc \in Nat
  /\ value_stack \in Seq(Values)
  /\ Len(value_stack) <= ValueStackSize
  /\ call_stack \in Seq(Nat)
  /\ Len(call_stack) <= CallStackSize
  /\ mode \in {"idle", "running", "undefined", "assert_copy_results"}
  /\ run_func \in 0 .. Len(Funcs)
  /\ result \in Traps \cup {"ok"}
  /\ results \in Seq(Values)
  /\ mode = "running" => status = "loaded" /\ run_func # 0
  /\ mode # "running" => call_stack = <<>>

\* The compiler's state, which a thread only marks as used unchecked.
CodeKept ==
  /\ UNCHANGED <<istream, type_stack, label_stack, depth_fixups, func_offset,
                 func_fixups, current_func, next_func, decls_left,
                 local_count, param_and_local_types, status, typing>>
  /\ unchecked \subseteq unchecked'
  /\ unchecked' \subseteq unchecked \cup {"host"}

\* A step that leaves the compiler alone keeps the code.
LEMMA UnchangedKept ==
  ASSUME UNCHANGED compilerVars
  PROVE  CodeKept
BY DEF compilerVars, CodeKept

CInv == IInv /\ FInv /\ WInv /\ TInv

\* That keeps the invariants of the compiler.
LEMMA KeptCInv ==
  ASSUME CInv, CodeKept
  PROVE  CInv'
<1>1. UNCHANGED <<istream, type_stack, label_stack, depth_fixups, func_offset,
                  func_fixups, current_func, next_func, decls_left,
                  local_count, param_and_local_types, status, typing>>
  BY DEF CodeKept
<1>2. IInv'
  BY <1>1 DEF CInv, IInv, StackTypes, Typed, Above, LabelsOrdered, FunctionLimit,
                FunctionLabel
<1>3. FInv'
  BY <1>1 DEF CInv, FInv, InnerLabels, BodiesRead
<1>4. WInv'
  <2>1. /\ unchecked' \subseteq Conditions
        /\ "bodies" \notin unchecked' => "bodies" \notin unchecked
    BY DEF CodeKept, CInv, WInv, Conditions
  <2>2. WInv
    BY DEF CInv
  <2>3. QED
    BY <1>1, <2>1, <2>2 DEF WInv, CellOK, LocalsBelow, CurrentLast
<1>5. TInv'
  <2>1. TInv /\ unchecked \subseteq unchecked' \cup {"host"}
    BY DEF CInv, CodeKept
  <2>2. QED
    BY <1>1, <2>1, SameTyped
<1>6. QED
  BY <1>2, <1>3, <1>4, <1>5 DEF CInv

\* The end of a run.
LEMMA EndRunOK ==
  ASSUME ThreadOK, NEW iresult \in Traps \cup {"ok"}, NEW copied \in Seq(Values),
         EndRun(iresult, copied), run_func' \in 0 .. Len(Funcs)
  PROVE  ThreadOK'
BY InterpreterAssumption DEF ThreadOK, EndRun, INVALID

\* Stopping in an undefined access or an assertion keeps the thread well
\* formed.
LEMMA AbortOK ==
  ASSUME ThreadOK, NEW how \in {"undefined", "assert_copy_results"}, Abort(how),
         run_func' \in 0 .. Len(Funcs)
  PROVE  ThreadOK'
BY InterpreterAssumption DEF ThreadOK, Abort, INVALID

\* So does a trap, which keeps the code too.
LEMMA TrapOK ==
  ASSUME ThreadOK, NEW type \in Traps, TRAP(type)
  PROVE  ThreadOK' /\ CodeKept
<1>1. EndRun(type, results) /\ run_func' = run_func /\ UNCHANGED compilerVars
  BY DEF TRAP
<1>2. run_func' \in 0 .. Len(Funcs) /\ results \in Seq(Values)
      /\ type \in Traps \cup {"ok"}
  BY <1>1 DEF ThreadOK
<1>3. QED
  BY <1>1, <1>2, EndRunOK, UnchangedKept

\* The next instruction of the same frame.
Moves(stack, offset) ==
  /\ mode = "running" /\ value_stack' = stack /\ pc' = offset
  /\ UNCHANGED <<call_stack, mode, run_func, result, results>>
  /\ CodeKept

\* Continue moves the thread to another offset of the same call.
LEMMA ContinueMoves ==
  ASSUME mode = "running", NEW stack, NEW offset, Continue(stack, offset)
  PROVE  Moves(stack, offset)
BY UnchangedKept DEF Continue, Moves

\* Such a move keeps the thread well formed.
LEMMA MovesOK ==
  ASSUME ThreadOK, NEW stack \in Seq(Values), Len(stack) <= ValueStackSize,
         NEW offset \in Nat, Moves(stack, offset)
  PROVE  ThreadOK'
BY DEF ThreadOK, Moves, CodeKept

\* PUSH of one value or none.
LEMMA PushOK ==
  ASSUME ThreadOK, mode = "running", NEW stack \in Seq(Values),
         Len(stack) <= ValueStackSize, NEW types \in Seq(Values),
         Len(types) \in 0 .. 1, PushAndContinue(stack, types)
  PROVE  ThreadOK' /\ CodeKept
<1>1. CASE types = <<>> \/ CHECK_STACK(stack)
  <2>1. PICK all : all = stack \o types
    OBVIOUS
  <2>2. all \in Seq(Values) /\ Len(all) = Len(stack) + Len(types)
    BY <2>1, ConcatFacts
  <2>3. Continue(all, pc + 1)
    BY <1>1, <2>1 DEF PushAndContinue
  <2>4. Len(all) <= ValueStackSize
    <3>1. Len(stack) < ValueStackSize \/ Len(types) = 0
      BY <1>1 DEF CHECK_STACK
    <3>2. PICK n, m \in Nat : n = Len(stack) /\ m = Len(types)
      OBVIOUS
    <3>3. Len(all) = n + m /\ (n < ValueStackSize \/ m = 0) /\ m \in 0 .. 1
          /\ n <= ValueStackSize
      BY <2>2, <3>1, <3>2
    <3>4. QED
      BY <3>3, InterpreterAssumption
  <2>5. pc + 1 \in Nat
    BY DEF ThreadOK
  <2>6. Moves(all, pc + 1)
    BY <2>3, ContinueMoves
  <2>7. CodeKept
    BY <2>6 DEF Moves
  <2>8. QED
    BY <2>2, <2>4, <2>5, <2>6, <2>7, MovesOK
<1>2. CASE ~(types = <<>> \/ CHECK_STACK(stack))
  <2>1. TRAP("value_stack_exhausted")
    BY <1>2 DEF PushAndContinue
  <2>2. "value_stack_exhausted" \in Traps
    BY DEF Traps
  <2>3. QED
    BY <2>1, <2>2, TrapOK
<1>3. QED
  BY <1>1, <1>2

\* PUSH_CALL.
LEMMA EnterOK ==
  ASSUME ThreadOK, mode = "running", NEW stack \in Seq(Values),
         Len(stack) <= ValueStackSize, NEW offset \in Nat, Enter(stack, offset)
  PROVE  ThreadOK' /\ CodeKept
<1>1. CASE Len(call_stack) >= CallStackSize
  <2>1. TRAP("call_stack_exhausted") /\ "call_stack_exhausted" \in Traps
    BY <1>1 DEF Enter, Traps
  <2>2. QED
    BY <2>1, TrapOK
<1>2. CASE ~(Len(call_stack) >= CallStackSize)
  <2>1. /\ call_stack' = Append(call_stack, pc + 1) /\ pc' = offset
        /\ value_stack' = stack
        /\ UNCHANGED <<mode, run_func, result, results>> /\ UNCHANGED compilerVars
    BY <1>2 DEF Enter
  <2>2. call_stack \in Seq(Nat) /\ pc + 1 \in Nat
    BY DEF ThreadOK
  <2>3. /\ Append(call_stack, pc + 1) \in Seq(Nat)
        /\ Len(Append(call_stack, pc + 1)) = Len(call_stack) + 1
    BY <2>2
  <2>4. Len(call_stack') <= CallStackSize
    BY <1>2, <2>1, <2>2, <2>3, InterpreterAssumption
  <2>5. CodeKept
    BY <2>1, UnchangedKept
  <2>6. status' = status
    BY <2>5 DEF CodeKept
  <2>7. QED
    BY <2>1, <2>3, <2>4, <2>5, <2>6 DEF ThreadOK
<1>3. QED
  BY <1>1, <1>2

\* A host call keeps the thread well formed and the code as it is.
LEMMA CallHostOK ==
  ASSUME ThreadOK, mode = "running", NEW stack \in Seq(Values),
         Len(stack) <= ValueStackSize, NEW f \in DOMAIN Funcs,
         CallHostAndContinue(stack, Funcs[f])
  PROVE  ThreadOK' /\ CodeKept
<1>1. PICK out \in wasm_call_host(stack, Funcs[f]) :
        /\ value_stack' = out.stack /\ pc' = pc + 1
        /\ unchecked' = unchecked \cup (IF out.result = "ok" THEN {} ELSE {"host"})
        /\ UNCHANGED <<call_stack, mode, run_func, result, results, istream,
                       type_stack, label_stack, depth_fixups, func_offset,
                       func_fixups, current_func, next_func, decls_left,
                       local_count, param_and_local_types, status, typing>>
  BY DEF CallHostAndContinue
<1>2. out.stack \in Seq(Values) /\ Len(out.stack) <= ValueStackSize
  BY HostFacts
<1>3. CodeKept
  BY <1>1 DEF CodeKept
<1>4. Moves(out.stack, pc + 1)
  BY <1>1, <1>3 DEF Moves
<1>5. pc + 1 \in Nat
  BY DEF ThreadOK
<1>6. QED
  BY <1>2, <1>3, <1>4, <1>5, MovesOK

\* The cell at the pc.
LEMMA AtFacts ==
  ASSUME CInv, ThreadOK, NEW ops, AtOp(ops)
  PROVE  /\ mode = "running" /\ cell \in Cells /\ cell.op \in ops
         /\ pc \in 1 .. Len(istream) /\ CellOK(istream, pc)
         /\ pc \in Nat /\ pc + 1 \in Nat
         /\ cell.a \in Nat /\ cell.b \in Nat /\ cell.target \in Nat
         /\ value_stack \in Seq(Values) /\ Len(value_stack) <= ValueStackSize
         /\ Len(value_stack) \in Nat
<1>1. istream \in Seq(Cells) /\ pc \in DOMAIN istream
  BY DEF CInv, FInv, AtOp
<1>2. pc \in 1 .. Len(istream) /\ istream[pc] \in Cells
  BY <1>1
<1>3. CellOK(istream, pc)
  BY <1>2 DEF CInv, WInv
<1>4. cell \in Cells /\ cell.a \in Nat /\ cell.b \in Nat /\ cell.target \in Nat
  <2>1. cell \in Cells
    BY <1>2 DEF cell
  <2> HIDE DEF cell
  <2>2. QED
    BY <2>1 DEF Cells
<1>5. mode = "running" /\ cell.op \in ops
  BY DEF AtOp
<1>6. QED
  BY <1>2, <1>3, <1>4, <1>5 DEF ThreadOK

\* What is left of the stack.
LEMMA PopOK ==
  ASSUME ThreadOK, NEW n \in Nat, n <= Len(value_stack)
  PROVE  /\ Pop(n) \in Seq(Values) /\ Len(Pop(n)) <= ValueStackSize
         /\ Len(Pop(n)) = Len(value_stack) - n
<1>1. value_stack \in Seq(Values) /\ Len(value_stack) <= ValueStackSize
      /\ ValueStackSize \in Nat
  BY InterpreterAssumption DEF ThreadOK
<1>2. n \in 0 .. Len(value_stack)
  BY <1>1
<1>3. /\ Popped(value_stack, n) \in Seq(Values)
      /\ Len(Popped(value_stack, n)) = Len(value_stack) - n
  BY <1>1, <1>2, PoppedFacts
<1>4. Pop(n) = Popped(value_stack, n)
  BY DEF Pop, Popped
<1>5. QED
  BY <1>1, <1>3, <1>4

\* DROP_KEEP of what is there.
LEMMA DropKeepOK ==
  ASSUME NEW stack \in Seq(Values), Len(stack) <= ValueStackSize,
         NEW drop \in Nat, NEW keep \in Nat, Len(stack) >= drop + keep
  PROVE  /\ DROP_KEEP(stack, drop, keep) \in Seq(Values)
         /\ Len(DROP_KEEP(stack, drop, keep)) <= ValueStackSize
<1>1. PICK n \in Nat : n = Len(stack)
  OBVIOUS
<1>2. ValueStackSize \in Nat
  BY InterpreterAssumption
<1>3. CASE keep = 1
  <2>1. n - drop - 1 \in 0 .. Len(stack) /\ n \in 1 .. Len(stack)
    BY <1>1, <1>3
  <2>2. PICK low : low = Truncate(stack, n - drop - 1)
    OBVIOUS
  <2>3. low \in Seq(Values) /\ Len(low) = n - drop - 1
    BY <2>1, <2>2, TruncateFacts
  <2>4. stack[n] \in Values
    BY <2>1, ElementFacts
  <2>5. DROP_KEEP(stack, drop, keep) = Append(low, stack[n])
    BY <1>1, <1>3, <2>2 DEF DROP_KEEP
  <2>6. Append(low, stack[n]) \in Seq(Values) /\ Len(Append(low, stack[n])) = Len(low) + 1
    BY <2>3, <2>4
  <2>7. QED
    BY <1>1, <1>2, <2>1, <2>3, <2>5, <2>6
<1>4. CASE keep # 1
  <2>1. n - drop \in 0 .. Len(stack)
    BY <1>1
  <2>2. Truncate(stack, n - drop) \in Seq(Values) /\ Len(Truncate(stack, n - drop)) = n - drop
    BY <2>1, TruncateFacts
  <2>3. DROP_KEEP(stack, drop, keep) = Truncate(stack, n - drop)
    BY <1>1, <1>4 DEF DROP_KEEP
  <2>4. QED
    BY <1>1, <1>2, <2>1, <2>2, <2>3
<1>5. QED
  BY <1>3, <1>4

\* A value of the stack.
LEMMA PickOK ==
  ASSUME ThreadOK, NEW n \in Nat, n >= 1, n <= Len(value_stack)
  PROVE  Pick(n) \in Values
<1>1. value_stack \in Seq(Values)
  BY DEF ThreadOK
<1>2. Len(value_stack) - n + 1 \in 1 .. Len(value_stack)
  BY <1>1
<1>3. QED
  BY <1>1, <1>2, ElementFacts DEF Pick

\* Writing a value keeps the size of the stack.
Written(stack, i, x) == [stack EXCEPT ![i] = x]

\* Written changes one value of a stack.
LEMMA WriteOK ==
  ASSUME NEW S, NEW stack \in Seq(S), NEW i, NEW x \in S
  PROVE  /\ Written(stack, i, x) \in Seq(S)
         /\ Len(Written(stack, i, x)) = Len(stack)
         /\ \A j \in 1 .. Len(stack) :
              Written(stack, i, x)[j] = IF j = i THEN x ELSE stack[j]
<1>1. PICK n \in Nat : n = Len(stack) /\ DOMAIN stack = 1 .. n
  OBVIOUS
<1>2. PICK w : w = Written(stack, i, x)
  OBVIOUS
<1>3. /\ DOMAIN w = 1 .. n
      /\ \A j \in 1 .. n : w[j] = IF j = i THEN x ELSE stack[j]
      /\ w = [j \in 1 .. n |-> w[j]]
  BY <1>1, <1>2 DEF Written
<1>4. \A j \in 1 .. n : w[j] \in S
  BY <1>1, <1>3
<1>5. w \in [1 .. n -> S]
  BY <1>3, <1>4
<1>6. w \in Seq(S) /\ Len(w) = n
  BY <1>5
<1>7. QED
  BY <1>1, <1>2, <1>3, <1>6

\* Instructions that push one value.
LEMMA PushesOK ==
  ASSUME CInv, ThreadOK, ExecConst \/ ExecOpcode \/ ExecSelect
  PROVE  ThreadOK' /\ CodeKept
<1>1. CASE ExecConst
  <2>1. PICK t \in Types : AtOp({ConstOp[t]}) /\ PushAndContinue(value_stack, <<t>>)
    BY <1>1 DEF ExecConst
  <2>2. mode = "running" /\ value_stack \in Seq(Values) /\ Len(value_stack) <= ValueStackSize
    BY <2>1, AtFacts
  <2>3. t \in Values
    BY DEF Values
  <2>4. <<t>> \in Seq(Values) /\ Len(<<t>>) \in 0 .. 1
    BY <2>3
  <2>5. QED
    BY <2>1, <2>2, <2>4, PushOK
<1>2. CASE ExecOpcode
  <2>1. AtOp(Opcodes) /\ HasOperands
    BY <1>2 DEF ExecOpcode
  <2>2. mode = "running" /\ cell.op \in Opcodes
    BY <2>1, AtFacts
  <2>3. PICK op : op = OpcodeTable[cell.op]
    OBVIOUS
  <2>4. /\ op.params \in Seq(Types) /\ op.push \in Sigs /\ op.traps \subseteq Traps
        /\ Operands(cell) = Len(op.params)
    BY <2>2, <2>3, OpcodeFacts, OperandFacts
  <2>5. CASE PushAndContinue(Pop(Len(op.params)), op.push)
    <3>1. PICK n \in Nat : n = Len(op.params)
      BY <2>4
    <3>2. n <= Len(value_stack)
      BY <2>1, <2>4, <3>1 DEF HasOperands, ThreadOK
    <3>3. Pop(n) \in Seq(Values) /\ Len(Pop(n)) <= ValueStackSize
      BY <3>2, PopOK
    <3>4. op.push \in Seq(Values) /\ Len(op.push) \in 0 .. 1
      BY <2>4, SigFacts, TypesAreValues
    <3>5. PushAndContinue(Pop(n), op.push)
      BY <2>5, <3>1
    <3>6. QED
      BY <2>2, <3>3, <3>4, <3>5, PushOK
  <2>6. CASE \E type \in op.traps : TRAP(type)
    BY <2>4, <2>6, TrapOK
  <2>7. QED
    BY <1>2, <2>3, <2>5, <2>6 DEF ExecOpcode
<1>3. CASE ExecSelect
  <2>1. AtOp({"select"}) /\ HasOperands
    BY <1>3 DEF ExecSelect
  <2>2. mode = "running" /\ cell.op = "select" /\ Len(value_stack) \in Nat
    BY <2>1, AtFacts
  <2>3. 3 <= Len(value_stack)
    BY <2>1, <2>2, OperandFacts DEF HasOperands
  <2>4. /\ Pop(3) \in Seq(Values) /\ Len(Pop(3)) <= ValueStackSize
        /\ Pick(3) \in Values /\ Pick(2) \in Values
    <3>1. 3 \in Nat /\ 2 \in Nat /\ 2 <= Len(value_stack) /\ 2 >= 1 /\ 3 >= 1
      BY <2>2, <2>3
    <3>2. QED
      BY <2>3, <3>1, PopOK, PickOK
  <2>5. PICK chosen \in {Pick(3), Pick(2)} : PushAndContinue(Pop(3), <<chosen>>)
    BY <1>3 DEF ExecSelect
  <2>6. chosen \in Values
    BY <2>4, <2>5
  <2>7. <<chosen>> \in Seq(Values) /\ Len(<<chosen>>) \in 0 .. 1
    BY <2>6
  <2>8. QED
    BY <2>2, <2>4, <2>5, <2>7, PushOK
<1>4. QED
  BY <1>1, <1>2, <1>3

\* Branches.
LEMMA BranchesOK ==
  ASSUME CInv, ThreadOK, ExecBr \/ ExecBrUnless \/ ExecBrTable
  PROVE  ThreadOK' /\ CodeKept
<1>1. CASE ExecBr
  <2>1. AtOp({"br"}) /\ Continue(value_stack, cell.target)
    BY <1>1 DEF ExecBr
  <2>2. /\ mode = "running" /\ cell.target \in Nat
        /\ value_stack \in Seq(Values) /\ Len(value_stack) <= ValueStackSize
    BY <2>1, AtFacts
  <2>3. Moves(value_stack, cell.target)
    BY <2>1, <2>2, ContinueMoves
  <2>4. CodeKept
    BY <2>3 DEF Moves
  <2>5. QED
    BY <2>2, <2>3, <2>4, MovesOK
<1>2. CASE ExecBrUnless
  <2>1. AtOp({"br_unless"}) /\ HasOperands
    BY <1>2 DEF ExecBrUnless
  <2>2. /\ mode = "running" /\ cell.target \in Nat /\ pc + 1 \in Nat
        /\ cell.op = "br_unless"
    BY <2>1, AtFacts
  <2>3. PICK offset \in {cell.target, pc + 1} : Continue(Pop(1), offset)
    BY <1>2 DEF ExecBrUnless
  <2>4. 1 <= Len(value_stack) /\ 1 \in Nat
    BY <2>1, <2>2, OperandFacts DEF HasOperands, ThreadOK
  <2>5. Pop(1) \in Seq(Values) /\ Len(Pop(1)) <= ValueStackSize
    BY <2>4, PopOK
  <2>6. Moves(Pop(1), offset) /\ offset \in Nat
    BY <2>2, <2>3, ContinueMoves
  <2>7. CodeKept
    BY <2>6 DEF Moves
  <2>8. QED
    BY <2>5, <2>6, <2>7, MovesOK
<1>3. CASE ExecBrTable
  <2>1. AtOp({"br_table"}) /\ HasOperands
    BY <1>3 DEF ExecBrTable
  <2>2. /\ mode = "running" /\ cell.target \in Nat /\ cell.a \in Nat
        /\ cell.op = "br_table" /\ CellOK(istream, pc)
    BY <2>1, AtFacts
  <2>3. 1 <= Len(value_stack) /\ 1 \in Nat
    BY <2>1, <2>2, OperandFacts DEF HasOperands, ThreadOK
  <2>4. Pop(1) \in Seq(Values) /\ Len(Pop(1)) <= ValueStackSize
    BY <2>3, PopOK
  <2>5. PICK key \in 0 .. cell.a :
          LET entry == istream[cell.target + key]
          IN  IF Len(Pop(1)) >= entry.a + entry.b
              THEN Continue(DROP_KEEP(Pop(1), entry.a, entry.b), entry.target)
              ELSE Abort("undefined") /\ UNCHANGED <<run_func, compilerVars>>
    BY <1>3 DEF ExecBrTable
  <2>6. PICK e : e = istream[cell.target + key]
    OBVIOUS
  <2>7. e \in Cells
    <3>1. istream \in Seq(Cells) /\ cell.target >= 1 /\ cell.target + cell.a <= Len(istream)
      BY <2>2 DEF CInv, FInv, CellOK, cell
    <3>2. cell.target + key \in 1 .. Len(istream)
      BY <2>2, <2>5, <3>1
    <3>3. QED
      BY <2>6, <3>1, <3>2, ElementFacts
  <2>8. e.a \in Nat /\ e.b \in Nat /\ e.target \in Nat
    BY <2>7 DEF Cells
  <2>9. CASE Len(Pop(1)) >= e.a + e.b
    <3>1. Continue(DROP_KEEP(Pop(1), e.a, e.b), e.target)
      BY <2>5, <2>6, <2>9
    <3>2. PICK stack : stack = DROP_KEEP(Pop(1), e.a, e.b)
      OBVIOUS
    <3>3. stack \in Seq(Values) /\ Len(stack) <= ValueStackSize
      BY <2>4, <2>8, <2>9, <3>2, DropKeepOK
    <3>4. Moves(stack, e.target)
      BY <2>2, <3>1, <3>2, ContinueMoves
    <3>5. CodeKept
      BY <3>4 DEF Moves
    <3>6. QED
      BY <2>8, <3>3, <3>4, <3>5, MovesOK
  <2>10. CASE ~(Len(Pop(1)) >= e.a + e.b)
    <3>1. Abort("undefined") /\ UNCHANGED run_func /\ UNCHANGED compilerVars
      BY <2>5, <2>6, <2>10
    <3>2. run_func' \in 0 .. Len(Funcs)
      BY <3>1 DEF ThreadOK
    <3>3. QED
      BY <3>1, <3>2, AbortOK, UnchangedKept
  <2>11. QED
    BY <2>9, <2>10
<1>4. QED
  BY <1>1, <1>2, <1>3

\* Instructions that only move values.
LEMMA MovingOK ==
  ASSUME CInv, ThreadOK, ExecGlobal \/ ExecLocal \/ ExecDrop \/ ExecDropKeep
  PROVE  ThreadOK' /\ CodeKept
<1>1. ASSUME NEW stack \in Seq(Values), Len(stack) <= ValueStackSize,
             NEW ops, AtOp(ops), Continue(stack, pc + 1)
      PROVE  ThreadOK' /\ CodeKept
  <2>1. mode = "running" /\ pc + 1 \in Nat
    BY <1>1, AtFacts
  <2>2. Moves(stack, pc + 1)
    BY <1>1, <2>1, ContinueMoves
  <2>3. CodeKept
    BY <2>2 DEF Moves
  <2>4. QED
    BY <1>1, <2>1, <2>2, <2>3, MovesOK
<1>2. ASSUME AtOp({"set_global"}) \/ AtOp({"drop"}), HasOperands,
             Continue(Pop(1), pc + 1)
      PROVE  ThreadOK' /\ CodeKept
  <2>1. PICK ops : AtOp(ops) /\ cell.op \in {"set_global", "drop"}
    BY <1>2, AtFacts
  <2>2. 1 <= Len(value_stack) /\ 1 \in Nat
    BY <1>2, <2>1, OperandFacts DEF HasOperands, ThreadOK
  <2>3. Pop(1) \in Seq(Values) /\ Len(Pop(1)) <= ValueStackSize
    BY <2>2, PopOK
  <2>4. QED
    BY <1>1, <1>2, <2>1, <2>3
<1>3. ASSUME AtOp({"get_global"}), PushAndContinue(value_stack, <<Globals[cell.a].type>>)
      PROVE  ThreadOK' /\ CodeKept
  <2>1. /\ mode = "running" /\ cell.op = "get_global" /\ CellOK(istream, pc)
        /\ value_stack \in Seq(Values) /\ Len(value_stack) <= ValueStackSize
    BY <1>3, AtFacts
  <2>2. cell.a \in DOMAIN Globals
    BY <2>1 DEF CellOK, cell
  <2>3. Globals[cell.a].type \in Types
    <3> DEFINE R == [type : Types, mutable : BOOLEAN]
    <3>1. Globals \in Seq(R)
      BY CompilerAssumption
    <3> HIDE DEF R
    <3>2. Globals[cell.a] \in R
      BY <2>2, <3>1
    <3>3. QED
      BY <3>2 DEF R
  <2>4. PICK t \in Values : t = Globals[cell.a].type
    BY <2>3 DEF Values
  <2>5. <<t>> \in Seq(Values) /\ Len(<<t>>) \in 0 .. 1
    OBVIOUS
  <2>6. PushAndContinue(value_stack, <<t>>)
    BY <1>3, <2>4
  <2>7. QED
    BY <2>1, <2>5, <2>6, PushOK
<1>4. ASSUME AtOp({"get_local"}), HasOperands,
             PushAndContinue(value_stack, <<Pick(cell.a)>>)
      PROVE  ThreadOK' /\ CodeKept
  <2>1. /\ mode = "running" /\ cell.op = "get_local" /\ CellOK(istream, pc)
        /\ value_stack \in Seq(Values) /\ Len(value_stack) <= ValueStackSize
        /\ cell.a \in Nat
    BY <1>4, AtFacts
  <2>2. cell.a >= 1 /\ cell.a <= Len(value_stack)
    BY <1>4, <2>1, OperandFacts DEF CellOK, cell, HasOperands
  <2>3. PICK x \in Values : x = Pick(cell.a)
    BY <2>1, <2>2, PickOK
  <2>4. <<x>> \in Seq(Values) /\ Len(<<x>>) \in 0 .. 1
    OBVIOUS
  <2>5. PushAndContinue(value_stack, <<x>>)
    BY <1>4, <2>3
  <2>6. QED
    BY <2>1, <2>4, <2>5, PushOK
<1>5. ASSUME AtOp({"set_local"}), HasOperands,
             Continue([Pop(1) EXCEPT ![Len(value_stack) - cell.a] = Pick(1)], pc + 1)
      PROVE  ThreadOK' /\ CodeKept
  <2>1. /\ cell.op = "set_local" /\ cell.a \in Nat /\ Len(value_stack) \in Nat
    BY <1>5, AtFacts
  <2>2. 1 <= Len(value_stack) /\ 1 \in Nat /\ 1 >= 1
    BY <1>5, <2>1, OperandFacts DEF HasOperands
  <2>3. Pop(1) \in Seq(Values) /\ Len(Pop(1)) <= ValueStackSize /\ Pick(1) \in Values
    BY <2>2, PopOK, PickOK
  <2>4. PICK w : w = Written(Pop(1), Len(value_stack) - cell.a, Pick(1))
    OBVIOUS
  <2>5. w \in Seq(Values) /\ Len(w) <= ValueStackSize
    BY <2>3, <2>4, WriteOK
  <2>6. Continue(w, pc + 1)
    BY <1>5, <2>4 DEF Written
  <2>7. QED
    BY <1>1, <1>5, <2>5, <2>6
<1>6. ASSUME AtOp({"tee_local"}), HasOperands,
             Continue([value_stack EXCEPT ![Len(value_stack) - cell.a + 1] = Pick(1)],
                      pc + 1)
      PROVE  ThreadOK' /\ CodeKept
  <2>1. /\ cell.op = "tee_local" /\ cell.a \in Nat /\ Len(value_stack) \in Nat
        /\ value_stack \in Seq(Values) /\ Len(value_stack) <= ValueStackSize
    BY <1>6, AtFacts
  <2>2. CASE Len(value_stack) >= 1
    <3>1. Pick(1) \in Values
      <4>1. 1 \in Nat /\ 1 >= 1 /\ 1 <= Len(value_stack)
        BY <2>1, <2>2
      <4>2. QED
        BY <4>1, PickOK
    <3>2. PICK w : w = Written(value_stack, Len(value_stack) - cell.a + 1, Pick(1))
      OBVIOUS
    <3>3. w \in Seq(Values) /\ Len(w) <= ValueStackSize
      BY <2>1, <3>1, <3>2, WriteOK
    <3>4. Continue(w, pc + 1)
      BY <1>6, <3>2 DEF Written
    <3>5. QED
      BY <1>1, <1>6, <3>3, <3>4
  <2>3. CASE ~(Len(value_stack) >= 1)
    <3>1. value_stack = <<>>
      BY <2>1, <2>3
    <3>2. [value_stack EXCEPT ![Len(value_stack) - cell.a + 1] = Pick(1)] = value_stack
      BY <3>1
    <3>3. Continue(value_stack, pc + 1)
      BY <1>6, <3>2
    <3>4. QED
      BY <1>1, <1>6, <2>1, <3>3
  <2>4. QED
    BY <2>2, <2>3
<1>7. ASSUME AtOp({"drop_keep"}), HasOperands,
             Continue(DROP_KEEP(value_stack, cell.a, cell.b), pc + 1)
      PROVE  ThreadOK' /\ CodeKept
  <2>1. /\ cell.op = "drop_keep" /\ cell.a \in Nat /\ cell.b \in Nat
        /\ value_stack \in Seq(Values) /\ Len(value_stack) <= ValueStackSize
    BY <1>7, AtFacts
  <2>2. Len(value_stack) >= cell.a + cell.b
    BY <1>7, <2>1, OperandFacts DEF HasOperands
  <2>3. /\ DROP_KEEP(value_stack, cell.a, cell.b) \in Seq(Values)
        /\ Len(DROP_KEEP(value_stack, cell.a, cell.b)) <= ValueStackSize
    BY <2>1, <2>2, DropKeepOK
  <2>4. QED
    BY <1>1, <1>7, <2>3
<1>8. QED
  BY <1>2, <1>3, <1>4, <1>5, <1>6, <1>7 DEF ExecGlobal, ExecLocal, ExecDrop,
     ExecDropKeep

\* The stack of return offsets without its top.
LEMMA TopFacts ==
  ASSUME NEW S, NEW s \in Seq(S), s # <<>>
  PROVE  /\ Len(s) >= 1 /\ Last(s) = s[Len(s)] /\ Last(s) \in S
         /\ Front(s) \in Seq(S) /\ Len(Front(s)) = Len(s) - 1
         /\ \A i \in 1 .. Len(s) - 1 : Front(s)[i] = s[i]
<1>1. Len(s) >= 1 /\ Len(s) \in 1 .. Len(s)
  OBVIOUS
<1>2. Last(s) = s[Len(s)] /\ Last(s) \in S
  BY <1>1 DEF Last
<1>3. PICK n \in Nat : n = Len(s) - 1
  BY <1>1
<1>4. SubSeq(s, 1, n) \in Seq(S) /\ Len(SubSeq(s, 1, n)) = n
      /\ \A i \in 1 .. n : SubSeq(s, 1, n)[i] = s[i]
  BY <1>1, <1>3
<1>5. QED
  BY <1>1, <1>2, <1>3, <1>4 DEF Front

\* copy_results ends the run or stops the process.
LEMMA CopyOK ==
  ASSUME ThreadOK, NEW stack \in Seq(Values), NEW f, copy_results(stack, Funcs[f]),
         run_func' \in 0 .. Len(Funcs)
  PROVE  ThreadOK'
<1>1. CASE Len(stack) = Len(Funcs[f].results)
  <2>1. EndRun("ok", stack) /\ "ok" \in Traps \cup {"ok"}
    BY <1>1 DEF copy_results
  <2>2. QED
    BY <2>1, EndRunOK
<1>2. CASE Len(stack) # Len(Funcs[f].results)
  <2>1. Abort("assert_copy_results")
    BY <1>2 DEF copy_results
  <2>2. "assert_copy_results" \in {"undefined", "assert_copy_results"}
    OBVIOUS
  <2>3. QED
    BY <2>1, <2>2, AbortOK
<1>3. QED
  BY <1>1, <1>2

\* Calls and returns.
LEMMA CallsOK ==
  ASSUME CInv, ThreadOK, ExecReturn \/ ExecCall \/ ExecCallHost \/ ExecCallIndirect
  PROVE  ThreadOK' /\ CodeKept
<1>1. CASE ExecReturn
  <2>1. AtOp({"return"}) /\ UNCHANGED compilerVars
    BY <1>1 DEF ExecReturn
  <2>2. mode = "running" /\ value_stack \in Seq(Values) /\ CodeKept
    BY <2>1, AtFacts, UnchangedKept
  <2>3. CASE call_stack = <<>>
    <3>1. copy_results(value_stack, Funcs[run_func]) /\ run_func' = run_func
      BY <1>1, <2>3 DEF ExecReturn
    <3>2. run_func' \in 0 .. Len(Funcs)
      BY <3>1 DEF ThreadOK
    <3>3. QED
      BY <2>2, <3>1, <3>2, CopyOK
  <2>4. CASE call_stack # <<>>
    <3>1. /\ pc' = Last(call_stack) /\ call_stack' = Front(call_stack)
          /\ UNCHANGED <<value_stack, mode, run_func, result, results>>
      BY <1>1, <2>4 DEF ExecReturn
    <3>2. call_stack \in Seq(Nat) /\ Len(call_stack) <= CallStackSize
      BY DEF ThreadOK
    <3>3. /\ Last(call_stack) \in Nat /\ Front(call_stack) \in Seq(Nat)
          /\ Len(Front(call_stack)) = Len(call_stack) - 1
      BY <2>4, <3>2, TopFacts
    <3>4. Len(Front(call_stack)) <= CallStackSize
      BY <3>2, <3>3, InterpreterAssumption
    <3>5. status' = status
      BY <2>2 DEF CodeKept
    <3>6. QED
      BY <2>2, <3>1, <3>3, <3>4, <3>5 DEF ThreadOK
  <2>5. QED
    BY <2>3, <2>4
<1>2. CASE ExecCall
  <2>1. AtOp({"call"}) /\ Enter(value_stack, cell.target)
    BY <1>2 DEF ExecCall
  <2>2. /\ mode = "running" /\ cell.target \in Nat
        /\ value_stack \in Seq(Values) /\ Len(value_stack) <= ValueStackSize
    BY <2>1, AtFacts
  <2>3. QED
    BY <2>1, <2>2, EnterOK
<1>3. CASE ExecCallHost
  <2>1. AtOp({"call_host"}) /\ CallHostAndContinue(value_stack, Funcs[cell.a])
    BY <1>3 DEF ExecCallHost
  <2>2. /\ mode = "running" /\ cell.op = "call_host" /\ CellOK(istream, pc)
        /\ value_stack \in Seq(Values) /\ Len(value_stack) <= ValueStackSize
    BY <2>1, AtFacts
  <2>3. cell.a \in DOMAIN Funcs
    BY <2>2 DEF CellOK, cell
  <2>4. QED
    BY <2>1, <2>2, <2>3, CallHostOK
<1>4. CASE ExecCallIndirect
  <2>1. AtOp({"call_indirect"}) /\ HasOperands
    BY <1>4 DEF ExecCallIndirect
  <2>2. mode = "running" /\ cell.op = "call_indirect"
    BY <2>1, AtFacts
  <2>3. 1 <= Len(value_stack) /\ 1 \in Nat
    BY <2>1, <2>2, OperandFacts DEF HasOperands, ThreadOK
  <2>4. Pop(1) \in Seq(Values) /\ Len(Pop(1)) <= ValueStackSize
    BY <2>3, PopOK
  <2>5. PICK i \in 1 .. Len(Table) + 1 :
          LET f == Table[i]
          IN  IF i > Len(Table) THEN TRAP("undefined_table_index")
              ELSE IF f = 0 THEN TRAP("uninitialized_table_element")
              ELSE IF Funcs[f] # Funcs[cell.a]
              THEN TRAP("indirect_call_signature_mismatch")
              ELSE IF f <= NumImports THEN CallHostAndContinue(Pop(1), Funcs[f])
              ELSE Enter(Pop(1), func_offset[f])
    BY <1>4 DEF ExecCallIndirect
  <2>6. CASE \/ TRAP("undefined_table_index") \/ TRAP("uninitialized_table_element")
             \/ TRAP("indirect_call_signature_mismatch")
    <3>1. {"undefined_table_index", "uninitialized_table_element",
           "indirect_call_signature_mismatch"} \subseteq Traps
      BY DEF Traps
    <3>2. QED
      BY <2>6, <3>1, TrapOK
  <2>7. CASE /\ i <= Len(Table) /\ Table[i] # 0
             /\ \/ CallHostAndContinue(Pop(1), Funcs[Table[i]])
                \/ Enter(Pop(1), func_offset[Table[i]])
    <3>1. PICK f : f = Table[i]
      OBVIOUS
    <3>2. f \in DOMAIN Funcs
      <4>1. Table \in Seq(0 .. Len(Funcs)) /\ i \in 1 .. Len(Table)
        BY <2>5, <2>7, InterpreterAssumption
      <4>2. f \in 0 .. Len(Funcs) /\ f # 0
        BY <2>7, <3>1, <4>1, ElementFacts
      <4>3. DOMAIN Funcs = 1 .. Len(Funcs) /\ Len(Funcs) \in Nat
        BY CompilerAssumption
      <4>4. QED
        BY <4>2, <4>3
    <3>3. func_offset[f] \in Nat
      BY <3>2 DEF CInv, FInv, Linked
    <3>4. \/ CallHostAndContinue(Pop(1), Funcs[f])
          \/ Enter(Pop(1), func_offset[f])
      BY <2>7, <3>1
    <3>5. QED
      BY <2>2, <2>4, <3>2, <3>3, <3>4, CallHostOK, EnterOK
  <2>8. QED
    <3>1. Len(Table) \in Nat
      BY InterpreterAssumption
    <3>2. i > Len(Table) \/ i <= Len(Table)
      BY <3>1
    <3>3. QED
      BY <2>5, <2>6, <2>7, <3>2
<1>5. QED
  BY <1>1, <1>2, <1>3, <1>4

\* The other instructions.
LEMMA OthersOK ==
  ASSUME CInv, ThreadOK, ExecUnreachable \/ ExecAlloca \/ ExecOutside
  PROVE  ThreadOK' /\ CodeKept
<1>1. CASE ExecUnreachable
  BY <1>1, TrapOK DEF ExecUnreachable, Traps
<1>2. CASE ExecAlloca
  <2>1. AtOp({"alloca"})
    BY <1>2 DEF ExecAlloca
  <2>2. /\ mode = "running" /\ cell.a \in Nat /\ pc + 1 \in Nat
        /\ value_stack \in Seq(Values)
    BY <2>1, AtFacts
  <2>3. PICK zeros : zeros = [i \in 1 .. cell.a |-> "zero"]
    OBVIOUS
  <2>4. zeros \in Seq(Values)
    <3>1. "zero" \in Values
      BY DEF Values
    <3>2. QED
      BY <2>2, <2>3, <3>1
  <2>5. PICK stack : stack = value_stack \o zeros
    OBVIOUS
  <2>6. stack \in Seq(Values)
    BY <2>2, <2>4, <2>5, ConcatFacts
  <2>7. CASE CHECK_STACK(stack)
    <3>1. Continue(stack, pc + 1)
      BY <1>2, <2>3, <2>5, <2>7 DEF ExecAlloca
    <3>2. Moves(stack, pc + 1)
      BY <2>2, <3>1, ContinueMoves
    <3>3. CodeKept
      BY <3>2 DEF Moves
    <3>4. Len(stack) <= ValueStackSize
      BY <2>6, <2>7, InterpreterAssumption DEF CHECK_STACK
    <3>5. QED
      BY <2>2, <2>6, <3>2, <3>3, <3>4, MovesOK
  <2>8. CASE ~CHECK_STACK(stack)
    <3>1. TRAP("value_stack_exhausted") /\ "value_stack_exhausted" \in Traps
      BY <1>2, <2>3, <2>5, <2>8 DEF ExecAlloca, Traps
    <3>2. QED
      BY <3>1, TrapOK
  <2>9. QED
    BY <2>7, <2>8
<1>3. CASE ExecOutside
  <2>1. Abort("undefined") /\ run_func' = run_func /\ UNCHANGED compilerVars
    BY <1>3 DEF ExecOutside
  <2>2. run_func' \in 0 .. Len(Funcs)
    BY <2>1 DEF ThreadOK
  <2>3. "undefined" \in {"undefined", "assert_copy_results"}
    OBVIOUS
  <2>4. QED
    BY <2>1, <2>2, <2>3, AbortOK, UnchangedKept
<1>4. QED
  BY <1>1, <1>2, <1>3

\* Whatever one instruction does, the thread stays well formed and the code as
\* it is.
LEMMA ExecOK ==
  ASSUME CInv, ThreadOK, Exec
  PROVE  ThreadOK' /\ CodeKept
BY PushesOK, BranchesOK, MovingOK, CallsOK, OthersOK DEF Exec

\* Starting a run.
LEMMA RunOK ==
  ASSUME CInv, ThreadOK, NEW f \in DOMAIN Funcs, NEW args \in ArgLists,
         RunFunction(f, args)
  PROVE  ThreadOK' /\ CodeKept
<1>1. /\ status = "loaded" /\ mode = "idle" /\ run_func' = f /\ UNCHANGED compilerVars
  BY DEF RunFunction
<1>2. CodeKept /\ status' = "loaded"
  BY <1>1, UnchangedKept DEF CodeKept
<1>3. f \in 0 .. Len(Funcs) /\ f # 0 /\ f \in Nat
  <2>1. DOMAIN Funcs = 1 .. Len(Funcs) /\ Len(Funcs) \in Nat
    BY CompilerAssumption
  <2>2. QED
    BY <2>1
<1>4. PICK pushed : pushed = push_args(Funcs[f], args)
  OBVIOUS
<1>5. /\ pushed \in Traps \cup {"ok"}
      /\ pushed = "ok" => args = Funcs[f].params /\ Len(args) <= ValueStackSize
  BY <1>4, PushArgs
<1>6. args \in Seq(Values)
  BY InterpreterAssumption, TypesAreValues
<1>7. results \in Seq(Values) /\ run_func' \in 0 .. Len(Funcs)
  BY <1>1, <1>3 DEF ThreadOK
<1>8. CASE EndRun(pushed, results)
  BY <1>2, <1>5, <1>7, <1>8, EndRunOK
<1>9. CASE /\ pushed = "ok" /\ mode' = "running" /\ pc' = func_offset[f]
           /\ value_stack' = args /\ UNCHANGED <<call_stack, result, results>>
  <2>1. func_offset[f] \in Nat
    BY DEF CInv, FInv, Linked
  <2>2. QED
    BY <1>1, <1>2, <1>3, <1>5, <1>6, <1>9, <2>1 DEF ThreadOK
<1>10. CASE /\ pushed = "ok"
            /\ \E out \in wasm_call_host(args, Funcs[f]) :
                 IF out.result = "ok" THEN copy_results(out.stack, Funcs[f])
                 ELSE EndRun(out.result, results)
  <2>1. PICK out \in wasm_call_host(args, Funcs[f]) :
          IF out.result = "ok" THEN copy_results(out.stack, Funcs[f])
          ELSE EndRun(out.result, results)
    BY <1>10
  <2>2. out.stack \in Seq(Values) /\ out.result \in Traps \cup {"ok"}
    BY <1>5, <1>6, <1>10, HostFacts
  <2>3. QED
    BY <1>2, <1>7, <2>1, <2>2, CopyOK, EndRunOK
<1>11. QED
  BY <1>4, <1>8, <1>9, <1>10 DEF RunFunction

-----------------------------------------------------------------------------
(* The types of all variables.                                             *)

\* Nothing runs before the module is loaded.
LoadedFirst == status # "loaded" => mode = "idle" /\ run_func = 0

\* The callbacks come while the module is read.
LEMMA ReadsReading ==
  ASSUME ReadStep
  PROVE  status = "reading"
<1>1. CASE \/ \E n \in 0 .. MaxDecls : BeginFunctionBody(n)
           \/ \E n \in 0 .. MaxLocals, t \in Types : OnLocalDecl(n, t)
           \/ EndFunctionBody \/ EndModule
  BY <1>1 DEF BeginFunctionBody, OnLocalDecl, EndFunctionBody, EndModule
<1>2. CASE \E sig \in Sigs : OnBlock(sig) \/ OnLoop(sig) \/ OnIf(sig)
  BY <1>2 DEF OnBlock, OnLoop, OnIf, InBody
<1>3. CASE OnElse \/ OnEnd \/ OnReturn \/ OnUnreachable \/ OnDrop \/ OnSelect
  BY <1>3 DEF OnElse, OnEnd, OnReturn, OnUnreachable, OnDrop, OnSelect, InBody
<1>4. CASE \/ \E depth \in 0 .. Len(label_stack) : OnBr(depth) \/ OnBrIf(depth)
           \/ \E n \in 1 .. MaxTargets + 1 :
                \E targets \in [1 .. n -> 0 .. Len(label_stack)] : OnBrTable(targets)
  BY <1>4 DEF OnBr, OnBrIf, OnBrTable, InBody
<1>5. CASE \/ \E f \in DOMAIN Funcs : OnCall(f) \/ OnCallIndirect(f)
           \/ \E op \in Opcodes : OnOpcode(op)
           \/ \E t \in Types : OnConst(t)
  BY <1>5 DEF OnCall, OnCallIndirect, OnOpcode, OnConst, InBody
<1>6. CASE \/ \E g \in 1 .. Len(Globals) + 1 : OnGetGlobal(g) \/ OnSetGlobal(g)
           \/ \E i \in 1 .. Len(param_and_local_types) + 1 :
                OnGetLocal(i) \/ OnSetLocal(i) \/ OnTeeLocal(i)
  BY <1>6 DEF OnGetGlobal, OnSetGlobal, OnGetLocal, OnSetLocal, OnTeeLocal, InBody
<1>7. QED
  BY <1>1, <1>2, <1>3, <1>4, <1>5, <1>6 DEF ReadStep

\* The first state.
LEMMA SysInitOK == SysInit => CInv /\ ThreadOK /\ LoadedFirst
<1> SUFFICES ASSUME SysInit PROVE CInv /\ ThreadOK /\ LoadedFirst
  OBVIOUS
<1>1. Init /\ ThreadInit
  BY DEF SysInit
<1>2. CInv
  BY <1>1, InitIInv, InitFInv, InitTyped DEF CInv
<1>3. /\ pc = INVALID /\ value_stack = <<>> /\ call_stack = <<>> /\ mode = "idle"
      /\ run_func = 0 /\ result = "ok" /\ results = <<>>
  BY <1>1 DEF ThreadInit
<1>4. Len(Funcs) \in Nat
  BY CompilerAssumption
<1>5. ThreadOK
  BY <1>3, <1>4, InterpreterAssumption DEF ThreadOK, INVALID
<1>6. QED
  BY <1>2, <1>3, <1>5 DEF LoadedFirst

\* A step of the reader.
LEMMA ReadOK ==
  ASSUME CInv, ThreadOK, LoadedFirst, Read
  PROVE  /\ CInv' /\ ThreadOK' /\ LoadedFirst'
         /\ mode' = "idle" /\ run_func' = 0
<1>1. ReadStep /\ UNCHANGED threadVars
  BY DEF Read
<1>2. /\ UNCHANGED <<pc, value_stack, call_stack, mode, run_func, result, results>>
      /\ mode = "idle" /\ run_func = 0
  BY <1>1, ReadsReading DEF threadVars, LoadedFirst
<1>3. CInv'
  <2>1. [ReadStep]_compilerVars /\ IInv /\ FInv /\ WInv /\ TInv
    BY <1>1 DEF CInv
  <2>2. QED
    BY <2>1, StepIInv, StepFInv, StepTInv DEF CInv
<1>4. ThreadOK'
  BY <1>2 DEF ThreadOK
<1>5. QED
  BY <1>2, <1>3, <1>4 DEF LoadedFirst

\* Every step.
LEMMA StepOK ==
  ASSUME CInv, ThreadOK, LoadedFirst, [Next]_vars
  PROVE  CInv' /\ ThreadOK' /\ LoadedFirst'
<1>1. ASSUME ThreadOK', CodeKept, status = "loaded"
      PROVE  CInv' /\ ThreadOK' /\ LoadedFirst'
  <2>1. status' = status
    BY <1>1 DEF CodeKept
  <2>2. QED
    BY <1>1, <2>1, KeptCInv DEF LoadedFirst
<1>2. CASE Read
  BY <1>2, ReadOK
<1>3. ASSUME NEW f \in DOMAIN Funcs, NEW args \in ArgLists, RunFunction(f, args)
      PROVE  CInv' /\ ThreadOK' /\ LoadedFirst'
  <2>1. ThreadOK' /\ CodeKept
    BY <1>3, RunOK
  <2>2. status = "loaded"
    BY <1>3 DEF RunFunction
  <2>3. QED
    BY <1>1, <2>1, <2>2
<1>4. CASE Exec
  <2>1. ThreadOK' /\ CodeKept
    BY <1>4, ExecOK
  <2>2. mode = "running"
    BY <1>4 DEF Exec, ExecConst, ExecOpcode, ExecSelect, ExecBr, ExecBrUnless,
       ExecBrTable, ExecReturn, ExecUnreachable, ExecGlobal, ExecLocal, ExecCall,
       ExecCallHost, ExecCallIndirect, ExecAlloca, ExecDrop, ExecDropKeep,
       ExecOutside, AtOp
  <2>3. status = "loaded"
    BY <2>2 DEF ThreadOK
  <2>4. QED
    BY <1>1, <2>1, <2>3
<1>5. CASE UNCHANGED vars
  <2>1. /\ UNCHANGED compilerVars /\ status' = status
        /\ UNCHANGED <<pc, value_stack, call_stack, mode, run_func, result, results>>
    BY <1>5 DEF vars, threadVars, compilerVars
  <2>2. ThreadOK'
    BY <2>1 DEF ThreadOK
  <2>3. CInv'
    BY <2>1, UnchangedKept, KeptCInv
  <2>4. QED
    BY <2>1, <2>2, <2>3 DEF LoadedFirst
<1>6. QED
  BY <1>2, <1>3, <1>4, <1>5 DEF Next, Ended

\* The fixups name cells of the istream.
LEMMA CompilerTypes ==
  ASSUME CInv
  PROVE  CompilerTypeOK
<1>1. IInv /\ FInv /\ WInv
  BY DEF CInv
<1>2. /\ istream \in Seq(Cells) /\ Owned(istream, label_stack, depth_fixups)
      /\ Linked(istream, func_offset, func_fixups)
  BY <1>1 DEF FInv
<1>3. depth_fixups \in Seq(SUBSET (1 .. Len(istream)))
  <2>1. /\ depth_fixups \in Seq(SUBSET Nat) /\ Len(depth_fixups) <= Len(label_stack)
        /\ \A d \in 1 .. Len(label_stack) : \A c \in Fix(depth_fixups, d) :
             c \in 1 .. Len(istream)
    BY <1>2 DEF Owned
  <2>2. PICK n \in Nat : n = Len(depth_fixups) /\ depth_fixups \in [1 .. n -> SUBSET Nat]
    BY <2>1
  <2>3. Len(label_stack) \in Nat
    BY <1>1 DEF IInv, StackTypes
  <2>4. ASSUME NEW d \in 1 .. n
        PROVE  depth_fixups[d] \in SUBSET (1 .. Len(istream))
    <3>1. d \in 1 .. Len(label_stack) /\ Fix(depth_fixups, d) = depth_fixups[d]
      BY <2>1, <2>2, <2>3 DEF Fix
    <3>2. QED
      BY <2>1, <3>1
  <2>5. depth_fixups \in [1 .. n -> SUBSET (1 .. Len(istream))]
    BY <2>2, <2>4
  <2>6. QED
    BY <2>5
<1>4. func_fixups \in [DOMAIN Funcs -> SUBSET (1 .. Len(istream))]
  <2>1. /\ func_fixups \in [DOMAIN Funcs -> SUBSET Nat]
        /\ \A f \in DOMAIN Funcs : \A c \in func_fixups[f] : c \in 1 .. Len(istream)
    BY <1>2 DEF Linked
  <2>2. \A f \in DOMAIN Funcs : func_fixups[f] \in SUBSET (1 .. Len(istream))
    BY <2>1
  <2>3. QED
    BY <2>1, <2>2
<1>5. func_offset \in [DOMAIN Funcs -> Nat]
  BY <1>2 DEF Linked
<1>6. QED
  BY <1>1, <1>2, <1>3, <1>4, <1>5 DEF CompilerTypeOK, IInv, StackTypes, WInv,
     Conditions

\* The compiler and the thread keep their types, for every module, table,
\* argument list and size of the stacks, with checked and unchecked modules
\* alike: CHECK_STACK, PUSH_CALL and push_args let neither stack of a thread
\* exceed its size.
THEOREM TypeOKAlways == Spec => []TypeOK
<1>1. SysInit => CInv /\ ThreadOK /\ LoadedFirst
  BY SysInitOK
<1>2. (CInv /\ ThreadOK /\ LoadedFirst) /\ [Next]_vars
        => (CInv /\ ThreadOK /\ LoadedFirst)'
  BY StepOK
<1>3. CInv /\ ThreadOK /\ LoadedFirst => TypeOK
  BY CompilerTypes DEF TypeOK, ThreadOK, Values
<1>4. QED
  BY <1>1, <1>2, <1>3, PTL DEF Spec

-----------------------------------------------------------------------------
(* Values and their types.                                                 *)

\* Every opcode writes the union field of its result type.
PushesResults == \A op \in Opcodes : OpcodeTable[op].push = OpcodeTable[op].result

\* A value that may be read as a t.
Match(x, t) == PushesResults => x = t \/ x = "zero"

\* The stack holds values of the types base and above them of the types ts.
Holds(stack, base, ts) ==
  /\ Len(stack) = Len(base) + Len(ts)
  /\ \A i \in 1 .. Len(base) : Match(stack[i], base[i])
  /\ \A i \in 1 .. Len(ts) : Match(stack[Len(base) + i], ts[i])

\* Values of the types named by their positions.
Shaped(vals, types) ==
  /\ Len(vals) = Len(types)
  /\ \A i \in 1 .. Len(types) : Match(vals[i], types[i])

\* A value matches its type, and a zero matches every type.
LEMMA MatchFacts ==
  /\ \A t : Match(t, t)
  /\ \A t : Match("zero", t)
BY DEF Match

\* Popping from both.
LEMMA HoldsPop ==
  ASSUME NEW stack \in Seq(Values), NEW base \in Seq(Types), NEW ts \in Seq(Types),
         NEW n \in 0 .. Len(ts), Holds(stack, base, ts)
  PROVE  /\ Popped(stack, n) \in Seq(Values)
         /\ Len(Popped(stack, n)) = Len(stack) - n
         /\ Popped(ts, n) \in Seq(Types)
         /\ Holds(Popped(stack, n), base, Popped(ts, n))
<1>1. PICK m, k \in Nat : m = Len(base) /\ k = Len(ts)
  OBVIOUS
<1>2. Len(stack) = m + k /\ n \in 0 .. Len(stack)
  BY <1>1 DEF Holds
<1>3. PICK s, t : s = Popped(stack, n) /\ t = Popped(ts, n)
  OBVIOUS
<1>4. /\ s \in Seq(Values) /\ Len(s) = Len(stack) - n
      /\ \A i \in 1 .. Len(stack) - n : s[i] = stack[i]
  BY <1>2, <1>3, PoppedFacts
<1>5. /\ t \in Seq(Types) /\ Len(t) = Len(ts) - n
      /\ \A i \in 1 .. Len(ts) - n : t[i] = ts[i]
  BY <1>3, PoppedFacts
<1>6. Len(s) = m + Len(t)
  BY <1>1, <1>2, <1>4, <1>5
<1>7. \A i \in 1 .. m : Match(s[i], base[i])
  <2>1. \A i \in 1 .. m : i \in 1 .. Len(stack) - n
    BY <1>1, <1>2
  <2>2. QED
    BY <1>1, <1>4, <2>1 DEF Holds
<1>8. \A i \in 1 .. Len(t) : Match(s[m + i], t[i])
  <2>1. \A i \in 1 .. Len(t) : i \in 1 .. k /\ m + i \in 1 .. Len(stack) - n
    BY <1>1, <1>2, <1>5
  <2>2. QED
    BY <1>1, <1>4, <1>5, <2>1 DEF Holds
<1>9. Holds(s, base, t)
  BY <1>1, <1>6, <1>7, <1>8 DEF Holds
<1>10. QED
  BY <1>3, <1>4, <1>5, <1>9

\* Pushing on both.
LEMMA HoldsPush ==
  ASSUME NEW stack \in Seq(Values), NEW base \in Seq(Types), NEW ts \in Seq(Types),
         NEW vals \in Seq(Values), NEW types \in Seq(Types), Shaped(vals, types),
         Holds(stack, base, ts)
  PROVE  /\ stack \o vals \in Seq(Values)
         /\ ts \o types \in Seq(Types)
         /\ Holds(stack \o vals, base, ts \o types)
<1>1. PICK m, k, j \in Nat : m = Len(base) /\ k = Len(ts) /\ j = Len(types)
  OBVIOUS
<1>2. Len(stack) = m + k /\ Len(vals) = j
  BY <1>1 DEF Holds, Shaped
<1>3. PICK s, t : s = stack \o vals /\ t = ts \o types
  OBVIOUS
<1>4. /\ s \in Seq(Values) /\ Len(s) = m + k + j
      /\ \A i \in 1 .. m + k : s[i] = stack[i]
      /\ \A i \in 1 .. j : s[m + k + i] = vals[i]
  <2>1. /\ s \in Seq(Values) /\ Len(s) = Len(stack) + Len(vals)
        /\ \A i \in 1 .. Len(stack) : s[i] = stack[i]
        /\ \A i \in 1 .. Len(vals) : s[Len(stack) + i] = vals[i]
    BY <1>3, ConcatFacts
  <2>2. QED
    BY <1>1, <1>2, <2>1
<1>5. /\ t \in Seq(Types) /\ Len(t) = k + j
      /\ \A i \in 1 .. k : t[i] = ts[i]
      /\ \A i \in 1 .. j : t[k + i] = types[i]
  BY <1>1, <1>3, ConcatFacts
<1>6. \A i \in 1 .. m : Match(s[i], base[i])
  <2>1. \A i \in 1 .. m : i \in 1 .. m + k
    OBVIOUS
  <2>2. QED
    BY <1>1, <1>4, <2>1 DEF Holds
<1>7. ASSUME NEW i \in 1 .. k + j PROVE Match(s[m + i], t[i])
  <2>1. CASE i \in 1 .. k
    <3>1. m + i \in 1 .. m + k
      BY <2>1
    <3>2. s[m + i] = stack[m + i] /\ t[i] = ts[i]
      BY <1>4, <1>5, <2>1, <3>1
    <3>3. Match(stack[m + i], ts[i])
      BY <1>1, <2>1 DEF Holds
    <3>4. QED
      BY <3>2, <3>3
  <2>2. CASE ~(i \in 1 .. k)
    <3>1. PICK e \in 1 .. j : i = k + e /\ m + i = m + k + e
      BY <2>2
    <3>2. s[m + i] = vals[e] /\ t[i] = types[e]
      BY <1>4, <1>5, <3>1
    <3>3. Match(vals[e], types[e])
      BY <1>1 DEF Shaped
    <3>4. QED
      BY <3>2, <3>3
  <2>3. QED
    BY <2>1, <2>2
<1>8. Holds(s, base, t)
  BY <1>1, <1>4, <1>5, <1>6, <1>7 DEF Holds
<1>9. QED
  BY <1>3, <1>4, <1>5, <1>8

\* The value at a distance from the top.
LEMMA HoldsPick ==
  ASSUME NEW stack \in Seq(Values), NEW base \in Seq(Types), NEW ts \in Seq(Types),
         NEW n \in 1 .. Len(ts), Holds(stack, base, ts)
  PROVE  /\ n <= Len(stack)
         /\ stack[Len(stack) - n + 1] \in Values
         /\ Match(stack[Len(stack) - n + 1], ts[Len(ts) - n + 1])
<1>1. PICK m, k \in Nat : m = Len(base) /\ k = Len(ts)
  OBVIOUS
<1>2. Len(stack) = m + k
  BY <1>1 DEF Holds
<1>3. PICK i \in 1 .. k : i = k - n + 1
  <2>1. n \in 1 .. k
    BY <1>1
  <2>2. k - n + 1 \in 1 .. k
    BY <2>1
  <2>3. QED
    BY <2>2
<1>4. Len(stack) - n + 1 = m + i /\ Len(ts) - n + 1 = i /\ m + i \in 1 .. Len(stack)
      /\ n <= Len(stack)
  BY <1>1, <1>2, <1>3
<1>5. Match(stack[m + i], ts[i])
  BY <1>1, <1>3 DEF Holds
<1>6. stack[m + i] \in Values
  BY <1>4, ElementFacts
<1>7. QED
  BY <1>4, <1>5, <1>6

\* Appending is concatenating one value.
LEMMA AppendConcat ==
  ASSUME NEW S, NEW s \in Seq(S), NEW x \in S
  PROVE  Append(s, x) = s \o <<x>>
OBVIOUS

\* One value on both.
LEMMA HoldsAppend ==
  ASSUME NEW stack \in Seq(Values), NEW base \in Seq(Types), NEW ts \in Seq(Types),
         NEW x \in Values, NEW t \in Types, Match(x, t), Holds(stack, base, ts)
  PROVE  Holds(stack \o <<x>>, base, Append(ts, t))
<1>1. PICK vals, types : vals = <<x>> /\ types = <<t>>
  OBVIOUS
<1>2. /\ vals \in Seq(Values) /\ types \in Seq(Types) /\ Len(vals) = 1
      /\ Len(types) = 1 /\ vals[1] = x /\ types[1] = t
  BY <1>1
<1>3. Shaped(vals, types)
  BY <1>2 DEF Shaped
<1>4. Holds(stack \o vals, base, ts \o types)
  BY <1>2, <1>3, HoldsPush
<1>5. ts \o types = Append(ts, t)
  BY <1>1
<1>6. QED
  BY <1>1, <1>4, <1>5

\* Writing a value of the same type.
LEMMA HoldsWrite ==
  ASSUME NEW stack \in Seq(Values), NEW base \in Seq(Types), NEW ts \in Seq(Types),
         NEW n \in 1 .. Len(ts), NEW x \in Values, Match(x, ts[Len(ts) - n + 1]),
         Holds(stack, base, ts)
  PROVE  /\ Written(stack, Len(stack) - n + 1, x) \in Seq(Values)
         /\ Holds(Written(stack, Len(stack) - n + 1, x), base, ts)
<1>1. PICK m, k \in Nat : m = Len(base) /\ k = Len(ts)
  OBVIOUS
<1>2. Len(stack) = m + k
  BY <1>1 DEF Holds
<1>3. PICK i \in 1 .. k : i = k - n + 1
  <2>1. n \in 1 .. k
    BY <1>1
  <2>2. k - n + 1 \in 1 .. k
    BY <2>1
  <2>3. QED
    BY <2>2
<1>4. Len(stack) - n + 1 = m + i /\ Len(ts) - n + 1 = i
  BY <1>1, <1>2, <1>3
<1>5. PICK p, w : p = m + i /\ w = Written(stack, p, x)
  OBVIOUS
<1>6. /\ w \in Seq(Values) /\ Len(w) = m + k
      /\ \A j \in 1 .. m + k : w[j] = IF j = m + i THEN x ELSE stack[j]
  <2>1. /\ w \in Seq(Values) /\ Len(w) = Len(stack)
        /\ \A j \in 1 .. Len(stack) : w[j] = IF j = p THEN x ELSE stack[j]
    <3>1. /\ Written(stack, p, x) \in Seq(Values)
          /\ Len(Written(stack, p, x)) = Len(stack)
          /\ \A j \in 1 .. Len(stack) :
               Written(stack, p, x)[j] = IF j = p THEN x ELSE stack[j]
      BY WriteOK
    <3>2. QED
      BY <1>5, <3>1
  <2>2. QED
    BY <1>2, <1>5, <2>1
<1>7. \A j \in 1 .. m : Match(w[j], base[j])
  <2>1. \A j \in 1 .. m : j \in 1 .. m + k /\ j # m + i
    BY <1>3
  <2>2. \A j \in 1 .. m : Match(stack[j], base[j])
    BY <1>1 DEF Holds
  <2>3. QED
    BY <1>6, <2>1, <2>2
<1>8. ASSUME NEW j \in 1 .. k PROVE Match(w[m + j], ts[j])
  <2>1. m + j \in 1 .. m + k /\ (m + j = m + i <=> j = i)
    OBVIOUS
  <2>2. Match(stack[m + j], ts[j])
    BY <1>1 DEF Holds
  <2>3. CASE j = i
    <3>1. w[m + j] = x /\ Match(x, ts[i])
      BY <1>4, <1>6, <2>1, <2>3
    <3>2. QED
      BY <2>3, <3>1
  <2>4. CASE j # i
    <3>1. w[m + j] = stack[m + j]
      BY <1>6, <2>1, <2>4
    <3>2. QED
      BY <2>2, <3>1
  <2>5. QED
    BY <2>3, <2>4
<1>9. Holds(w, base, ts)
  BY <1>1, <1>6, <1>7, <1>8 DEF Holds
<1>10. QED
  BY <1>4, <1>5, <1>6, <1>9

\* The whole stack at once.
LEMMA HoldsWhole ==
  ASSUME NEW stack \in Seq(Values), NEW base \in Seq(Types), NEW ts \in Seq(Types)
  PROVE  Holds(stack, base, ts) <=> Shaped(stack, base \o ts)
<1>1. PICK m, k \in Nat : m = Len(base) /\ k = Len(ts)
  OBVIOUS
<1>2. PICK all : all = base \o ts
  OBVIOUS
<1>3. /\ all \in Seq(Types) /\ Len(all) = m + k
      /\ \A i \in 1 .. m : all[i] = base[i]
      /\ \A i \in 1 .. k : all[m + i] = ts[i]
  <2>1. /\ all \in Seq(Types) /\ Len(all) = Len(base) + Len(ts)
        /\ \A i \in 1 .. Len(base) : all[i] = base[i]
        /\ \A i \in 1 .. Len(ts) : all[Len(base) + i] = ts[i]
    BY <1>2, ConcatFacts
  <2>2. QED
    BY <1>1, <2>1
<1>4. ASSUME Holds(stack, base, ts) PROVE Shaped(stack, all)
  <2>1. ASSUME NEW i \in 1 .. m + k PROVE Match(stack[i], all[i])
    <3>1. CASE i \in 1 .. m
      BY <1>1, <1>3, <1>4, <3>1 DEF Holds
    <3>2. CASE ~(i \in 1 .. m)
      <4>1. PICK e \in 1 .. k : i = m + e
        BY <3>2
      <4>2. Match(stack[m + e], ts[e])
        BY <1>1, <1>4 DEF Holds
      <4>3. QED
        BY <1>3, <4>1, <4>2
    <3>3. QED
      BY <3>1, <3>2
  <2>2. QED
    BY <1>1, <1>3, <1>4, <2>1 DEF Shaped, Holds
<1>5. ASSUME Shaped(stack, all) PROVE Holds(stack, base, ts)
  <2>1. /\ Len(stack) = m + k
        /\ \A i \in 1 .. m + k : Match(stack[i], all[i])
    BY <1>3, <1>5 DEF Shaped
  <2>2. \A i \in 1 .. m : Match(stack[i], base[i])
    <3>1. \A i \in 1 .. m : i \in 1 .. m + k
      OBVIOUS
    <3>2. QED
      BY <1>3, <2>1, <3>1
  <2>3. \A i \in 1 .. k : Match(stack[m + i], ts[i])
    <3>1. \A i \in 1 .. k : m + i \in 1 .. m + k
      OBVIOUS
    <3>2. QED
      BY <1>3, <2>1, <3>1
  <2>4. QED
    BY <1>1, <2>1, <2>2, <2>3 DEF Holds
<1>6. QED
  BY <1>2, <1>4, <1>5

\* A caller's part and the callee's.
LEMMA HoldsRegroup ==
  ASSUME NEW stack \in Seq(Values), NEW a \in Seq(Types), NEW b \in Seq(Types),
         NEW c \in Seq(Types)
  PROVE  Holds(stack, a \o b, c) <=> Holds(stack, a, b \o c)
<1>1. a \o b \in Seq(Types) /\ b \o c \in Seq(Types)
  BY ConcatFacts
<1>2. (a \o b) \o c = a \o (b \o c)
  OBVIOUS
<1>3. PICK ab, bc : ab = a \o b /\ bc = b \o c
  OBVIOUS
<1>4. /\ Holds(stack, ab, c) <=> Shaped(stack, ab \o c)
      /\ Holds(stack, a, bc) <=> Shaped(stack, a \o bc)
  <2>1. ab \in Seq(Types) /\ bc \in Seq(Types)
    BY <1>1, <1>3
  <2>2. QED
    BY <2>1, HoldsWhole
<1>5. ab \o c = a \o bc
  BY <1>2, <1>3
<1>6. QED
  BY <1>3, <1>4, <1>5

\* What was popped and what is left.
LEMMA PoppedRest ==
  ASSUME NEW ts \in Seq(Types), NEW n \in 0 .. Len(ts)
  PROVE  ts = Popped(ts, n) \o LastN(ts, n)
<1>1. PICK p, l : p = Popped(ts, n) /\ l = LastN(ts, n)
  OBVIOUS
<1>2. PICK m \in Nat : m = Len(ts) - n /\ Len(ts) = m + n
  OBVIOUS
<1>3. /\ p \in Seq(Types) /\ Len(p) = m /\ \A i \in 1 .. m : p[i] = ts[i]
  BY <1>1, <1>2, PoppedFacts
<1>4. /\ l \in Seq(Types) /\ Len(l) = n /\ \A i \in 1 .. n : l[i] = ts[m + i]
  BY <1>1, <1>2, LastNFacts
<1>5. PICK all : all = p \o l
  OBVIOUS
<1>6. /\ all \in Seq(Types) /\ Len(all) = m + n
      /\ \A i \in 1 .. m : all[i] = ts[i]
      /\ \A i \in 1 .. n : all[m + i] = ts[m + i]
  <2>1. /\ all \in Seq(Types) /\ Len(all) = Len(p) + Len(l)
        /\ \A i \in 1 .. Len(p) : all[i] = p[i]
        /\ \A i \in 1 .. Len(l) : all[Len(p) + i] = l[i]
    <3>1. p \in Seq(Types) /\ l \in Seq(Types)
      BY <1>3, <1>4
    <3>2. QED
      BY <1>5, <3>1, ConcatFacts
  <2>2. QED
    BY <1>3, <1>4, <2>1
<1>7. ASSUME NEW i \in 1 .. Len(ts) PROVE ts[i] = all[i]
  <2>1. CASE i \in 1 .. m
    BY <1>6, <2>1
  <2>2. CASE ~(i \in 1 .. m)
    <3>1. PICK e \in 1 .. n : i = m + e
      BY <1>2, <2>2
    <3>2. QED
      BY <1>6, <3>1
  <2>3. QED
    BY <2>1, <2>2
<1>8. ts = all
  BY <1>2, <1>6, <1>7, SeqEqual
<1>9. QED
  BY <1>1, <1>5, <1>8

\* The params of a callee go over to it.
LEMMA HoldsEnter ==
  ASSUME NEW stack \in Seq(Values), NEW base \in Seq(Types), NEW ts \in Seq(Types),
         NEW n \in 0 .. Len(ts), Holds(stack, base, ts)
  PROVE  /\ base \o Popped(ts, n) \in Seq(Types)
         /\ Holds(stack, base \o Popped(ts, n), LastN(ts, n))
<1>1. PICK p, l : p = Popped(ts, n) /\ l = LastN(ts, n)
  OBVIOUS
<1>2. p \in Seq(Types) /\ l \in Seq(Types)
  BY <1>1, PoppedFacts, LastNFacts
<1>3. ts = p \o l
  BY <1>1, PoppedRest
<1>4. Holds(stack, base, p \o l)
  BY <1>3
<1>5. Holds(stack, base \o p, l) /\ base \o p \in Seq(Types)
  BY <1>2, <1>4, HoldsRegroup, ConcatFacts
<1>6. QED
  BY <1>1, <1>5

\* The kept values of a branch.
LEMMA HoldsDropKeep ==
  ASSUME NEW stack \in Seq(Values), NEW base \in Seq(Types), NEW ts \in Seq(Types),
         NEW drop \in Nat, NEW keep \in {0, 1}, drop + keep <= Len(ts),
         Holds(stack, base, ts)
  PROVE  /\ drop + keep <= Len(stack)
         /\ DropKept(ts, drop, keep) \in Seq(Types)
         /\ Holds(DROP_KEEP(stack, drop, keep), base, DropKept(ts, drop, keep))
<1>1. PICK n \in Nat : n = drop + keep /\ n \in 0 .. Len(ts)
  OBVIOUS
<1>2. PICK low, rest : low = Popped(stack, n) /\ rest = Popped(ts, n)
  OBVIOUS
<1>3. /\ low \in Seq(Values) /\ rest \in Seq(Types) /\ Holds(low, base, rest)
  BY <1>1, <1>2, HoldsPop
<1>4. n <= Len(stack) /\ Len(stack) \in Nat
  BY <1>1 DEF Holds
<1>5. keep \in Nat
  OBVIOUS
<1>6. DropKept(ts, drop, keep) \in Seq(Types)
  BY <1>5, DropKeptFacts
<1>7. CASE keep = 0
  <2>1. DROP_KEEP(stack, drop, keep) = low
    BY <1>1, <1>2, <1>7 DEF DROP_KEEP, Popped
  <2>2. PICK l : l = LastN(ts, keep)
    OBVIOUS
  <2>3. l \in Seq(Types) /\ Len(l) = 0
    <3>1. keep \in 0 .. Len(ts)
      BY <1>7
    <3>2. QED
      BY <1>7, <2>2, <3>1, LastNFacts
  <2>4. rest \o l = rest
    <3>1. l = <<>>
      BY <2>3
    <3>2. QED
      BY <1>3, <3>1
  <2>5. DropKept(ts, drop, keep) = rest
    BY <1>1, <1>2, <2>2, <2>4 DEF DropKept
  <2>6. QED
    BY <1>1, <1>3, <1>4, <1>6, <2>1, <2>5
<1>8. CASE keep = 1
  <2>1. PICK x, t : x = stack[Len(stack)] /\ t = ts[Len(ts)]
    OBVIOUS
  <2>2. x \in Values /\ Match(x, t) /\ t \in Types
    <3>1. 1 \in 1 .. Len(ts) /\ Len(ts) \in 1 .. Len(ts)
      BY <1>1, <1>8
    <3>2. /\ stack[Len(stack) - 1 + 1] \in Values
          /\ Match(stack[Len(stack) - 1 + 1], ts[Len(ts) - 1 + 1])
      BY <3>1, HoldsPick
    <3>3. Len(stack) - 1 + 1 = Len(stack) /\ Len(ts) - 1 + 1 = Len(ts)
      BY <1>4
    <3>4. t \in Types
      BY <2>1, <3>1, ElementFacts
    <3>5. QED
      BY <2>1, <3>2, <3>3, <3>4
  <2>3. Holds(low \o <<x>>, base, Append(rest, t))
    BY <1>3, <2>2, HoldsAppend
  <2>4. DROP_KEEP(stack, drop, keep) = low \o <<x>>
    <3>1. Len(stack) - drop - 1 = Len(stack) - n
      BY <1>1, <1>4, <1>8
    <3>2. low = Truncate(stack, Len(stack) - drop - 1)
      BY <1>2, <3>1 DEF Popped
    <3>3. DROP_KEEP(stack, drop, keep) = Append(low, x)
      BY <1>8, <2>1, <3>2 DEF DROP_KEEP
    <3>4. Append(low, x) = low \o <<x>>
      <4>1. low \in Seq(Values) /\ x \in Values
        BY <1>3, <2>2
      <4>2. QED
        BY <4>1, AppendConcat
    <3>5. QED
      BY <3>3, <3>4
  <2>5. DropKept(ts, drop, keep) = Append(rest, t)
    <3>1. PICK l : l = LastN(ts, keep)
      OBVIOUS
    <3>2. keep \in 0 .. Len(ts)
      BY <1>1
    <3>3. /\ l \in Seq(Types) /\ Len(l) = keep
          /\ \A i \in 1 .. keep : l[i] = ts[Len(ts) - keep + i]
      BY <3>1, <3>2, LastNFacts
    <3>4. l[1] = t
      <4>1. Len(ts) - keep + 1 = Len(ts) /\ 1 \in 1 .. keep
        BY <1>8
      <4>2. QED
        BY <2>1, <3>3, <4>1
    <3>5. l = <<t>>
      BY <1>8, <3>3, <3>4
    <3>6. rest \o <<t>> = Append(rest, t)
      BY <1>3, <2>2
    <3>7. QED
      BY <1>1, <1>2, <3>1, <3>5, <3>6 DEF DropKept
  <2>6. QED
    BY <1>1, <1>4, <1>6, <2>3, <2>4, <2>5
<1>9. QED
  BY <1>7, <1>8

\* Zeroed locals.
LEMMA HoldsZeros ==
  ASSUME NEW stack \in Seq(Values), NEW base \in Seq(Types), NEW ts \in Seq(Types),
         NEW T \in Seq(Types), NEW a \in Nat, Len(T) = Len(ts) + a,
         Truncate(T, Len(ts)) = ts, NEW zeros, zeros = [i \in 1 .. a |-> "zero"],
         Holds(stack, base, ts)
  PROVE  Holds(stack \o zeros, base, T)
<1>1. a \in 0 .. Len(T) /\ Len(T) - a = Len(ts)
  OBVIOUS
<1>2. T = ts \o LastN(T, a)
  <2>1. T = Popped(T, a) \o LastN(T, a)
    BY <1>1, PoppedRest
  <2>2. Popped(T, a) = ts
    BY <1>1 DEF Popped
  <2>3. QED
    BY <2>1, <2>2
<1>3. PICK l : l = LastN(T, a)
  OBVIOUS
<1>4. l \in Seq(Types) /\ Len(l) = a
  BY <1>1, <1>3, LastNFacts
<1>5. /\ zeros \in Seq(Values) /\ Len(zeros) = a
      /\ \A i \in 1 .. a : zeros[i] = "zero"
  <2>1. "zero" \in Values
    BY DEF Values
  <2>2. QED
    BY <2>1
<1>6. Shaped(zeros, l)
  BY <1>4, <1>5, MatchFacts DEF Shaped
<1>7. Holds(stack \o zeros, base, ts \o l)
  BY <1>4, <1>5, <1>6, HoldsPush
<1>8. QED
  BY <1>2, <1>3, <1>7

-----------------------------------------------------------------------------
(* What the compiler recorded, read by the thread.                         *)

\* The constants have names of their own.
LEMMA ConstNames ==
  /\ \A t \in Types : ConstOp[t] \in {"i32_const", "i64_const", "f32_const", "f64_const"}
  /\ \A t, u \in Types : ConstOp[t] = ConstOp[u] => t = u
BY CompilerAssumption DEF ConstOp

Calling(ts, f) ==
  /\ f \in DOMAIN Funcs
  /\ Len(ts) >= Len(Funcs[f].params)
  /\ LastN(ts, Len(Funcs[f].params)) = Funcs[f].params

CallingIndirect(ts, f) ==
  /\ f \in DOMAIN Funcs
  /\ Len(ts) >= Len(Funcs[f].params) + 1
  /\ LastN(Popped(ts, 1), Len(Funcs[f].params)) = Funcs[f].params

\* The names of the instructions that are not opcodes of the table.
OtherNames == {"alloca", "call", "call_host", "call_indirect", "drop",
               "drop_keep", "get_global", "get_local", "select",
               "set_global", "set_local", "tee_local"}

\* The other instructions are neither numeric opcodes nor constants.
LEMMA EffectNames ==
  ASSUME NEW op \in OtherNames
  PROVE  op \notin Opcodes /\ \A t \in Types : op # ConstOp[t]
<1>1. \A o \in Opcodes : o \notin OtherNames
  BY OpcodeNames DEF OtherNames
<1>2. \A t \in Types : ConstOp[t] \notin OtherNames
  BY ConstNames DEF OtherNames
<1>3. QED
  BY <1>1, <1>2

\* The effects of the instructions.
LEMMA ConstEffect ==
  ASSUME NEW t \in Types, NEW op, op = ConstOp[t], NEW a, NEW b, NEW ts, NEW T,
         Effect(op, a, b, ts, T)
  PROVE  T = Append(ts, t)
<1>1. op \in {"i32_const", "i64_const", "f32_const", "f64_const"}
  BY ConstNames
<1>2. op \notin Opcodes
  BY <1>1, OpcodeNames
<1>3. PICK u \in Types : op = ConstOp[u] /\ T = Append(ts, u)
  BY <1>1, <1>2 DEF Effect
<1>4. QED
  BY <1>3, ConstNames

\* What typing says of a numeric opcode.
LEMMA OpcodeEffect ==
  ASSUME NEW op \in Opcodes, NEW a, NEW b, NEW ts, NEW T, Effect(op, a, b, ts, T)
  PROVE  /\ Len(ts) >= Len(OpcodeTable[op].params)
         /\ T = Popped(ts, Len(OpcodeTable[op].params)) \o OpcodeTable[op].result
<1>1. op \notin OtherNames /\ \A t \in Types : op # ConstOp[t]
  BY OpcodeNames, ConstNames DEF OtherNames
<1>2. QED
  BY <1>1 DEF Effect, OtherNames

\* What typing says of select.
LEMMA SelectEffect ==
  ASSUME NEW op, op = "select", NEW a, NEW b, NEW ts, NEW T, Effect(op, a, b, ts, T)
  PROVE  Len(ts) >= 3 /\ ts[Len(ts) - 1] = ts[Len(ts) - 2] /\ T = Popped(ts, 2)
<1>1. op \notin Opcodes /\ \A t \in Types : op # ConstOp[t]
  BY EffectNames DEF OtherNames
<1>2. QED
  BY <1>1 DEF Effect

\* What typing says of get_global.
LEMMA GlobalEffect ==
  ASSUME NEW op, op = "get_global", NEW a, NEW b, NEW ts, NEW T,
         Effect(op, a, b, ts, T)
  PROVE  a \in DOMAIN Globals /\ T = Append(ts, Globals[a].type)
<1>1. op \notin Opcodes /\ \A t \in Types : op # ConstOp[t]
  BY EffectNames DEF OtherNames
<1>2. QED
  BY <1>1 DEF Effect

\* What typing says of set_global and drop.
LEMMA PopEffect ==
  ASSUME NEW op, op \in {"set_global", "drop"}, NEW a, NEW b, NEW ts, NEW T,
         Effect(op, a, b, ts, T)
  PROVE  Len(ts) >= 1 /\ T = Popped(ts, 1)
<1>1. op \notin Opcodes /\ \A t \in Types : op # ConstOp[t]
  BY EffectNames DEF OtherNames
<1>2. QED
  BY <1>1 DEF Effect

\* What typing says of get_local.
LEMMA GetLocalEffect ==
  ASSUME NEW op, op = "get_local", NEW a, NEW b, NEW ts, NEW T,
         Effect(op, a, b, ts, T)
  PROVE  a \in 1 .. Len(ts) /\ T = Append(ts, ts[Len(ts) - a + 1])
<1>1. op \notin Opcodes /\ \A t \in Types : op # ConstOp[t]
  BY EffectNames DEF OtherNames
<1>2. QED
  BY <1>1 DEF Effect

\* What typing says of set_local.
LEMMA SetLocalEffect ==
  ASSUME NEW op, op = "set_local", NEW a, NEW b, NEW ts, NEW T,
         Effect(op, a, b, ts, T)
  PROVE  a \in 1 .. Len(ts) - 1 /\ ts[Len(ts) - a] = ts[Len(ts)] /\ T = Popped(ts, 1)
<1>1. op \notin Opcodes /\ \A t \in Types : op # ConstOp[t]
  BY EffectNames DEF OtherNames
<1>2. QED
  BY <1>1 DEF Effect

\* What typing says of tee_local.
LEMMA TeeLocalEffect ==
  ASSUME NEW op, op = "tee_local", NEW a, NEW b, NEW ts, NEW T,
         Effect(op, a, b, ts, T)
  PROVE  a \in 1 .. Len(ts) /\ ts[Len(ts) - a + 1] = ts[Len(ts)] /\ T = ts
<1>1. op \notin Opcodes /\ \A t \in Types : op # ConstOp[t]
  BY EffectNames DEF OtherNames
<1>2. QED
  BY <1>1 DEF Effect

\* What typing says of drop_keep.
LEMMA DropKeepEffect ==
  ASSUME NEW op, op = "drop_keep", NEW a, NEW b, NEW ts, NEW T,
         Effect(op, a, b, ts, T)
  PROVE  b \in {0, 1} /\ Len(ts) >= a + b /\ T = DropKept(ts, a, b)
<1>1. op \notin Opcodes /\ \A t \in Types : op # ConstOp[t]
  BY EffectNames DEF OtherNames
<1>2. QED
  BY <1>1 DEF Effect

\* What typing says of alloca.
LEMMA AllocaEffect ==
  ASSUME NEW op, op = "alloca", NEW a, NEW b, NEW ts, NEW T,
         Effect(op, a, b, ts, T)
  PROVE  Len(T) = Len(ts) + a /\ Truncate(T, Len(ts)) = ts
<1>1. op \notin Opcodes /\ \A t \in Types : op # ConstOp[t]
  BY EffectNames DEF OtherNames
<1>2. QED
  BY <1>1 DEF Effect

\* What typing says of call and call_host.
LEMMA CallEffect ==
  ASSUME NEW op, op \in {"call", "call_host"}, NEW a, NEW b, NEW ts, NEW T,
         Effect(op, a, b, ts, T)
  PROVE  /\ Calling(ts, a)
         /\ T = Popped(ts, Len(Funcs[a].params)) \o Funcs[a].results
<1>1. op \notin Opcodes /\ \A t \in Types : op # ConstOp[t]
  BY EffectNames DEF OtherNames
<1>2. QED
  BY <1>1 DEF Effect, Calling

\* What typing says of call_indirect.
LEMMA IndirectEffect ==
  ASSUME NEW op, op = "call_indirect", NEW a, NEW b, NEW ts, NEW T,
         Effect(op, a, b, ts, T)
  PROVE  /\ CallingIndirect(ts, a)
         /\ T = Popped(ts, Len(Funcs[a].params) + 1) \o Funcs[a].results
<1>1. op \notin Opcodes /\ \A t \in Types : op # ConstOp[t]
  BY EffectNames DEF OtherNames
<1>2. QED
  BY <1>1 DEF Effect, CallingIndirect

\* A module that was loaded without using an unchecked condition.
Loaded == CInv /\ status = "loaded" /\ unchecked = {}

\* What the inductive invariant of the compiler says once the module is loaded.
LEMMA LoadedFacts ==
  ASSUME Loaded
  PROVE  /\ current_func = 0 /\ label_stack = <<>> /\ next_func = Len(Funcs) + 1
         /\ istream \in Seq(Cells) /\ Len(typing) = Len(istream)
         /\ Len(istream) \in Nat
         /\ \A c \in 1 .. Len(istream) : typing[c] \in Seq(Types \cup {ANY})
         /\ \A c \in 1 .. Len(istream) : Live(typing[c]) => typing[c] \in Seq(Types)
         /\ \A c \in 1 .. Len(istream) : Flow(c)
         /\ EntriesTyped
<1>1. IInv /\ FInv /\ WInv /\ TInv /\ status = "loaded" /\ unchecked = {}
  BY DEF Loaded, CInv
<1>2. current_func = 0
  BY <1>1 DEF FInv, BodiesRead
<1>3. label_stack = <<>> /\ istream \in Seq(Cells)
  BY <1>1, <1>2 DEF FInv
<1>4. next_func = Len(Funcs) + 1 /\ Len(typing) = Len(istream)
      /\ typing \in Seq(Seq(Types \cup {ANY}))
  BY <1>1 DEF WInv
<1>5. ASSUME NEW c \in 1 .. Len(istream)
      PROVE  /\ typing[c] \in Seq(Types \cup {ANY})
             /\ Live(typing[c]) => typing[c] \in Seq(Types)
  <2>1. typing[c] \in Seq(Types \cup {ANY})
    BY <1>4, ElementFacts
  <2>2. QED
    BY <2>1, LiveTypes
<1>6. (\A c \in 1 .. Len(istream) : Flow(c)) /\ EntriesTyped
  BY <1>1 DEF TInv
<1>7. Len(istream) \in Nat
  BY <1>3
<1>8. QED
  BY <1>2, <1>3, <1>4, <1>5, <1>6, <1>7

\* No offset leads past the end of a loaded module with types that are live.
LEMMA Arrives ==
  ASSUME Loaded, NEW t, NEW T, At(t, T), Live(T)
  PROVE  /\ t \in 1 .. Len(istream) /\ istream[t].op \notin {"data", "entry"}
         /\ typing[t] = T
<1>1. Len(istream) \in Nat /\ current_func = 0
  BY LoadedFacts
<1>2. Leads(istream, t) /\ TypesAt(t) = T
  BY DEF At
<1>3. t \in 1 .. Len(istream) + 1
  BY <1>2 DEF Leads
<1>4. ~Live(<<ANY>>)
  <2>1. Len(<<ANY>>) = 1 /\ <<ANY>>[1] = ANY
    OBVIOUS
  <2>2. QED
    BY <2>1 DEF Live
<1>5. NextTypes = <<ANY>>
  BY <1>1 DEF NextTypes
<1>6. t <= Len(istream)
  BY <1>2, <1>4, <1>5 DEF TypesAt
<1>7. QED
  BY <1>1, <1>2, <1>3, <1>6 DEF Leads, TypesAt

\* Nor is a branch of it without target.
LEMMA LoadedGoes ==
  ASSUME Loaded, NEW c \in 1 .. Len(istream), istream[c].op \in LabelOps, NEW T,
         Goes(c, T)
  PROVE  Reaches(c, istream[c].target, T)
<1>1. label_stack = <<>> /\ Owned(istream, label_stack, depth_fixups)
  BY LoadedFacts DEF Loaded, CInv, FInv
<1>2. Len(label_stack) = 0
  BY <1>1
<1>3. ~Dangles(istream[c])
  BY <1>1, <1>2 DEF Owned
<1>4. istream[c].target # INVALID
  BY <1>3 DEF Dangles
<1>5. QED
  BY <1>4 DEF Goes

\* An instruction that flows to the next of its function stays in it.
LEMMA SameIn ==
  ASSUME NEW f, NEW c, NEW t, In(f, c), Same(c, t)
  PROVE  In(f, t)
BY DEF In, Same

\* Where a function starts.
LEMMA Starting ==
  ASSUME Loaded, NEW f \in DOMAIN Funcs, f > NumImports
  PROVE  /\ func_offset[f] \in 1 .. Len(istream)
         /\ istream[func_offset[f]].op \notin {"data", "entry"}
         /\ typing[func_offset[f]] = Funcs[f].params
         /\ Live(Funcs[f].params)
         /\ In(f, func_offset[f])
<1>1. next_func = Len(Funcs) + 1 /\ EntriesTyped
  BY LoadedFacts
<1>2. /\ \A g \in DOMAIN Funcs : g > NumImports /\ g < next_func =>
           func_offset[g] # INVALID
      /\ func_offset \in [DOMAIN Funcs -> Nat]
  BY DEF Loaded, CInv, FInv, BodiesRead, Linked
<1>3. f < next_func
  <2>1. DOMAIN Funcs = 1 .. Len(Funcs) /\ Len(Funcs) \in Nat
    BY CompilerAssumption
  <2>2. QED
    BY <1>1, <2>1
<1>4. func_offset[f] # INVALID
  BY <1>2, <1>3
<1>5. At(func_offset[f], Funcs[f].params)
  BY <1>1, <1>4 DEF EntriesTyped
<1>6. Live(Funcs[f].params)
  BY FuncFacts, TypesLive
<1>7. In(f, func_offset[f])
  <2>1. func_offset[f] \in Nat
    BY <1>2
  <2>2. QED
    BY <1>4, <2>1 DEF In
<1>8. QED
  BY <1>5, <1>6, <1>7, Arrives

-----------------------------------------------------------------------------
(* The running thread.                                                     *)

\* A return offset on the call stack.
Caller(r) == ReturnsFromCall(r) /\ Live(typing[r - 1])

Frames(calls) == [k \in 1 .. Len(calls) |-> FrameBelow(calls[k])]

Base(calls) == FlattenSeq(Frames(calls))

\* The function at p leaves the results res.
Returning(p, res) == \E g \in DOMAIN Funcs : In(g, p) /\ Funcs[g].results = res

\* Where each activation is, and what it has to leave for the one below.
Position(p, calls, k) == IF k <= Len(calls) THEN calls[k] - 1 ELSE p

Wanted(calls, k) ==
  IF k = 1 THEN Funcs[run_func].results
  ELSE Funcs[istream[calls[k - 1] - 1].a].results

Owners(p, calls) ==
  \A k \in 1 .. Len(calls) + 1 : Returning(Position(p, calls, k), Wanted(calls, k))

Callers(calls) == \A k \in 1 .. Len(calls) : Caller(calls[k])

RunningAt(p, stack, calls) ==
  /\ p \in 1 .. Len(istream)
  /\ istream[p].op \notin {"data", "entry"}
  /\ Live(typing[p])
  /\ Callers(calls)
  /\ Owners(p, calls)
  /\ Holds(stack, Base(calls), typing[p])

Running == RunningAt(pc, value_stack, call_stack)

\* An invariant of the thread of a checked module.
RInv ==
  unchecked = {} =>
    /\ mode \in {"idle", "running"}
    /\ mode = "running" => Running
    /\ result = "ok" /\ mode = "idle" /\ run_func # 0 =>
         Shaped(results, Funcs[run_func].results)

\* What a caller keeps, and where it goes on.
LEMMA CallerFacts ==
  ASSUME Loaded, NEW r \in Nat, Caller(r)
  PROVE  /\ r - 1 \in 1 .. Len(istream)
         /\ istream[r - 1].a \in DOMAIN Funcs
         /\ FrameBelow(r) \in Seq(Types)
         /\ Reaches(r - 1, r, FrameBelow(r) \o Funcs[istream[r - 1].a].results)
         /\ FrameBelow(r) \o Funcs[istream[r - 1].a].results \in Seq(Types)
<1>1. PICK c : c = r - 1
  OBVIOUS
<1>2. c \in 1 .. Len(istream) /\ istream[c].op \in {"call", "call_indirect"}
      /\ Live(typing[c])
  <2>1. istream \in Seq(Cells)
    BY LoadedFacts
  <2>2. QED
    BY <1>1, <2>1 DEF Caller, ReturnsFromCall
<1>3. c + 1 = r /\ c \in Nat
  BY <1>1, <1>2
<1>4. PICK ts : ts = typing[c]
  OBVIOUS
<1>5. ts \in Seq(Types) /\ Flow(c)
  BY <1>2, <1>4, LoadedFacts
<1>6. Falls(c, ts)
  BY <1>2, <1>4, <1>5 DEF Flow, Straight
<1>7. PICK T \in Seq(Types) :
        /\ Effect(istream[c].op, istream[c].a, istream[c].b, ts, T)
        /\ Reaches(c, c + 1, T)
  BY <1>6 DEF Falls
<1>8. PICK a, d, n : /\ a = istream[c].a
                     /\ d = (IF istream[c].op = "call_indirect" THEN 1 ELSE 0)
                     /\ n = Len(Funcs[a].params) + d
  OBVIOUS
<1>9. a \in DOMAIN Funcs /\ n <= Len(ts) /\ T = Popped(ts, n) \o Funcs[a].results
  <2>1. PICK op : op = istream[c].op
    OBVIOUS
  <2>2. Effect(op, a, istream[c].b, ts, T)
    BY <1>7, <1>8, <2>1
  <2>3. CASE op = "call"
    <3>1. Calling(ts, a) /\ T = Popped(ts, Len(Funcs[a].params)) \o Funcs[a].results
      <4>1. op \in {"call", "call_host"}
        BY <2>3
      <4>2. QED
        BY <2>2, <4>1, CallEffect
    <3>2. a \in DOMAIN Funcs /\ Len(ts) >= Len(Funcs[a].params)
      BY <3>1 DEF Calling
    <3>3. Len(Funcs[a].params) \in Nat /\ Len(ts) \in Nat
      BY <1>5, <3>2, FuncFacts
    <3>4. n = Len(Funcs[a].params)
      BY <1>8, <2>1, <2>3, <3>3
    <3>5. QED
      BY <3>1, <3>2, <3>3, <3>4
  <2>4. CASE op = "call_indirect"
    <3>1. /\ CallingIndirect(ts, a)
          /\ T = Popped(ts, Len(Funcs[a].params) + 1) \o Funcs[a].results
      BY <2>2, <2>4, IndirectEffect
    <3>2. a \in DOMAIN Funcs /\ Len(ts) >= Len(Funcs[a].params) + 1
      BY <3>1 DEF CallingIndirect
    <3>3. Len(Funcs[a].params) \in Nat /\ Len(ts) \in Nat
      BY <1>5, <3>2, FuncFacts
    <3>4. n = Len(Funcs[a].params) + 1
      BY <1>8, <2>1, <2>4
    <3>5. QED
      BY <3>1, <3>2, <3>3, <3>4
  <2>5. QED
    BY <1>2, <2>1, <2>3, <2>4
<1>10. n \in 0 .. Len(ts)
  <2>1. Len(Funcs[a].params) \in Nat /\ Len(ts) \in Nat
    BY <1>5, <1>9, FuncFacts
  <2>2. d \in {0, 1}
    BY <1>8
  <2>3. n = Len(Funcs[a].params) + d /\ n <= Len(ts)
    BY <1>8, <1>9
  <2>4. QED
    BY <2>1, <2>2, <2>3
<1>11. FrameBelow(r) = Popped(ts, n)
  BY <1>1, <1>4, <1>8 DEF FrameBelow, Popped
<1>12. Popped(ts, n) \in Seq(Types)
  BY <1>5, <1>10, PoppedFacts
<1>13. QED
  BY <1>1, <1>2, <1>3, <1>7, <1>8, <1>9, <1>11, <1>12

\* The part of the stack that belongs to the callers.
LEMMA BaseFacts ==
  ASSUME Loaded, NEW calls \in Seq(Nat), Callers(calls)
  PROVE  /\ Frames(calls) \in Seq(Seq(Types))
         /\ Len(Frames(calls)) = Len(calls)
         /\ \A k \in 1 .. Len(calls) : Frames(calls)[k] = FrameBelow(calls[k])
         /\ Base(calls) \in Seq(Types)
<1>1. PICK n \in Nat : n = Len(calls)
  OBVIOUS
<1>2. \A k \in 1 .. n : FrameBelow(calls[k]) \in Seq(Types)
  <2>1. \A k \in 1 .. n : calls[k] \in Nat /\ Caller(calls[k])
    BY <1>1, ElementFacts DEF Callers
  <2>2. QED
    BY <2>1, CallerFacts
<1>3. PICK fs : fs = Frames(calls)
  OBVIOUS
<1>4. fs = [k \in 1 .. n |-> FrameBelow(calls[k])]
  BY <1>1, <1>3 DEF Frames
<1>5. fs \in [1 .. n -> Seq(Types)] /\ \A k \in 1 .. n : fs[k] = FrameBelow(calls[k])
  BY <1>2, <1>4
<1>6. fs \in Seq(Seq(Types)) /\ Len(fs) = n
  BY <1>5
<1>7. FlattenSeq(fs) \in Seq(Types)
  BY <1>6, FlattenTyped
<1>8. QED
  BY <1>1, <1>3, <1>5, <1>6, <1>7 DEF Base

\* One caller more.
LEMMA BaseGrows ==
  ASSUME Loaded, NEW few \in Seq(Nat), NEW more \in Seq(Nat), Callers(few),
         Len(more) = Len(few) + 1,
         \A i \in 1 .. Len(few) : more[i] = few[i],
         Caller(more[Len(few) + 1])
  PROVE  Callers(more) /\ Base(more) = Base(few) \o FrameBelow(more[Len(few) + 1])
<1>1. PICK n \in Nat : n = Len(few)
  OBVIOUS
<1>2. Len(more) = n + 1 /\ (\A i \in 1 .. n : more[i] = few[i]) /\ Caller(more[n + 1])
  BY <1>1
<1>3. Callers(more)
  <2>1. ASSUME NEW k \in 1 .. n + 1 PROVE Caller(more[k])
    <3>1. CASE k = n + 1
      BY <1>2, <3>1
    <3>2. CASE k \in 1 .. n
      BY <1>1, <1>2, <3>2 DEF Callers
    <3>3. QED
      BY <3>1, <3>2
  <2>2. QED
    BY <1>2, <2>1 DEF Callers
<1>4. PICK s, t, x : s = Frames(few) /\ t = Frames(more) /\ x = FrameBelow(more[n + 1])
  OBVIOUS
<1>5. s \in Seq(Seq(Types)) /\ Len(s) = n /\ \A k \in 1 .. n : s[k] = FrameBelow(few[k])
  BY <1>1, <1>4, BaseFacts
<1>6. /\ t \in Seq(Seq(Types)) /\ Len(t) = n + 1
      /\ \A k \in 1 .. n + 1 : t[k] = FrameBelow(more[k])
  BY <1>2, <1>3, <1>4, BaseFacts
<1>7. /\ Len(t) = Len(s) + 1 /\ t[Len(t)] = x
      /\ \A i \in 1 .. Len(s) : t[i] = s[i]
  <2>1. n + 1 \in 1 .. n + 1 /\ \A i \in 1 .. n : i \in 1 .. n + 1
    OBVIOUS
  <2>2. t[n + 1] = x
    BY <1>4, <1>6, <2>1
  <2>3. \A i \in 1 .. n : t[i] = s[i]
    BY <1>2, <1>5, <1>6, <2>1
  <2>4. QED
    BY <1>5, <1>6, <2>2, <2>3
<1>8. x \in Seq(Types)
  <2>1. more[n + 1] \in Nat
    BY <1>2, ElementFacts
  <2>2. QED
    BY <1>2, <1>4, <2>1, CallerFacts
<1>9. FlattenSeq(t) = FlattenSeq(s) \o x
  BY <1>5, <1>6, <1>7, <1>8, FlattenAppend
<1>10. QED
  BY <1>1, <1>3, <1>4, <1>9 DEF Base

-----------------------------------------------------------------------------
(* The steps of the running thread.                                        *)

\* What is recorded does not change while the thread runs.
LEMMA RunningKept ==
  ASSUME CodeKept, run_func' = run_func, NEW p, NEW stack, NEW calls,
         pc' = p, value_stack' = stack, call_stack' = calls,
         RunningAt(p, stack, calls)
  PROVE  Running'
<1>1. UNCHANGED <<istream, typing, func_offset, run_func>>
  BY DEF CodeKept
<1>2. \A r : FrameBelow(r)' = FrameBelow(r)
  BY <1>1 DEF FrameBelow
<1>3. \A r : Caller(r) => Caller(r)'
  BY <1>1 DEF Caller, ReturnsFromCall
<1>4. Frames(calls)' = Frames(calls)
  BY <1>2 DEF Frames
<1>5. Base(calls)' = Base(calls)
  BY <1>4 DEF Base
<1>6. \A q, res : Returning(q, res) => Returning(q, res)'
  BY <1>1 DEF Returning, In
<1>7. \A k : Wanted(calls, k)' = Wanted(calls, k)
  BY <1>1 DEF Wanted
<1>8. Callers(calls)'
  BY <1>3 DEF Callers, RunningAt
<1>9. Owners(p, calls)'
  <2>1. Owners(p, calls)
    BY DEF RunningAt
  <2>2. \A k \in 1 .. Len(calls) + 1 :
          Returning(Position(p, calls, k), Wanted(calls, k))'
    BY <1>6, <1>7, <2>1 DEF Owners, Position
  <2>3. QED
    BY <1>7, <2>2 DEF Owners, Position
<1>10. /\ p \in 1 .. Len(istream) /\ istream[p].op \notin {"data", "entry"}
       /\ Live(typing[p]) /\ Holds(stack, Base(calls), typing[p])
  BY DEF RunningAt
<1>11. QED
  BY <1>1, <1>5, <1>8, <1>9, <1>10 DEF Running, RunningAt, Callers, Owners,
     Position, Holds

\* To the next instruction of the same function.
LEMMA Advance ==
  ASSUME Loaded, NEW p \in Nat, NEW calls \in Seq(Nat), Callers(calls),
         Owners(p, calls), NEW t, NEW T \in Seq(Types), Reaches(p, t, T),
         NEW new, Holds(new, Base(calls), T)
  PROVE  RunningAt(t, new, calls)
<1>1. At(t, T) /\ Same(p, t) /\ Live(T)
  BY TypesLive DEF Reaches
<1>2. /\ t \in 1 .. Len(istream) /\ istream[t].op \notin {"data", "entry"}
      /\ typing[t] = T
  BY <1>1, Arrives
<1>3. \A res : Returning(p, res) => Returning(t, res)
  BY <1>1, SameIn DEF Returning
<1>4. Owners(t, calls)
  <2>2. ASSUME NEW k \in 1 .. Len(calls) + 1
        PROVE  Returning(Position(t, calls, k), Wanted(calls, k))
    <3>1. Returning(Position(p, calls, k), Wanted(calls, k))
      BY DEF Owners
    <3>2. CASE k <= Len(calls)
      BY <3>1, <3>2 DEF Position
    <3>3. CASE ~(k <= Len(calls))
      BY <1>3, <3>1, <3>3 DEF Position
    <3>4. QED
      BY <3>2, <3>3
  <2>3. QED
    BY <2>2 DEF Owners
<1>5. QED
  BY <1>1, <1>2, <1>4 DEF RunningAt

\* The thread at an instruction.
LEMMA RunningFacts ==
  ASSUME Loaded, ThreadOK, Running
  PROVE  /\ pc \in 1 .. Len(istream) /\ pc \in Nat
         /\ cell = istream[pc] /\ cell.op \notin {"data", "entry"} /\ cell \in Cells
         /\ Live(typing[pc]) /\ typing[pc] \in Seq(Types) /\ Flow(pc)
         /\ value_stack \in Seq(Values) /\ call_stack \in Seq(Nat)
         /\ Callers(call_stack) /\ Owners(pc, call_stack)
         /\ Base(call_stack) \in Seq(Types)
         /\ Holds(value_stack, Base(call_stack), typing[pc])
         /\ Len(value_stack) \in Nat /\ Len(typing[pc]) \in Nat
         /\ Len(typing[pc]) <= Len(value_stack)
         /\ RunningAt(pc, value_stack, call_stack)
<1>1. /\ pc \in 1 .. Len(istream) /\ istream[pc].op \notin {"data", "entry"}
      /\ Live(typing[pc]) /\ Callers(call_stack) /\ Owners(pc, call_stack)
      /\ Holds(value_stack, Base(call_stack), typing[pc])
      /\ RunningAt(pc, value_stack, call_stack)
  BY DEF Running, RunningAt
<1>2. value_stack \in Seq(Values) /\ call_stack \in Seq(Nat)
  BY DEF ThreadOK
<1>3. Base(call_stack) \in Seq(Types)
  BY <1>1, <1>2, BaseFacts
<1>4. typing[pc] \in Seq(Types) /\ Flow(pc) /\ istream \in Seq(Cells)
  BY <1>1, LoadedFacts
<1>5. istream[pc] \in Cells
  BY <1>1, <1>4, ElementFacts
<1>6. Len(typing[pc]) <= Len(value_stack)
  <2>1. PICK ts, base : ts = typing[pc] /\ base = Base(call_stack)
    OBVIOUS
  <2>2. Len(value_stack) = Len(base) + Len(ts)
    BY <1>1, <2>1 DEF Holds
  <2>3. Len(base) \in Nat /\ Len(ts) \in Nat
    BY <1>3, <1>4, <2>1
  <2>4. Len(ts) <= Len(value_stack)
    BY <2>2, <2>3
  <2>5. QED
    BY <2>1, <2>4
<1>7. QED
  BY <1>1, <1>2, <1>3, <1>4, <1>5, <1>6 DEF cell

\* A trap.
LEMMA TrapTyped ==
  ASSUME NEW type \in Traps, TRAP(type)
  PROVE  RInv'
<1>1. mode' = "idle" /\ result' = type /\ type # "ok"
  BY DEF TRAP, EndRun, Traps
<1>2. QED
  BY <1>1 DEF RInv

\* Going on in the same function.
LEMMA MoveTyped ==
  ASSUME Loaded, ThreadOK, Running, NEW stack, NEW t, Moves(stack, t),
         NEW T \in Seq(Types), Reaches(pc, t, T),
         Holds(stack, Base(call_stack), T)
  PROVE  RInv'
<1>1. /\ pc \in Nat /\ call_stack \in Seq(Nat)
      /\ Callers(call_stack) /\ Owners(pc, call_stack)
  BY RunningFacts
<1>2. RunningAt(t, stack, call_stack)
  BY <1>1, Advance
<1>3. /\ mode' = "running" /\ value_stack' = stack /\ pc' = t
      /\ call_stack' = call_stack /\ run_func' = run_func /\ CodeKept
  BY DEF Moves
<1>4. Running'
  BY <1>2, <1>3, RunningKept
<1>5. QED
  BY <1>3, <1>4 DEF RInv

\* PUSH.
LEMMA PushContinues ==
  ASSUME Loaded, ThreadOK, Running, mode = "running", NEW stack,
         NEW types,
         PushAndContinue(stack, types),
         NEW T \in Seq(Types), Reaches(pc, pc + 1, T),
         Holds(stack \o types, Base(call_stack), T)
  PROVE  RInv'
<1>1. CASE types = <<>> \/ CHECK_STACK(stack)
  <2>1. PICK all : all = stack \o types
    OBVIOUS
  <2>2. Continue(all, pc + 1)
    BY <1>1, <2>1 DEF PushAndContinue
  <2>3. Moves(all, pc + 1)
    BY <2>2, ContinueMoves
  <2>4. Holds(all, Base(call_stack), T)
    BY <2>1
  <2>5. QED
    BY <2>3, <2>4, MoveTyped
<1>2. CASE ~(types = <<>> \/ CHECK_STACK(stack))
  <2>1. TRAP("value_stack_exhausted")
    BY <1>2 DEF PushAndContinue
  <2>2. "value_stack_exhausted" \in Traps
    BY DEF Traps
  <2>3. QED
    BY <2>1, <2>2, TrapTyped
<1>3. QED
  BY <1>1, <1>2

\* An instruction that continues behind itself.
LEMMA FlowsOn ==
  ASSUME Loaded, ThreadOK, Running, cell.op \in Straight
  PROVE  \E T \in Seq(Types) :
           /\ Effect(cell.op, cell.a, cell.b, typing[pc], T)
           /\ Reaches(pc, pc + 1, T)
<1>1. cell = istream[pc] /\ Live(typing[pc]) /\ Flow(pc)
  BY RunningFacts
<1>2. Falls(pc, typing[pc])
  BY <1>1 DEF Flow
<1>3. QED
  BY <1>1, <1>2 DEF Falls

\* AtOp is about the instruction at pc.
LEMMA AtOpFacts ==
  ASSUME NEW ops, AtOp(ops)
  PROVE  mode = "running" /\ cell.op \in ops
BY DEF AtOp

\* Pop and Popped are the same.
LEMMA PopIsPopped ==
  ASSUME NEW n
  PROVE  Pop(n) = Popped(value_stack, n)
BY DEF Pop, Popped

\* What is under the values a thread pops.
LEMMA Pops ==
  ASSUME Loaded, ThreadOK, Running, NEW n \in Nat, n <= Len(typing[pc])
  PROVE  /\ Pop(n) \in Seq(Values) /\ Len(Pop(n)) = Len(value_stack) - n
         /\ Popped(typing[pc], n) \in Seq(Types)
         /\ Holds(Pop(n), Base(call_stack), Popped(typing[pc], n))
<1>1. /\ typing[pc] \in Seq(Types) /\ value_stack \in Seq(Values)
      /\ Base(call_stack) \in Seq(Types)
      /\ Holds(value_stack, Base(call_stack), typing[pc])
  BY RunningFacts
<1>2. PICK ts, base : ts = typing[pc] /\ base = Base(call_stack)
  OBVIOUS
<1>3. ts \in Seq(Types) /\ base \in Seq(Types) /\ Holds(value_stack, base, ts)
  BY <1>1, <1>2
<1>4. n \in 0 .. Len(ts)
  BY <1>2, <1>3
<1>5. /\ Popped(value_stack, n) \in Seq(Values)
      /\ Len(Popped(value_stack, n)) = Len(value_stack) - n
      /\ Popped(ts, n) \in Seq(Types)
      /\ Holds(Popped(value_stack, n), base, Popped(ts, n))
  BY <1>1, <1>3, <1>4, HoldsPop
<1>6. QED
  BY <1>2, <1>5, PopIsPopped

\* The value at a distance from the top of the thread's stack.
LEMMA Picks ==
  ASSUME Loaded, ThreadOK, Running, NEW n \in Nat, n >= 1, n <= Len(typing[pc])
  PROVE  /\ Pick(n) \in Values /\ n <= Len(value_stack)
         /\ typing[pc][Len(typing[pc]) - n + 1] \in Types
         /\ Match(Pick(n), typing[pc][Len(typing[pc]) - n + 1])
<1>1. /\ typing[pc] \in Seq(Types) /\ value_stack \in Seq(Values)
      /\ Base(call_stack) \in Seq(Types)
      /\ Holds(value_stack, Base(call_stack), typing[pc])
  BY RunningFacts
<1>2. PICK ts, base : ts = typing[pc] /\ base = Base(call_stack)
  OBVIOUS
<1>3. ts \in Seq(Types) /\ base \in Seq(Types) /\ Holds(value_stack, base, ts)
  BY <1>1, <1>2
<1>4. n \in 1 .. Len(ts) /\ Len(ts) - n + 1 \in 1 .. Len(ts)
  <2>1. PICK m \in Nat : m = Len(ts)
    BY <1>3
  <2>2. n >= 1 /\ n <= m
    BY <1>2, <2>1
  <2>3. n \in 1 .. m /\ m - n + 1 \in 1 .. m
    BY <2>2
  <2>4. QED
    BY <2>1, <2>3
<1>5. /\ n <= Len(value_stack)
      /\ value_stack[Len(value_stack) - n + 1] \in Values
      /\ Match(value_stack[Len(value_stack) - n + 1], ts[Len(ts) - n + 1])
  BY <1>1, <1>3, <1>4, HoldsPick
<1>6. ts[Len(ts) - n + 1] \in Types
  BY <1>3, <1>4, ElementFacts
<1>7. QED
  BY <1>2, <1>5, <1>6 DEF Pick

\* Popping one value less.
LEMMA PopLess ==
  ASSUME NEW ts \in Seq(Types), NEW n \in 1 .. Len(ts)
  PROVE  Popped(ts, n - 1) = Append(Popped(ts, n), ts[Len(ts) - n + 1])
<1>1. PICK m, k \in Nat : Len(ts) = m + 1 + k /\ n = k + 1
  <2>1. Len(ts) - n \in Nat /\ n - 1 \in Nat /\ Len(ts) = (Len(ts) - n) + 1 + (n - 1)
        /\ n = (n - 1) + 1
    OBVIOUS
  <2>2. QED
    BY <2>1
<1>2. /\ n \in 0 .. Len(ts) /\ k \in 0 .. Len(ts) /\ n - 1 = k
      /\ Len(ts) - n = m /\ Len(ts) - k = m + 1 /\ Len(ts) - n + 1 = m + 1
      /\ m + 1 \in 1 .. Len(ts)
  BY <1>1
<1>3. PICK p, q, t : p = Popped(ts, n) /\ q = Popped(ts, k) /\ t = ts[m + 1]
  OBVIOUS
<1>4. /\ p \in Seq(Types) /\ Len(p) = m /\ \A i \in 1 .. m : p[i] = ts[i]
  <2>1. /\ p \in Seq(Types) /\ Len(p) = Len(ts) - n
        /\ \A i \in 1 .. Len(ts) - n : p[i] = ts[i]
    BY <1>2, <1>3, PoppedFacts
  <2>2. QED
    BY <1>2, <2>1
<1>5. /\ q \in Seq(Types) /\ Len(q) = m + 1 /\ \A i \in 1 .. m + 1 : q[i] = ts[i]
  <2>1. /\ q \in Seq(Types) /\ Len(q) = Len(ts) - k
        /\ \A i \in 1 .. Len(ts) - k : q[i] = ts[i]
    BY <1>2, <1>3, PoppedFacts
  <2>2. QED
    BY <1>2, <2>1
<1>6. t \in Types
  BY <1>2, <1>3, ElementFacts
<1>7. PICK r : r = Append(p, t)
  OBVIOUS
<1>8. /\ r \in Seq(Types) /\ Len(r) = m + 1 /\ r[m + 1] = t
      /\ \A i \in 1 .. m : r[i] = p[i]
  <2>1. p \in Seq(Types) /\ Len(p) = m
    BY <1>4
  <2>2. QED
    BY <1>6, <1>7, <2>1
<1>9. ASSUME NEW i \in 1 .. m + 1 PROVE q[i] = r[i]
  <2>1. CASE i = m + 1
    BY <1>3, <1>5, <1>8, <2>1
  <2>2. CASE i \in 1 .. m
    BY <1>4, <1>5, <1>8, <2>2
  <2>3. QED
    BY <2>1, <2>2
<1>10. q = r
  <2>1. q \in Seq(Types) /\ r \in Seq(Types) /\ Len(q) = Len(r)
    BY <1>5, <1>8
  <2>2. \A i \in 1 .. Len(q) : q[i] = r[i]
    BY <1>5, <1>9
  <2>3. QED
    BY <2>1, <2>2, SeqEqual
<1>11. QED
  BY <1>2, <1>3, <1>7, <1>10

\* Instructions that push one value.
LEMMA RunsConst ==
  ASSUME Loaded, ThreadOK, Running, ExecConst
  PROVE  RInv'
<1>1. PICK t \in Types : AtOp({ConstOp[t]}) /\ PushAndContinue(value_stack, <<t>>)
  BY DEF ExecConst
<1>2. mode = "running" /\ cell.op = ConstOp[t] /\ cell.op \in Straight
  BY <1>1, AtOpFacts DEF Straight
<1>3. PICK T \in Seq(Types) : /\ Effect(cell.op, cell.a, cell.b, typing[pc], T)
                              /\ Reaches(pc, pc + 1, T)
  BY <1>2, FlowsOn
<1>4. T = Append(typing[pc], t)
  BY <1>2, <1>3, ConstEffect
<1>5. t \in Values /\ Match(t, t)
  BY MatchFacts DEF Values
<1>6. Holds(value_stack \o <<t>>, Base(call_stack), T)
  <2>1. /\ typing[pc] \in Seq(Types) /\ value_stack \in Seq(Values)
        /\ Base(call_stack) \in Seq(Types)
        /\ Holds(value_stack, Base(call_stack), typing[pc])
    BY RunningFacts
  <2>2. Holds(value_stack \o <<t>>, Base(call_stack), Append(typing[pc], t))
    BY <1>5, <2>1, HoldsAppend
  <2>3. QED
    BY <1>4, <2>2
<1>7. QED
  BY <1>1, <1>2, <1>3, <1>6, PushContinues

\* A numeric opcode keeps the run typed.
LEMMA RunsOpcode ==
  ASSUME Loaded, ThreadOK, Running, ExecOpcode
  PROVE  RInv'
<1>1. AtOp(Opcodes)
  BY DEF ExecOpcode
<1>2. mode = "running" /\ cell.op \in Opcodes /\ cell.op \in Straight
  BY <1>1, AtOpFacts DEF Straight
<1>3. PICK op : op = OpcodeTable[cell.op]
  OBVIOUS
<1>4. /\ op.params \in Seq(Types) /\ op.result \in Sigs /\ op.push \in Sigs
      /\ Len(op.push) = Len(op.result) /\ op.traps \subseteq Traps
      /\ PushesResults => op.push = op.result
  BY <1>2, <1>3, OpcodeFacts DEF PushesResults
<1>5. PICK n \in Nat : n = Len(op.params)
  BY <1>4
<1>6. CASE \E type \in op.traps : TRAP(type)
  BY <1>4, <1>6, TrapTyped
<1>7. CASE PushAndContinue(Pop(n), op.push)
  <2>1. PICK T \in Seq(Types) : /\ Effect(cell.op, cell.a, cell.b, typing[pc], T)
                                /\ Reaches(pc, pc + 1, T)
    BY <1>2, FlowsOn
  <2>2. n <= Len(typing[pc]) /\ T = Popped(typing[pc], n) \o op.result
    <3>1. /\ Len(typing[pc]) >= Len(OpcodeTable[cell.op].params)
          /\ T = Popped(typing[pc], Len(OpcodeTable[cell.op].params))
                   \o OpcodeTable[cell.op].result
      BY <1>2, <2>1, OpcodeEffect
    <3>2. Len(typing[pc]) \in Nat
      BY RunningFacts
    <3>3. QED
      BY <1>3, <1>5, <3>1, <3>2
  <2>3. /\ Pop(n) \in Seq(Values) /\ Popped(typing[pc], n) \in Seq(Types)
        /\ Holds(Pop(n), Base(call_stack), Popped(typing[pc], n))
    BY <2>2, Pops
  <2>4. PICK vals, types : vals = op.push /\ types = op.result
    OBVIOUS
  <2>5. /\ vals \in Seq(Values) /\ types \in Seq(Types)
        /\ Len(vals) = Len(types)
        /\ PushesResults => vals = types
    BY <1>4, <2>4, SigFacts, TypesAreValues
  <2>6. Shaped(vals, types)
    BY <2>5 DEF Shaped, Match
  <2>7. Holds(Pop(n) \o vals, Base(call_stack), Popped(typing[pc], n) \o types)
    <3>1. Base(call_stack) \in Seq(Types)
      BY RunningFacts
    <3>2. QED
      BY <2>3, <2>5, <2>6, <3>1, HoldsPush
  <2>8. Holds(Pop(n) \o op.push, Base(call_stack), T)
    BY <2>2, <2>4, <2>7
  <2>9. QED
    BY <1>2, <1>7, <2>1, <2>8, PushContinues
<1>8. QED
  BY <1>3, <1>5, <1>6, <1>7 DEF ExecOpcode

\* select keeps the run typed.
LEMMA RunsSelect ==
  ASSUME Loaded, ThreadOK, Running, ExecSelect
  PROVE  RInv'
<1>1. AtOp({"select"})
  BY DEF ExecSelect
<1>2. mode = "running" /\ cell.op = "select" /\ cell.op \in Straight
  BY <1>1, AtOpFacts DEF Straight
<1>3. PICK chosen \in {Pick(3), Pick(2)} : PushAndContinue(Pop(3), <<chosen>>)
  BY DEF ExecSelect
<1>4. PICK T \in Seq(Types) : /\ Effect(cell.op, cell.a, cell.b, typing[pc], T)
                              /\ Reaches(pc, pc + 1, T)
  BY <1>2, FlowsOn
<1>5. PICK ts : ts = typing[pc]
  OBVIOUS
<1>6. Len(ts) >= 3 /\ ts[Len(ts) - 1] = ts[Len(ts) - 2] /\ T = Popped(ts, 2)
  BY <1>2, <1>4, <1>5, SelectEffect
<1>7. ts \in Seq(Types) /\ Len(ts) \in Nat
  BY <1>5, RunningFacts
<1>8. PICK t : t = ts[Len(ts) - 3 + 1]
  OBVIOUS
<1>9. t = ts[Len(ts) - 2 + 1]
  <2>1. Len(ts) - 3 + 1 = Len(ts) - 2 /\ Len(ts) - 2 + 1 = Len(ts) - 1
    BY <1>7
  <2>2. QED
    BY <1>6, <1>8, <2>1
<1>10. 3 \in Nat /\ 2 \in Nat /\ 3 >= 1 /\ 2 >= 1 /\ 3 <= Len(ts) /\ 2 <= Len(ts)
  BY <1>6, <1>7
<1>11. /\ Pick(3) \in Values /\ t \in Types /\ Match(Pick(3), t)
       /\ Pick(2) \in Values /\ Match(Pick(2), t)
  BY <1>5, <1>8, <1>9, <1>10, Picks
<1>12. chosen \in Values /\ Match(chosen, t)
  BY <1>3, <1>11
<1>13. /\ Pop(3) \in Seq(Values) /\ Popped(ts, 3) \in Seq(Types)
       /\ Holds(Pop(3), Base(call_stack), Popped(ts, 3))
  BY <1>5, <1>10, Pops
<1>14. T = Append(Popped(ts, 3), t)
  <2>1. 3 \in 1 .. Len(ts) /\ 3 - 1 = 2
    BY <1>6, <1>7
  <2>2. Popped(ts, 3 - 1) = Append(Popped(ts, 3), ts[Len(ts) - 3 + 1])
    BY <1>7, <2>1, PopLess
  <2>3. QED
    BY <1>6, <1>8, <2>1, <2>2
<1>15. Holds(Pop(3) \o <<chosen>>, Base(call_stack), T)
  <2>1. Base(call_stack) \in Seq(Types)
    BY RunningFacts
  <2>2. PICK rest, low : rest = Popped(ts, 3) /\ low = Pop(3)
    OBVIOUS
  <2>3. rest \in Seq(Types) /\ low \in Seq(Values) /\ Holds(low, Base(call_stack), rest)
    BY <1>13, <2>2
  <2>4. Holds(low \o <<chosen>>, Base(call_stack), Append(rest, t))
    BY <1>11, <1>12, <2>1, <2>3, HoldsAppend
  <2>5. QED
    BY <1>14, <2>2, <2>4
<1>16. QED
  BY <1>2, <1>3, <1>4, <1>15, PushContinues

\* Branches.
LEMMA RunsBr ==
  ASSUME Loaded, ThreadOK, Running, ExecBr
  PROVE  RInv'
<1>1. AtOp({"br"}) /\ Continue(value_stack, cell.target)
  BY DEF ExecBr
<1>2. mode = "running" /\ cell.op = "br" /\ cell.op \in LabelOps
  BY <1>1, AtOpFacts DEF LabelOps
<1>3. /\ pc \in 1 .. Len(istream) /\ cell = istream[pc] /\ Live(typing[pc])
      /\ typing[pc] \in Seq(Types) /\ Flow(pc)
      /\ Holds(value_stack, Base(call_stack), typing[pc])
  BY RunningFacts
<1>4. Goes(pc, typing[pc])
  BY <1>2, <1>3 DEF Flow
<1>5. Reaches(pc, cell.target, typing[pc])
  BY <1>2, <1>3, <1>4, LoadedGoes
<1>6. Moves(value_stack, cell.target)
  BY <1>1, <1>2, ContinueMoves
<1>7. QED
  BY <1>3, <1>5, <1>6, MoveTyped

\* br_unless keeps the run typed.
LEMMA RunsBrUnless ==
  ASSUME Loaded, ThreadOK, Running, ExecBrUnless
  PROVE  RInv'
<1>1. AtOp({"br_unless"})
  BY DEF ExecBrUnless
<1>2. mode = "running" /\ cell.op = "br_unless" /\ cell.op \in LabelOps
  BY <1>1, AtOpFacts DEF LabelOps
<1>3. PICK offset \in {cell.target, pc + 1} : Continue(Pop(1), offset)
  BY DEF ExecBrUnless
<1>4. /\ pc \in 1 .. Len(istream) /\ cell = istream[pc] /\ Live(typing[pc])
      /\ Flow(pc) /\ Len(typing[pc]) \in Nat
  BY RunningFacts
<1>5. /\ Len(typing[pc]) >= 1 /\ Goes(pc, Popped(typing[pc], 1))
      /\ Reaches(pc, pc + 1, Popped(typing[pc], 1))
  BY <1>2, <1>4 DEF Flow
<1>6. Reaches(pc, cell.target, Popped(typing[pc], 1))
  BY <1>2, <1>4, <1>5, LoadedGoes
<1>7. Reaches(pc, offset, Popped(typing[pc], 1))
  BY <1>3, <1>5, <1>6
<1>8. 1 \in Nat /\ 1 <= Len(typing[pc])
  BY <1>4, <1>5
<1>9. /\ Popped(typing[pc], 1) \in Seq(Types)
      /\ Holds(Pop(1), Base(call_stack), Popped(typing[pc], 1))
  BY <1>8, Pops
<1>10. Moves(Pop(1), offset)
  BY <1>2, <1>3, ContinueMoves
<1>11. QED
  BY <1>7, <1>9, <1>10, MoveTyped

\* br_table keeps the run typed.
LEMMA RunsBrTable ==
  ASSUME Loaded, ThreadOK, Running, ExecBrTable
  PROVE  RInv'
<1>1. AtOp({"br_table"})
  BY DEF ExecBrTable
<1>2. mode = "running" /\ cell.op = "br_table"
  BY <1>1, AtOpFacts
<1>3. /\ pc \in 1 .. Len(istream) /\ cell = istream[pc] /\ Live(typing[pc])
      /\ Flow(pc) /\ Len(typing[pc]) \in Nat /\ cell \in Cells
  BY RunningFacts
<1>4. PICK key \in 0 .. cell.a :
        LET entry == istream[cell.target + key]
        IN  IF Len(Pop(1)) >= entry.a + entry.b
            THEN Continue(DROP_KEEP(Pop(1), entry.a, entry.b), entry.target)
            ELSE Abort("undefined") /\ UNCHANGED <<run_func, compilerVars>>
  BY DEF ExecBrTable
<1>5. PICK c, e, ts : /\ c = cell.target + key /\ e = istream[c]
                      /\ ts = Popped(typing[pc], 1)
  OBVIOUS
<1>6. Len(typing[pc]) >= 1 /\ Enters(pc, c, ts)
  BY <1>2, <1>3, <1>4, <1>5 DEF Flow
<1>7. c \in 1 .. Len(istream)
  <2>1. cell.target >= 1 /\ cell.target + cell.a <= Len(istream)
    BY <1>2, <1>3 DEF Loaded, CInv, WInv, CellOK
  <2>2. cell.target \in Nat /\ cell.a \in Nat /\ Len(istream) \in Nat
    BY <1>3, LoadedFacts DEF Cells
  <2>3. QED
    BY <1>4, <1>5, <2>1, <2>2
<1>8. /\ e.op = "entry" /\ e.b \in {0, 1} /\ Len(ts) >= e.a + e.b
      /\ Same(pc, c) /\ Goes(c, DropKept(ts, e.a, e.b))
  BY <1>5, <1>6 DEF Enters
<1>9. Reaches(c, e.target, DropKept(ts, e.a, e.b))
  BY <1>5, <1>7, <1>8, LoadedGoes DEF LabelOps
<1>10. Reaches(pc, e.target, DropKept(ts, e.a, e.b))
  BY <1>8, <1>9 DEF Reaches, Same
<1>11. 1 \in Nat /\ 1 <= Len(typing[pc])
  BY <1>3, <1>6
<1>12. /\ Pop(1) \in Seq(Values) /\ ts \in Seq(Types)
       /\ Holds(Pop(1), Base(call_stack), ts)
  BY <1>5, <1>11, Pops
<1>13. e.a \in Nat
  <2>1. istream \in Seq(Cells)
    BY LoadedFacts
  <2>2. e \in Cells
    BY <1>5, <1>7, <2>1, ElementFacts
  <2>3. QED
    BY <2>2 DEF Cells
<1>14. /\ e.a + e.b <= Len(Pop(1))
       /\ DropKept(ts, e.a, e.b) \in Seq(Types)
       /\ Holds(DROP_KEEP(Pop(1), e.a, e.b), Base(call_stack),
                DropKept(ts, e.a, e.b))
  <2>1. PICK base, low, drop, keep : /\ base = Base(call_stack) /\ low = Pop(1)
                                     /\ drop = e.a /\ keep = e.b
    OBVIOUS
  <2>2. /\ base \in Seq(Types) /\ low \in Seq(Values) /\ ts \in Seq(Types)
        /\ drop \in Nat /\ keep \in {0, 1} /\ Holds(low, base, ts)
    BY <1>8, <1>12, <1>13, <2>1, RunningFacts
  <2>3. drop + keep <= Len(ts)
    <3>1. Len(ts) >= drop + keep
      BY <1>8, <2>1
    <3>2. Len(ts) \in Nat /\ drop + keep \in Nat
      BY <2>2
    <3>3. QED
      BY <3>1, <3>2
  <2>4. /\ drop + keep <= Len(low) /\ DropKept(ts, drop, keep) \in Seq(Types)
        /\ Holds(DROP_KEEP(low, drop, keep), base, DropKept(ts, drop, keep))
    BY <2>2, <2>3, HoldsDropKeep
  <2>5. QED
    BY <2>1, <2>4
<1>15. Continue(DROP_KEEP(Pop(1), e.a, e.b), e.target)
  <2>1. Len(Pop(1)) >= e.a + e.b
    <3>1. Len(Pop(1)) \in Nat /\ e.a + e.b \in Nat
      BY <1>8, <1>12, <1>13
    <3>2. QED
      BY <1>14, <3>1
  <2>2. QED
    BY <1>4, <1>5, <2>1
<1>16. PICK stack, T : stack = DROP_KEEP(Pop(1), e.a, e.b) /\ T = DropKept(ts, e.a, e.b)
  OBVIOUS
<1>17. Moves(stack, e.target)
  BY <1>2, <1>15, <1>16, ContinueMoves
<1>18. T \in Seq(Types) /\ Reaches(pc, e.target, T) /\ Holds(stack, Base(call_stack), T)
  BY <1>10, <1>14, <1>16
<1>19. QED
  BY <1>17, <1>18, MoveTyped

\* Instructions that drop values.
LEMMA RunsDrop ==
  ASSUME Loaded, ThreadOK, Running, AtOp({"set_global"}) \/ AtOp({"drop"}),
         Continue(Pop(1), pc + 1)
  PROVE  RInv'
<1>1. mode = "running" /\ cell.op \in {"set_global", "drop"} /\ cell.op \in Straight
  BY AtOpFacts DEF Straight
<1>2. PICK T \in Seq(Types) : /\ Effect(cell.op, cell.a, cell.b, typing[pc], T)
                              /\ Reaches(pc, pc + 1, T)
  BY <1>1, FlowsOn
<1>3. Len(typing[pc]) >= 1 /\ T = Popped(typing[pc], 1)
  BY <1>1, <1>2, PopEffect
<1>4. 1 \in Nat /\ 1 <= Len(typing[pc])
  BY <1>3, RunningFacts
<1>5. Holds(Pop(1), Base(call_stack), T)
  BY <1>3, <1>4, Pops
<1>6. Moves(Pop(1), pc + 1)
  BY <1>1, ContinueMoves
<1>7. QED
  BY <1>2, <1>5, <1>6, MoveTyped

\* drop_keep keeps the run typed.
LEMMA RunsDropKeep ==
  ASSUME Loaded, ThreadOK, Running, ExecDropKeep
  PROVE  RInv'
<1>1. AtOp({"drop_keep"}) /\ Continue(DROP_KEEP(value_stack, cell.a, cell.b), pc + 1)
  BY DEF ExecDropKeep
<1>2. mode = "running" /\ cell.op = "drop_keep" /\ cell.op \in Straight
  BY <1>1, AtOpFacts DEF Straight
<1>3. PICK T \in Seq(Types) : /\ Effect(cell.op, cell.a, cell.b, typing[pc], T)
                              /\ Reaches(pc, pc + 1, T)
  BY <1>2, FlowsOn
<1>4. PICK base, ts, drop, keep : /\ base = Base(call_stack) /\ ts = typing[pc]
                                  /\ drop = cell.a /\ keep = cell.b
  OBVIOUS
<1>5. keep \in {0, 1} /\ Len(ts) >= drop + keep /\ T = DropKept(ts, drop, keep)
  BY <1>2, <1>3, <1>4, DropKeepEffect
<1>6. /\ base \in Seq(Types) /\ ts \in Seq(Types) /\ value_stack \in Seq(Values)
      /\ Holds(value_stack, base, ts) /\ cell \in Cells
  BY <1>4, RunningFacts
<1>7. drop \in Nat
  BY <1>4, <1>6 DEF Cells
<1>8. drop + keep <= Len(ts)
  BY <1>5, <1>6, <1>7
<1>9. Holds(DROP_KEEP(value_stack, drop, keep), base, T)
  BY <1>5, <1>6, <1>7, <1>8, HoldsDropKeep
<1>10. PICK stack : stack = DROP_KEEP(value_stack, drop, keep)
  OBVIOUS
<1>11. Moves(stack, pc + 1)
  <2>1. Continue(stack, pc + 1)
    BY <1>1, <1>4, <1>10
  <2>2. QED
    BY <1>2, <2>1, ContinueMoves
<1>12. Holds(stack, Base(call_stack), T)
  BY <1>4, <1>9, <1>10
<1>13. QED
  BY <1>3, <1>11, <1>12, MoveTyped

\* The locals that are zeroed on entry.
LEMMA RunsAlloca ==
  ASSUME Loaded, ThreadOK, Running, ExecAlloca
  PROVE  RInv'
<1>1. AtOp({"alloca"})
  BY DEF ExecAlloca
<1>2. mode = "running" /\ cell.op = "alloca" /\ cell.op \in Straight
  BY <1>1, AtOpFacts DEF Straight
<1>3. PICK zeros : zeros = [i \in 1 .. cell.a |-> "zero"]
  OBVIOUS
<1>4. PICK stack : stack = value_stack \o zeros
  OBVIOUS
<1>5. IF CHECK_STACK(stack) THEN Continue(stack, pc + 1) ELSE TRAP("value_stack_exhausted")
  BY <1>3, <1>4 DEF ExecAlloca
<1>6. CASE CHECK_STACK(stack)
  <2>1. PICK T \in Seq(Types) : /\ Effect(cell.op, cell.a, cell.b, typing[pc], T)
                                /\ Reaches(pc, pc + 1, T)
    BY <1>2, FlowsOn
  <2>2. PICK base, ts, a : base = Base(call_stack) /\ ts = typing[pc] /\ a = cell.a
    OBVIOUS
  <2>3. Len(T) = Len(ts) + a /\ Truncate(T, Len(ts)) = ts
    BY <1>2, <2>1, <2>2, AllocaEffect
  <2>4. /\ base \in Seq(Types) /\ ts \in Seq(Types) /\ value_stack \in Seq(Values)
        /\ Holds(value_stack, base, ts) /\ cell \in Cells
    BY <2>2, RunningFacts
  <2>5. a \in Nat /\ zeros = [i \in 1 .. a |-> "zero"]
    BY <1>3, <2>2, <2>4 DEF Cells
  <2>6. Holds(value_stack \o zeros, base, T)
    BY <2>3, <2>4, <2>5, HoldsZeros
  <2>7. Holds(stack, Base(call_stack), T)
    BY <1>4, <2>2, <2>6
  <2>8. Moves(stack, pc + 1)
    BY <1>2, <1>5, <1>6, ContinueMoves
  <2>9. QED
    BY <2>1, <2>7, <2>8, MoveTyped
<1>7. CASE ~CHECK_STACK(stack)
  BY <1>5, <1>7, TrapTyped DEF Traps
<1>8. QED
  BY <1>6, <1>7

\* Globals and locals.
LEMMA RunsGetGlobal ==
  ASSUME Loaded, ThreadOK, Running, AtOp({"get_global"}),
         PushAndContinue(value_stack, <<Globals[cell.a].type>>)
  PROVE  RInv'
<1>1. mode = "running" /\ cell.op = "get_global" /\ cell.op \in Straight
  BY AtOpFacts DEF Straight
<1>2. PICK T \in Seq(Types) : /\ Effect(cell.op, cell.a, cell.b, typing[pc], T)
                              /\ Reaches(pc, pc + 1, T)
  BY <1>1, FlowsOn
<1>3. cell.a \in DOMAIN Globals /\ T = Append(typing[pc], Globals[cell.a].type)
  BY <1>1, <1>2, GlobalEffect
<1>4. PICK t : t = Globals[cell.a].type
  OBVIOUS
<1>5. t \in Types
  <2> DEFINE R == [type : Types, mutable : BOOLEAN]
  <2>1. Globals \in Seq(R)
    BY CompilerAssumption
  <2> HIDE DEF R
  <2>2. Globals[cell.a] \in R
    BY <1>3, <2>1
  <2>3. QED
    BY <1>4, <2>2 DEF R
<1>6. t \in Values /\ Match(t, t)
  BY <1>5, MatchFacts DEF Values
<1>7. Holds(value_stack \o <<t>>, Base(call_stack), T)
  <2>1. /\ typing[pc] \in Seq(Types) /\ value_stack \in Seq(Values)
        /\ Base(call_stack) \in Seq(Types)
        /\ Holds(value_stack, Base(call_stack), typing[pc])
    BY RunningFacts
  <2>2. Holds(value_stack \o <<t>>, Base(call_stack), Append(typing[pc], t))
    BY <1>5, <1>6, <2>1, HoldsAppend
  <2>3. QED
    BY <1>3, <1>4, <2>2
<1>8. PushAndContinue(value_stack, <<t>>)
  BY <1>4
<1>9. QED
  BY <1>1, <1>2, <1>7, <1>8, PushContinues

\* get_local keeps the run typed.
LEMMA RunsGetLocal ==
  ASSUME Loaded, ThreadOK, Running, AtOp({"get_local"}),
         PushAndContinue(value_stack, <<Pick(cell.a)>>)
  PROVE  RInv'
<1>1. mode = "running" /\ cell.op = "get_local" /\ cell.op \in Straight
  BY AtOpFacts DEF Straight
<1>2. PICK T \in Seq(Types) : /\ Effect(cell.op, cell.a, cell.b, typing[pc], T)
                              /\ Reaches(pc, pc + 1, T)
  BY <1>1, FlowsOn
<1>3. PICK ts, a, x, t : /\ ts = typing[pc] /\ a = cell.a /\ x = Pick(a)
                         /\ t = ts[Len(ts) - a + 1]
  OBVIOUS
<1>4. a \in 1 .. Len(ts) /\ T = Append(ts, t)
  BY <1>1, <1>2, <1>3, GetLocalEffect
<1>5. /\ ts \in Seq(Types) /\ value_stack \in Seq(Values)
      /\ Base(call_stack) \in Seq(Types)
      /\ Holds(value_stack, Base(call_stack), ts)
  BY <1>3, RunningFacts
<1>6. a \in Nat /\ a >= 1 /\ a <= Len(typing[pc])
  BY <1>3, <1>4, <1>5
<1>7. x \in Values /\ t \in Types /\ Match(x, t)
  BY <1>3, <1>6, Picks
<1>8. Holds(value_stack \o <<x>>, Base(call_stack), T)
  BY <1>4, <1>5, <1>7, HoldsAppend
<1>9. PushAndContinue(value_stack, <<x>>)
  BY <1>3
<1>10. QED
  BY <1>1, <1>2, <1>8, <1>9, PushContinues

\* set_local keeps the run typed.
LEMMA RunsSetLocal ==
  ASSUME Loaded, ThreadOK, Running, AtOp({"set_local"}),
         Continue([Pop(1) EXCEPT ![Len(value_stack) - cell.a] = Pick(1)], pc + 1)
  PROVE  RInv'
<1>1. mode = "running" /\ cell.op = "set_local" /\ cell.op \in Straight
  BY AtOpFacts DEF Straight
<1>2. PICK T \in Seq(Types) : /\ Effect(cell.op, cell.a, cell.b, typing[pc], T)
                              /\ Reaches(pc, pc + 1, T)
  BY <1>1, FlowsOn
<1>3. PICK ts, a, x, low, base : /\ ts = typing[pc] /\ a = cell.a /\ x = Pick(1)
                                 /\ low = Pop(1) /\ base = Base(call_stack)
  OBVIOUS
<1>4. a \in 1 .. Len(ts) - 1 /\ ts[Len(ts) - a] = ts[Len(ts)] /\ T = Popped(ts, 1)
  BY <1>1, <1>2, <1>3, SetLocalEffect
<1>5. ts \in Seq(Types) /\ Len(ts) \in Nat /\ base \in Seq(Types)
      /\ Len(value_stack) \in Nat
  BY <1>3, RunningFacts
<1>6. 1 \in Nat /\ 1 >= 1 /\ 1 <= Len(ts)
  BY <1>4, <1>5
<1>7. low \in Seq(Values) /\ Len(low) = Len(value_stack) - 1 /\ Holds(low, base, T)
  BY <1>3, <1>4, <1>6, Pops
<1>8. x \in Values /\ Match(x, ts[Len(ts) - 1 + 1])
  BY <1>3, <1>6, Picks
<1>9. /\ Len(T) = Len(ts) - 1 /\ \A i \in 1 .. Len(ts) - 1 : T[i] = ts[i]
  <2>1. 1 \in 0 .. Len(ts)
    BY <1>6
  <2>2. QED
    BY <1>4, <1>5, <2>1, PoppedFacts
<1>10. a \in 1 .. Len(T) /\ Len(T) - a + 1 = Len(ts) - a
       /\ Len(ts) - a \in 1 .. Len(ts) - 1 /\ Len(ts) - 1 + 1 = Len(ts)
  BY <1>4, <1>5, <1>9
<1>11. Match(x, T[Len(T) - a + 1])
  <2>1. T[Len(ts) - a] = ts[Len(ts) - a]
    BY <1>9, <1>10
  <2>2. QED
    BY <1>4, <1>8, <1>10, <2>1
<1>12. PICK w : w = Written(low, Len(low) - a + 1, x)
  OBVIOUS
<1>13. Holds(w, base, T)
  BY <1>5, <1>7, <1>8, <1>10, <1>11, <1>12, HoldsWrite
<1>14. Continue(w, pc + 1)
  <2>1. a \in Nat /\ Len(low) = Len(value_stack) - 1
    BY <1>4, <1>7
  <2>2. Len(low) - a + 1 = Len(value_stack) - a
    BY <1>5, <2>1
  <2>3. w = Written(Pop(1), Len(value_stack) - cell.a, Pick(1))
    BY <1>3, <1>12, <2>2
  <2>4. QED
    BY <2>3 DEF Written
<1>15. Moves(w, pc + 1)
  BY <1>1, <1>14, ContinueMoves
<1>16. QED
  BY <1>2, <1>3, <1>13, <1>15, MoveTyped

\* tee_local keeps the run typed.
LEMMA RunsTeeLocal ==
  ASSUME Loaded, ThreadOK, Running, AtOp({"tee_local"}),
         Continue([value_stack EXCEPT ![Len(value_stack) - cell.a + 1] = Pick(1)],
                  pc + 1)
  PROVE  RInv'
<1>1. mode = "running" /\ cell.op = "tee_local" /\ cell.op \in Straight
  BY AtOpFacts DEF Straight
<1>2. PICK T \in Seq(Types) : /\ Effect(cell.op, cell.a, cell.b, typing[pc], T)
                              /\ Reaches(pc, pc + 1, T)
  BY <1>1, FlowsOn
<1>3. PICK ts, a, x, base : /\ ts = typing[pc] /\ a = cell.a /\ x = Pick(1)
                            /\ base = Base(call_stack)
  OBVIOUS
<1>4. a \in 1 .. Len(ts) /\ ts[Len(ts) - a + 1] = ts[Len(ts)] /\ T = ts
  BY <1>1, <1>2, <1>3, TeeLocalEffect
<1>5. /\ ts \in Seq(Types) /\ Len(ts) \in Nat /\ base \in Seq(Types)
      /\ value_stack \in Seq(Values) /\ Holds(value_stack, base, ts)
  BY <1>3, RunningFacts
<1>6. 1 \in Nat /\ 1 >= 1 /\ 1 <= Len(ts) /\ Len(ts) - 1 + 1 = Len(ts)
  BY <1>4, <1>5
<1>7. x \in Values /\ Match(x, ts[Len(ts) - 1 + 1])
  BY <1>3, <1>6, Picks
<1>8. Match(x, ts[Len(ts) - a + 1])
  BY <1>4, <1>6, <1>7
<1>9. PICK w : w = Written(value_stack, Len(value_stack) - a + 1, x)
  OBVIOUS
<1>10. Holds(w, base, T)
  BY <1>4, <1>5, <1>7, <1>8, <1>9, HoldsWrite
<1>11. Continue(w, pc + 1)
  BY <1>3, <1>9 DEF Written
<1>12. Moves(w, pc + 1)
  BY <1>1, <1>11, ContinueMoves
<1>13. QED
  BY <1>2, <1>3, <1>10, <1>12, MoveTyped

\* A run that ends normally.
LEMMA CopyTyped ==
  ASSUME NEW stack \in Seq(Values), NEW f, Shaped(stack, Funcs[f].results),
         copy_results(stack, Funcs[f]), run_func' = f
  PROVE  RInv'
<1>1. Len(stack) = Len(Funcs[f].results)
  BY DEF Shaped
<1>2. EndRun("ok", stack)
  BY <1>1 DEF copy_results
<1>3. mode' = "idle" /\ results' = stack
  BY <1>2 DEF EndRun
<1>4. Shaped(results, Funcs[run_func].results)'
  BY <1>3 DEF Shaped, Match
<1>5. QED
  BY <1>3, <1>4 DEF RInv

\* The activations below a return and above a call.
LEMMA OwnersPopped ==
  ASSUME NEW few \in Seq(Nat), NEW more \in Seq(Nat), Len(more) = Len(few) + 1,
         \A i \in 1 .. Len(few) : more[i] = few[i],
         NEW p, Owners(p, more)
  PROVE  Owners(more[Len(few) + 1] - 1, few)
<1>1. PICK n \in Nat : n = Len(few)
  OBVIOUS
<1>2. PICK q : q = more[n + 1] - 1
  OBVIOUS
<1>3. Len(more) = n + 1 /\ \A i \in 1 .. n : more[i] = few[i]
  BY <1>1
<1>4. ASSUME NEW k \in 1 .. n + 1
      PROVE  Returning(Position(q, few, k), Wanted(few, k))
  <2>1. Returning(Position(p, more, k), Wanted(more, k))
    BY <1>3 DEF Owners
  <2>2. Position(p, more, k) = Position(q, few, k)
    <3>1. CASE k = n + 1
      BY <1>1, <1>2, <1>3, <3>1 DEF Position
    <3>2. CASE k \in 1 .. n
      BY <1>1, <1>3, <3>2 DEF Position
    <3>3. QED
      BY <3>1, <3>2
  <2>3. Wanted(more, k) = Wanted(few, k)
    <3>1. CASE k = 1
      BY <3>1 DEF Wanted
    <3>2. CASE k # 1
      <4>1. k - 1 \in 1 .. n
        BY <3>2
      <4>2. more[k - 1] = few[k - 1]
        BY <1>3, <4>1
      <4>3. QED
        BY <3>2, <4>2 DEF Wanted
    <3>3. QED
      BY <3>1, <3>2
  <2>4. QED
    BY <2>1, <2>2, <2>3
<1>5. QED
  BY <1>1, <1>2, <1>4 DEF Owners

\* A call pushes a return offset that its caller owns.
LEMMA OwnersPushed ==
  ASSUME NEW few \in Seq(Nat), NEW more \in Seq(Nat), Len(more) = Len(few) + 1,
         \A i \in 1 .. Len(few) : more[i] = few[i],
         Owners(more[Len(few) + 1] - 1, few),
         NEW p, Returning(p, Funcs[istream[more[Len(few) + 1] - 1].a].results)
  PROVE  Owners(p, more)
<1>1. PICK n \in Nat : n = Len(few)
  OBVIOUS
<1>2. PICK q : q = more[n + 1] - 1
  OBVIOUS
<1>3. Len(more) = n + 1 /\ \A i \in 1 .. n : more[i] = few[i]
  BY <1>1
<1>4. Owners(q, few) /\ Returning(p, Funcs[istream[q].a].results)
  BY <1>1, <1>2
<1>5. ASSUME NEW k \in 1 .. n + 2
      PROVE  Returning(Position(p, more, k), Wanted(more, k))
  <2>1. CASE k = n + 2
    <3>1. Position(p, more, k) = p
      BY <1>3, <2>1 DEF Position
    <3>2. k # 1 /\ k - 1 = n + 1
      BY <2>1
    <3>3. Wanted(more, k) = Funcs[istream[q].a].results
      BY <1>2, <3>2 DEF Wanted
    <3>4. QED
      BY <1>4, <3>1, <3>3
  <2>2. CASE k \in 1 .. n + 1
    <3>1. Returning(Position(q, few, k), Wanted(few, k))
      BY <1>1, <1>4, <2>2 DEF Owners
    <3>2. Position(p, more, k) = Position(q, few, k)
      <4>1. CASE k = n + 1
        BY <1>1, <1>2, <1>3, <4>1 DEF Position
      <4>2. CASE k \in 1 .. n
        BY <1>1, <1>3, <4>2 DEF Position
      <4>3. QED
        BY <2>2, <4>1, <4>2
    <3>3. Wanted(more, k) = Wanted(few, k)
      <4>1. CASE k = 1
        BY <4>1 DEF Wanted
      <4>2. CASE k # 1
        <5>1. k - 1 \in 1 .. n
          BY <2>2, <4>2
        <5>2. more[k - 1] = few[k - 1]
          BY <1>3, <5>1
        <5>3. QED
          BY <4>2, <5>2 DEF Wanted
      <4>3. QED
        BY <4>1, <4>2
    <3>4. QED
      BY <3>1, <3>2, <3>3
  <2>3. QED
    BY <2>1, <2>2
<1>6. QED
  BY <1>3, <1>5 DEF Owners

\* unreachable keeps the run typed.
LEMMA RunsUnreachable ==
  ASSUME ExecUnreachable
  PROVE  RInv'
BY TrapTyped DEF ExecUnreachable, Traps

\* What a function leaves is what its caller wants.
LEMMA LeavesWanted ==
  ASSUME Loaded, ThreadOK, Running, cell.op = "return"
  PROVE  typing[pc] = Wanted(call_stack, Len(call_stack) + 1)
<1>1. /\ pc \in 1 .. Len(istream) /\ cell = istream[pc] /\ Live(typing[pc])
      /\ Flow(pc) /\ Owners(pc, call_stack) /\ call_stack \in Seq(Nat)
  BY RunningFacts
<1>2. PICK n \in Nat : n = Len(call_stack)
  BY <1>1
<1>3. Returning(Position(pc, call_stack, n + 1), Wanted(call_stack, n + 1))
  BY <1>1, <1>2 DEF Owners
<1>4. Position(pc, call_stack, n + 1) = pc
  BY <1>2 DEF Position
<1>5. PICK g \in DOMAIN Funcs : In(g, pc) /\ Funcs[g].results = Wanted(call_stack, n + 1)
  BY <1>3, <1>4 DEF Returning
<1>6. typing[pc] = Funcs[g].results
  BY <1>1, <1>5 DEF Flow
<1>7. QED
  BY <1>2, <1>5, <1>6

\* The outermost return leaves the results of the function.
LEMMA ReturnsAll ==
  ASSUME Loaded, ThreadOK, Running, cell.op = "return", call_stack = <<>>
  PROVE  Shaped(value_stack, Funcs[run_func].results)
<1>1. /\ value_stack \in Seq(Values) /\ typing[pc] \in Seq(Types)
      /\ Base(call_stack) \in Seq(Types) /\ Callers(call_stack)
      /\ Holds(value_stack, Base(call_stack), typing[pc])
  BY RunningFacts
<1>2. Len(call_stack) = 0 /\ call_stack \in Seq(Nat)
  OBVIOUS
<1>3. Len(Frames(call_stack)) = 0
  BY <1>1, <1>2, BaseFacts
<1>4. Base(call_stack) = <<>>
  <2>1. Len(FlattenSeq(Frames(call_stack))) = 0
    BY <1>3, FlattenEmpty
  <2>2. QED
    BY <1>1, <2>1, EmptySeq DEF Base
<1>5. typing[pc] = Funcs[run_func].results
  <2>1. Len(call_stack) + 1 = 1
    BY <1>2
  <2>2. Wanted(call_stack, 1) = Funcs[run_func].results
    BY DEF Wanted
  <2>3. QED
    BY <2>1, <2>2, LeavesWanted
<1>6. PICK ts : ts = typing[pc]
  OBVIOUS
<1>7. Shaped(value_stack, <<>> \o ts)
  <2>1. <<>> \in Seq(Types) /\ ts \in Seq(Types) /\ Holds(value_stack, <<>>, ts)
    BY <1>1, <1>4, <1>6
  <2>2. QED
    BY <1>1, <2>1, HoldsWhole
<1>8. <<>> \o ts = ts
  BY <1>1, <1>6, EmptyConcat
<1>9. QED
  BY <1>5, <1>6, <1>7, <1>8

\* Any other return leaves its caller where its types say.
LEMMA ReturnsTo ==
  ASSUME Loaded, ThreadOK, Running, cell.op = "return", call_stack # <<>>
  PROVE  RunningAt(Last(call_stack), value_stack, Front(call_stack))
<1>1. /\ value_stack \in Seq(Values) /\ typing[pc] \in Seq(Types)
      /\ Callers(call_stack) /\ Owners(pc, call_stack)
      /\ call_stack \in Seq(Nat)
      /\ Holds(value_stack, Base(call_stack), typing[pc])
  BY RunningFacts
<1>2. PICK calls, few, r : calls = call_stack /\ few = Front(calls) /\ r = Last(calls)
  OBVIOUS
<1>3. /\ calls \in Seq(Nat) /\ few \in Seq(Nat) /\ r \in Nat
      /\ Len(calls) >= 1 /\ r = calls[Len(calls)] /\ Len(few) = Len(calls) - 1
      /\ \A i \in 1 .. Len(calls) - 1 : few[i] = calls[i]
  <2>1. calls \in Seq(Nat) /\ calls # <<>>
    BY <1>1, <1>2
  <2>2. QED
    BY <1>2, <2>1, TopFacts
<1>4. PICK n \in Nat : n = Len(few)
  BY <1>3
<1>5. /\ Len(calls) = n + 1 /\ r = calls[n + 1]
      /\ \A i \in 1 .. n : calls[i] = few[i]
  <2>1. Len(calls) \in Nat
    BY <1>3
  <2>2. Len(calls) = n + 1 /\ Len(calls) - 1 = n
    BY <1>3, <1>4, <2>1
  <2>3. QED
    BY <1>3, <2>2
<1>6. Callers(few) /\ Caller(r)
  <2>1. \A k \in 1 .. n + 1 : Caller(calls[k])
    BY <1>1, <1>2, <1>5 DEF Callers
  <2>2. \A k \in 1 .. n : k \in 1 .. n + 1 /\ n + 1 \in 1 .. n + 1
    OBVIOUS
  <2>3. n + 1 \in 1 .. n + 1
    OBVIOUS
  <2>4. QED
    BY <1>4, <1>5, <2>1, <2>2, <2>3 DEF Callers
<1>7. Base(calls) = Base(few) \o FrameBelow(r)
  BY <1>3, <1>4, <1>5, <1>6, BaseGrows
<1>8. PICK base, frame, res : /\ base = Base(few) /\ frame = FrameBelow(r)
                              /\ res = Funcs[istream[r - 1].a].results
  OBVIOUS
<1>9. /\ r - 1 \in 1 .. Len(istream) /\ frame \in Seq(Types)
      /\ istream[r - 1].a \in DOMAIN Funcs
      /\ Reaches(r - 1, r, frame \o res) /\ frame \o res \in Seq(Types)
  BY <1>3, <1>6, <1>8, CallerFacts
<1>10. base \in Seq(Types)
  BY <1>3, <1>6, <1>8, BaseFacts
<1>11. res \in Seq(Types)
  BY <1>8, <1>9, FuncFacts, SigFacts
<1>12. typing[pc] = res
  <2>1. typing[pc] = Wanted(calls, n + 2)
    <3>1. Len(calls) + 1 = n + 2
      BY <1>5
    <3>2. QED
      BY <1>2, <3>1, LeavesWanted
  <2>2. n + 2 # 1 /\ (n + 2) - 1 = n + 1
    OBVIOUS
  <2>3. QED
    BY <1>5, <1>8, <2>1, <2>2 DEF Wanted
<1>13. Holds(value_stack, base, frame \o res)
  <2>1. Holds(value_stack, base \o frame, res)
    BY <1>1, <1>2, <1>7, <1>8, <1>12
  <2>2. QED
    BY <1>1, <1>9, <1>10, <1>11, <2>1, HoldsRegroup
<1>14. Owners(r - 1, few)
  BY <1>1, <1>2, <1>3, <1>4, <1>5, OwnersPopped
<1>15. RunningAt(r, value_stack, few)
  <2>1. r - 1 \in Nat
    BY <1>9
  <2>2. PICK T : T = frame \o res
    OBVIOUS
  <2>3. T \in Seq(Types) /\ Reaches(r - 1, r, T) /\ Holds(value_stack, Base(few), T)
    BY <1>8, <1>9, <1>13, <2>2
  <2>4. QED
    BY <1>3, <1>6, <1>14, <2>1, <2>3, Advance
<1>16. QED
  BY <1>2, <1>15

\* return keeps the run typed.
LEMMA RunsReturn ==
  ASSUME Loaded, ThreadOK, Running, ExecReturn
  PROVE  RInv'
<1>1. AtOp({"return"}) /\ UNCHANGED compilerVars
  BY DEF ExecReturn
<1>2. mode = "running" /\ cell.op = "return" /\ CodeKept
  BY <1>1, AtOpFacts, UnchangedKept
<1>3. CASE call_stack = <<>>
  <2>1. copy_results(value_stack, Funcs[run_func]) /\ run_func' = run_func
    BY <1>3 DEF ExecReturn
  <2>2. value_stack \in Seq(Values)
    BY DEF ThreadOK
  <2>3. QED
    BY <1>2, <1>3, <2>1, <2>2, ReturnsAll, CopyTyped
<1>4. CASE call_stack # <<>>
  <2>1. /\ pc' = Last(call_stack) /\ call_stack' = Front(call_stack)
        /\ UNCHANGED <<value_stack, mode, run_func, result, results>>
    BY <1>4 DEF ExecReturn
  <2>2. PICK t, stack, calls : /\ t = Last(call_stack) /\ stack = value_stack
                               /\ calls = Front(call_stack)
    OBVIOUS
  <2>3. RunningAt(t, stack, calls)
    BY <1>2, <1>4, <2>2, ReturnsTo
  <2>4. pc' = t /\ value_stack' = stack /\ call_stack' = calls /\ run_func' = run_func
        /\ mode' = "running"
    BY <1>2, <2>1, <2>2
  <2>5. Running'
    BY <1>2, <2>3, <2>4, RunningKept
  <2>6. QED
    BY <2>4, <2>5 DEF RInv
<1>5. QED
  BY <1>3, <1>4

-----------------------------------------------------------------------------
(* Calls.                                                                  *)

\* The values of the params, below what is left of the caller.
LEMMA PoppedConcat ==
  ASSUME NEW s \in Seq(Types), NEW t \in Seq(Types)
  PROVE  Popped(s \o t, Len(t)) = s
<1>1. PICK m, n \in Nat : m = Len(s) /\ n = Len(t)
  OBVIOUS
<1>2. PICK all : all = s \o t
  OBVIOUS
<1>3. all \in Seq(Types) /\ Len(all) = m + n /\ \A i \in 1 .. m : all[i] = s[i]
  <2>1. /\ all \in Seq(Types) /\ Len(all) = Len(s) + Len(t)
        /\ \A i \in 1 .. Len(s) : all[i] = s[i]
    BY <1>2, ConcatFacts
  <2>2. QED
    BY <1>1, <2>1
<1>4. n \in 0 .. Len(all) /\ Len(all) - n = m
  BY <1>3
<1>5. PICK p : p = Popped(all, n)
  OBVIOUS
<1>6. p \in Seq(Types) /\ Len(p) = m /\ \A i \in 1 .. m : p[i] = all[i]
  <2>1. /\ p \in Seq(Types) /\ Len(p) = Len(all) - n
        /\ \A i \in 1 .. Len(all) - n : p[i] = all[i]
    BY <1>3, <1>4, <1>5, PoppedFacts
  <2>2. QED
    BY <1>4, <2>1
<1>7. p = s
  <2>1. Len(p) = Len(s) /\ \A i \in 1 .. Len(p) : p[i] = s[i]
    BY <1>1, <1>3, <1>6
  <2>2. QED
    BY <1>6, <2>1, SeqEqual
<1>8. QED
  BY <1>1, <1>2, <1>5, <1>7

\* PUSH_CALL and GOTO to a function of the module.
LEMMA EntersTyped ==
  ASSUME Loaded, ThreadOK, Running, mode = "running",
         cell.op \in {"call", "call_indirect"},
         NEW f \in DOMAIN Funcs, f > NumImports,
         Funcs[f].results = Funcs[cell.a].results, NEW stack \in Seq(Values),
         Holds(stack, Base(call_stack), FrameBelow(pc + 1) \o Funcs[f].params),
         Enter(stack, func_offset[f])
  PROVE  RInv'
<1>1. CASE Len(call_stack) >= CallStackSize
  BY <1>1, TrapTyped DEF Enter, Traps
<1>2. CASE ~(Len(call_stack) >= CallStackSize)
  <2>1. /\ call_stack' = Append(call_stack, pc + 1) /\ pc' = func_offset[f]
        /\ value_stack' = stack
        /\ UNCHANGED <<mode, run_func, result, results, compilerVars>>
    BY <1>2 DEF Enter
  <2>2. PICK few, more, r, t, base, params : 
          /\ few = call_stack /\ r = pc + 1 /\ more = Append(call_stack, r)
          /\ t = func_offset[f] /\ base = Base(few) /\ params = Funcs[f].params
    OBVIOUS
  <2>3. /\ pc \in 1 .. Len(istream) /\ cell = istream[pc] /\ Live(typing[pc])
        /\ few \in Seq(Nat) /\ Callers(few) /\ Owners(pc, few)
        /\ base \in Seq(Types) /\ pc \in Nat
    BY <2>2, RunningFacts
  <2>4. r \in Nat /\ r - 1 = pc
    BY <2>2, <2>3
  <2>5. /\ more \in Seq(Nat) /\ Len(more) = Len(few) + 1 /\ more[Len(few) + 1] = r
        /\ \A i \in 1 .. Len(few) : more[i] = few[i]
    <3>1. more = Append(few, r)
      BY <2>2
    <3>2. QED
      BY <2>3, <2>4, <3>1, AppendFacts
  <2>6. Caller(r)
    <3>1. istream \in Seq(Cells)
      BY LoadedFacts
    <3>2. pc \in DOMAIN istream
      BY <2>3, <3>1
    <3>3. QED
      BY <2>3, <2>4, <3>2 DEF Caller, ReturnsFromCall
  <2>7. FrameBelow(r) \in Seq(Types)
    BY <2>4, <2>6, CallerFacts
  <2>8. Callers(more) /\ Base(more) = base \o FrameBelow(r)
    BY <2>2, <2>3, <2>5, <2>6, BaseGrows
  <2>9. params \in Seq(Types)
    BY <2>2, FuncFacts
  <2>10. Holds(stack, Base(more), params)
    <3>1. Holds(stack, base, FrameBelow(r) \o params)
      BY <2>2
    <3>2. Holds(stack, base \o FrameBelow(r), params)
      BY <2>3, <2>7, <2>9, <3>1, HoldsRegroup
    <3>3. QED
      BY <2>8, <3>2
  <2>11. /\ t \in 1 .. Len(istream) /\ istream[t].op \notin {"data", "entry"}
         /\ typing[t] = params /\ Live(params) /\ In(f, t)
    BY <2>2, Starting
  <2>12. Owners(t, more)
    <3>1. Returning(t, Funcs[istream[pc].a].results)
      BY <2>3, <2>11 DEF Returning
    <3>2. /\ Owners(more[Len(few) + 1] - 1, few)
          /\ Returning(t, Funcs[istream[more[Len(few) + 1] - 1].a].results)
      BY <2>3, <2>4, <2>5, <3>1
    <3>3. QED
      BY <2>3, <2>5, <3>2, OwnersPushed
  <2>13. RunningAt(t, stack, more)
    BY <2>8, <2>10, <2>11, <2>12 DEF RunningAt
  <2>14. /\ pc' = t /\ value_stack' = stack /\ call_stack' = more
         /\ run_func' = run_func /\ mode' = "running" /\ UNCHANGED compilerVars
    BY <2>1, <2>2
  <2>15. Running'
    BY <2>13, <2>14, RunningKept, UnchangedKept
  <2>16. QED
    BY <2>14, <2>15 DEF RInv
<1>3. QED
  BY <1>1, <1>2

\* A call that a host function answers.
LEMMA HostTyped ==
  ASSUME Loaded, ThreadOK, Running, mode = "running", NEW f \in DOMAIN Funcs,
         NEW stack \in Seq(Values), Len(stack) <= ValueStackSize,
         NEW below \in Seq(Types),
         Holds(stack, Base(call_stack), below \o Funcs[f].params),
         Reaches(pc, pc + 1, below \o Funcs[f].results),
         CallHostAndContinue(stack, Funcs[f])
  PROVE  RInv'
<1>1. PICK out \in wasm_call_host(stack, Funcs[f]) :
        /\ value_stack' = out.stack /\ pc' = pc + 1
        /\ unchecked' = unchecked \cup (IF out.result = "ok" THEN {} ELSE {"host"})
        /\ UNCHANGED <<call_stack, mode, run_func, result, results, istream,
                       type_stack, label_stack, depth_fixups, func_offset,
                       func_fixups, current_func, next_func, decls_left,
                       local_count, param_and_local_types, status, typing>>
  BY DEF CallHostAndContinue
<1>2. CodeKept
  BY <1>1 DEF CodeKept
<1>3. CASE out.result # "ok"
  BY <1>1, <1>3 DEF RInv
<1>4. CASE out.result = "ok"
  <2>1. PICK base, params, res, new :
          /\ base = Base(call_stack) /\ params = Funcs[f].params
          /\ res = Funcs[f].results /\ new = out.stack
    OBVIOUS
  <2>2. params \in Seq(Types) /\ res \in Seq(Types) /\ base \in Seq(Types)
    BY <2>1, FuncFacts, SigFacts, RunningFacts
  <2>3. new = Popped(stack, Len(params)) \o res
    BY <1>1, <1>4, <2>1, HostFacts DEF Popped
  <2>4. PICK ts, n : ts = below \o params /\ n = Len(params)
    OBVIOUS
  <2>5. ts \in Seq(Types) /\ n \in 0 .. Len(ts)
    <3>1. ts \in Seq(Types) /\ Len(ts) = Len(below) + n /\ Len(below) \in Nat
          /\ n \in Nat
      BY <2>2, <2>4, ConcatFacts
    <3>2. QED
      BY <3>1
  <2>6. PICK low : low = Popped(stack, n)
    OBVIOUS
  <2>7. low \in Seq(Values) /\ Holds(low, base, below)
    <3>1. Holds(stack, base, ts)
      BY <2>1, <2>4
    <3>2. low \in Seq(Values) /\ Holds(low, base, Popped(ts, n))
      BY <2>2, <2>5, <2>6, <3>1, HoldsPop
    <3>3. Popped(ts, n) = below
      BY <2>2, <2>4, PoppedConcat
    <3>4. QED
      BY <3>2, <3>3
  <2>8. res \in Seq(Values) /\ Shaped(res, res)
    <3>1. res \in Seq(Values)
      BY <2>2, TypesAreValues
    <3>2. Shaped(res, res)
      BY DEF Shaped, Match
    <3>3. QED
      BY <3>1, <3>2
  <2>9. Holds(low \o res, base, below \o res) /\ below \o res \in Seq(Types)
    BY <2>2, <2>7, <2>8, HoldsPush
  <2>10. PICK T : T = below \o res
    OBVIOUS
  <2>11. T \in Seq(Types) /\ Reaches(pc, pc + 1, T) /\ Holds(new, Base(call_stack), T)
    BY <2>1, <2>3, <2>4, <2>6, <2>9, <2>10
  <2>12. Moves(new, pc + 1)
    BY <1>1, <1>2, <2>1 DEF Moves
  <2>13. QED
    BY <2>11, <2>12, MoveTyped
<1>5. QED
  BY <1>3, <1>4

\* The frame below a call is what typing leaves under its parameters.
LEMMA FrameHere ==
  ASSUME NEW c \in Nat
  PROVE  /\ istream[c].op = "call" =>
              FrameBelow(c + 1) = Popped(typing[c], Len(Funcs[istream[c].a].params) + 0)
         /\ istream[c].op = "call_indirect" =>
              FrameBelow(c + 1) = Popped(typing[c], Len(Funcs[istream[c].a].params) + 1)
<1>1. (c + 1) - 1 = c
  OBVIOUS
<1>2. QED
  BY <1>1 DEF FrameBelow, Popped

\* call keeps the run typed.
LEMMA RunsCall ==
  ASSUME Loaded, ThreadOK, Running, ExecCall
  PROVE  RInv'
<1>1. AtOp({"call"}) /\ Enter(value_stack, cell.target)
  BY DEF ExecCall
<1>2. mode = "running" /\ cell.op = "call" /\ cell.op \in Straight
  BY <1>1, AtOpFacts DEF Straight
<1>3. PICK T \in Seq(Types) : /\ Effect(cell.op, cell.a, cell.b, typing[pc], T)
                              /\ Reaches(pc, pc + 1, T)
  BY <1>2, FlowsOn
<1>4. PICK ts, a, params : ts = typing[pc] /\ a = cell.a /\ params = Funcs[a].params
  OBVIOUS
<1>5. Calling(ts, a)
  <2>1. PICK op, b : op = cell.op /\ b = cell.b
    OBVIOUS
  <2>2. Effect(op, a, b, ts, T)
    BY <1>3, <1>4, <2>1
  <2>3. op \in {"call", "call_host"}
    BY <1>2, <2>1
  <2>4. QED
    BY <1>4, <2>2, <2>3, CallEffect
<1>6. a \in DOMAIN Funcs /\ Len(ts) >= Len(params) /\ LastN(ts, Len(params)) = params
  BY <1>4, <1>5 DEF Calling
<1>7. /\ pc \in 1 .. Len(istream) /\ pc \in Nat /\ cell = istream[pc]
      /\ ts \in Seq(Types) /\ value_stack \in Seq(Values)
      /\ Holds(value_stack, Base(call_stack), ts)
  BY <1>4, RunningFacts
<1>8. a > NumImports /\ cell.target = func_offset[a]
  <2>1. Linked(istream, func_offset, func_fixups)
    BY DEF Loaded, CInv, FInv
  <2>2. QED
    BY <1>2, <1>4, <1>7, <2>1 DEF Linked
<1>9. PICK n \in Nat : n = Len(params) /\ n + 0 = n /\ n \in 0 .. Len(ts)
  <2>1. Len(params) \in Nat /\ Len(ts) \in Nat
    BY <1>4, <1>6, <1>7, FuncFacts
  <2>2. QED
    BY <1>6, <2>1
<1>10. FrameBelow(pc + 1) = Popped(ts, n)
  <2>1. FrameBelow(pc + 1) = Popped(ts, n + 0)
    BY <1>2, <1>4, <1>7, <1>9, FrameHere
  <2>2. QED
    BY <1>9, <2>1
<1>11. ts = FrameBelow(pc + 1) \o params
  <2>1. ts = Popped(ts, n) \o LastN(ts, n)
    BY <1>7, <1>9, PoppedRest
  <2>2. LastN(ts, n) = params
    BY <1>6, <1>9
  <2>3. QED
    BY <1>10, <2>1, <2>2
<1>12. Holds(value_stack, Base(call_stack), FrameBelow(pc + 1) \o Funcs[a].params)
  BY <1>4, <1>7, <1>11
<1>13. Enter(value_stack, func_offset[a])
  BY <1>1, <1>8
<1>14. cell.op \in {"call", "call_indirect"} /\ Funcs[a].results = Funcs[cell.a].results
  BY <1>2, <1>4
<1>15. QED
  BY <1>2, <1>6, <1>7, <1>8, <1>12, <1>13, <1>14, EntersTyped

\* call_host keeps the run typed.
LEMMA RunsCallHost ==
  ASSUME Loaded, ThreadOK, Running, ExecCallHost
  PROVE  RInv'
<1>1. AtOp({"call_host"}) /\ CallHostAndContinue(value_stack, Funcs[cell.a])
  BY DEF ExecCallHost
<1>2. mode = "running" /\ cell.op = "call_host" /\ cell.op \in Straight
  BY <1>1, AtOpFacts DEF Straight
<1>3. PICK T \in Seq(Types) : /\ Effect(cell.op, cell.a, cell.b, typing[pc], T)
                              /\ Reaches(pc, pc + 1, T)
  BY <1>2, FlowsOn
<1>4. PICK ts, a, params, res : /\ ts = typing[pc] /\ a = cell.a
                                /\ params = Funcs[a].params /\ res = Funcs[a].results
  OBVIOUS
<1>5. Calling(ts, a) /\ T = Popped(ts, Len(params)) \o res
  <2>1. PICK op, b : op = cell.op /\ b = cell.b
    OBVIOUS
  <2>2. Effect(op, a, b, ts, T)
    BY <1>3, <1>4, <2>1
  <2>3. op \in {"call", "call_host"}
    BY <1>2, <2>1
  <2>4. QED
    BY <1>4, <2>2, <2>3, CallEffect
<1>6. a \in DOMAIN Funcs /\ Len(ts) >= Len(params) /\ LastN(ts, Len(params)) = params
  BY <1>4, <1>5 DEF Calling
<1>7. /\ ts \in Seq(Types) /\ value_stack \in Seq(Values)
      /\ Holds(value_stack, Base(call_stack), ts)
  BY <1>4, RunningFacts
<1>8. PICK n \in Nat : n = Len(params) /\ n \in 0 .. Len(ts)
  <2>1. Len(params) \in Nat /\ Len(ts) \in Nat
    BY <1>4, <1>6, <1>7, FuncFacts
  <2>2. QED
    BY <1>6, <2>1
<1>9. PICK below : below = Popped(ts, n)
  OBVIOUS
<1>10. below \in Seq(Types)
  BY <1>7, <1>8, <1>9, PoppedFacts
<1>11. ts = below \o params
  BY <1>6, <1>7, <1>8, <1>9, PoppedRest
<1>12. Holds(value_stack, Base(call_stack), below \o Funcs[a].params)
  BY <1>4, <1>7, <1>11
<1>13. Reaches(pc, pc + 1, below \o Funcs[a].results)
  BY <1>3, <1>4, <1>5, <1>8, <1>9
<1>14. Len(value_stack) <= ValueStackSize
  BY DEF ThreadOK
<1>15. CallHostAndContinue(value_stack, Funcs[a])
  BY <1>1, <1>4
<1>16. QED
  BY <1>2, <1>6, <1>7, <1>10, <1>12, <1>13, <1>14, <1>15, HostTyped

\* What typing says of the call_indirect at pc.
LEMMA IndirectHere ==
  ASSUME Loaded, ThreadOK, Running, cell.op = "call_indirect"
  PROVE  \E T \in Seq(Types) :
           /\ CallingIndirect(typing[pc], cell.a) /\ Reaches(pc, pc + 1, T)
           /\ T = Popped(typing[pc], Len(Funcs[cell.a].params) + 1)
                    \o Funcs[cell.a].results
<1>1. cell.op \in Straight
  BY DEF Straight
<1>2. PICK T \in Seq(Types) : /\ Effect(cell.op, cell.a, cell.b, typing[pc], T)
                              /\ Reaches(pc, pc + 1, T)
  BY <1>1, FlowsOn
<1>3. PICK op, a, b, ts : op = cell.op /\ a = cell.a /\ b = cell.b /\ ts = typing[pc]
  OBVIOUS
<1>4. Effect(op, a, b, ts, T)
  BY <1>2, <1>3
<1>5. op = "call_indirect"
  BY <1>3
<1>6. CallingIndirect(ts, a)
      /\ T = Popped(ts, Len(Funcs[a].params) + 1) \o Funcs[a].results
  BY <1>4, <1>5, IndirectEffect
<1>7. QED
  BY <1>2, <1>3, <1>6

\* The callee in the table has the signature that was checked.
LEMMA IndirectHolds ==
  ASSUME Loaded, ThreadOK, Running, cell.op = "call_indirect", NEW f \in DOMAIN Funcs,
         Funcs[f] = Funcs[cell.a]
  PROVE  /\ Pop(1) \in Seq(Values) /\ Len(Pop(1)) <= ValueStackSize
         /\ FrameBelow(pc + 1) \in Seq(Types)
         /\ Holds(Pop(1), Base(call_stack), FrameBelow(pc + 1) \o Funcs[f].params)
         /\ Reaches(pc, pc + 1, FrameBelow(pc + 1) \o Funcs[f].results)
<1>2. PICK T \in Seq(Types) :
        /\ CallingIndirect(typing[pc], cell.a) /\ Reaches(pc, pc + 1, T)
        /\ T = Popped(typing[pc], Len(Funcs[cell.a].params) + 1)
                 \o Funcs[cell.a].results
  BY IndirectHere
<1>3. PICK ts, a, params, res : /\ ts = typing[pc] /\ a = cell.a
                                /\ params = Funcs[f].params /\ res = Funcs[f].results
  OBVIOUS
<1>4. params = Funcs[a].params /\ res = Funcs[a].results
  BY <1>3
<1>5. /\ a \in DOMAIN Funcs /\ Len(ts) >= Len(params) + 1
      /\ LastN(Popped(ts, 1), Len(params)) = params
      /\ T = Popped(ts, Len(params) + 1) \o res
  <2>1. /\ CallingIndirect(ts, a)
        /\ T = Popped(ts, Len(Funcs[a].params) + 1) \o Funcs[a].results
    BY <1>2, <1>3
  <2>2. /\ a \in DOMAIN Funcs /\ Len(ts) >= Len(Funcs[a].params) + 1
        /\ LastN(Popped(ts, 1), Len(Funcs[a].params)) = Funcs[a].params
    BY <2>1 DEF CallingIndirect
  <2>3. QED
    BY <1>4, <2>1, <2>2
<1>6. /\ pc \in Nat /\ cell = istream[pc] /\ ts \in Seq(Types)
      /\ value_stack \in Seq(Values)
  BY <1>3, RunningFacts
<1>7. PICK n, m \in Nat : n = Len(params) /\ m = Len(ts) /\ m >= n + 1
  <2>1. Len(params) \in Nat /\ Len(ts) \in Nat
    BY <1>3, <1>6, FuncFacts
  <2>2. QED
    BY <1>5, <2>1
<1>8. 1 \in Nat /\ 1 \in 0 .. m /\ n + 1 \in 0 .. m /\ 1 + n = n + 1 /\ n \in 0 .. m - 1
      /\ 1 <= m
  BY <1>7
<1>9. PICK rest, below : rest = Popped(ts, 1) /\ below = Popped(ts, n + 1)
  OBVIOUS
<1>10. /\ rest \in Seq(Types) /\ Len(rest) = m - 1 /\ below \in Seq(Types)
  BY <1>6, <1>7, <1>8, <1>9, PoppedFacts
<1>11. Popped(rest, n) = below
  BY <1>6, <1>7, <1>8, <1>9, PoppedTwice
<1>12. rest = below \o params
  <2>1. rest = Popped(rest, n) \o LastN(rest, n)
    BY <1>8, <1>10, PoppedRest
  <2>2. QED
    BY <1>5, <1>7, <1>9, <1>11, <2>1
<1>13. FrameBelow(pc + 1) = below
  <2>1. istream[pc].op = "call_indirect" /\ istream[pc].a = a
    BY <1>3, <1>6
  <2>2. FrameBelow(pc + 1)
          = Popped(typing[pc], Len(Funcs[istream[pc].a].params) + 1)
    BY <1>6, <2>1, FrameHere
  <2>3. QED
    BY <1>3, <1>4, <1>7, <1>9, <2>1, <2>2
<1>14. /\ Pop(1) \in Seq(Values) /\ Len(Pop(1)) = Len(value_stack) - 1
       /\ Holds(Pop(1), Base(call_stack), rest)
  BY <1>3, <1>7, <1>8, <1>9, Pops
<1>15. Len(Pop(1)) <= ValueStackSize
  <2>1. Len(value_stack) \in Nat /\ Len(value_stack) <= ValueStackSize
    BY <1>6 DEF ThreadOK
  <2>2. QED
    BY <1>14, <2>1, InterpreterAssumption
<1>16. Reaches(pc, pc + 1, below \o res)
  BY <1>2, <1>5, <1>7, <1>9
<1>17. QED
  BY <1>3, <1>10, <1>12, <1>13, <1>14, <1>15, <1>16

\* call_indirect keeps the run typed.
LEMMA RunsCallIndirect ==
  ASSUME Loaded, ThreadOK, Running, ExecCallIndirect
  PROVE  RInv'
<1>1. AtOp({"call_indirect"})
  BY DEF ExecCallIndirect
<1>2. mode = "running" /\ cell.op = "call_indirect"
  BY <1>1, AtOpFacts
<1>3. PICK i \in 1 .. Len(Table) + 1 :
        LET f == Table[i]
        IN  IF i > Len(Table) THEN TRAP("undefined_table_index")
            ELSE IF f = 0 THEN TRAP("uninitialized_table_element")
            ELSE IF Funcs[f] # Funcs[cell.a]
            THEN TRAP("indirect_call_signature_mismatch")
            ELSE IF f <= NumImports THEN CallHostAndContinue(Pop(1), Funcs[f])
            ELSE Enter(Pop(1), func_offset[f])
  BY DEF ExecCallIndirect
<1>4. CASE \/ TRAP("undefined_table_index") \/ TRAP("uninitialized_table_element")
           \/ TRAP("indirect_call_signature_mismatch")
  <2>1. {"undefined_table_index", "uninitialized_table_element",
         "indirect_call_signature_mismatch"} \subseteq Traps
    BY DEF Traps
  <2>2. QED
    BY <1>4, <2>1, TrapTyped
<1>5. PICK f : f = Table[i]
  OBVIOUS
<1>6. CASE /\ i <= Len(Table) /\ f # 0 /\ Funcs[f] = Funcs[cell.a]
           /\ IF f <= NumImports THEN CallHostAndContinue(Pop(1), Funcs[f])
              ELSE Enter(Pop(1), func_offset[f])
  <2>1. f \in DOMAIN Funcs /\ f \in Nat
    <3>1. Table \in Seq(0 .. Len(Funcs)) /\ i \in 1 .. Len(Table)
      BY <1>3, <1>6, InterpreterAssumption
    <3>2. f \in 0 .. Len(Funcs) /\ f # 0
      BY <1>5, <1>6, <3>1, ElementFacts
    <3>3. DOMAIN Funcs = 1 .. Len(Funcs) /\ Len(Funcs) \in Nat
      BY CompilerAssumption
    <3>4. QED
      BY <3>2, <3>3
  <2>2. /\ Pop(1) \in Seq(Values) /\ Len(Pop(1)) <= ValueStackSize
        /\ FrameBelow(pc + 1) \in Seq(Types)
        /\ Holds(Pop(1), Base(call_stack), FrameBelow(pc + 1) \o Funcs[f].params)
        /\ Reaches(pc, pc + 1, FrameBelow(pc + 1) \o Funcs[f].results)
    BY <1>2, <1>6, <2>1, IndirectHolds
  <2>3. CASE f <= NumImports
    <3>1. CallHostAndContinue(Pop(1), Funcs[f])
      BY <1>6, <2>3
    <3>2. QED
      BY <1>2, <2>1, <2>2, <3>1, HostTyped
  <2>4. CASE ~(f <= NumImports)
    <3>1. Enter(Pop(1), func_offset[f])
      BY <1>6, <2>4
    <3>2. f > NumImports
      BY <2>1, <2>4, CompilerAssumption
    <3>3. Funcs[f].results = Funcs[cell.a].results
          /\ cell.op \in {"call", "call_indirect"}
      BY <1>2, <1>6
    <3>4. QED
      BY <1>2, <2>1, <2>2, <3>1, <3>2, <3>3, EntersTyped
  <2>5. QED
    BY <2>3, <2>4
<1>7. QED
  <2>1. Len(Table) \in Nat
    BY InterpreterAssumption
  <2>2. i > Len(Table) \/ i <= Len(Table)
    BY <2>1
  <2>3. QED
    BY <1>3, <1>4, <1>5, <1>6, <2>2

-----------------------------------------------------------------------------
(* No operand is read below the stack.                                     *)

\* These instructions take no operands.
LEMMA NoOperands ==
  ASSUME NEW c,
         c.op \in {"i32_const", "i64_const", "f32_const", "f64_const", "br", "call",
                   "alloca", "return", "unreachable", "get_global"}
  PROVE  Operands(c) = 0
<1>1. DOMAIN OpcodeTable = {"i32_add", "i32_div_s", "i32_wrap_i64", "i64_eqz",
                            "i32_load", "i64_store", "grow_memory",
                            "current_memory"}
  BY DEF OpcodeTable
<1>2. QED
  BY <1>1 DEF Operands

\* The operands of an instruction that continues behind itself.
LEMMA StraightOperands ==
  ASSUME NEW c \in Cells, NEW ts \in Seq(Types), NEW T,
         c.op \in Opcodes \cup {"select", "set_global", "drop", "get_local",
                                "set_local", "tee_local", "drop_keep",
                                "call_host", "call_indirect"},
         Effect(c.op, c.a, c.b, ts, T)
  PROVE  Operands(c) <= Len(ts)
<1>1. PICK op, a, b : op = c.op /\ a = c.a /\ b = c.b
  OBVIOUS
<1>2. Effect(op, a, b, ts, T)
  BY <1>1
<1>3. a \in Nat /\ b \in Nat /\ Len(ts) \in Nat
  BY <1>1 DEF Cells
<1>4. CASE op \in Opcodes
  <2>1. Len(ts) >= Len(OpcodeTable[op].params)
    BY <1>2, <1>4, OpcodeEffect
  <2>2. Len(OpcodeTable[op].params) \in Nat
    BY <1>4, CompilerAssumption
  <2>3. Operands(c) = Len(OpcodeTable[op].params)
    BY <1>1, <1>4, OperandFacts
  <2>4. QED
    BY <1>3, <2>1, <2>2, <2>3
<1>5. CASE op = "select"
  <2>1. Len(ts) >= 3
    BY <1>2, <1>5, SelectEffect
  <2>2. Operands(c) = 3
    BY <1>1, <1>5, OperandFacts
  <2>3. QED
    BY <1>3, <2>1, <2>2
<1>6. CASE op \in {"set_global", "drop"}
  <2>1. Len(ts) >= 1
    BY <1>2, <1>6, PopEffect
  <2>2. Operands(c) = 1
    BY <1>1, <1>6, OperandFacts
  <2>3. QED
    BY <1>3, <2>1, <2>2
<1>7. CASE op = "get_local"
  <2>1. a \in 1 .. Len(ts)
    BY <1>2, <1>7, GetLocalEffect
  <2>2. Operands(c) = a
    BY <1>1, <1>7, OperandFacts
  <2>3. QED
    BY <1>3, <2>1, <2>2
<1>8. CASE op = "set_local"
  <2>1. a \in 1 .. Len(ts) - 1
    BY <1>2, <1>8, SetLocalEffect
  <2>2. Operands(c) = a + 1
    BY <1>1, <1>8, OperandFacts
  <2>3. QED
    BY <1>3, <2>1, <2>2
<1>9. CASE op = "tee_local"
  <2>1. a \in 1 .. Len(ts)
    BY <1>2, <1>9, TeeLocalEffect
  <2>2. Operands(c) = a
    BY <1>1, <1>9, OperandFacts
  <2>3. QED
    BY <1>3, <2>1, <2>2
<1>10. CASE op = "drop_keep"
  <2>1. Len(ts) >= a + b
    BY <1>2, <1>10, DropKeepEffect
  <2>2. Operands(c) = a + b
    BY <1>1, <1>10, OperandFacts
  <2>3. QED
    BY <1>3, <2>1, <2>2
<1>11. CASE op = "call_host"
  <2>1. Calling(ts, a)
    <3>1. op \in {"call", "call_host"}
      BY <1>11
    <3>2. QED
      BY <1>2, <3>1, CallEffect
  <2>2. a \in DOMAIN Funcs /\ Len(ts) >= Len(Funcs[a].params)
    BY <2>1 DEF Calling
  <2>3. Len(Funcs[a].params) \in Nat
    BY <2>2, FuncFacts
  <2>4. Operands(c) = Len(Funcs[a].params)
    BY <1>1, <1>11, OperandFacts
  <2>5. QED
    BY <1>3, <2>2, <2>3, <2>4
<1>12. CASE op = "call_indirect"
  <2>1. CallingIndirect(ts, a)
    BY <1>2, <1>12, IndirectEffect
  <2>2. a \in DOMAIN Funcs /\ Len(ts) >= Len(Funcs[a].params) + 1
    BY <2>1 DEF CallingIndirect
  <2>3. Len(Funcs[a].params) \in Nat
    BY <2>2, FuncFacts
  <2>4. Operands(c) = 1
    BY <1>1, <1>12, OperandFacts
  <2>5. QED
    BY <1>3, <2>2, <2>3, <2>4
<1>13. QED
  BY <1>1, <1>4, <1>5, <1>6, <1>7, <1>8, <1>9, <1>10, <1>11, <1>12

\* A running thread has the operands its instruction takes.
LEMMA RunningHasOperands ==
  ASSUME Loaded, ThreadOK, Running
  PROVE  HasOperands
<1>1. /\ pc \in 1 .. Len(istream) /\ cell = istream[pc]
      /\ cell.op \notin {"data", "entry"} /\ cell \in Cells
      /\ Live(typing[pc]) /\ typing[pc] \in Seq(Types) /\ Flow(pc)
      /\ Len(value_stack) \in Nat /\ Len(typing[pc]) \in Nat
      /\ Len(typing[pc]) <= Len(value_stack)
  BY RunningFacts
<1>2. PICK op, n, m : op = cell.op /\ n = Operands(cell) /\ m = Len(value_stack)
  OBVIOUS
<1>3. CASE op \in Opcodes \cup {"select", "set_global", "drop", "get_local",
                                "set_local", "tee_local", "drop_keep",
                                "call_host", "call_indirect"}
  <2>1. cell.op \in Straight
    BY <1>2, <1>3 DEF Straight
  <2>2. PICK T \in Seq(Types) : Effect(cell.op, cell.a, cell.b, typing[pc], T)
    BY <2>1, FlowsOn
  <2>3. n <= Len(typing[pc])
    BY <1>1, <1>2, <1>3, <2>2, StraightOperands
  <2>4. n \in Nat
    <3>1. cell.a \in Nat /\ cell.b \in Nat
      BY <1>1 DEF Cells
    <3>2. CASE op \in Opcodes
      <4>1. n = Len(OpcodeTable[op].params)
        BY <1>2, <3>2, OperandFacts
      <4>2. OpcodeTable[op].params \in Seq(Types)
        BY <3>2, CompilerAssumption
      <4>3. QED
        BY <4>1, <4>2
    <3>3. CASE op = "call_host"
      <4>1. n = Len(Funcs[cell.a].params)
        BY <1>2, <3>3, OperandFacts
      <4>2. cell.a \in DOMAIN Funcs
        <5>1. CellOK(istream, pc)
          BY <1>1 DEF Loaded, CInv, WInv
        <5>2. QED
          BY <1>1, <1>2, <3>3, <5>1 DEF CellOK
      <4>3. Funcs[cell.a].params \in Seq(Types)
        BY <4>2, FuncFacts
      <4>4. QED
        BY <4>1, <4>3
    <3>4. CASE op \in {"select", "set_global", "drop", "get_local", "set_local",
                       "tee_local", "drop_keep", "call_indirect"}
      <4>1. \/ n = 1 \/ n = 3 \/ n = cell.a \/ n = cell.a + 1
            \/ n = cell.a + cell.b
        BY <1>2, <3>4, OperandFacts
      <4>2. QED
        BY <3>1, <4>1
    <3>5. QED
      BY <1>3, <3>2, <3>3, <3>4
  <2>5. n <= m
    BY <1>1, <1>2, <2>3, <2>4
  <2>6. QED
    BY <1>1, <1>2, <2>4, <2>5 DEF HasOperands
<1>4. CASE op \in {"br_unless", "br_table"}
  <2>1. n = 1
    BY <1>2, <1>4, OperandFacts
  <2>2. Len(typing[pc]) >= 1
    BY <1>1, <1>2, <1>4 DEF Flow
  <2>3. m >= 1
    BY <1>1, <1>2, <2>2
  <2>4. QED
    BY <1>2, <2>1, <2>3 DEF HasOperands
<1>5. CASE op \in {"i32_const", "i64_const", "f32_const", "f64_const", "br", "call",
                   "alloca", "return", "unreachable", "get_global"}
  <2>1. n = 0
    BY <1>2, <1>5, NoOperands
  <2>2. QED
    BY <1>1, <1>2, <2>1 DEF HasOperands
<1>6. QED
  <2>1. cell.op \in CellOps
    BY <1>1 DEF Cells
  <2>2. \A t \in Types : ConstOp[t] \in {"i32_const", "i64_const", "f32_const",
                                         "f64_const"}
    BY ConstNames
  <2>3. QED
    BY <1>1, <1>2, <1>3, <1>4, <1>5, <2>1, <2>2 DEF CellOps, BranchOps, LabelOps

\* A running thread never leaves the code.
LEMMA RunsInside ==
  ASSUME Loaded, ThreadOK, Running
  PROVE  ~ExecOutside
<1>1. pc \in 1 .. Len(istream) /\ istream \in Seq(Cells)
  BY RunningFacts, LoadedFacts
<1>2. pc \in DOMAIN istream
  BY <1>1
<1>3. QED
  BY <1>2, RunningHasOperands DEF ExecOutside

\* The instructions together.
LEMMA ExecTyped ==
  ASSUME Loaded, ThreadOK, Running, Exec
  PROVE  RInv'
<1>1. CASE ExecConst \/ ExecOpcode \/ ExecSelect
  BY <1>1, RunsConst, RunsOpcode, RunsSelect
<1>2. CASE ExecBr \/ ExecBrUnless \/ ExecBrTable
  BY <1>2, RunsBr, RunsBrUnless, RunsBrTable
<1>3. CASE ExecReturn \/ ExecUnreachable
  BY <1>3, RunsReturn, RunsUnreachable
<1>4. CASE ExecGlobal
  <2>1. \/ /\ AtOp({"get_global"})
           /\ PushAndContinue(value_stack, <<Globals[cell.a].type>>)
        \/ AtOp({"set_global"}) /\ Continue(Pop(1), pc + 1)
    BY <1>4 DEF ExecGlobal
  <2>2. QED
    BY <2>1, RunsGetGlobal, RunsDrop
<1>5. CASE ExecLocal
  <2>1. \/ AtOp({"get_local"}) /\ PushAndContinue(value_stack, <<Pick(cell.a)>>)
        \/ /\ AtOp({"set_local"})
           /\ Continue([Pop(1) EXCEPT ![Len(value_stack) - cell.a] = Pick(1)], pc + 1)
        \/ /\ AtOp({"tee_local"})
           /\ Continue([value_stack EXCEPT ![Len(value_stack) - cell.a + 1] = Pick(1)],
                       pc + 1)
    BY <1>5 DEF ExecLocal
  <2>2. CASE AtOp({"get_local"}) /\ PushAndContinue(value_stack, <<Pick(cell.a)>>)
    BY <2>2, RunsGetLocal
  <2>3. CASE /\ AtOp({"set_local"})
             /\ Continue([Pop(1) EXCEPT ![Len(value_stack) - cell.a] = Pick(1)], pc + 1)
    BY <2>3, RunsSetLocal
  <2>4. CASE /\ AtOp({"tee_local"})
             /\ Continue([value_stack EXCEPT ![Len(value_stack) - cell.a + 1] = Pick(1)],
                         pc + 1)
    BY <2>4, RunsTeeLocal
  <2>5. QED
    BY <2>1, <2>2, <2>3, <2>4
<1>6. CASE ExecCall \/ ExecCallHost \/ ExecCallIndirect
  BY <1>6, RunsCall, RunsCallHost, RunsCallIndirect
<1>7. CASE ExecAlloca \/ ExecDropKeep
  BY <1>7, RunsAlloca, RunsDropKeep
<1>8. CASE ExecDrop
  BY <1>8, RunsDrop DEF ExecDrop
<1>9. CASE ExecOutside
  BY <1>9, RunsInside
<1>10. QED
  BY <1>1, <1>2, <1>3, <1>4, <1>5, <1>6, <1>7, <1>8, <1>9 DEF Exec

-----------------------------------------------------------------------------
(* Where a run starts.                                                     *)

\* Without callers all of the stack is the current function's.
LEMMA NoFrames ==
  ASSUME NEW calls, Len(calls) = 0
  PROVE  Len(Base(calls)) = 0 /\ Len(Base(calls)') = 0
<1>1. ASSUME NEW fs, fs = [k \in 1 .. 0 |-> fs[k]] PROVE Len(FlattenSeq(fs)) = 0
  <2>1. Len(fs) = 0
    BY <1>1
  <2>2. QED
    BY <2>1, FlattenEmpty
<1>2. Frames(calls) = [k \in 1 .. 0 |-> FrameBelow(calls[k])]
  BY DEF Frames
<1>3. Frames(calls)' = [k \in 1 .. 0 |-> FrameBelow(calls[k])']
  BY DEF Frames
<1>4. Frames(calls) = [k \in 1 .. 0 |-> Frames(calls)[k]]
  BY <1>2
<1>5. Frames(calls)' = [k \in 1 .. 0 |-> (Frames(calls)')[k]]
  BY <1>3
<1>6. QED
  BY <1>1, <1>4, <1>5 DEF Base

\* Above an empty base the stack holds the types themselves.
LEMMA HoldsAlone ==
  ASSUME NEW stack, NEW base, Len(base) = 0, NEW ts \in Seq(Types),
         Shaped(stack, ts)
  PROVE  Holds(stack, base, ts)
<1>1. PICK n \in Nat : n = Len(ts)
  OBVIOUS
<1>2. Len(stack) = n /\ \A i \in 1 .. n : Match(stack[i], ts[i])
  BY <1>1 DEF Shaped
<1>3. n = 0 + n /\ \A i \in 1 .. n : 0 + i = i
  OBVIOUS
<1>4. ASSUME NEW i \in 1 .. n PROVE Match(stack[0 + i], ts[i])
  BY <1>2, <1>3
<1>5. QED
  BY <1>1, <1>2, <1>3, <1>4 DEF Holds

\* Starting a function starts a typed run.
LEMMA RunTyped ==
  ASSUME Loaded, ThreadOK, NEW f \in DOMAIN Funcs, NEW args \in ArgLists,
         RunFunction(f, args)
  PROVE  RInv'
<1>1. mode = "idle" /\ run_func' = f /\ UNCHANGED compilerVars /\ call_stack = <<>>
  BY DEF RunFunction, ThreadOK
<1>2. PICK pushed, params, res : /\ pushed = push_args(Funcs[f], args)
                                 /\ params = Funcs[f].params
                                 /\ res = Funcs[f].results
  OBVIOUS
<1>3. pushed = "ok" => args = params /\ Len(args) <= ValueStackSize
  BY <1>2, PushArgs
<1>4. params \in Seq(Types) /\ res \in Seq(Types) /\ res \in Seq(Values)
      /\ args \in Seq(Values)
  BY <1>2, FuncFacts, SigFacts, TypesAreValues, InterpreterAssumption
<1>5. CASE pushed # "ok" /\ EndRun(pushed, results)
  BY <1>5 DEF EndRun, RInv
<1>6. CASE /\ pushed = "ok" /\ f > NumImports
           /\ mode' = "running" /\ pc' = func_offset[f]
           /\ value_stack' = args /\ UNCHANGED <<call_stack, result, results>>
  <2>1. PICK t : t = func_offset[f]
    OBVIOUS
  <2>2. /\ t \in 1 .. Len(istream) /\ istream[t].op \notin {"data", "entry"}
        /\ typing[t] = params /\ Live(params) /\ In(f, t)
    BY <1>2, <1>6, <2>1, Starting
  <2>3. CodeKept
    BY <1>1, UnchangedKept
  <2>4. /\ UNCHANGED <<istream, typing, func_offset>>
        /\ pc' = t /\ value_stack' = params /\ call_stack' = <<>>
    BY <1>1, <1>3, <1>6, <2>1, <2>3 DEF CodeKept
  <2>5. PICK none : none = <<>>
    OBVIOUS
  <2>6. Len(none) = 0 /\ call_stack' = none
    BY <2>4, <2>5
  <2>7. Callers(none)'
    BY <2>6 DEF Callers
  <2>8. Owners(t, none)'
    <3>1. ASSUME NEW k \in 1 .. 1
          PROVE  Returning(Position(t, none, k), Wanted(none, k))'
      <4>1. k = 1
        OBVIOUS
      <4>2. Position(t, none, k) = t
        BY <2>6, <4>1 DEF Position
      <4>3. Wanted(none, k)' = Funcs[f].results
        BY <1>1, <4>1 DEF Wanted
      <4>4. In(f, t)'
        BY <2>2, <2>4 DEF In
      <4>5. Returning(t, Funcs[f].results)'
        BY <4>4 DEF Returning
      <4>6. QED
        BY <4>2, <4>3, <4>5 DEF Returning, Position
    <3>2. QED
      BY <2>6, <3>1 DEF Owners
  <2>9. Holds(params, Base(none)', params)
    <3>1. Shaped(params, params)
      BY DEF Shaped, Match
    <3>2. Len(Base(none)') = 0
      BY <2>6, NoFrames
    <3>3. QED
      BY <1>4, <3>1, <3>2, HoldsAlone
  <2>10. Running'
    BY <2>2, <2>4, <2>6, <2>7, <2>8, <2>9 DEF Running, RunningAt, Callers, Owners,
       Position, Holds
  <2>11. QED
    BY <1>6, <2>10 DEF RInv
<1>7. CASE /\ pushed = "ok"
           /\ \E out \in wasm_call_host(args, Funcs[f]) :
                IF out.result = "ok" THEN copy_results(out.stack, Funcs[f])
                ELSE EndRun(out.result, results)
  <2>1. PICK out \in wasm_call_host(args, Funcs[f]) :
          IF out.result = "ok" THEN copy_results(out.stack, Funcs[f])
          ELSE EndRun(out.result, results)
    BY <1>7
  <2>2. CASE out.result # "ok"
    BY <2>1, <2>2 DEF EndRun, RInv
  <2>3. CASE out.result = "ok"
    <3>1. PICK low : low = Truncate(args, Len(args) - Len(params))
      OBVIOUS
    <3>2. out.stack = low \o res
      BY <1>2, <1>3, <1>4, <1>7, <2>3, <3>1, HostFacts
    <3>3. low = <<>>
      <4>1. Len(args) - Len(params) = 0 /\ 0 \in 0 .. Len(args)
        BY <1>3, <1>4, <1>7
      <4>2. low \in Seq(Values) /\ Len(low) = 0
        BY <1>4, <3>1, <4>1, TruncateFacts
      <4>3. QED
        BY <4>2, EmptySeq
    <3>4. out.stack = res
      BY <1>4, <3>2, <3>3, EmptyConcat
    <3>5. Shaped(res, res)
      BY DEF Shaped, Match
    <3>6. copy_results(res, Funcs[f])
      BY <2>1, <2>3, <3>4
    <3>7. Shaped(res, Funcs[f].results)
      BY <1>2, <3>5
    <3>8. QED
      BY <1>1, <1>4, <3>6, <3>7, CopyTyped
  <2>4. QED
    BY <2>2, <2>3
<1>8. QED
  BY <1>2, <1>5, <1>6, <1>7 DEF RunFunction

-----------------------------------------------------------------------------
(* Runs of checked modules.                                                *)

\* Nothing runs at first.
LEMMA RunsInit == SysInit => RInv
BY DEF SysInit, ThreadInit, RInv

\* A stutter keeps the run typed.
LEMMA StillRunning ==
  ASSUME UNCHANGED vars, Running
  PROVE  Running'
<1>1. UNCHANGED compilerVars /\ pc' = pc /\ value_stack' = value_stack
      /\ call_stack' = call_stack /\ run_func' = run_func
  BY DEF vars, threadVars
<1>2. PICK p, stack, calls : p = pc /\ stack = value_stack /\ calls = call_stack
  OBVIOUS
<1>3. RunningAt(p, stack, calls)
  BY <1>2 DEF Running
<1>4. pc' = p /\ value_stack' = stack /\ call_stack' = calls
  BY <1>1, <1>2
<1>5. QED
  BY <1>1, <1>3, <1>4, RunningKept, UnchangedKept

\* Every step keeps the run typed.
LEMMA StepRuns ==
  ASSUME CInv, ThreadOK, LoadedFirst, RInv, [Next]_vars
  PROVE  RInv'
<1>1. CASE Read
  BY <1>1, ReadOK DEF RInv
<1>2. CASE unchecked' # {}
  BY <1>2 DEF RInv
<1>3. ASSUME NEW f \in DOMAIN Funcs, NEW args \in ArgLists, RunFunction(f, args),
             unchecked' = {}
      PROVE  RInv'
  <2>1. CodeKept
    BY <1>3, RunOK
  <2>2. status = "loaded" /\ unchecked = {}
    BY <1>3, <2>1 DEF RunFunction, CodeKept
  <2>3. QED
    BY <1>3, <2>2, RunTyped DEF Loaded
<1>4. CASE Exec /\ unchecked' = {}
  <2>1. CodeKept
    BY <1>4, ExecOK
  <2>2. unchecked = {}
    BY <1>4, <2>1 DEF CodeKept
  <2>3. mode = "running"
    BY <1>4 DEF Exec, ExecConst, ExecOpcode, ExecSelect, ExecBr, ExecBrUnless,
       ExecBrTable, ExecReturn, ExecUnreachable, ExecGlobal, ExecLocal, ExecCall,
       ExecCallHost, ExecCallIndirect, ExecAlloca, ExecDrop, ExecDropKeep,
       ExecOutside, AtOp
  <2>4. Loaded /\ Running
    BY <2>2, <2>3 DEF RInv, ThreadOK, Loaded
  <2>5. QED
    BY <1>4, <2>4, ExecTyped
<1>5. CASE UNCHANGED vars
  <2>1. /\ mode' = mode /\ result' = result /\ results' = results
        /\ run_func' = run_func /\ unchecked' = unchecked
    BY <1>5 DEF vars, threadVars, compilerVars
  <2>2. Running => Running'
    BY <1>5, StillRunning
  <2>3. Shaped(results, Funcs[run_func].results) =>
          Shaped(results, Funcs[run_func].results)'
    BY <2>1 DEF Shaped, Match
  <2>4. QED
    BY <2>1, <2>2, <2>3 DEF RInv
<1>6. QED
  BY <1>1, <1>2, <1>3, <1>4, <1>5 DEF Next, Ended

\* PredictedStack is the frames below and the types at pc.
LEMMA PredictedIs ==
  ASSUME call_stack \in Seq(Nat)
  PROVE  PredictedStack = Base(call_stack) \o typing[pc]
<1>1. DOMAIN call_stack = 1 .. Len(call_stack)
  OBVIOUS
<1>2. QED
  BY <1>1 DEF PredictedStack, Base, Frames

\* Values that match the types one by one fit them.
LEMMA ShapedFits ==
  ASSUME PushesResults, NEW vals, NEW types, Shaped(vals, types), NEW S,
         vals \in Seq(S)
  PROVE  Fits(vals, types)
<1>1. DOMAIN vals = 1 .. Len(types)
  BY DEF Shaped
<1>2. QED
  BY <1>1 DEF Fits, Shaped, Match

\* Where a checked module stands.
LEMMA RunsTypeSound ==
  ASSUME PushesResults, CInv, ThreadOK, RInv
  PROVE  TypeSound
<1> SUFFICES ASSUME mode = "running", unchecked = {}
             PROVE  /\ pc \in DOMAIN istream
                    /\ cell.op \notin {"data", "entry"}
                    /\ \A k \in DOMAIN call_stack : ReturnsFromCall(call_stack[k])
                    /\ Fits(value_stack, PredictedStack)
  BY DEF TypeSound
<1>1. Loaded /\ Running
  BY DEF RInv, ThreadOK, Loaded
<1>2. /\ pc \in 1 .. Len(istream) /\ cell.op \notin {"data", "entry"}
      /\ typing[pc] \in Seq(Types) /\ value_stack \in Seq(Values)
      /\ call_stack \in Seq(Nat) /\ Callers(call_stack)
      /\ Base(call_stack) \in Seq(Types)
      /\ Holds(value_stack, Base(call_stack), typing[pc])
  BY <1>1, RunningFacts
<1>3. pc \in DOMAIN istream
  <2>1. istream \in Seq(Cells)
    BY <1>1, LoadedFacts
  <2>2. QED
    BY <1>2, <2>1
<1>4. \A k \in DOMAIN call_stack : ReturnsFromCall(call_stack[k])
  <2>1. \A k \in 1 .. Len(call_stack) : Caller(call_stack[k])
    BY <1>2 DEF Callers
  <2>2. \A k \in 1 .. Len(call_stack) : ReturnsFromCall(call_stack[k])
    BY <2>1 DEF Caller
  <2>3. DOMAIN call_stack = 1 .. Len(call_stack)
    BY <1>2
  <2>4. QED
    BY <2>2, <2>3
<1>5. Shaped(value_stack, Base(call_stack) \o typing[pc])
  BY <1>2, HoldsWhole
<1>6. Fits(value_stack, PredictedStack)
  BY <1>2, <1>5, PredictedIs, ShapedFits
<1>7. QED
  BY <1>2, <1>3, <1>4, <1>6

\* A typed run returns results of the types the function declares.
LEMMA RunsResultsTyped ==
  ASSUME PushesResults, ThreadOK, RInv
  PROVE  ResultsTyped
<1> SUFFICES ASSUME result = "ok", mode = "idle", unchecked = {}, run_func # 0
             PROVE  Fits(results, Funcs[run_func].results)
  BY DEF ResultsTyped
<1>1. Shaped(results, Funcs[run_func].results) /\ results \in Seq(Values)
  BY DEF RInv, ThreadOK
<1>2. QED
  BY <1>1, ShapedFits

\* What holds of every state of a thread and its module.
LEMMA RunsInductive == Spec => [](CInv /\ ThreadOK /\ LoadedFirst /\ RInv)
<1>1. SysInit => CInv /\ ThreadOK /\ LoadedFirst /\ RInv
  BY SysInitOK, RunsInit
<1>2. (CInv /\ ThreadOK /\ LoadedFirst /\ RInv) /\ [Next]_vars
        => (CInv /\ ThreadOK /\ LoadedFirst /\ RInv)'
  BY StepOK, StepRuns
<1>3. QED
  BY <1>1, <1>2, PTL DEF Spec

\* For every module that does not use an unchecked condition, every table, every
\* argument list and every size of the stacks: the interpreter, which checks
\* nothing but the tops of its stacks, never reads an operand below the bottom
\* of the value stack, never takes table data for an instruction, never leaves
\* the istream, and finds the results and nothing else when it returns.
THEOREM RunsDefinedAlways == Spec => []RunsDefined
<1>1. RInv => RunsDefined
  BY DEF RInv, RunsDefined
<1>2. QED
  BY <1>1, RunsInductive, PTL

\* Type soundness, when every opcode writes the field of its result type (all
\* of them but i64_eqz do): whatever the types of the module's functions and
\* however deep its calls, the untyped stack of a running thread is, value by
\* value, the stack of types the compiler had at that instruction.
THEOREM TypeSoundAlways ==
  ASSUME PushesResults
  PROVE  Spec => []TypeSound
<1>1. CInv /\ ThreadOK /\ RInv => TypeSound
  BY RunsTypeSound
<1>2. QED
  BY <1>1, RunsInductive, PTL

\* Under the same hypothesis a run that ends normally returns values of the
\* types in the signature of the function that was called.
THEOREM ResultsTypedAlways ==
  ASSUME PushesResults
  PROVE  Spec => []ResultsTyped
<1>1. ThreadOK /\ RInv => ResultsTyped
  BY RunsResultsTyped
<1>2. QED
  BY <1>1, RunsInductive, PTL

=============================================================================
