------------------------ MODULE ValidatedLoadProofs -------------------------
(***************************************************************************)
(* Proof that the function-body compiler loads every module the validator  *)
(* accepts, on the same stacks and with nothing left unchecked, for every  *)
(* function index space, opcode set and bound.                             *)
(***************************************************************************)
EXTENDS ValidatedLoad, FuncCompilerProofs

-----------------------------------------------------------------------------
(* The compiler runs on its own in LoadSpec.                               *)

\* A step of the two checkers is a callback of the compiler.
LEMMA LoadReads == LoadNext => ReadStep \/ UNCHANGED compilerVars
<1> SUFFICES ASSUME LoadNext PROVE ReadStep \/ UNCHANGED compilerVars
  OBVIOUS
<1>1. BeginBody \/ Locals \/ EndBody \/ Finish => ReadStep
  BY DEF BeginBody, Locals, EndBody, Finish, BlockEnd, ReadStep
<1>2. Blocks \/ Ends => ReadStep
  BY DEF Blocks, Ends, BlockEnd, Expr, ReadStep
<1>3. Branches => ReadStep
  BY DEF Branches, Expr, ReadStep
<1>4. Calls \/ Operators => ReadStep
  BY DEF Calls, Operators, Expr, ReadStep
<1>5. Variables => ReadStep
  BY DEF Variables, Expr, ReadStep
<1>6. LoadEnded => UNCHANGED compilerVars
  BY DEF LoadEnded, loadVars
<1>7. QED
  BY <1>1, <1>2, <1>3, <1>4, <1>5, <1>6 DEF LoadNext

\* The compiler of ValidatedLoad is the one of FuncCompiler: whatever holds of
\* every sequence of callbacks holds of those that follow the validator.
THEOREM LoadImplementsCompiler == LoadSpec => CompilerSpec
<1>1. LoadInit => Init
  BY DEF LoadInit
<1>2. [LoadNext]_loadVars => [ReadStep]_compilerVars
  BY LoadReads DEF loadVars
<1>3. QED
  BY <1>1, <1>2, PTL DEF LoadSpec, CompilerSpec

-----------------------------------------------------------------------------
(* The inductive invariant.                                                *)

VLabels == [label_type : {"func", "block", "loop", "if", "else"}, sig : Sigs,
            type_stack_limit : Nat, broke : BOOLEAN]

\* The module has what an instruction uses.
Uses(c) ==
  /\ c.op \in V!MemoryOps => module.memories > 0
  /\ c.op = "call_indirect" => module.tables > 0

\* The labels of the two checkers, whose limits differ by the locals.
LabelsPaired ==
  /\ v_labels \in Seq(VLabels)
  /\ Len(v_labels) = Len(label_stack)
  /\ \A d \in 1 .. Len(v_labels) :
       /\ label_stack[d].label_type = v_labels[d].label_type
       /\ label_stack[d].sig = v_labels[d].sig
       /\ decls_left = 0 => label_stack[d].type_stack_limit
            = v_labels[d].type_stack_limit + Len(param_and_local_types)
  /\ v_labels[1].sig = Funcs[current_func].results

\* A block is left at an expression that leaves the type ANY, which is above
\* the limit of its label; the blocks around it are not.
BrokePaired ==
  /\ \A d \in 1 .. Len(v_labels) - 1 : ~v_labels[d].broke
  /\ V!top_label.broke <=> top_type_is_any(type_stack)
  /\ V!top_label.broke => V!top_label.type_stack_limit < Len(v_type_stack)

Paired ==
  /\ v_type_stack \in Seq(Types \cup {ANY})
  /\ type_stack = param_and_local_types \o v_type_stack
  /\ decls_left # 0 => v_type_stack = <<>> /\ v_labels[1].type_stack_limit = 0
  /\ LabelsPaired
  /\ BrokePaired

LInv ==
  Validated =>
    /\ status \in {"reading", "loaded"}
    /\ v_skipped = 0
    /\ unchecked = {}
    /\ \A c \in 1 .. Len(istream) : Uses(istream[c])
    /\ current_func = 0 => v_type_stack = <<>>
    /\ current_func # 0 => Paired

-----------------------------------------------------------------------------
(* The stacks of the two checkers in reachable code.                       *)

\* The stack of the compiler when that of the validator is W.
Stack(W) == param_and_local_types \o W

Limit == V!top_label.type_stack_limit

\* The limits of the top labels correspond.
Aligned ==
  /\ param_and_local_types \in Seq(Types)
  /\ Limit \in Nat
  /\ top_label.type_stack_limit = Limit + Len(param_and_local_types)

\* A stack of reachable code, down to the limit at most.
Fits(W) == W \in Seq(Types) /\ Limit <= Len(W)

\* The parts of the compiler's stack.
LEMMA StackFacts ==
  ASSUME param_and_local_types \in Seq(Types), NEW W \in Seq(Types)
  PROVE  /\ Stack(W) \in Seq(Types)
         /\ Len(Stack(W)) = Len(param_and_local_types) + Len(W)
         /\ Len(param_and_local_types) \in Nat /\ Len(W) \in Nat
         /\ \A i \in 1 .. Len(param_and_local_types) :
              Stack(W)[i] = param_and_local_types[i]
         /\ \A i \in 1 .. Len(W) :
              Stack(W)[Len(param_and_local_types) + i] = W[i]
         /\ ~top_type_is_any(Stack(W))
<1>1. /\ Stack(W) \in Seq(Types)
      /\ Len(Stack(W)) = Len(param_and_local_types) + Len(W)
      /\ \A i \in 1 .. Len(param_and_local_types) :
           Stack(W)[i] = param_and_local_types[i]
      /\ \A i \in 1 .. Len(W) :
           Stack(W)[Len(param_and_local_types) + i] = W[i]
  BY ConcatFacts DEF Stack
<1>2. Len(param_and_local_types) \in Nat /\ Len(W) \in Nat
  OBVIOUS
<1>3. ~top_type_is_any(Stack(W))
  <2>1. SUFFICES ASSUME Len(Stack(W)) > Len(param_and_local_types),
                        Stack(W)[Len(Stack(W))] = ANY
                 PROVE  FALSE
    BY DEF top_type_is_any
  <2>2. Len(Stack(W)) \in 1 .. Len(Stack(W))
    BY <1>1, <1>2, <2>1
  <2>3. Stack(W)[Len(Stack(W))] \in Types
    BY <1>1, <2>2, ElementFacts
  <2>4. QED
    BY <2>1, <2>3, AnyIsNoType
<1>4. QED
  BY <1>1, <1>2, <1>3

\* Sequences of the same elements are the same.
LEMMA SeqSame ==
  ASSUME NEW S, NEW s \in Seq(S), NEW t \in Seq(S), Len(s) = Len(t),
         \A i \in 1 .. Len(s) : s[i] = t[i]
  PROVE  s = t
OBVIOUS

\* The first sequence of two is kept by a truncation of the second.
LEMMA ConcatTruncate ==
  ASSUME NEW S, NEW s \in Seq(S), NEW t \in Seq(S), NEW n \in 0 .. Len(t)
  PROVE  Truncate(s \o t, Len(s) + n) = s \o Truncate(t, n)
<1> DEFINE p == Len(s)
           T == Truncate(t, n)
           a == Truncate(s \o t, p + n)
           b == s \o T
<1>1. /\ s \o t \in Seq(S) /\ Len(s \o t) = p + Len(t)
      /\ p \in Nat /\ Len(t) \in Nat /\ n \in Nat
      /\ \A i \in 1 .. p : (s \o t)[i] = s[i]
      /\ \A i \in 1 .. Len(t) : (s \o t)[p + i] = t[i]
  BY ConcatFacts
<1>2. T \in Seq(S) /\ Len(T) = n /\ \A i \in 1 .. n : T[i] = t[i]
  BY TruncateFacts
<1>3. p + n \in 0 .. Len(s \o t)
  BY <1>1
<1>4. /\ a \in Seq(S) /\ Len(a) = p + n
      /\ \A i \in 1 .. p + n : a[i] = (s \o t)[i]
  BY <1>1, <1>3, TruncateFacts
<1> HIDE DEF T
<1>5. /\ b \in Seq(S) /\ Len(b) = p + n
      /\ \A i \in 1 .. p : b[i] = s[i]
      /\ \A i \in 1 .. n : b[p + i] = T[i]
  <2>1. T \in Seq(S)
    BY <1>2
  <2>2. /\ b \in Seq(S) /\ Len(b) = p + Len(T)
        /\ \A i \in 1 .. p : b[i] = s[i]
        /\ \A i \in 1 .. Len(T) : b[p + i] = T[i]
    BY <2>1, ConcatFacts
  <2>3. QED
    BY <1>2, <2>2
<1> HIDE DEF a, b
<1>6. ASSUME NEW i \in 1 .. p + n PROVE a[i] = b[i]
  <2>1. CASE i <= p
    <3>1. i \in 1 .. p
      BY <2>1, <1>1
    <3>2. QED
      BY <3>1, <1>1, <1>4, <1>5
  <2>2. CASE i > p
    <3>1. i - p \in 1 .. n /\ i - p \in 1 .. Len(t) /\ p + (i - p) = i
      BY <2>2, <1>1
    <3>2. (s \o t)[p + (i - p)] = t[i - p] /\ b[p + (i - p)] = T[i - p]
      BY <3>1, <1>1, <1>5
    <3>3. QED
      BY <3>1, <3>2, <1>2, <1>4
  <2>3. QED
    BY <2>1, <2>2, <1>1
<1>7. a = b
  BY <1>4, <1>5, <1>6, SeqSame
<1>8. QED
  BY <1>7 DEF a, b, T

\* A truncated stack.
LEMMA StackTruncate ==
  ASSUME param_and_local_types \in Seq(Types), NEW W \in Seq(Types),
         NEW n \in 0 .. Len(W)
  PROVE  /\ Truncate(W, n) \in Seq(Types)
         /\ Len(Truncate(W, n)) = n
         /\ Truncate(Stack(W), Len(param_and_local_types) + n)
              = Stack(Truncate(W, n))
BY TruncateFacts, ConcatTruncate DEF Stack

\* Concatenation is associative.
LEMMA ConcatAssociative ==
  ASSUME NEW S, NEW a \in Seq(S), NEW b \in Seq(S), NEW c \in Seq(S)
  PROVE  (a \o b) \o c = a \o (b \o c)
OBVIOUS

\* check_type_stack_limit of both.
LEMMA LimitOk ==
  ASSUME Aligned, NEW W, Fits(W), NEW n \in Nat
  PROVE  /\ check_type_stack_limit(Stack(W), n)
              <=> V!check_type_stack_limit(W, n)
         /\ check_type_stack_limit_exact(Stack(W), n)
              <=> V!check_type_stack_limit_exact(W, n)
         /\ V!check_type_stack_limit(W, n) <=> n <= Len(W) - Limit
<1>1. /\ Len(Stack(W)) = Len(param_and_local_types) + Len(W)
      /\ Len(param_and_local_types) \in Nat /\ Len(W) \in Nat
      /\ ~top_type_is_any(Stack(W))
  BY StackFacts DEF Aligned, Fits
<1>2. Limit \in Nat /\ top_label.type_stack_limit = Limit + Len(param_and_local_types)
  BY DEF Aligned
<1>3. Len(Stack(W)) - top_label.type_stack_limit = Len(W) - Limit
  BY <1>1, <1>2
<1>4. V!avail(W) = Len(W) - Limit
  BY DEF V!avail, Limit
<1>5. QED
  BY <1>1, <1>3, <1>4
  DEF check_type_stack_limit, check_type_stack_limit_exact,
      V!check_type_stack_limit, V!check_type_stack_limit_exact

\* The types on top, seen from the bottom of the compiler's stack.
LEMMA TopTypes ==
  ASSUME Aligned, NEW W, Fits(W), NEW e \in Seq(Types), V!check_n_types(W, e)
  PROVE  /\ Len(e) \in Nat /\ Len(e) <= Len(W) - Limit
         /\ Len(e) <= Len(W)
         /\ \A i \in 1 .. Len(e) :
              Stack(W)[Len(Stack(W)) - Len(e) + i] = e[i]
<1>1. /\ Len(Stack(W)) = Len(param_and_local_types) + Len(W)
      /\ Len(param_and_local_types) \in Nat /\ Len(W) \in Nat
      /\ \A i \in 1 .. Len(W) :
           Stack(W)[Len(param_and_local_types) + i] = W[i]
  BY StackFacts DEF Aligned, Fits
<1>2. Len(e) \in Nat /\ Limit \in Nat
  BY DEF Aligned
<1>3. Len(e) <= Len(W) - Limit
  BY <1>2, LimitOk DEF V!check_n_types
<1>4. Len(e) <= Len(W)
  BY <1>1, <1>2, <1>3
<1>5. ASSUME NEW i \in 1 .. Len(e)
      PROVE  Stack(W)[Len(Stack(W)) - Len(e) + i] = e[i]
  <2>1. W[Len(W) - Len(e) + i] = e[i]
    BY DEF V!check_n_types, V!TopTypesAre
  <2>2. /\ Len(W) - Len(e) + i \in 1 .. Len(W)
        /\ Len(Stack(W)) - Len(e) + i
             = Len(param_and_local_types) + (Len(W) - Len(e) + i)
    BY <1>1, <1>2, <1>4
  <2>3. QED
    BY <2>1, <2>2, <1>1
<1>6. QED
  BY <1>2, <1>3, <1>4, <1>5

\* check_n_types of both, for a signature.
LEMMA TypesOk ==
  ASSUME Aligned, NEW W, Fits(W), NEW e \in Sigs, V!check_n_types(W, e)
  PROVE  check_n_types(Stack(W), e)
<1>1. e \in Seq(Types) /\ Len(e) \in 0 .. 1
  BY SigFacts
<1>2. /\ Len(e) \in Nat
      /\ Len(e) <= Len(W) - Limit
      /\ \A i \in 1 .. Len(e) : Stack(W)[Len(Stack(W)) - Len(e) + i] = e[i]
  BY <1>1, TopTypes
<1>3. check_type_stack_limit(Stack(W), Len(e))
  BY <1>2, LimitOk
<1>4. Len(Stack(W)) \in Nat
  BY StackFacts DEF Aligned, Fits
<1>5. ASSUME NEW i \in 0 .. Len(e) - 1
      PROVE  check_type(Stack(W), e[Len(e) - i],
                        Stack(W)[Len(Stack(W)) - Len(e) + i + 1])
  <2> DEFINE n == Len(e)
  <2>0. n \in 0 .. 1 /\ i \in 0 .. n - 1
    BY <1>1
  <2> HIDE DEF n
  <2>a. n = 1 /\ i = 0 /\ n - i = 1 /\ 1 \in 1 .. n
    BY <2>0
  <2>1. Len(e) = 1 /\ i = 0 /\ Len(e) - i = 1 /\ 1 \in 1 .. Len(e)
    BY <2>a DEF n
  <2>2. Len(Stack(W)) - Len(e) + i + 1 = Len(Stack(W)) - Len(e) + 1
    BY <1>4, <2>1
  <2>3. QED
    BY <1>2, <2>1, <2>2 DEF check_type
<1>6. QED
  BY <1>3, <1>5 DEF check_n_types

\* pop_and_check of the compiler.
LEMMA PopOk ==
  ASSUME Aligned, NEW W, Fits(W), NEW e \in Seq(Types), V!check_n_types(W, e)
  PROVE  pop_and_check(Stack(W), e)
<1>1. /\ Len(e) \in Nat
      /\ Len(e) <= Len(W) - Limit
      /\ \A i \in 1 .. Len(e) : Stack(W)[Len(Stack(W)) - Len(e) + i] = e[i]
  BY TopTypes
<1>2. check_type_stack_limit(Stack(W), Len(e))
  BY <1>1, LimitOk
<1>3. QED
  BY <1>1, <1>2 DEF pop_and_check, check_type

\* Both name the first n elements alike.
LEMMA SameTruncate ==
  ASSUME NEW s, NEW n
  PROVE  V!Truncate(s, n) = Truncate(s, n)
BY DEF V!Truncate, Truncate

\* Popping n operands.
LEMMA PopsTo ==
  ASSUME Aligned, NEW W, Fits(W), NEW n \in Nat, n <= Len(W) - Limit
  PROVE  /\ pop_types(Stack(W), n) = Stack(Truncate(W, Len(W) - n))
         /\ Fits(Truncate(W, Len(W) - n))
         /\ Len(Truncate(W, Len(W) - n)) = Len(W) - n
         /\ \A i \in 1 .. Len(W) - n : Truncate(W, Len(W) - n)[i] = W[i]
<1>1. /\ Len(Stack(W)) = Len(param_and_local_types) + Len(W)
      /\ Len(param_and_local_types) \in Nat /\ Len(W) \in Nat
      /\ ~top_type_is_any(Stack(W))
      /\ W \in Seq(Types) /\ Limit \in Nat
      /\ param_and_local_types \in Seq(Types)
  BY StackFacts DEF Aligned, Fits
<1>2. /\ Len(W) - n \in 0 .. Len(W)
      /\ Len(Stack(W)) - n = Len(param_and_local_types) + (Len(W) - n)
      /\ Limit <= Len(W) - n
  BY <1>1
<1>3. /\ Truncate(W, Len(W) - n) \in Seq(Types)
      /\ Len(Truncate(W, Len(W) - n)) = Len(W) - n
      /\ Truncate(Stack(W), Len(param_and_local_types) + (Len(W) - n))
           = Stack(Truncate(W, Len(W) - n))
  BY <1>1, <1>2, StackTruncate
<1>4. \A i \in 1 .. Len(W) - n : Truncate(W, Len(W) - n)[i] = W[i]
  BY <1>1, <1>2, TruncateFacts
<1>5. QED
  BY <1>1, <1>2, <1>3, <1>4 DEF pop_types, Fits

\* Pushing value types.
LEMMA PushesTo ==
  ASSUME Aligned, NEW W, Fits(W), NEW R \in Seq(Types)
  PROVE  push_types(Stack(W), R) = Stack(W \o R) /\ Fits(W \o R)
<1>1. W \in Seq(Types) /\ Len(W) \in Nat /\ Len(R) \in Nat /\ Limit \in Nat
  BY DEF Fits, Aligned
<1>2. W \o R \in Seq(Types) /\ Len(W \o R) = Len(W) + Len(R)
  BY <1>1, ConcatFacts
<1>3. Limit <= Len(W \o R)
  BY <1>1, <1>2 DEF Fits
<1>4. ~top_type_is_any(Stack(W))
  BY <1>1, StackFacts DEF Aligned
<1>5. param_and_local_types \in Seq(Types)
  BY DEF Aligned
<1>6. (param_and_local_types \o W) \o R = param_and_local_types \o (W \o R)
  BY SMTT(30), <1>1, <1>5, ConcatAssociative
<1>7. QED
  BY <1>2, <1>3, <1>4, <1>6 DEF push_types, Stack, Fits

\* Truncating to the limit of the top label.
LEMMA ResetsTo ==
  ASSUME Aligned, NEW W, Fits(W)
  PROVE  /\ reset_type_stack_to_limit(Stack(W))
              = Stack(V!reset_type_stack_to_limit(W))
         /\ Fits(V!reset_type_stack_to_limit(W))
         /\ Len(V!reset_type_stack_to_limit(W)) = Limit
<1>1. /\ Limit \in 0 .. Len(W) /\ W \in Seq(Types)
      /\ param_and_local_types \in Seq(Types)
      /\ Len(param_and_local_types) \in Nat
      /\ top_label.type_stack_limit = Len(param_and_local_types) + Limit
  BY DEF Aligned, Fits
<1>2. V!reset_type_stack_to_limit(W) = Truncate(W, Limit)
  BY SameTruncate DEF V!reset_type_stack_to_limit, Limit
<1>3. /\ Truncate(W, Limit) \in Seq(Types)
      /\ Len(Truncate(W, Limit)) = Limit
      /\ Truncate(Stack(W), Len(param_and_local_types) + Limit)
           = Stack(Truncate(W, Limit))
  BY <1>1, StackTruncate
<1>4. QED
  BY <1>1, <1>2, <1>3 DEF reset_type_stack_to_limit, Fits

\* What follows a transfer of control.
LEMMA UnreachableTo ==
  ASSUME Aligned, NEW W, Fits(W)
  PROVE  UnreachableTypes(Stack(W)) = Stack(V!UnreachableTypes(W))
<1> DEFINE R == V!reset_type_stack_to_limit(W)
<1>1. reset_type_stack_to_limit(Stack(W)) = Stack(R) /\ Fits(R)
  BY ResetsTo
<1> HIDE DEF R
<1>0. R \in Seq(Types) /\ param_and_local_types \in Seq(Types)
  BY <1>1 DEF Aligned, Fits
<1>2. ~top_type_is_any(Stack(R))
  BY <1>0, StackFacts
<1>3. Append(param_and_local_types \o R, ANY)
        = param_and_local_types \o Append(R, ANY)
  <2> DEFINE S == Types \cup {ANY}
  <2>1. R \in Seq(S) /\ param_and_local_types \in Seq(S) /\ ANY \in S
    BY <1>0
  <2> HIDE DEF S
  <2>2. QED
    BY <2>1
<1>4. V!UnreachableTypes(W) = Append(R, ANY)
  BY DEF V!UnreachableTypes, V!ANY, ANY, R
<1>5. QED
  BY <1>1, <1>2, <1>3, <1>4 DEF UnreachableTypes, push_type, Stack

-----------------------------------------------------------------------------
(* What the invariant gives.                                               *)

\* Inside a body, past the local declarations.
InCode == status = "reading" /\ current_func # 0 /\ decls_left = 0

\* The fields of the validator's labels.
LEMMA VLabelFacts ==
  ASSUME LabelsPaired, NEW d \in 1 .. Len(label_stack)
  PROVE  /\ v_labels[d] \in VLabels
         /\ v_labels[d].type_stack_limit \in Nat
         /\ v_labels[d].sig \in Sigs
         /\ v_labels[d].broke \in BOOLEAN
<1>1. v_labels[d] \in VLabels
  BY DEF LabelsPaired
<1>2. QED
  BY <1>1 DEF VLabels

\* The labels inside a body.
LEMMA PairedFacts ==
  ASSUME IInv, InCode, Paired
  PROVE  /\ Aligned
         /\ Len(label_stack) \in Nat /\ Len(label_stack) > 0
         /\ V!top_label = v_labels[Len(label_stack)]
         /\ V!top_label.label_type = top_label.label_type
         /\ V!top_label.sig = top_label.sig
         /\ V!top_label.sig \in Sigs
         /\ \A d \in 1 .. Len(label_stack) :
              /\ v_labels[d].type_stack_limit \in Nat
              /\ v_labels[d].type_stack_limit <= Limit
<1>1. /\ StackTypes /\ LabelsOrdered /\ Body
      /\ Len(label_stack) \in Nat /\ Len(label_stack) > 0
  BY DEF IInv, InCode, Body, StackTypes, LabelsOrdered
<1>2. Len(label_stack) \in 1 .. Len(label_stack)
  BY <1>1
<1>3. V!top_label = v_labels[Len(label_stack)]
  BY DEF V!top_label, Paired, LabelsPaired
<1>4. \A d \in 1 .. Len(label_stack) :
        /\ label_stack[d].label_type = v_labels[d].label_type
        /\ label_stack[d].sig = v_labels[d].sig
        /\ label_stack[d].type_stack_limit
             = v_labels[d].type_stack_limit + Len(param_and_local_types)
        /\ v_labels[d].type_stack_limit \in Nat
        /\ v_labels[d].sig \in Sigs
  BY VLabelFacts DEF Paired, LabelsPaired, InCode
<1>5. param_and_local_types \in Seq(Types) /\ Len(param_and_local_types) \in Nat
  BY <1>1 DEF StackTypes
<1>6. Aligned
  BY <1>2, <1>3, <1>4, <1>5 DEF Aligned, Limit, top_label
<1>7. ASSUME NEW d \in 1 .. Len(label_stack)
      PROVE  v_labels[d].type_stack_limit <= Limit
  <2>1. label_stack[d].type_stack_limit <= top_label.type_stack_limit
    BY <1>1, TopLimit
  <2>2. QED
    BY <2>1, <1>4, <1>5, <1>6 DEF Aligned
<1>8. QED
  BY <1>1, <1>2, <1>3, <1>4, <1>6, <1>7 DEF top_label

\* In reachable code the operands are value types.
LEMMA LiveFits ==
  ASSUME IInv, InCode, Paired, ~V!top_label.broke
  PROVE  Fits(v_type_stack) /\ type_stack = Stack(v_type_stack)
<1>1. Typed(type_stack) /\ ~top_type_is_any(type_stack) /\ Above(type_stack)
  BY DEF IInv, InCode, Paired, BrokePaired
<1>2. /\ type_stack = Stack(v_type_stack)
      /\ v_type_stack \in Seq(Types \cup {ANY})
      /\ param_and_local_types \in Seq(Types)
  BY DEF Paired, Stack, IInv, StackTypes
<1> DEFINE p == Len(param_and_local_types)
           n == Len(v_type_stack)
<1>3. /\ Len(type_stack) = p + n /\ p \in Nat /\ n \in Nat
      /\ \A i \in 1 .. n : type_stack[p + i] = v_type_stack[i]
  <2> DEFINE S == Types \cup {ANY}
  <2>1. v_type_stack \in Seq(S) /\ param_and_local_types \in Seq(S)
    BY <1>2
  <2> HIDE DEF S
  <2>2. QED
    BY <1>2, <2>1, ConcatFacts DEF Stack
<1>4. \A i \in 1 .. Len(type_stack) : type_stack[i] # ANY
  BY <1>1, NoAny
<1>5. ASSUME NEW i \in 1 .. n PROVE v_type_stack[i] \in Types
  <2>1. p + i \in 1 .. Len(type_stack)
    BY <1>3
  <2>2. v_type_stack[i] # ANY
    BY <1>3, <1>4, <2>1
  <2>3. v_type_stack[i] \in Types \cup {ANY}
    BY <1>2, ElementFacts
  <2>4. QED
    BY <2>2, <2>3
<1>6. v_type_stack \in Seq(Types)
  <2>1. v_type_stack = [i \in 1 .. n |-> v_type_stack[i]]
    BY <1>2
  <2>2. v_type_stack \in [1 .. n -> Types]
    BY <1>5, <2>1
  <2>3. QED
    BY <1>3, <2>2
<1>7. Limit <= n
  <2>1. /\ Aligned
        /\ Len(label_stack) \in 1 .. Len(label_stack)
    BY PairedFacts
  <2>2. top_label.type_stack_limit <= Len(type_stack)
    BY <1>1, <2>1 DEF Above, top_label
  <2>3. QED
    BY <1>3, <2>1, <2>2 DEF Aligned
<1>8. QED
  BY <1>2, <1>6, <1>7 DEF Fits

-----------------------------------------------------------------------------
(* A step of both checkers.                                                *)

\* A step that the validator takes without an error and without a gap.
Accepted ==
  /\ FInv /\ IInv /\ LInv /\ Validated
  /\ FInv' /\ IInv' /\ Validated'

IsSeq(s) == \E S : s \in Seq(S)

\* Emitted cells that use what the module has.
AllUse(cells) ==
  /\ IsSeq(cells)
  /\ \A k \in 1 .. Len(cells) : Uses(cells[k])

\* The cells emitted are added to those that were.
LEMMA AllUseConcat ==
  ASSUME NEW s, AllUse(s), NEW t, AllUse(t)
  PROVE  AllUse(s \o t)
<1>1. PICK A : s \in Seq(A)
  BY DEF AllUse, IsSeq
<1>2. PICK B : t \in Seq(B)
  BY DEF AllUse, IsSeq
<1> DEFINE S == A \cup B
<1>3. s \in Seq(S) /\ t \in Seq(S)
  BY <1>1, <1>2
<1> HIDE DEF S
<1>4. /\ s \o t \in Seq(S)
      /\ Len(s \o t) = Len(s) + Len(t)
      /\ Len(s) \in Nat /\ Len(t) \in Nat
      /\ \A i \in 1 .. Len(s) : (s \o t)[i] = s[i]
      /\ \A i \in 1 .. Len(t) : (s \o t)[Len(s) + i] = t[i]
  BY <1>3, ConcatFacts
<1>5. ASSUME NEW k \in 1 .. Len(s \o t) PROVE Uses((s \o t)[k])
  <2>1. CASE k <= Len(s)
    <3>1. k \in 1 .. Len(s)
      BY <2>1, <1>4
    <3>2. QED
      BY <3>1, <1>4 DEF AllUse
  <2>2. CASE k > Len(s)
    <3>1. k - Len(s) \in 1 .. Len(t) /\ Len(s) + (k - Len(s)) = k
      BY <2>2, <1>4
    <3>2. (s \o t)[k] = t[k - Len(s)]
      BY <3>1, <1>4
    <3>3. QED
      BY <3>1, <3>2 DEF AllUse
  <2>3. QED
    BY <2>1, <2>2, <1>4
<1>6. IsSeq(s \o t)
  BY <1>4, Zenon DEF IsSeq
<1>7. QED
  BY <1>5, <1>6 DEF AllUse

\* One cell.
LEMMA AllUseOne ==
  ASSUME NEW c, Uses(c)
  PROVE  AllUse(<<c>>)
<1>1. <<c>> \in Seq({c}) /\ Len(<<c>>) = 1 /\ <<c>>[1] = c
  OBVIOUS
<1>2. IsSeq(<<c>>)
  BY <1>1, Zenon DEF IsSeq
<1>3. QED
  BY <1>1, <1>2 DEF AllUse

\* Two cells.
LEMMA AllUseTwo ==
  ASSUME NEW c, Uses(c), NEW d, Uses(d)
  PROVE  AllUse(<<c, d>>)
<1>1. /\ <<c, d>> \in Seq({c, d}) /\ Len(<<c, d>>) = 2
      /\ <<c, d>>[1] = c /\ <<c, d>>[2] = d
  OBVIOUS
<1>2. IsSeq(<<c, d>>)
  BY <1>1, Zenon DEF IsSeq
<1>3. QED
  BY <1>1, <1>2 DEF AllUse

\* No cell.
LEMMA AllUseNone == AllUse(<<>>)
<1>1. <<>> \in Seq({}) /\ Len(<<>>) = 0
  OBVIOUS
<1>2. IsSeq(<<>>)
  BY <1>1, Zenon DEF IsSeq
<1>3. QED
  BY <1>1, <1>2 DEF AllUse

\* An instruction that needs neither a memory nor a table.
LEMMA PlainUses ==
  ASSUME NEW op, op \notin V!MemoryOps \cup {"call_indirect"},
         NEW target, NEW a, NEW b
  PROVE  Uses(Cell(op, target, a, b))
BY DEF Uses, Cell

\* The code of emit_drop_keep.
LEMMA DropKeepUses ==
  ASSUME NEW drop, NEW keep
  PROVE  AllUse(emit_drop_keep(drop, keep))
<1>1. emit_drop_keep(drop, keep) \in
        {<<>>, <<Cell("drop", 0, 0, 0)>>, <<Cell("drop_keep", 0, drop, keep)>>}
  BY DEF emit_drop_keep
<1>2. /\ Uses(Cell("drop", 0, 0, 0))
      /\ Uses(Cell("drop_keep", 0, drop, keep))
  BY PlainUses DEF V!MemoryOps
<1>3. /\ AllUse(<<Cell("drop", 0, 0, 0)>>)
      /\ AllUse(<<Cell("drop_keep", 0, drop, keep)>>)
  BY <1>2, AllUseOne
<1>4. QED
  BY <1>1, <1>3, AllUseNone

\* The validator's labels, once the top one is marked.
Marked(b) == [v_labels EXCEPT ![Len(v_labels)].broke = b]

\* Marking changes nothing else.
LEMMA MarkedFacts ==
  ASSUME v_labels \in Seq(VLabels), Len(v_labels) > 0, NEW b \in BOOLEAN
  PROVE  /\ Marked(b) \in Seq(VLabels)
         /\ Len(Marked(b)) = Len(v_labels)
         /\ \A d \in 1 .. Len(v_labels) :
              /\ Marked(b)[d].label_type = v_labels[d].label_type
              /\ Marked(b)[d].sig = v_labels[d].sig
              /\ Marked(b)[d].type_stack_limit = v_labels[d].type_stack_limit
              /\ Marked(b)[d].broke = IF d = Len(v_labels) THEN b
                                      ELSE v_labels[d].broke
<1> DEFINE n == Len(v_labels)
           l == [v_labels[n] EXCEPT !.broke = b]
<1>1. n \in Nat /\ n \in 1 .. n /\ v_labels[n] \in VLabels
  OBVIOUS
<1>2. /\ l \in VLabels
      /\ l.label_type = v_labels[n].label_type
      /\ l.sig = v_labels[n].sig
      /\ l.type_stack_limit = v_labels[n].type_stack_limit
      /\ l.broke = b
  BY <1>1 DEF VLabels
<1>3. Marked(b) = [v_labels EXCEPT ![n] = l]
  BY DEF Marked
<1> HIDE DEF l
<1>4. /\ Marked(b) \in Seq(VLabels)
      /\ Len(Marked(b)) = n
      /\ \A d \in 1 .. n : Marked(b)[d] = IF d = n THEN l ELSE v_labels[d]
  BY <1>1, <1>2, <1>3
<1>5. QED
  BY <1>2, <1>4

\* What check_expr does in reachable code.
VStep(ts) ==
  /\ v_type_stack' = ts
  /\ v_labels' = Marked(V!top_type(ts) = ANY)
  /\ UNCHANGED <<v_skipped, module>>

\* A stack in reachable code, or what follows a transfer of control.
Leaves(ts) == Fits(ts) \/ \E W : Fits(W) /\ ts = V!UnreachableTypes(W)

\* Whether the polymorphic type is on top is seen alike.
LEMMA SeenAlike ==
  ASSUME Aligned, NEW ts, Leaves(ts)
  PROVE  /\ ts \in Seq(Types \cup {ANY})
         /\ V!top_type(ts) = ANY <=> top_type_is_any(Stack(ts))
         /\ V!top_type(ts) = ANY => Limit < Len(ts)
<1>1. CASE Fits(ts)
  <2>1. ts \in Seq(Types) /\ Len(ts) \in Nat /\ Limit \in Nat
    BY <1>1 DEF Fits, Aligned
  <2>2. ~top_type_is_any(Stack(ts))
    BY <2>1, StackFacts DEF Aligned
  <2>3. V!top_type(ts) # ANY
    <3>1. CASE V!avail(ts) > 0
      <4>1. Len(ts) \in 1 .. Len(ts)
        BY <2>1, <3>1 DEF V!avail, Limit
      <4>2. ts[Len(ts)] \in Types
        BY <2>1, <4>1, ElementFacts
      <4>3. QED
        BY <3>1, <4>2, AnyIsNoType DEF V!top_type
    <3>2. CASE ~(V!avail(ts) > 0)
      BY <3>2 DEF V!top_type, ANY
    <3>3. QED
      BY <3>1, <3>2
  <2>4. QED
    BY <2>1, <2>2, <2>3
<1>2. ASSUME NEW W, Fits(W), ts = V!UnreachableTypes(W)
      PROVE  /\ ts \in Seq(Types \cup {ANY})
             /\ V!top_type(ts) = ANY
             /\ top_type_is_any(Stack(ts))
             /\ Limit < Len(ts)
  <2> DEFINE R == V!reset_type_stack_to_limit(W)
             S == Types \cup {ANY}
  <2>1. Fits(R) /\ Len(R) = Limit /\ Limit \in Nat
    BY <1>2, ResetsTo DEF Aligned
  <2>2. ts = Append(R, ANY)
    BY <1>2 DEF V!UnreachableTypes, V!ANY, ANY
  <2> HIDE DEF R
  <2>3. R \in Seq(S) /\ ANY \in S /\ param_and_local_types \in Seq(S)
    BY <2>1 DEF Fits, Aligned
  <2> HIDE DEF S
  <2>4. /\ ts \in Seq(S) /\ Len(ts) = Limit + 1 /\ ts[Limit + 1] = ANY
    BY <2>1, <2>2, <2>3
  <2>5. V!avail(ts) = 1
    BY <2>1, <2>4 DEF V!avail, Limit
  <2>6. V!top_type(ts) = ANY
    BY <2>4, <2>5 DEF V!top_type
  <2>7. /\ Len(Stack(ts)) = Len(param_and_local_types) + Len(ts)
        /\ \A i \in 1 .. Len(ts) :
             Stack(ts)[Len(param_and_local_types) + i] = ts[i]
    <3>1. ts \in Seq(S)
      BY <2>4
    <3>2. param_and_local_types \in Seq(S)
      BY <2>3
    <3>3. QED
      BY <3>1, <3>2, ConcatFacts DEF Stack
  <2>8. Len(ts) \in 1 .. Len(ts) /\ Len(param_and_local_types) \in Nat
    BY <2>1, <2>3, <2>4
  <2>9. top_type_is_any(Stack(ts))
    BY <2>1, <2>4, <2>7, <2>8 DEF top_type_is_any
  <2>10. QED
    BY <2>1, <2>4, <2>6, <2>9 DEF S
<1>3. QED
  BY <1>1, <1>2 DEF Leaves

\* An expression without a block of its own, which both checkers accept.
LEMMA ExprKeeps ==
  ASSUME Accepted, InCode, NEW ts, Leaves(ts), VStep(ts),
         type_stack' = Stack(ts),
         UNCHANGED <<label_stack, inFunctionVars, unchecked>>,
         NEW cells, AllUse(cells), istream' = istream \o cells
  PROVE  LInv'
<1>1. /\ Paired /\ IInv /\ v_skipped = 0 /\ unchecked = {}
      /\ istream \in Seq(Cells)
      /\ \A c \in 1 .. Len(istream) : Uses(istream[c])
  BY DEF Accepted, LInv, InCode, FInv
<1>2. /\ Aligned
      /\ Len(label_stack) \in Nat /\ Len(label_stack) > 0
      /\ V!top_label = v_labels[Len(label_stack)]
  BY <1>1, PairedFacts
<1>3. /\ status' = "reading" /\ current_func' = current_func
      /\ decls_left' = 0 /\ param_and_local_types' = param_and_local_types
      /\ current_func # 0 /\ decls_left = 0
  BY DEF InCode, inFunctionVars
<1> DEFINE b == V!top_type(ts) = ANY
<1>4. /\ ts \in Seq(Types \cup {ANY})
      /\ b <=> top_type_is_any(Stack(ts))
      /\ b => Limit < Len(ts)
  BY <1>2, SeenAlike
<1>5. b \in BOOLEAN /\ v_labels' = Marked(b) /\ v_type_stack' = ts
  BY DEF VStep
<1> HIDE DEF b
<1>6. /\ v_labels \in Seq(VLabels) /\ Len(v_labels) = Len(label_stack)
  BY <1>1 DEF Paired, LabelsPaired
<1>7. /\ v_labels' \in Seq(VLabels)
      /\ Len(v_labels') = Len(v_labels)
      /\ \A d \in 1 .. Len(v_labels) :
           /\ v_labels'[d].label_type = v_labels[d].label_type
           /\ v_labels'[d].sig = v_labels[d].sig
           /\ v_labels'[d].type_stack_limit = v_labels[d].type_stack_limit
           /\ v_labels'[d].broke = IF d = Len(v_labels) THEN b
                                   ELSE v_labels[d].broke
  BY <1>2, <1>5, <1>6, MarkedFacts
<1>8. 1 \in 1 .. Len(v_labels) /\ Len(v_labels) \in 1 .. Len(v_labels)
  BY <1>2, <1>6
<1>9. LabelsPaired'
  BY <1>1, <1>3, <1>6, <1>7, <1>8 DEF Paired, LabelsPaired
<1>10. BrokePaired'
  <2>1. \A d \in 1 .. Len(v_labels) - 1 : ~v_labels[d].broke
    BY <1>1 DEF Paired, BrokePaired
  <2>2. ASSUME NEW d \in 1 .. Len(v_labels') - 1 PROVE ~v_labels'[d].broke
    <3>1. Len(v_labels') = Len(v_labels) /\ Len(v_labels) \in Nat
      BY <1>6, <1>7, <1>2
    <3>2. d \in 1 .. Len(v_labels) /\ d # Len(v_labels)
      BY <3>1
    <3>3. d \in 1 .. Len(v_labels) - 1
      BY <3>1
    <3>4. v_labels'[d].broke = v_labels[d].broke
      BY <3>2, <1>7, Zenon
    <3>5. QED
      BY <2>1, <3>3, <3>4, Zenon
  <2>3. /\ V!top_label' = v_labels'[Len(v_labels)]
        /\ V!top_label'.broke = b
        /\ V!top_label'.type_stack_limit = Limit
    BY <1>2, <1>6, <1>7, <1>8 DEF V!top_label, Limit
  <2>4. top_type_is_any(type_stack)' <=> top_type_is_any(Stack(ts))
    BY <1>3 DEF top_type_is_any
  <2>5. QED
    BY <2>2, <2>3, <2>4, <1>4, <1>5 DEF BrokePaired
<1>11. Paired'
  BY <1>3, <1>4, <1>5, <1>9, <1>10 DEF Paired, Stack
<1>12. \A c \in 1 .. Len(istream') : Uses(istream'[c])
  <2>1. AllUse(istream)
    BY <1>1, Zenon DEF AllUse, IsSeq
  <2>2. AllUse(istream \o cells)
    BY <2>1, AllUseConcat
  <2>3. QED
    BY <2>2 DEF AllUse
<1>13. (\A c \in 1 .. Len(istream) : Uses(istream[c]))'
  BY <1>12 DEF Uses, VStep
<1>14. v_skipped' = 0 /\ unchecked' = {}
  BY <1>1 DEF VStep
<1>15. QED
  BY <1>3, <1>11, <1>13, <1>14 DEF LInv

\* Before an expression that is accepted, the code is reachable.
LEMMA Reachable ==
  ASSUME Accepted, NEW callback, InBody(callback), ~V!top_label.broke
  PROVE  /\ InCode /\ Paired /\ IInv /\ Aligned
         /\ Fits(v_type_stack) /\ type_stack = Stack(v_type_stack)
<1>1. InCode /\ Paired /\ IInv
  BY DEF Accepted, LInv, InBody, InCode
<1>2. QED
  BY <1>1, PairedFacts, LiveFits

-----------------------------------------------------------------------------
(* Operators, constants, locals and globals.                               *)

\* Callbacks that pop, push and emit one cell.
LEMMA SimpleLoads ==
  ASSUME Accepted, NEW callback, InBody(callback), ~V!top_label.broke,
         NEW params \in Seq(Types), V!check_n_types(v_type_stack, params),
         NEW results \in Seq(Types),
         VStep(V!pop_and_check(v_type_stack, params) \o results),
         NEW cell, Uses(cell), SimpleExpr(params, results, cell)
  PROVE  LInv'
<1> DEFINE W == v_type_stack
           n == Len(params)
           T == Truncate(W, Len(W) - n)
<1>1. /\ InCode /\ Aligned /\ Fits(W) /\ type_stack = Stack(W)
  BY Reachable
<1>2. n \in Nat /\ n <= Len(W) - Limit
  BY <1>1, TopTypes
<1>3. V!pop_and_check(W, params) = T
  BY <1>1, <1>2, LimitOk, SameTruncate DEF V!pop_and_check
<1>4. pop_types(Stack(W), n) = Stack(T) /\ Fits(T)
  BY <1>1, <1>2, PopsTo
<1> HIDE DEF T
<1>5. push_types(Stack(T), results) = Stack(T \o results) /\ Fits(T \o results)
  BY <1>1, <1>4, PushesTo
<1>6. pop_and_check(type_stack, params)
  BY <1>1, PopOk
<1>7. /\ istream' = istream \o <<cell>>
      /\ type_stack' = Stack(T \o results)
      /\ UNCHANGED <<label_stack, inFunctionVars, unchecked>>
  BY <1>1, <1>4, <1>5, <1>6 DEF SimpleExpr, Checked, emit, NoLabelChange
<1>8. AllUse(<<cell>>)
  BY AllUseOne
<1>9. Leaves(T \o results) /\ VStep(T \o results)
  BY <1>3, <1>5 DEF Leaves
<1>10. QED
  BY <1>1, <1>7, <1>8, <1>9, ExprKeeps

\* Unary and binary operators, loads, stores and the size of the memory.
LEMMA OpcodeLoads ==
  ASSUME Accepted, NEW op \in Opcodes,
         Expr(OnOpcode(op), V!CheckOpcode(op), None)
  PROVE  LInv'
<1> DEFINE params == OpcodeTable[op].params
           result == OpcodeTable[op].result
<1>1. OnOpcode(op) /\ V!CheckOpcode(op) /\ V!Live
  BY DEF Expr, Accepted, Validated
<1>2. /\ V!check_has_memory(op)
      /\ V!check_n_types(v_type_stack, params)
      /\ VStep(V!pop_and_check(v_type_stack, params) \o result)
  BY <1>1 DEF V!CheckOpcode, V!check_expr, V!Errors, VStep, Marked, V!ANY, ANY,
              Accepted, Validated
<1>3. params \in Seq(Types) /\ result \in Seq(Types)
  BY CompilerAssumption, SigFacts
<1>4. Uses(Cell(op, 0, 0, 0))
  <2>1. op # "call_indirect"
    BY CompilerAssumption DEF OpcodeTable
  <2>2. QED
    BY <1>2, <2>1 DEF Uses, Cell, V!check_has_memory
<1>5. InBody("opcode") /\ SimpleExpr(params, result, Cell(op, 0, 0, 0))
  BY <1>1 DEF OnOpcode
<1>6. ~V!top_label.broke
  BY <1>1 DEF V!Live
<1> HIDE DEF params, result
<1>7. QED
  BY <1>2, <1>3, <1>4, <1>5, <1>6, SimpleLoads

\* A stack that nothing is asked of is the stack itself.
LEMMA PopNothing ==
  ASSUME Aligned, NEW W, Fits(W)
  PROVE  V!check_n_types(W, <<>>) /\ V!pop_and_check(W, <<>>) = W
<1>1. W \in Seq(Types) /\ Len(W) \in Nat /\ Limit \in Nat /\ Limit <= Len(W)
  BY DEF Fits, Aligned
<1>2. V!check_type_stack_limit(W, 0)
  BY <1>1, LimitOk
<1>3. Len(<<>>) = 0 /\ DOMAIN <<>> = {}
  OBVIOUS
<1>4. SubSeq(W, 1, Len(W) - 0) = W
  <2>1. Len(W) - 0 = Len(W)
    BY <1>1
  <2>2. SubSeq(W, 1, Len(W)) = W
    BY <1>1
  <2>3. QED
    BY <2>1, <2>2
<1>5. V!check_n_types(W, <<>>)
  BY <1>2, <1>3 DEF V!check_n_types, V!TopTypesAre
<1>6. V!pop_and_check(W, <<>>) = W
  BY <1>2, <1>3, <1>4 DEF V!pop_and_check, V!Truncate
<1>7. QED
  BY <1>5, <1>6

\* An expression that pushes a value and pops none.
LEMMA PushLoads ==
  ASSUME Accepted, NEW callback, InBody(callback), ~V!top_label.broke,
         NEW type \in Types, VStep(Append(v_type_stack, type)),
         NEW cell, Uses(cell), SimpleExpr(<<>>, <<type>>, cell)
  PROVE  LInv'
<1>1. Aligned /\ Fits(v_type_stack)
  BY Reachable
<1>2. /\ V!check_n_types(v_type_stack, <<>>)
      /\ V!pop_and_check(v_type_stack, <<>>) = v_type_stack
  BY <1>1, PopNothing
<1>3. v_type_stack \o <<type>> = Append(v_type_stack, type)
  BY <1>1 DEF Fits
<1>4. <<>> \in Seq(Types) /\ <<type>> \in Seq(Types)
  OBVIOUS
<1>5. VStep(V!pop_and_check(v_type_stack, <<>>) \o <<type>>)
  BY <1>2, <1>3
<1>6. QED
  BY <1>2, <1>4, <1>5, SimpleLoads

\* An expression that pops a value and pushes none.
LEMMA PopLoads ==
  ASSUME Accepted, NEW callback, InBody(callback), ~V!top_label.broke,
         NEW type \in Types, V!check_n_types(v_type_stack, <<type>>),
         VStep(V!pop_and_check(v_type_stack, <<type>>)),
         NEW cell, Uses(cell), SimpleExpr(<<type>>, <<>>, cell)
  PROVE  LInv'
<1> DEFINE T == V!pop_and_check(v_type_stack, <<type>>)
<1>1. Aligned /\ Fits(v_type_stack)
  BY Reachable
<1>2. v_type_stack \in Seq(Types) /\ Len(v_type_stack) \in Nat
  BY <1>1 DEF Fits
<1>3. <<>> \in Seq(Types) /\ <<type>> \in Seq(Types) /\ Len(<<type>>) = 1
  OBVIOUS
<1>4. Len(<<type>>) <= Len(v_type_stack) - Limit /\ Limit \in Nat
  BY <1>1, <1>3, TopTypes DEF Aligned
<1>5. T \in Seq(Types)
  <2>1. T = Truncate(v_type_stack, Len(v_type_stack) - 1)
    BY <1>1, <1>3, <1>4, LimitOk, SameTruncate DEF V!pop_and_check
  <2>2. Fits(Truncate(v_type_stack, Len(v_type_stack) - 1))
    BY <1>1, <1>3, <1>4, PopsTo
  <2>3. QED
    BY <2>1, <2>2 DEF Fits
<1> HIDE DEF T
<1>6. T \o <<>> = T
  BY <1>5
<1>7. VStep(T \o <<>>)
  BY <1>6 DEF T
<1>8. QED
  BY <1>3, <1>7, SimpleLoads DEF T

\* Constants.
LEMMA ConstLoads ==
  ASSUME Accepted, NEW t \in Types, Expr(OnConst(t), V!CheckConst(t), None)
  PROVE  LInv'
<1>1. OnConst(t) /\ V!CheckConst(t) /\ V!Live
  BY DEF Expr, Accepted, Validated
<1>2. VStep(Append(v_type_stack, t))
  BY <1>1 DEF V!CheckConst, V!check_expr, VStep, Marked, V!ANY, ANY
<1>3. /\ InBody("const")
      /\ SimpleExpr(<<>>, <<t>>, Cell(ConstOp[t], 0, 0, 0))
  BY <1>1 DEF OnConst
<1>4. ConstOp[t] \notin V!MemoryOps \cup {"call_indirect"}
  BY CompilerAssumption DEF ConstOp, V!MemoryOps
<1>5. Uses(Cell(ConstOp[t], 0, 0, 0))
  BY <1>4, PlainUses
<1>6. ~V!top_label.broke
  BY <1>1 DEF V!Live
<1>7. QED
  BY <1>2, <1>3, <1>5, <1>6, PushLoads

\* The types of the globals.
LEMMA GlobalFacts ==
  ASSUME NEW g \in 1 .. Len(Globals)
  PROVE  Globals[g].type \in Types /\ Globals[g].mutable \in BOOLEAN
<1> DEFINE R == [type : Types, mutable : BOOLEAN]
<1>1. Globals \in Seq(R)
  BY CompilerAssumption
<1> HIDE DEF R
<1>2. Globals[g] \in R
  BY <1>1
<1>3. QED
  BY <1>2 DEF R

\* get_global.
LEMMA GetGlobalLoads ==
  ASSUME Accepted, NEW g \in 1 .. Len(Globals) + 1,
         Expr(OnGetGlobal(g), V!CheckGetGlobal(g), None)
  PROVE  LInv'
<1>1. OnGetGlobal(g) /\ V!CheckGetGlobal(g) /\ V!Live
  BY DEF Expr, Accepted, Validated
<1>2. /\ g <= Len(Globals)
      /\ VStep(Append(v_type_stack, Globals[g].type))
  BY <1>1 DEF V!CheckGetGlobal, V!check_expr, V!Errors, VStep, Marked, V!ANY,
              ANY, Accepted, Validated
<1>3. g \in 1 .. Len(Globals)
  BY <1>2
<1>4. Globals[g].type \in Types
  BY <1>3, GlobalFacts
<1>5. /\ InBody("global")
      /\ SimpleExpr(<<>>, <<Globals[g].type>>, Cell("get_global", 0, g, 0))
  BY <1>1, <1>2 DEF OnGetGlobal, Checked
<1>6. Uses(Cell("get_global", 0, g, 0))
  BY PlainUses DEF V!MemoryOps
<1>7. ~V!top_label.broke
  BY <1>1 DEF V!Live
<1>8. QED
  BY <1>2, <1>4, <1>5, <1>6, <1>7, PushLoads

\* set_global: that the validator does not ask whether the global is mutable
\* is a gap.
LEMMA SetGlobalLoads ==
  ASSUME Accepted, NEW g \in 1 .. Len(Globals) + 1,
         Expr(OnSetGlobal(g), V!CheckSetGlobal(g),
              If(g <= Len(Globals) /\ ~Globals[g].mutable, "set_global"))
  PROVE  LInv'
<1> DEFINE types == [i \in DOMAIN Globals |-> Globals[i].type]
           type == V!TypeAt(types, g)
<1>1. /\ OnSetGlobal(g) /\ V!CheckSetGlobal(g) /\ V!Live
      /\ ~(g <= Len(Globals) /\ ~Globals[g].mutable)
  BY DEF Expr, Accepted, Validated, If
<1>2. /\ g <= Len(Globals)
      /\ V!check_n_types(v_type_stack, <<type>>)
      /\ VStep(V!pop_and_check(v_type_stack, <<type>>))
  BY <1>1 DEF V!CheckSetGlobal, V!check_expr, V!Errors, VStep, Marked, V!ANY,
              ANY, Accepted, Validated
<1>3. g \in 1 .. Len(Globals)
  BY <1>2
<1>4. Globals[g].type \in Types
  BY <1>3, GlobalFacts
<1>5. type = Globals[g].type
  <2>1. DOMAIN Globals = 1 .. Len(Globals) /\ Len(Globals) \in Nat
    BY CompilerAssumption
  <2>2. Len(types) = Len(Globals)
    BY <2>1
  <2>3. QED
    BY <1>3, <2>1, <2>2 DEF V!TypeAt
<1> HIDE DEF type
<1>6. /\ InBody("global")
      /\ SimpleExpr(<<type>>, <<>>, Cell("set_global", 0, g, 0))
  BY <1>1, <1>2, <1>5 DEF OnSetGlobal, Checked
<1>7. Uses(Cell("set_global", 0, g, 0))
  BY PlainUses DEF V!MemoryOps
<1>8. ~V!top_label.broke
  BY <1>1 DEF V!Live
<1>9. QED
  BY <1>2, <1>4, <1>5, <1>6, <1>7, <1>8, PopLoads

\* get_local and set_local.
LEMMA LocalLoads ==
  ASSUME Accepted, NEW i \in 1 .. Len(param_and_local_types) + 1,
         \/ Expr(OnGetLocal(i), V!CheckGetLocal(i, param_and_local_types), None)
         \/ Expr(OnSetLocal(i), V!CheckSetLocal(i, param_and_local_types), None)
  PROVE  LInv'
<1> DEFINE type == param_and_local_types[i]
<1>1. V!Live /\ ~V!top_label.broke /\ InBody("local")
  BY DEF Expr, Accepted, Validated, V!Live, OnGetLocal, OnSetLocal
<1>2. i <= Len(param_and_local_types)
  BY DEF Expr, V!CheckGetLocal, V!CheckSetLocal, V!check_expr, V!Errors,
         Accepted, Validated
<1>3. param_and_local_types[i] \in Types
  BY <1>2 DEF Accepted, IInv, StackTypes
<1>4. CASE Expr(OnGetLocal(i), V!CheckGetLocal(i, param_and_local_types), None)
  <2> DEFINE c == Cell("get_local", 0, translate_local_index(type_stack, i), 0)
  <2>1. VStep(Append(v_type_stack, type))
    BY <1>1, <1>2, <1>4 DEF Expr, V!CheckGetLocal, V!check_expr, VStep, Marked,
                            V!ANY, ANY
  <2>2. SimpleExpr(<<>>, <<type>>, c)
    BY <1>2, <1>4 DEF Expr, OnGetLocal, Checked
  <2>3. Uses(c)
    BY PlainUses DEF V!MemoryOps
  <2> HIDE DEF c
  <2>4. QED
    BY <1>1, <1>3, <2>1, <2>2, <2>3, PushLoads
<1>5. CASE Expr(OnSetLocal(i), V!CheckSetLocal(i, param_and_local_types), None)
  <2> DEFINE c == Cell("set_local", 0,
                    translate_local_index(pop_types(type_stack, 1), i), 0)
  <2>1. /\ V!check_n_types(v_type_stack, <<type>>)
        /\ VStep(V!pop_and_check(v_type_stack, <<type>>))
    BY <1>1, <1>2, <1>5 DEF Expr, V!CheckSetLocal, V!TypeAt, V!check_expr,
       V!Errors, VStep, Marked, V!ANY, ANY, Accepted, Validated
  <2>2. SimpleExpr(<<type>>, <<>>, c)
    BY <1>2, <1>5 DEF Expr, OnSetLocal, Checked
  <2>3. Uses(c)
    BY PlainUses DEF V!MemoryOps
  <2> HIDE DEF c
  <2>4. QED
    BY <1>1, <1>3, <2>1, <2>2, <2>3, PopLoads
<1>6. QED
  BY <1>4, <1>5

\* The assertion of top_type holds where there are enough operands.
LEMMA AssertsOk ==
  ASSUME Aligned, NEW W, Fits(W), NEW n \in Nat, n <= Len(W) - Limit
  PROVE  /\ TopTypeAsserts(Stack(W), n)
         /\ check_type_stack_limit(Stack(W), n)
<1>1. /\ Len(Stack(W)) = Len(param_and_local_types) + Len(W)
      /\ Len(param_and_local_types) \in Nat /\ Len(W) \in Nat
  BY StackFacts DEF Aligned, Fits
<1>2. /\ Limit \in Nat
      /\ top_label.type_stack_limit = Limit + Len(param_and_local_types)
  BY DEF Aligned
<1>3. TopTypeAsserts(Stack(W), n)
  BY <1>1, <1>2 DEF TopTypeAsserts
<1>4. QED
  BY <1>3, LimitOk

\* The operand on top, where there is one.
LEMMA TopOperand ==
  ASSUME Aligned, NEW W, Fits(W), 1 <= Len(W) - Limit
  PROVE  /\ V!avail(W) > 0
         /\ V!top_type(W) = W[Len(W)]
         /\ W[Len(W)] \in Types
         /\ Stack(W)[Len(Stack(W))] = W[Len(W)]
         /\ V!pop_type(W) = Truncate(W, Len(W) - 1)
         /\ \A t : W[Len(W)] = t => V!check_n_types(W, <<t>>)
<1>1. /\ Len(Stack(W)) = Len(param_and_local_types) + Len(W)
      /\ Len(param_and_local_types) \in Nat /\ Len(W) \in Nat
      /\ W \in Seq(Types) /\ Limit \in Nat
      /\ \A i \in 1 .. Len(W) :
           Stack(W)[Len(param_and_local_types) + i] = W[i]
  BY StackFacts DEF Aligned, Fits
<1>2. V!avail(W) = Len(W) - Limit /\ V!avail(W) > 0
  BY <1>1 DEF V!avail, Limit
<1>3. Len(W) \in 1 .. Len(W)
  BY <1>1
<1>4. W[Len(W)] \in Types
  BY <1>1, <1>3, ElementFacts
<1>5. Stack(W)[Len(Stack(W))] = W[Len(W)]
  BY <1>1, <1>3
<1>6. ASSUME NEW t, W[Len(W)] = t PROVE V!check_n_types(W, <<t>>)
  <2>1. Len(<<t>>) = 1 /\ DOMAIN <<t>> = {1} /\ <<t>>[1] = t
    OBVIOUS
  <2>2. V!check_type_stack_limit(W, 1)
    BY LimitOk
  <2>3. Len(W) - 1 + 1 = Len(W)
    BY <1>1
  <2>4. QED
    BY <1>6, <2>1, <2>2, <2>3 DEF V!check_n_types, V!TopTypesAre
<1>7. QED
  BY <1>2, <1>4, <1>5, <1>6, SameTruncate DEF V!top_type, V!pop_type

\* drop.
LEMMA DropLoads ==
  ASSUME Accepted, Expr(OnDrop, V!CheckDrop, None)
  PROVE  LInv'
<1> DEFINE W == v_type_stack
           T == Truncate(W, Len(W) - 1)
           c == Cell("drop", 0, 0, 0)
<1>1. OnDrop /\ V!CheckDrop /\ V!Live
  BY DEF Expr, Accepted, Validated
<1>2. V!check_type_stack_limit(W, 1) /\ VStep(V!pop_type(W))
  BY <1>1 DEF V!CheckDrop, V!check_expr, V!Errors, VStep, Marked, V!ANY, ANY,
              Accepted, Validated
<1>3. InBody("drop") /\ ~V!top_label.broke
  BY <1>1 DEF OnDrop, V!Live
<1>4. InCode /\ Aligned /\ Fits(W) /\ type_stack = Stack(W)
  BY <1>3, Reachable
<1>5. 1 <= Len(W) - Limit
  BY <1>2, <1>4, LimitOk
<1>6. V!pop_type(W) = T
  BY <1>4, <1>5, TopOperand
<1>7. pop_types(Stack(W), 1) = Stack(T) /\ Fits(T)
  BY <1>4, <1>5, PopsTo
<1>8. TopTypeAsserts(Stack(W), 1) /\ check_type_stack_limit(Stack(W), 1)
  BY <1>4, <1>5, AssertsOk
<1> HIDE DEF T, c
<1>9. /\ istream' = istream \o <<c>>
      /\ type_stack' = Stack(T)
      /\ UNCHANGED <<label_stack, inFunctionVars, unchecked>>
  BY <1>1, <1>4, <1>7, <1>8
  DEF OnDrop, Checked, Asserted, emit, NoLabelChange, c
<1>10. AllUse(<<c>>)
  BY PlainUses, AllUseOne DEF c, V!MemoryOps
<1>11. Leaves(T) /\ VStep(T)
  BY <1>2, <1>6, <1>7 DEF Leaves
<1>12. QED
  BY <1>4, <1>9, <1>10, <1>11, ExprKeeps

\* tee_local: that the validator does not look at the operand's type is a gap.
LEMMA TeeLocalLoads ==
  ASSUME Accepted, NEW i \in 1 .. Len(param_and_local_types) + 1,
         Expr(OnTeeLocal(i), V!CheckTeeLocal(i, param_and_local_types),
              If(V!top_type(v_type_stack) # V!TypeAt(param_and_local_types, i),
                 "tee_local"))
  PROVE  LInv'
<1> DEFINE W == v_type_stack
           c == Cell("tee_local", 0, translate_local_index(type_stack, i), 0)
<1>1. /\ OnTeeLocal(i) /\ V!CheckTeeLocal(i, param_and_local_types) /\ V!Live
      /\ V!top_type(v_type_stack) = V!TypeAt(param_and_local_types, i)
  BY DEF Expr, Accepted, Validated, If
<1>2. /\ i <= Len(param_and_local_types)
      /\ V!check_type_stack_limit(W, 1)
      /\ VStep(W)
  BY <1>1 DEF V!CheckTeeLocal, V!check_expr, V!Errors, VStep, Marked, V!ANY,
              ANY, Accepted, Validated
<1>3. InBody("local") /\ ~V!top_label.broke
  BY <1>1 DEF OnTeeLocal, V!Live
<1>4. InCode /\ Aligned /\ Fits(W) /\ type_stack = Stack(W)
  BY <1>3, Reachable
<1>5. 1 <= Len(W) - Limit
  BY <1>2, <1>4, LimitOk
<1>6. type_stack[Len(type_stack)] = param_and_local_types[i]
  BY <1>1, <1>2, <1>4, <1>5, TopOperand DEF V!TypeAt
<1>7. TopTypeAsserts(Stack(W), 1) /\ check_type_stack_limit(Stack(W), 1)
  BY <1>4, <1>5, AssertsOk
<1> HIDE DEF c
<1>8. /\ istream' = istream \o <<c>>
      /\ type_stack' = Stack(W)
      /\ UNCHANGED <<label_stack, inFunctionVars, unchecked>>
  BY <1>1, <1>2, <1>4, <1>6, <1>7
  DEF OnTeeLocal, Checked, Asserted, emit, NoLabelChange, check_type, c
<1>9. AllUse(<<c>>)
  BY PlainUses, AllUseOne DEF c, V!MemoryOps
<1>10. Leaves(W)
  BY <1>4 DEF Leaves
<1>11. QED
  BY <1>2, <1>4, <1>8, <1>9, <1>10, ExprKeeps

\* The operand i32 is popped.
LEMMA PopI32 ==
  ASSUME Aligned, NEW W, Fits(W), V!check_n_types(W, <<"i32">>)
  PROVE  /\ pop_and_check(Stack(W), <<"i32">>)
         /\ V!pop_and_check(W, <<"i32">>) = Truncate(W, Len(W) - 1)
         /\ pop_types(Stack(W), 1) = Stack(Truncate(W, Len(W) - 1))
         /\ Fits(Truncate(W, Len(W) - 1))
<1>1. <<"i32">> \in Seq(Types) /\ Len(<<"i32">>) = 1
  BY CompilerAssumption
<1>2. 1 <= Len(W) - Limit
  BY <1>1, TopTypes
<1>3. V!check_type_stack_limit(W, 1)
  BY <1>2, LimitOk
<1>4. QED
  BY <1>1, <1>2, <1>3, PopOk, PopsTo, SameTruncate DEF V!pop_and_check

\* select.
LEMMA SelectLoads ==
  ASSUME Accepted, Expr(OnSelect, V!CheckSelect, None)
  PROVE  LInv'
<1> DEFINE W == v_type_stack
           T == Truncate(W, Len(W) - 1)
           U == Truncate(T, Len(T) - 2)
           x == T[Len(T)]
           c == Cell("select", 0, 0, 0)
<1>1. OnSelect /\ V!CheckSelect /\ V!Live
  BY DEF Expr, Accepted, Validated
<1>2. InBody("select") /\ ~V!top_label.broke
  BY <1>1 DEF OnSelect, V!Live
<1>3. InCode /\ Aligned /\ Fits(W) /\ type_stack = Stack(W)
  BY <1>2, Reachable
<1>4. V!check_n_types(W, <<"i32">>)
  BY <1>1 DEF V!CheckSelect, V!check_expr, V!Errors, Accepted, Validated
<1>5. /\ pop_and_check(Stack(W), <<"i32">>)
      /\ V!pop_and_check(W, <<"i32">>) = T
      /\ pop_types(Stack(W), 1) = Stack(T)
      /\ Fits(T)
  BY <1>3, <1>4, PopI32
<1> HIDE DEF T
<1>6. /\ V!check_type_stack_limit(T, 2)
      /\ T[Len(T)] = T[Len(T) - 1]
      /\ VStep(Append(V!Truncate(T, Len(T) - 2), x))
  BY <1>1, <1>5 DEF V!CheckSelect, V!check_expr, V!Errors, VStep, Marked, V!ANY,
                    ANY, Accepted, Validated
<1>7. 2 <= Len(T) - Limit
  BY <1>3, <1>5, <1>6, LimitOk
<1>8. pop_types(Stack(T), 2) = Stack(U) /\ Fits(U)
  BY <1>3, <1>5, <1>7, PopsTo
<1>9. TopTypeAsserts(Stack(T), 2) /\ check_type_stack_limit(Stack(T), 2)
  BY <1>3, <1>5, <1>7, AssertsOk
<1> HIDE DEF U
<1> DEFINE n == Len(Stack(T))
<1>10. /\ Stack(T)[n] = x /\ Stack(T)[n - 1] = x /\ x \in Types
       /\ ~top_type_is_any(Stack(T))
  <2>1. /\ n = Len(param_and_local_types) + Len(T)
        /\ Len(param_and_local_types) \in Nat /\ Len(T) \in Nat
        /\ T \in Seq(Types) /\ Limit \in Nat
        /\ ~top_type_is_any(Stack(T))
        /\ \A i \in 1 .. Len(T) :
             Stack(T)[Len(param_and_local_types) + i] = T[i]
    BY <1>3, <1>5, StackFacts DEF Aligned, Fits
  <2>2. /\ Len(T) \in 1 .. Len(T) /\ Len(T) - 1 \in 1 .. Len(T)
        /\ n - 1 = Len(param_and_local_types) + (Len(T) - 1)
    BY <1>7, <2>1
  <2>3. x \in Types
    BY <2>1, <2>2, ElementFacts
  <2>4. QED
    BY <1>6, <2>1, <2>2, <2>3
<1> HIDE DEF n, x
<1>11. push_type(Stack(U), x) = Stack(U \o <<x>>) /\ Fits(U \o <<x>>)
  <2>1. <<x>> \in Seq(Types)
    BY <1>10
  <2>2. push_types(Stack(U), <<x>>) = Stack(U \o <<x>>) /\ Fits(U \o <<x>>)
    BY <1>3, <1>8, <2>1, PushesTo
  <2>3. Stack(U) \in Seq(Types)
    BY <1>3, <1>8, StackFacts DEF Aligned, Fits
  <2>4. Stack(U) \o <<x>> = Append(Stack(U), x)
    BY <1>10, <2>3
  <2>5. QED
    BY <2>2, <2>4 DEF push_types, push_type
<1> HIDE DEF c
<1>12. /\ istream' = istream \o <<c>>
       /\ type_stack' = push_type(Stack(U), x)
       /\ UNCHANGED <<label_stack, inFunctionVars, unchecked>>
  BY <1>1, <1>3, <1>5, <1>8, <1>9, <1>10
  DEF OnSelect, Checked, Asserted, emit, NoLabelChange, check_type, c, n
<1>13. VStep(U \o <<x>>) /\ Leaves(U \o <<x>>)
  <2>1. V!Truncate(T, Len(T) - 2) = U
    BY SameTruncate DEF U
  <2>2. Append(U, x) = U \o <<x>>
    BY <1>8, <1>10 DEF Fits
  <2>3. QED
    BY <1>6, <1>11, <2>1, <2>2 DEF Leaves
<1>14. AllUse(<<c>>)
  BY PlainUses, AllUseOne DEF c, V!MemoryOps
<1>15. QED
  BY <1>3, <1>11, <1>12, <1>13, <1>14, ExprKeeps

\* unreachable.
LEMMA UnreachableLoads ==
  ASSUME Accepted, Expr(OnUnreachable, V!CheckUnreachable, None)
  PROVE  LInv'
<1> DEFINE W == v_type_stack
           c == Cell("unreachable", 0, 0, 0)
<1>1. OnUnreachable /\ V!CheckUnreachable /\ V!Live
  BY DEF Expr, Accepted, Validated
<1>2. VStep(V!UnreachableTypes(W))
  BY <1>1 DEF V!CheckUnreachable, V!check_expr, VStep, Marked, V!ANY, ANY
<1>3. InBody("unreachable") /\ ~V!top_label.broke
  BY <1>1 DEF OnUnreachable, V!Live
<1>4. InCode /\ Aligned /\ Fits(W) /\ type_stack = Stack(W)
  BY <1>3, Reachable
<1>5. UnreachableTypes(Stack(W)) = Stack(V!UnreachableTypes(W))
  BY <1>4, UnreachableTo
<1> HIDE DEF c
<1>6. /\ istream' = istream \o <<c>>
      /\ type_stack' = Stack(V!UnreachableTypes(W))
      /\ UNCHANGED <<label_stack, inFunctionVars, unchecked>>
  BY <1>1, <1>4, <1>5 DEF OnUnreachable, emit, NoLabelChange, c
<1>7. AllUse(<<c>>)
  BY PlainUses, AllUseOne DEF c, V!MemoryOps
<1>8. Leaves(V!UnreachableTypes(W))
  BY <1>4 DEF Leaves
<1>9. QED
  BY <1>2, <1>4, <1>6, <1>7, <1>8, ExprKeeps

-----------------------------------------------------------------------------
(* Calls.                                                                  *)

\* The operands and results of a call.
LEMMA CallTypes ==
  ASSUME Aligned, NEW W, Fits(W), NEW f \in DOMAIN Funcs,
         V!check_n_types(W, Funcs[f].params)
  PROVE  /\ check_type_stack_limit(Stack(W), Len(Funcs[f].params))
         /\ TopTypeAsserts(Stack(W), Len(Funcs[f].params))
         /\ pop_and_check(Stack(W), Funcs[f].params)
         /\ push_types(pop_types(Stack(W), Len(Funcs[f].params)),
                       Funcs[f].results)
              = Stack(V!check_call(W, Funcs[f]))
         /\ Fits(V!check_call(W, Funcs[f]))
<1> DEFINE params == Funcs[f].params
           results == Funcs[f].results
           n == Len(params)
           T == Truncate(W, Len(W) - n)
<1>1. params \in Seq(Types) /\ results \in Seq(Types)
  BY FuncFacts, SigFacts
<1> HIDE DEF params
<1>2. V!check_n_types(W, params)
  BY DEF params
<1>3. n \in Nat /\ n <= Len(W) - Limit
  BY <1>1, <1>2, TopTypes
<1>4. /\ TopTypeAsserts(Stack(W), n) /\ check_type_stack_limit(Stack(W), n)
  BY <1>3, AssertsOk
<1>5. pop_and_check(Stack(W), params)
  BY <1>1, <1>2, PopOk
<1>6. pop_types(Stack(W), n) = Stack(T) /\ Fits(T)
  BY <1>3, PopsTo
<1>7. V!check_call(W, Funcs[f]) = T \o results
  BY <1>3, SameTruncate DEF V!check_call, V!avail, Limit, params
<1> HIDE DEF T, results
<1>8. push_types(Stack(T), results) = Stack(T \o results) /\ Fits(T \o results)
  BY <1>1, <1>6, PushesTo
<1>9. QED
  BY <1>4, <1>5, <1>6, <1>7, <1>8 DEF params, results

\* call.
LEMMA CallLoads ==
  ASSUME Accepted, NEW f \in DOMAIN Funcs,
         Expr(OnCall(f), V!CheckCall(f), None)
  PROVE  LInv'
<1> DEFINE W == v_type_stack
           c == IF f <= NumImports THEN Cell("call_host", 0, f, 0)
                ELSE Cell("call", func_offset[f], f, 0)
           ts == V!check_call(W, Funcs[f])
<1>1. OnCall(f) /\ V!CheckCall(f) /\ V!Live
  BY DEF Expr, Accepted, Validated
<1>2. V!check_n_types(W, Funcs[f].params) /\ VStep(ts)
  BY <1>1 DEF V!CheckCall, V!check_expr, V!Errors, VStep, Marked, V!ANY, ANY,
              Accepted, Validated
<1>3. InBody("call") /\ ~V!top_label.broke
  BY <1>1 DEF OnCall, V!Live
<1>4. InCode /\ Aligned /\ Fits(W) /\ type_stack = Stack(W)
  BY <1>3, Reachable
<1>5. /\ check_type_stack_limit(Stack(W), Len(Funcs[f].params))
      /\ TopTypeAsserts(Stack(W), Len(Funcs[f].params))
      /\ pop_and_check(Stack(W), Funcs[f].params)
      /\ push_types(pop_types(Stack(W), Len(Funcs[f].params)),
                    Funcs[f].results) = Stack(ts)
      /\ Fits(ts)
  BY <1>2, <1>4, CallTypes
<1> HIDE DEF ts
<1>6. /\ istream' = istream \o <<c>>
      /\ type_stack' = Stack(ts)
      /\ UNCHANGED <<label_stack, inFunctionVars, unchecked>>
  BY <1>1, <1>4, <1>5 DEF OnCall, Checked, Asserted, emit, NoLabelChange
<1>7. AllUse(<<c>>)
  <2>1. Uses(Cell("call_host", 0, f, 0)) /\ Uses(Cell("call", func_offset[f], f, 0))
    BY PlainUses DEF V!MemoryOps
  <2>2. QED
    BY <2>1, AllUseOne
<1> HIDE DEF c
<1>8. Leaves(ts)
  BY <1>5 DEF Leaves
<1>9. QED
  BY <1>2, <1>4, <1>6, <1>7, <1>8, ExprKeeps

\* call_indirect: that the validator pops the index from a stack it does not
\* look at the size of is a gap.
LEMMA CallIndirectLoads ==
  ASSUME Accepted, NEW f \in DOMAIN Funcs,
         Expr(OnCallIndirect(f), V!CheckCallIndirect(f),
              If(~V!check_type_stack_limit(v_type_stack, 1), "call_indirect"))
  PROVE  LInv'
<1> DEFINE W == v_type_stack
           T == Truncate(W, Len(W) - 1)
           c == Cell("call_indirect", 0, f, 0)
           ts == V!check_call(T, Funcs[f])
<1>1. /\ OnCallIndirect(f) /\ V!CheckCallIndirect(f) /\ V!Live
      /\ V!check_type_stack_limit(W, 1)
  BY DEF Expr, Accepted, Validated, If
<1>2. InBody("call_indirect") /\ ~V!top_label.broke
  BY <1>1 DEF OnCallIndirect, V!Live
<1>3. InCode /\ Aligned /\ Fits(W) /\ type_stack = Stack(W)
  BY <1>2, Reachable
<1>4. 1 <= Len(W) - Limit
  BY <1>1, <1>3, LimitOk
<1>5. V!pop_type(W) = T /\ V!top_type(W) = W[Len(W)]
  BY <1>3, <1>4, TopOperand
<1>6. /\ module.tables > 0
      /\ V!top_type(W) = "i32"
      /\ V!check_n_types(T, Funcs[f].params)
      /\ VStep(ts)
  BY <1>1, <1>5 DEF V!CheckCallIndirect, V!check_expr, V!Errors, VStep, Marked,
                    V!ANY, ANY, Accepted, Validated
<1>7. V!check_n_types(W, <<"i32">>)
  BY <1>3, <1>4, <1>5, <1>6, TopOperand
<1>8. /\ pop_and_check(Stack(W), <<"i32">>)
      /\ pop_types(Stack(W), 1) = Stack(T)
      /\ Fits(T)
  BY <1>3, <1>7, PopI32
<1> HIDE DEF T
<1>9. /\ check_type_stack_limit(Stack(T), Len(Funcs[f].params))
      /\ TopTypeAsserts(Stack(T), Len(Funcs[f].params))
      /\ pop_and_check(Stack(T), Funcs[f].params)
      /\ push_types(pop_types(Stack(T), Len(Funcs[f].params)),
                    Funcs[f].results) = Stack(ts)
      /\ Fits(ts)
  BY <1>3, <1>6, <1>8, CallTypes
<1> HIDE DEF ts, c
<1>10. /\ istream' = istream \o <<c>>
       /\ type_stack' = Stack(ts)
       /\ UNCHANGED <<label_stack, inFunctionVars, unchecked>>
  BY <1>1, <1>3, <1>8, <1>9
  DEF OnCallIndirect, Checked, Asserted, emit, NoLabelChange, c
<1>11. Uses(c)
  BY <1>6 DEF c, Uses, Cell, V!MemoryOps
<1>12. AllUse(<<c>>) /\ Leaves(ts)
  BY <1>9, <1>11, AllUseOne DEF Leaves
<1>13. QED
  BY <1>3, <1>6, <1>10, <1>12, ExprKeeps

-----------------------------------------------------------------------------
(* Branches.                                                               *)

\* return.
LEMMA ReturnLoads ==
  ASSUME Accepted, Expr(OnReturn, V!CheckReturn, None)
  PROVE  LInv'
<1> DEFINE W == v_type_stack
           results == Funcs[current_func].results
           ts == V!UnreachableTypes(W)
           cells == ReturnCells(type_stack, Len(results))
                      \o <<Cell("return", 0, 0, 0)>>
<1>1. OnReturn /\ V!CheckReturn /\ V!Live
  BY DEF Expr, Accepted, Validated
<1>2. V!check_n_types(W, v_labels[1].sig) /\ VStep(ts)
  BY <1>1 DEF V!CheckReturn, V!check_expr, V!Errors, VStep, Marked, V!ANY, ANY,
              Accepted, Validated
<1>3. InBody("return") /\ ~V!top_label.broke
  BY <1>1 DEF OnReturn, V!Live
<1>4. InCode /\ Paired /\ Aligned /\ Fits(W) /\ type_stack = Stack(W)
  BY <1>3, Reachable
<1>5. v_labels[1].sig = results
  BY <1>4 DEF Paired, LabelsPaired
<1>6. results \in Sigs
  <2>1. current_func \in DOMAIN Funcs
    BY <1>4, CompilerAssumption DEF Accepted, IInv, StackTypes, InCode
  <2>2. QED
    BY <2>1, FuncFacts
<1>7. check_n_types(type_stack, results)
  BY <1>2, <1>4, <1>5, <1>6, TypesOk
<1>8. UnreachableTypes(Stack(W)) = Stack(ts) /\ Leaves(ts)
  BY <1>4, UnreachableTo DEF Leaves
<1> HIDE DEF ts
<1>9. /\ istream' = istream \o cells
      /\ type_stack' = Stack(ts)
      /\ UNCHANGED <<label_stack, inFunctionVars, unchecked>>
  BY <1>1, <1>4, <1>7, <1>8 DEF OnReturn, Checked, emit, NoLabelChange
<1>10. AllUse(cells)
  <2>1. AllUse(ReturnCells(type_stack, Len(results)))
    BY DropKeepUses, AllUseNone DEF ReturnCells
  <2>2. AllUse(<<Cell("return", 0, 0, 0)>>)
    BY PlainUses, AllUseOne DEF V!MemoryOps
  <2>3. QED
    BY <2>1, <2>2, AllUseConcat
<1> HIDE DEF cells
<1>11. QED
  BY <1>2, <1>4, <1>8, <1>9, <1>10, ExprKeeps

\* A branch the validator accepts trips neither a check nor an assertion.
LEMMA TargetOk ==
  ASSUME IInv, InCode, Paired, Aligned, NEW W, Fits(W), NEW depth \in Nat,
         V!check_br(W, depth)
  PROVE  /\ depth < Len(label_stack)
         /\ translate_depth(depth) \in 1 .. Len(label_stack)
         /\ label_stack[translate_depth(depth)].sig \in Sigs
         /\ label_stack[translate_depth(depth)].label_type # "loop" =>
              check_n_types(Stack(W), label_stack[translate_depth(depth)].sig)
         /\ EmitBrAsserts(Stack(W), label_stack[translate_depth(depth)])
<1> DEFINE d == translate_depth(depth)
           l == label_stack[d]
           v == v_labels[d]
           p == Len(param_and_local_types)
<1>1. /\ Len(label_stack) \in Nat
      /\ Len(v_labels) = Len(label_stack)
      /\ \A e \in 1 .. Len(label_stack) :
           /\ v_labels[e].type_stack_limit \in Nat
           /\ v_labels[e].type_stack_limit <= Limit
  BY PairedFacts DEF Paired, LabelsPaired
<1>2. depth < Len(label_stack)
  BY <1>1 DEF V!check_br
<1>3. d \in 1 .. Len(label_stack) /\ d = Len(v_labels) - depth
  BY <1>1, <1>2 DEF translate_depth
<1>4. V!LabelTypesOk(W, v)
  BY <1>3 DEF V!check_br
<1> HIDE DEF d
<1>5. /\ l.label_type = v.label_type
      /\ l.sig = v.sig
      /\ l.type_stack_limit = v.type_stack_limit + p
  BY <1>1, <1>3 DEF Paired, LabelsPaired, InCode
<1>6. l.sig \in Sigs
  BY <1>3, <1>5, VLabelFacts DEF Paired
<1>7. l.label_type # "loop" => V!check_n_types(W, l.sig)
  BY <1>4, <1>5 DEF V!LabelTypesOk
<1>8. l.label_type # "loop" => check_n_types(Stack(W), l.sig)
  BY <1>6, <1>7, TypesOk
<1>9. EmitBrAsserts(Stack(W), l)
  <2>1. /\ Len(Stack(W)) = p + Len(W)
        /\ p \in Nat /\ Len(W) \in Nat /\ Limit \in Nat /\ Limit <= Len(W)
    BY StackFacts DEF Aligned, Fits
  <2>2. v.type_stack_limit \in Nat /\ v.type_stack_limit <= Limit
    BY <1>1, <1>3
  <2>3. get_label_br_arity(l) \in Nat /\ get_label_br_arity(l) <= Len(W) - Limit
    <3>1. CASE l.label_type # "loop"
      <4>1. l.sig \in Seq(Types)
        BY <1>6, SigFacts
      <4>2. Len(l.sig) \in Nat /\ Len(l.sig) <= Len(W) - Limit
        BY <3>1, <1>7, <4>1, TopTypes
      <4>3. QED
        BY <3>1, <4>2 DEF get_label_br_arity
    <3>2. CASE l.label_type = "loop"
      BY <3>2, <2>1 DEF get_label_br_arity
    <3>3. QED
      BY <3>1, <3>2
  <2>4. p + Len(W) >= (v.type_stack_limit + p) + get_label_br_arity(l)
    BY <2>1, <2>2, <2>3
  <2>5. QED
    BY <1>5, <2>1, <2>4 DEF EmitBrAsserts
<1>10. QED
  BY <1>2, <1>3, <1>6, <1>8, <1>9 DEF d

\* br.
LEMMA BrLoads ==
  ASSUME Accepted, NEW depth \in 0 .. Len(label_stack),
         Expr(OnBr(depth), V!CheckBr(depth), None)
  PROVE  LInv'
<1> DEFINE W == v_type_stack
           ts == V!UnreachableTypes(W)
           l == label_stack[translate_depth(depth)]
           drop == emit_drop_keep(br_drop_count(type_stack, l),
                                  get_label_br_arity(l))
           cells == drop \o <<Cell("br", l.offset, 0, 0)>>
<1>1. OnBr(depth) /\ V!CheckBr(depth) /\ V!Live
  BY DEF Expr, Accepted, Validated
<1>2. V!check_br(W, depth) /\ VStep(ts)
  BY <1>1 DEF V!CheckBr, V!check_expr, V!Errors, VStep, Marked, V!ANY, ANY,
              Accepted, Validated
<1>3. InBody("br") /\ ~V!top_label.broke
  BY <1>1 DEF OnBr, V!Live
<1>4. /\ IInv /\ InCode /\ Paired /\ Aligned /\ Fits(W)
      /\ type_stack = Stack(W)
  BY <1>3, Reachable
<1>5. depth \in Nat
  BY <1>4, PairedFacts
<1>6. /\ depth < Len(label_stack)
      /\ l.label_type # "loop" => check_n_types(type_stack, l.sig)
      /\ EmitBrAsserts(type_stack, l)
  BY <1>2, <1>4, <1>5, TargetOk
<1>7. UnreachableTypes(Stack(W)) = Stack(ts) /\ Leaves(ts)
  BY <1>4, UnreachableTo DEF Leaves
<1> HIDE DEF ts
<1>8. /\ istream' = istream \o cells
      /\ type_stack' = Stack(ts)
      /\ UNCHANGED <<label_stack, inFunctionVars, unchecked>>
  BY <1>1, <1>4, <1>6, <1>7 DEF OnBr, Checked, Asserted, emit
<1>9. AllUse(cells)
  <2>1. AllUse(drop)
    BY DropKeepUses
  <2>2. AllUse(<<Cell("br", l.offset, 0, 0)>>)
    BY PlainUses, AllUseOne DEF V!MemoryOps
  <2>3. QED
    BY <2>1, <2>2, AllUseConcat
<1> HIDE DEF cells
<1>10. QED
  BY <1>2, <1>4, <1>7, <1>8, <1>9, ExprKeeps

\* br_if: the operands the compiler does not check, the validator does.
LEMMA BrIfLoads ==
  ASSUME Accepted, NEW depth \in 0 .. Len(label_stack),
         Expr(OnBrIf(depth), V!CheckBrIf(depth), None)
  PROVE  LInv'
<1> DEFINE W == v_type_stack
           T == Truncate(W, Len(W) - 1)
           l == label_stack[translate_depth(depth)]
           drop == emit_drop_keep(br_drop_count(Stack(T), l),
                                  get_label_br_arity(l))
           c1 == Cell("br_unless", get_istream_offset + Len(drop) + 2, 0, 0)
           c2 == Cell("br", l.offset, 0, 0)
           cells == <<c1>> \o drop \o <<c2>>
<1>1. OnBrIf(depth) /\ V!CheckBrIf(depth) /\ V!Live
  BY DEF Expr, Accepted, Validated
<1>2. V!check_n_types(W, <<"i32">>)
  BY <1>1 DEF V!CheckBrIf, V!check_expr, V!Errors, Accepted, Validated
<1>3. InBody("br_if") /\ ~V!top_label.broke
  BY <1>1 DEF OnBrIf, V!Live
<1>4. /\ IInv /\ InCode /\ Paired /\ Aligned /\ Fits(W)
      /\ type_stack = Stack(W)
  BY <1>3, Reachable
<1>5. /\ pop_and_check(Stack(W), <<"i32">>)
      /\ V!pop_and_check(W, <<"i32">>) = T
      /\ pop_types(Stack(W), 1) = Stack(T)
      /\ Fits(T)
  BY <1>2, <1>4, PopI32
<1> HIDE DEF T
<1>6. V!check_br(T, depth) /\ VStep(T)
  BY <1>1, <1>5 DEF V!CheckBrIf, V!check_expr, V!Errors, VStep, Marked, V!ANY,
                    ANY, Accepted, Validated
<1>7. depth \in Nat
  BY <1>4, PairedFacts
<1>8. /\ depth < Len(label_stack)
      /\ l.label_type # "loop" => check_n_types(Stack(T), l.sig)
      /\ EmitBrAsserts(Stack(T), l)
  BY <1>4, <1>5, <1>6, <1>7, TargetOk
<1>9. /\ istream' = istream \o cells
      /\ type_stack' = Stack(T)
      /\ UNCHANGED <<label_stack, inFunctionVars>>
      /\ unchecked' = unchecked \cup {}
  BY <1>1, <1>4, <1>5, <1>8 DEF OnBrIf, Checked, Asserted, emit
<1>10. AllUse(cells)
  <2>1. AllUse(drop)
    BY DropKeepUses
  <2>2. AllUse(<<c1>>) /\ AllUse(<<c2>>)
    BY PlainUses, AllUseOne DEF V!MemoryOps
  <2> HIDE DEF drop, c1, c2
  <2>3. AllUse(<<c1>> \o drop)
    BY <2>1, <2>2, AllUseConcat
  <2>4. QED
    BY <2>2, <2>3, AllUseConcat
<1> HIDE DEF cells
<1>11. unchecked' = unchecked /\ Leaves(T)
  BY <1>5, <1>9 DEF Leaves
<1>12. QED
  BY <1>4, <1>6, <1>9, <1>10, <1>11, ExprKeeps

\* A signature of no types is always on top.
LEMMA EmptySig ==
  ASSUME Aligned, NEW W, Fits(W)
  PROVE  check_n_types(Stack(W), <<>>)
<1>1. V!check_n_types(W, <<>>)
  BY PopNothing
<1>2. <<>> \in Sigs
  BY DEF Sigs
<1>3. QED
  BY <1>1, <1>2, TypesOk

\* br_table: that the compiler asks the results of a loop is a gap.
LEMMA BrTableLoads ==
  ASSUME Accepted, NEW n \in 1 .. MaxTargets + 1,
         NEW targets \in [1 .. n -> 0 .. Len(label_stack)],
         Expr(OnBrTable(targets), V!CheckBrTable(targets),
              If(\E i \in 1 .. n : AsksLoopForResults(targets[i]), "loop"))
  PROVE  LInv'
<1> DEFINE W == v_type_stack
           T == Truncate(W, Len(W) - 1)
           ts == V!UnreachableTypes(T)
           Label(i) == label_stack[translate_depth(targets[i])]
           Entry(i) == Cell("entry", Label(i).offset,
                            br_drop_count(Stack(T), Label(i)),
                            get_label_br_arity(Label(i)))
           c1 == Cell("br_table", get_istream_offset + 2, n - 1, 0)
           c2 == Cell("data", 0, n, 0)
           entries == [i \in 1 .. n |-> Entry(i)]
           cells == <<c1, c2>> \o entries
<1>1. /\ OnBrTable(targets) /\ V!CheckBrTable(targets) /\ V!Live
      /\ \A i \in 1 .. n : ~AsksLoopForResults(targets[i])
  BY DEF Expr, Accepted, Validated, If
<1>2. V!check_n_types(W, <<"i32">>)
  BY <1>1 DEF V!CheckBrTable, V!check_expr, V!Errors, Accepted, Validated
<1>3. InBody("br_table") /\ ~V!top_label.broke
  BY <1>1 DEF OnBrTable, V!Live
<1>4. /\ IInv /\ InCode /\ Paired /\ Aligned /\ Fits(W)
      /\ type_stack = Stack(W)
  BY <1>3, Reachable
<1>5. /\ pop_and_check(Stack(W), <<"i32">>)
      /\ V!pop_and_check(W, <<"i32">>) = T
      /\ pop_types(Stack(W), 1) = Stack(T)
      /\ Fits(T)
  BY <1>2, <1>4, PopI32
<1> HIDE DEF T
<1>6. n \in Nat /\ Len(targets) = n /\ DOMAIN targets = 1 .. n
  BY CompilerAssumption
<1>7. (\A i \in 1 .. n : V!check_br(T, targets[i])) /\ VStep(ts)
  BY <1>1, <1>5, <1>6 DEF V!CheckBrTable, V!check_expr, V!Errors, VStep, Marked,
                          V!ANY, ANY, Accepted, Validated
<1>8. ASSUME NEW i \in 1 .. n
      PROVE  /\ targets[i] < Len(label_stack)
             /\ check_n_types(Stack(T), Label(i).sig)
             /\ EmitBrAsserts(Stack(T), Label(i))
  <2>1. targets[i] \in Nat
    BY <1>4, PairedFacts
  <2>2. V!check_br(T, targets[i])
    BY <1>7
  <2>3. /\ targets[i] < Len(label_stack)
        /\ Label(i).label_type # "loop" => check_n_types(Stack(T), Label(i).sig)
        /\ EmitBrAsserts(Stack(T), Label(i))
    BY <1>4, <1>5, <2>1, <2>2, TargetOk
  <2>4. Label(i).label_type = "loop" => Label(i).sig = <<>>
    BY <1>1, <2>3 DEF AsksLoopForResults
  <2>5. QED
    BY <1>4, <1>5, <2>3, <2>4, EmptySig
<1>9. UnreachableTypes(Stack(T)) = Stack(ts) /\ Leaves(ts)
  BY <1>4, <1>5, UnreachableTo DEF Leaves
<1> HIDE DEF ts
<1>10. /\ istream' = istream \o cells
       /\ type_stack' = Stack(ts)
       /\ UNCHANGED <<label_stack, inFunctionVars, unchecked>>
  <2> DEFINE u == pop_types(type_stack, 1)
             Bad == {i \in 1 .. n :
                       \/ ~(targets[i] < Len(label_stack))
                       \/ ~check_n_types(u, Label(i).sig)}
             E(i) == Cell("entry", Label(i).offset,
                          br_drop_count(u, Label(i)),
                          get_label_br_arity(Label(i)))
  <2>1. u = Stack(T) /\ pop_and_check(type_stack, <<"i32">>)
    BY <1>4, <1>5
  <2>2. Bad = {} /\ \A i \in 1 .. n : EmitBrAsserts(u, Label(i))
    BY <1>8, <2>1
  <2>3. \/ ~pop_and_check(type_stack, <<"i32">>)
        \/ Bad # {}
        \/ ~\A i \in 1 .. n : EmitBrAsserts(u, Label(i))
        \/ /\ istream' = istream \o (<<c1, c2>> \o [i \in 1 .. n |-> E(i)])
           /\ type_stack' = UnreachableTypes(u)
           /\ UNCHANGED <<label_stack, inFunctionVars, unchecked>>
    BY <1>1, <1>6 DEF OnBrTable, Checked, Asserted, emit
  <2> HIDE DEF u
  <2>4. /\ istream' = istream \o (<<c1, c2>> \o [i \in 1 .. n |-> E(i)])
        /\ type_stack' = UnreachableTypes(u)
        /\ UNCHANGED <<label_stack, inFunctionVars, unchecked>>
    BY <2>1, <2>2, <2>3
  <2>5. [i \in 1 .. n |-> E(i)] = entries
    BY <2>1
  <2>6. QED
    BY <1>9, <2>1, <2>4, <2>5
<1>11. AllUse(cells)
  <2>1. Uses(c1) /\ Uses(c2) /\ \A i \in 1 .. n : Uses(Entry(i))
    BY PlainUses DEF V!MemoryOps
  <2> HIDE DEF c1, c2, Entry
  <2>2. AllUse(<<c1, c2>>)
    BY <2>1, AllUseTwo
  <2>3. AllUse(entries)
    <3>1. /\ entries \in Seq({Entry(i) : i \in 1 .. n})
          /\ Len(entries) = n
      BY <1>6
    <3>2. IsSeq(entries)
      BY <3>1, Zenon DEF IsSeq
    <3>3. QED
      BY <2>1, <3>1, <3>2 DEF AllUse
  <2>4. QED
    BY <2>2, <2>3, AllUseConcat
<1> HIDE DEF cells
<1>12. QED
  BY <1>4, <1>7, <1>9, <1>10, <1>11, ExprKeeps

-----------------------------------------------------------------------------
(* Blocks.                                                                 *)

\* The label the validator pushes.
VLabel(kind, sig, ts) ==
  [label_type |-> kind, sig |-> sig, type_stack_limit |-> Len(ts),
   broke |-> FALSE]

\* Both push a label at the size of their stack.
LEMMA PushLabelLoads ==
  ASSUME Accepted, InCode, ~V!top_label.broke, NEW ts, Fits(ts),
         NEW kind \in {"block", "loop", "if"}, NEW sig \in Sigs,
         v_type_stack' = ts,
         v_labels' = Append(v_labels, VLabel(kind, sig, ts)),
         UNCHANGED <<v_skipped, module>>,
         type_stack' = Stack(ts),
         NEW l, l.label_type = kind, l.sig = sig,
         l.type_stack_limit = Len(Stack(ts)),
         label_stack' = Append(label_stack, l),
         UNCHANGED <<inFunctionVars, unchecked>>,
         \A c \in 1 .. Len(istream') : Uses(istream'[c])
  PROVE  LInv'
<1> DEFINE v == VLabel(kind, sig, ts)
           n == Len(label_stack)
           p == Len(param_and_local_types)
<1>1. /\ Paired /\ IInv /\ v_skipped = 0 /\ unchecked = {}
  BY DEF Accepted, LInv, InCode
<1>2. /\ Aligned /\ n \in Nat /\ n > 0 /\ V!top_label = v_labels[n]
  BY <1>1, PairedFacts
<1>3. /\ status' = "reading" /\ current_func' = current_func
      /\ decls_left' = 0 /\ param_and_local_types' = param_and_local_types
      /\ current_func # 0 /\ decls_left = 0
  BY DEF InCode, inFunctionVars
<1>4. /\ ts \in Seq(Types) /\ Len(ts) \in Nat /\ p \in Nat
      /\ Len(Stack(ts)) = p + Len(ts)
      /\ ~top_type_is_any(Stack(ts))
  BY <1>2, StackFacts DEF Fits, Aligned
<1>5. /\ v \in VLabels /\ v.label_type = kind /\ v.sig = sig
      /\ v.type_stack_limit = Len(ts) /\ v.broke = FALSE
  BY <1>4 DEF VLabels, VLabel
<1> HIDE DEF v
<1>6. v_labels \in Seq(VLabels) /\ Len(v_labels) = n
  BY <1>1 DEF Paired, LabelsPaired
<1>7. /\ v_labels' \in Seq(VLabels)
      /\ Len(v_labels') = n + 1
      /\ v_labels'[n + 1] = v
      /\ \A d \in 1 .. n : v_labels'[d] = v_labels[d]
  BY <1>2, <1>5, <1>6 DEF v
<1>8. /\ Len(label_stack') = n + 1
      /\ label_stack'[n + 1] = l
      /\ \A d \in 1 .. n : label_stack'[d] = label_stack[d]
  <2>1. label_stack \in Seq(Labels)
    BY <1>1 DEF IInv, StackTypes
  <2>2. label_stack' \in Seq(Labels)
    BY DEF Accepted, IInv, StackTypes
  <2>3. QED
    BY <2>1, <2>2
<1>9. LabelsPaired'
  <2>1. ASSUME NEW d \in 1 .. n + 1
        PROVE  /\ label_stack'[d].label_type = v_labels'[d].label_type
               /\ label_stack'[d].sig = v_labels'[d].sig
               /\ label_stack'[d].type_stack_limit
                    = v_labels'[d].type_stack_limit + p
    <3>1. CASE d = n + 1
      BY <3>1, <1>4, <1>5, <1>7, <1>8
    <3>2. CASE d \in 1 .. n
      BY SMTT(30), <3>2, <1>1, <1>3, <1>6, <1>7, <1>8 DEF Paired, LabelsPaired
    <3>3. d = n + 1 \/ d \in 1 .. n
      BY <1>2
    <3>4. QED
      BY <3>1, <3>2, <3>3
  <2>2. v_labels'[1].sig = Funcs[current_func'].results
    BY <1>1, <1>2, <1>3, <1>7 DEF Paired, LabelsPaired
  <2>3. QED
    BY <1>3, <1>7, <1>8, <2>1, <2>2 DEF LabelsPaired
<1>10. BrokePaired'
  <2>1. \A d \in 1 .. n - 1 : ~v_labels[d].broke
    BY <1>1, <1>6 DEF Paired, BrokePaired
  <2>2. ASSUME NEW d \in 1 .. n PROVE ~v_labels'[d].broke
    <3>1. CASE d = n
      BY <3>1, <1>2, <1>7
    <3>2. CASE d # n
      <4>1. d \in 1 .. n - 1
        BY <1>2, <3>2
      <4>2. QED
        BY <2>1, <4>1, <1>7
    <3>3. QED
      BY <3>1, <3>2
  <2>3. V!top_label'.broke = FALSE
    BY <1>5, <1>7 DEF V!top_label
  <2>4. ~top_type_is_any(type_stack)'
    BY <1>3, <1>4 DEF top_type_is_any
  <2>5. Len(v_labels') - 1 = n
    BY <1>2, <1>7
  <2>6. QED
    BY <2>2, <2>3, <2>4, <2>5 DEF BrokePaired
<1>11. Paired'
  BY <1>3, <1>4, <1>9, <1>10 DEF Paired, Stack
<1>12. (\A c \in 1 .. Len(istream) : Uses(istream[c]))'
  BY DEF Uses
<1>13. QED
  BY <1>1, <1>3, <1>11, <1>12 DEF LInv

\* block and loop.
LEMMA BlockLoads ==
  ASSUME Accepted, NEW sig \in Sigs,
         \/ Expr(OnBlock(sig), V!CheckBlock(sig), None)
         \/ Expr(OnLoop(sig), V!CheckLoop(sig), None)
  PROVE  LInv'
<1> DEFINE W == v_type_stack
<1>1. /\ V!Live
      /\ \/ OnBlock(sig) /\ V!CheckBlock(sig)
         \/ OnLoop(sig) /\ V!CheckLoop(sig)
  BY DEF Expr, Accepted, Validated
<1>2. PICK callback : InBody(callback)
  BY <1>1 DEF OnBlock, OnLoop
<1>3. ~V!top_label.broke
  BY <1>1 DEF V!Live
<1>4. InCode /\ Aligned /\ Fits(W) /\ type_stack = Stack(W)
  BY <1>2, <1>3, Reachable
<1>5. PICK kind \in {"block", "loop"} :
        /\ v_labels' = Append(v_labels, VLabel(kind, sig, W))
        /\ \E off : label_stack' =
             Append(label_stack, [label_type |-> kind, sig |-> sig,
                                  type_stack_limit |-> Len(type_stack),
                                  offset |-> off, fixup_offset |-> INVALID])
        /\ v_type_stack' = W
        /\ UNCHANGED <<v_skipped, module>>
        /\ UNCHANGED <<inFunctionVars, type_stack, unchecked, istream>>
  BY <1>1 DEF OnBlock, OnLoop, V!CheckBlock, V!CheckLoop, V!BeginBlock,
              V!push_label, push_label, VLabel
<1>6. PICK off : label_stack' =
             Append(label_stack, [label_type |-> kind, sig |-> sig,
                                  type_stack_limit |-> Len(type_stack),
                                  offset |-> off, fixup_offset |-> INVALID])
  BY <1>5
<1> DEFINE l == [label_type |-> kind, sig |-> sig,
                 type_stack_limit |-> Len(type_stack),
                 offset |-> off, fixup_offset |-> INVALID]
<1>7. /\ l.label_type = kind /\ l.sig = sig
      /\ l.type_stack_limit = Len(Stack(W))
      /\ label_stack' = Append(label_stack, l)
  BY <1>4, <1>6
<1> HIDE DEF l
<1>8. \A c \in 1 .. Len(istream') : Uses(istream'[c])
  BY <1>4, <1>5 DEF Accepted, LInv
<1>9. kind \in {"block", "loop", "if"} /\ type_stack' = Stack(W)
  BY <1>4, <1>5
<1>10. QED
  BY <1>3, <1>4, <1>5, <1>7, <1>8, <1>9, PushLabelLoads

\* if.
LEMMA IfLoads ==
  ASSUME Accepted, NEW sig \in Sigs,
         Expr(OnIf(sig), V!CheckIf(sig), None)
  PROVE  LInv'
<1> DEFINE W == v_type_stack
           T == Truncate(W, Len(W) - 1)
           c == Cell("br_unless", INVALID, 0, 0)
           l == [label_type |-> "if", sig |-> sig,
                 type_stack_limit |-> Len(type_stack'),
                 offset |-> INVALID, fixup_offset |-> get_istream_offset]
<1>1. V!Live /\ OnIf(sig) /\ V!CheckIf(sig)
  BY DEF Expr, Accepted, Validated
<1>2. InBody("if") /\ ~V!top_label.broke
  BY <1>1 DEF OnIf, V!Live
<1>3. InCode /\ Aligned /\ Fits(W) /\ type_stack = Stack(W)
  BY <1>2, Reachable
<1>4. V!check_n_types(W, <<"i32">>)
  BY <1>1 DEF V!CheckIf, V!BeginBlock, V!Errors, Accepted, Validated
<1>5. /\ pop_and_check(Stack(W), <<"i32">>)
      /\ V!pop_and_check(W, <<"i32">>) = T
      /\ pop_types(Stack(W), 1) = Stack(T)
      /\ Fits(T)
  BY <1>3, <1>4, PopI32
<1> HIDE DEF T
<1>6. /\ v_type_stack' = T
      /\ v_labels' = Append(v_labels, VLabel("if", sig, T))
      /\ UNCHANGED <<v_skipped, module>>
  BY <1>1, <1>5 DEF V!CheckIf, V!BeginBlock, V!push_label, VLabel
<1>7. /\ type_stack' = Stack(T)
      /\ istream' = istream \o <<c>>
      /\ label_stack' = Append(label_stack, l)
      /\ UNCHANGED <<inFunctionVars, unchecked>>
  BY <1>1, <1>3, <1>5 DEF OnIf, Checked, emit, push_label
<1>8. /\ l.label_type = "if" /\ l.sig = sig
      /\ l.type_stack_limit = Len(Stack(T))
  BY <1>7
<1> HIDE DEF l
<1>9. \A k \in 1 .. Len(istream') : Uses(istream'[k])
  <2>1. AllUse(istream)
    <3>1. /\ istream \in Seq(Cells)
          /\ \A k \in 1 .. Len(istream) : Uses(istream[k])
      BY DEF Accepted, LInv, FInv
    <3>2. QED
      BY <3>1, Zenon DEF AllUse, IsSeq
  <2>2. AllUse(<<c>>)
    BY PlainUses, AllUseOne DEF V!MemoryOps
  <2> HIDE DEF c
  <2>3. AllUse(istream \o <<c>>)
    BY <2>1, <2>2, AllUseConcat
  <2>4. QED
    BY <1>7, <2>3 DEF AllUse
<1>10. PICK k : k = l
  OBVIOUS
<1>11. QED
  BY <1>2, <1>3, <1>5, <1>6, <1>7, <1>8, <1>9, <1>10, PushLabelLoads

-----------------------------------------------------------------------------
(* The ends of blocks, arms and bodies.                                    *)

\* Patching offsets changes no opcode.
LEMMA PatchedUse ==
  ASSUME istream \in Seq(Cells), \A c \in 1 .. Len(istream) : Uses(istream[c]),
         NEW S, NEW off \in Nat
  PROVE  AllUse(Patched(istream, S, off))
<1> DEFINE P == Patched(istream, S, off)
<1>1. /\ P \in Seq(Cells) /\ Len(P) = Len(istream)
      /\ \A i \in 1 .. Len(istream) : P[i].op = istream[i].op
  BY PatchedFacts
<1> HIDE DEF P
<1>2. \A i \in 1 .. Len(P) : Uses(P[i])
  BY <1>1 DEF Uses
<1>3. IsSeq(P)
  BY <1>1, Zenon DEF IsSeq
<1>4. QED
  BY <1>2, <1>3 DEF AllUse, P

\* What the validator asks at the end of a block, the compiler finds too.
LEMMA EndsOk ==
  ASSUME IInv, InCode, Paired, V!EndsWell(V!top_label)
  PROVE  EndChecks(type_stack, top_label)
<1> DEFINE sig == top_label.sig
<1>1. Aligned /\ V!top_label.sig = sig /\ sig \in Sigs
  BY PairedFacts
<1> HIDE DEF sig
<1>2. CASE V!top_label.broke
  <2>1. top_type_is_any(type_stack)
    BY <1>2 DEF Paired, BrokePaired
  <2>2. QED
    BY <2>1 DEF EndChecks, check_n_types, check_type_stack_limit_exact
<1>3. CASE ~V!top_label.broke
  <2>1. Fits(v_type_stack) /\ type_stack = Stack(v_type_stack)
    BY <1>3, LiveFits
  <2>2. /\ V!check_n_types(v_type_stack, sig)
        /\ V!check_type_stack_limit_exact(v_type_stack, Len(sig))
    BY <1>1, <1>3 DEF V!EndsWell
  <2>3. Len(sig) \in Nat
    BY <1>1, SigFacts
  <2>4. check_n_types(type_stack, sig)
    BY <1>1, <2>1, <2>2, TypesOk
  <2>5. check_type_stack_limit_exact(type_stack, Len(sig))
    BY <1>1, <2>1, <2>2, <2>3, LimitOk
  <2>6. QED
    BY <2>4, <2>5 DEF EndChecks, sig
<1>4. QED
  BY <1>2, <1>3

\* Down to the limit of the top label only value types are left, in
\* unreachable code too.
LEMMA ResetAnyhow ==
  ASSUME IInv, InCode, Paired
  PROVE  /\ V!reset_type_stack_to_limit(v_type_stack)
              = Truncate(v_type_stack, Limit)
         /\ reset_type_stack_to_limit(type_stack)
              = Stack(Truncate(v_type_stack, Limit))
         /\ Fits(Truncate(v_type_stack, Limit))
         /\ Len(Truncate(v_type_stack, Limit)) = Limit
<1> DEFINE W == v_type_stack
           R == Truncate(W, Limit)
           p == Len(param_and_local_types)
<1>1. /\ Aligned /\ Limit \in Nat /\ param_and_local_types \in Seq(Types)
      /\ p \in Nat /\ top_label.type_stack_limit = p + Limit
  BY PairedFacts DEF Aligned
<1>2. V!reset_type_stack_to_limit(W) = R
  BY SameTruncate DEF V!reset_type_stack_to_limit, Limit
<1>3. CASE ~V!top_label.broke
  <2>1. Fits(W) /\ type_stack = Stack(W)
    BY <1>3, LiveFits
  <2>2. QED
    BY <1>1, <1>2, <2>1, ResetsTo
<1>4. CASE V!top_label.broke
  <2> DEFINE S == Types \cup {ANY}
  <2>1. /\ W \in Seq(S) /\ param_and_local_types \in Seq(S)
        /\ type_stack = param_and_local_types \o W
        /\ Limit < Len(W)
    BY <1>1, <1>4 DEF Paired, BrokePaired, Limit
  <2>2. \A i \in 1 .. Len(type_stack) : type_stack[i] = ANY => i = Len(type_stack)
    BY DEF IInv, InCode, Typed
  <2>s. ASSUME NEW t \in S, t # ANY PROVE t \in Types
    BY <2>s
  <2> HIDE DEF S
  <2>w. W \in Seq(S)
    BY <2>1
  <2>p. param_and_local_types \in Seq(S)
    BY <2>1
  <2>3. /\ Len(type_stack) = p + Len(W) /\ Len(W) \in Nat
        /\ \A i \in 1 .. Len(W) : type_stack[p + i] = W[i]
    BY <2>1, <2>w, <2>p, ConcatFacts
  <2>4. Limit \in 0 .. Len(W)
    BY <1>1, <2>1, <2>3
  <2>5. /\ R \in Seq(S) /\ Len(R) = Limit
        /\ \A i \in 1 .. Limit : R[i] = W[i]
    BY <2>w, <2>4, TruncateFacts
  <2>6. Truncate(param_and_local_types \o W, p + Limit)
          = param_and_local_types \o R
    BY <2>w, <2>p, <2>4, ConcatTruncate
  <2> HIDE DEF R
  <2>7. ASSUME NEW i \in 1 .. Limit PROVE R[i] \in Types
    <3>1. /\ i \in 1 .. Len(W) /\ p + i \in 1 .. Len(type_stack)
          /\ p + i # Len(type_stack)
      BY <1>1, <2>1, <2>3
    <3>2. W[i] # ANY
      BY <2>2, <2>3, <3>1
    <3>3. W[i] \in S
      BY <2>w, <3>1, ElementFacts
    <3>4. QED
      BY <2>s, <2>5, <3>2, <3>3
  <2>8. R \in Seq(Types)
    <3>1. R = [i \in 1 .. Limit |-> R[i]]
      BY <2>5
    <3>2. R \in [1 .. Limit -> Types]
      BY <2>7, <3>1
    <3>3. QED
      BY <1>1, <3>2
  <2>9. reset_type_stack_to_limit(type_stack) = Stack(R)
    BY <1>1, <2>1, <2>6 DEF reset_type_stack_to_limit, Stack
  <2>10. Fits(R)
    BY <1>1, <2>5, <2>8 DEF Fits
  <2>11. QED
    BY <1>2, <2>5, <2>9, <2>10 DEF R
<1>5. QED
  BY <1>3, <1>4

\* The labels of the compiler between the arms of an if keep what both check.
LEMMA ElseKept ==
  ASSUME NEW ls \in Seq(Labels), NEW m \in Nat, m = Len(ls), m > 0,
         NEW off \in Nat
  PROVE  /\ Len(ElseLabels(ls, m, off)) = m
         /\ \A d \in 1 .. m - 1 : ElseLabels(ls, m, off)[d] = ls[d]
         /\ ElseLabels(ls, m, off)[m].label_type = "else"
         /\ ElseLabels(ls, m, off)[m].sig = ls[m].sig
         /\ ElseLabels(ls, m, off)[m].type_stack_limit = ls[m].type_stack_limit
<1> DEFINE new == ElseLabels(ls, m, off)
           l == [ls[m] EXCEPT !.label_type = "else", !.fixup_offset = off]
<1>1. m \in 1 .. m /\ ls[m] \in Labels
  OBVIOUS
<1>2. new = [ls EXCEPT ![m] = l]
  BY DEF ElseLabels
<1>3. l \in Labels
  BY <1>1, ElseExcept
<1>4. /\ l.label_type = "else" /\ l.sig = ls[m].sig
      /\ l.type_stack_limit = ls[m].type_stack_limit
  BY <1>1 DEF Labels
<1> HIDE DEF l, new
<1>5. /\ Len(new) = m
      /\ \A d \in 1 .. m - 1 : new[d] = ls[d]
      /\ new[m] = l
  BY <1>1, <1>2, <1>3
<1>6. QED
  BY <1>4, <1>5 DEF new

\* The labels of the validator between the arms of an if.
VElse == [v_labels EXCEPT ![Len(v_labels)].label_type = "else",
                          ![Len(v_labels)].broke = FALSE]

\* Only the kind of the top label and its mark change.
LEMMA VElseKept ==
  ASSUME v_labels \in Seq(VLabels), NEW m \in Nat, m = Len(v_labels), m > 0
  PROVE  /\ VElse \in Seq(VLabels) /\ Len(VElse) = m
         /\ \A d \in 1 .. m - 1 : VElse[d] = v_labels[d]
         /\ VElse[m].label_type = "else"
         /\ VElse[m].sig = v_labels[m].sig
         /\ VElse[m].type_stack_limit = v_labels[m].type_stack_limit
         /\ VElse[m].broke = FALSE
<1> DEFINE l == [v_labels[m] EXCEPT !.label_type = "else", !.broke = FALSE]
<1>1. m \in 1 .. m /\ v_labels[m] \in VLabels
  OBVIOUS
<1>2. VElse = [v_labels EXCEPT ![m] = l]
  BY DEF VElse
<1>3. /\ l \in VLabels
      /\ l.label_type = "else" /\ l.sig = v_labels[m].sig
      /\ l.type_stack_limit = v_labels[m].type_stack_limit
      /\ l.broke = FALSE
  BY <1>1 DEF VLabels
<1> HIDE DEF l
<1>4. /\ VElse \in Seq(VLabels) /\ Len(VElse) = m
      /\ \A d \in 1 .. m - 1 : VElse[d] = v_labels[d]
      /\ VElse[m] = l
  BY <1>1, <1>2, <1>3
<1>5. QED
  BY <1>3, <1>4

\* Both checkers are left in reachable code, with the same labels but for the
\* top one.
LEMMA LiveLabels ==
  ASSUME Accepted, InCode, NEW R, R \in Seq(Types),
         NEW m \in Nat, m > 0,
         v_labels' \in Seq(VLabels), Len(v_labels') = m, Len(label_stack') = m,
         m <= Len(label_stack),
         \A d \in 1 .. m :
           /\ label_stack'[d].label_type = v_labels'[d].label_type
           /\ label_stack'[d].sig = v_labels'[d].sig
           /\ label_stack'[d].type_stack_limit
                = v_labels'[d].type_stack_limit + Len(param_and_local_types)
           /\ ~v_labels'[d].broke,
         v_labels'[1].sig = v_labels[1].sig,
         v_type_stack' = R, type_stack' = Stack(R),
         UNCHANGED <<inFunctionVars, unchecked, v_skipped, module>>,
         NEW cells, AllUse(cells), istream' = cells
  PROVE  LInv'
<1>1. /\ Paired /\ v_skipped = 0 /\ unchecked = {}
      /\ param_and_local_types \in Seq(Types)
  BY DEF Accepted, LInv, InCode, IInv, StackTypes
<1>2. /\ status' = "reading" /\ current_func' = current_func
      /\ decls_left' = 0 /\ param_and_local_types' = param_and_local_types
      /\ current_func # 0
  BY DEF InCode, inFunctionVars
<1>3. LabelsPaired'
  BY <1>1, <1>2 DEF Paired, LabelsPaired
<1>4. BrokePaired'
  <2>1. ~top_type_is_any(Stack(R))
    BY <1>1, StackFacts
  <2>2. ~top_type_is_any(type_stack)'
    BY <1>2, <2>1 DEF top_type_is_any
  <2>3. ~V!top_label'.broke
    BY DEF V!top_label
  <2>4. \A d \in 1 .. m - 1 : d \in 1 .. m
    OBVIOUS
  <2>5. QED
    BY <2>2, <2>3, <2>4 DEF BrokePaired
<1>5. R \in Seq(Types \cup {ANY})
  OBVIOUS
<1>6. Paired'
  BY <1>2, <1>3, <1>4, <1>5 DEF Paired, Stack
<1>7. (\A c \in 1 .. Len(istream) : Uses(istream[c]))'
  BY DEF AllUse, Uses
<1>8. QED
  BY <1>1, <1>2, <1>6, <1>7 DEF LInv

\* The else of an if.
LEMMA ElseLoads ==
  ASSUME Accepted, top_label.label_type = "if", BlockEnd(OnElse, V!CheckElse)
  PROVE  LInv'
<1> DEFINE R == Truncate(v_type_stack, Limit)
           m == Len(label_stack)
           p == Len(param_and_local_types)
           off == get_istream_offset
           P == Patched(istream, {top_label.fixup_offset}, off + 1)
           c == Cell("br", INVALID, 0, 0)
<1>1. OnElse /\ V!CheckElse /\ InBody("else")
  BY DEF BlockEnd, OnElse
<1>2. /\ InCode /\ Paired /\ IInv /\ FInv /\ v_skipped = 0 /\ unchecked = {}
      /\ \A k \in 1 .. Len(istream) : Uses(istream[k])
  BY <1>1 DEF Accepted, LInv, InBody, InCode
<1>3. V!EndsWell(V!top_label)
  BY <1>1, <1>2 DEF V!CheckElse, V!Errors, Accepted, Validated
<1>4. EndChecks(type_stack, top_label)
  BY <1>2, <1>3, EndsOk
<1>5. /\ V!reset_type_stack_to_limit(v_type_stack) = R
      /\ reset_type_stack_to_limit(type_stack) = Stack(R)
      /\ Fits(R)
  BY <1>2, ResetAnyhow
<1> HIDE DEF R
<1>6. /\ v_type_stack' = R
      /\ v_labels' = VElse
      /\ UNCHANGED <<v_skipped, module>>
  BY <1>1, <1>2, <1>5 DEF V!CheckElse, VElse
<1>7. /\ istream' = P \o <<c>>
      /\ label_stack' = ElseLabels(label_stack, m, off)
      /\ type_stack' = Stack(R)
      /\ UNCHANGED <<inFunctionVars, unchecked>>
  BY <1>1, <1>4, <1>5 DEF OnElse, Checked, EndChecks, ElseLabels
<1>8. /\ label_stack \in Seq(Labels) /\ m \in Nat /\ m > 0
      /\ istream \in Seq(Cells) /\ off \in Nat /\ off + 1 \in Nat
  BY <1>2, PairedFacts DEF IInv, StackTypes, FInv, get_istream_offset
<1>9. AllUse(P \o <<c>>)
  <2>1. AllUse(P)
    BY <1>2, <1>8, PatchedUse
  <2>2. AllUse(<<c>>)
    BY PlainUses, AllUseOne DEF V!MemoryOps
  <2> HIDE DEF c, P
  <2>3. QED
    BY <2>1, <2>2, AllUseConcat
<1> HIDE DEF off, P
<1>10. /\ Len(label_stack') = m
       /\ \A d \in 1 .. m - 1 : label_stack'[d] = label_stack[d]
       /\ label_stack'[m].label_type = "else"
       /\ label_stack'[m].sig = label_stack[m].sig
       /\ label_stack'[m].type_stack_limit = label_stack[m].type_stack_limit
  <2>1. label_stack \in Seq(Labels) /\ m \in Nat /\ m > 0 /\ off \in Nat
    BY <1>8
  <2>2. label_stack' = ElseLabels(label_stack, m, off)
    BY <1>7
  <2>3. /\ Len(ElseLabels(label_stack, m, off)) = m
        /\ \A d \in 1 .. m - 1 :
             ElseLabels(label_stack, m, off)[d] = label_stack[d]
        /\ ElseLabels(label_stack, m, off)[m].label_type = "else"
        /\ ElseLabels(label_stack, m, off)[m].sig = label_stack[m].sig
        /\ ElseLabels(label_stack, m, off)[m].type_stack_limit
             = label_stack[m].type_stack_limit
    BY <2>1, ElseKept
  <2> HIDE DEF m
  <2>4. QED
    BY <2>2, <2>3
<1>11. v_labels \in Seq(VLabels) /\ Len(v_labels) = m
  BY <1>2 DEF Paired, LabelsPaired
<1>12. /\ v_labels' \in Seq(VLabels) /\ Len(v_labels') = m
       /\ \A d \in 1 .. m - 1 : v_labels'[d] = v_labels[d]
       /\ v_labels'[m].label_type = "else"
       /\ v_labels'[m].sig = v_labels[m].sig
       /\ v_labels'[m].type_stack_limit = v_labels[m].type_stack_limit
       /\ v_labels'[m].broke = FALSE
  BY <1>6, <1>8, <1>11, VElseKept
<1> HIDE DEF m
<1>13. \A d \in 1 .. m :
         /\ label_stack[d].label_type = v_labels[d].label_type
         /\ label_stack[d].sig = v_labels[d].sig
         /\ label_stack[d].type_stack_limit = v_labels[d].type_stack_limit + p
         /\ d # m => ~v_labels[d].broke
  <2>1. \A d \in 1 .. m : d # m => d \in 1 .. m - 1
    BY <1>8
  <2>2. QED
    BY <1>2, <1>11, <2>1 DEF Paired, LabelsPaired, BrokePaired, InCode
<1>14. ASSUME NEW d \in 1 .. m
       PROVE  /\ label_stack'[d].label_type = v_labels'[d].label_type
              /\ label_stack'[d].sig = v_labels'[d].sig
              /\ label_stack'[d].type_stack_limit
                   = v_labels'[d].type_stack_limit + p
              /\ ~v_labels'[d].broke
  <2>1. CASE d = m
    BY <2>1, <1>10, <1>12, <1>13
  <2>2. CASE d # m
    <3>1. d \in 1 .. m - 1
      BY <2>2, <1>8
    <3>2. QED
      BY <2>2, <3>1, <1>10, <1>12, <1>13
  <2>3. QED
    BY <2>1, <2>2
<1>15. v_labels'[1].sig = v_labels[1].sig
  <2>1. CASE m = 1
    BY <2>1, <1>12
  <2>2. CASE m # 1
    <3>1. 1 \in 1 .. m - 1
      BY <2>2, <1>8
    <3>2. QED
      BY <3>1, <1>12
  <2>3. QED
    BY <2>1, <2>2
<1>16. R \in Seq(Types) /\ m <= Len(label_stack)
  BY <1>5, <1>8 DEF Fits, m
<1> HIDE DEF c
<1>17. QED
  BY <1>2, <1>6, <1>7, <1>8, <1>9, <1>10, <1>12, <1>14, <1>15, <1>16, LiveLabels

\* The end of a block.
LEMMA EndLoads ==
  ASSUME Accepted, top_label.label_type # "func", BlockEnd(OnEnd, V!CheckEnd)
  PROVE  LInv'
<1> DEFINE R == Truncate(v_type_stack, Limit)
           m == Len(label_stack)
           p == Len(param_and_local_types)
           sig == top_label.sig
           off == get_istream_offset
           arms == IF top_label.label_type \in {"if", "else"}
                   THEN {top_label.fixup_offset} ELSE {}
           P == Patched(istream, TopFixups \cup arms, off)
<1>1. OnEnd /\ V!CheckEnd /\ InBody("end")
  BY DEF BlockEnd, OnEnd
<1>2. /\ InCode /\ Paired /\ IInv /\ FInv /\ v_skipped = 0 /\ unchecked = {}
      /\ \A k \in 1 .. Len(istream) : Uses(istream[k])
  BY <1>1 DEF Accepted, LInv, InBody, InCode
<1>3. /\ Aligned /\ m \in Nat /\ m > 0
      /\ V!top_label.sig = sig /\ V!top_label.label_type = top_label.label_type
      /\ sig \in Sigs
  BY <1>2, PairedFacts
<1>4. V!EndsWell(V!top_label) /\ (top_label.label_type = "if" => sig = <<>>)
  BY <1>1, <1>2, <1>3 DEF V!CheckEnd, V!Errors, Accepted, Validated
<1>5. EndChecks(type_stack, top_label)
  BY <1>2, <1>4, EndsOk
<1>6. /\ V!reset_type_stack_to_limit(v_type_stack) = R
      /\ reset_type_stack_to_limit(type_stack) = Stack(R)
      /\ Fits(R)
  BY <1>2, ResetAnyhow
<1> HIDE DEF R
<1>7. push_types(Stack(R), sig) = Stack(R \o sig) /\ Fits(R \o sig)
  BY <1>3, <1>6, SigFacts, PushesTo
<1>8. /\ v_type_stack' = R \o sig
      /\ v_labels' = Truncate(v_labels, Len(v_labels) - 1)
      /\ UNCHANGED <<v_skipped, module>>
  BY <1>1, <1>2, <1>3, <1>6, SameTruncate DEF V!CheckEnd
<1>9. /\ istream' = P
      /\ label_stack' = Truncate(label_stack, m - 1)
      /\ type_stack' = Stack(R \o sig)
      /\ UNCHANGED <<inFunctionVars, unchecked>>
  BY <1>1, <1>4, <1>5, <1>6, <1>7 DEF OnEnd, Checked, PatchAndPopLabel
<1>10. AllUse(P)
  <2>1. istream \in Seq(Cells) /\ off \in Nat
    BY <1>2 DEF FInv, get_istream_offset
  <2>2. QED
    BY <1>2, <2>1, PatchedUse
<1> HIDE DEF P, sig
<1>11. m - 1 > 0 /\ m - 1 \in 0 .. m /\ m - 1 \in Nat
  <2>1. m # 1
    BY <1>2 DEF IInv, InCode, FunctionLabel, top_label
  <2>2. m \in Nat /\ m > 0
    BY <1>3
  <2> HIDE DEF m
  <2>3. QED
    BY <2>1, <2>2
<1>12. label_stack \in Seq(Labels) /\ v_labels \in Seq(VLabels) /\ Len(v_labels) = m
  BY <1>2 DEF IInv, StackTypes, Paired, LabelsPaired
<1>13. /\ Len(label_stack') = m - 1
       /\ \A d \in 1 .. m - 1 : label_stack'[d] = label_stack[d]
  BY <1>9, <1>11, <1>12, TruncateFacts
<1>14. /\ v_labels' \in Seq(VLabels) /\ Len(v_labels') = m - 1
       /\ \A d \in 1 .. m - 1 : v_labels'[d] = v_labels[d]
  <2>1. v_labels' = Truncate(v_labels, m - 1) /\ m - 1 \in 0 .. Len(v_labels)
    BY <1>8, <1>11, <1>12
  <2>2. v_labels \in Seq(VLabels)
    BY <1>12
  <2> HIDE DEF m
  <2>3. QED
    BY <2>1, <2>2, TruncateFacts
<1>15. ASSUME NEW d \in 1 .. m - 1
       PROVE  /\ label_stack'[d].label_type = v_labels'[d].label_type
              /\ label_stack'[d].sig = v_labels'[d].sig
              /\ label_stack'[d].type_stack_limit
                   = v_labels'[d].type_stack_limit + p
              /\ ~v_labels'[d].broke
  <2>1. d \in 1 .. Len(v_labels) /\ d \in 1 .. Len(v_labels) - 1
    BY <1>3, <1>12
  <2>2. QED
    BY ZenonT(30), <1>2, <1>13, <1>14, <2>1 DEF Paired, LabelsPaired, BrokePaired, InCode
<1>16. v_labels'[1].sig = v_labels[1].sig
  BY <1>11, <1>14
<1>17. R \o sig \in Seq(Types) /\ m - 1 <= Len(label_stack)
  BY <1>3, <1>7 DEF Fits
<1> HIDE DEF m
<1>18. PICK k \in Nat : k = m - 1
  BY <1>11
<1>19. QED
  BY <1>2, <1>8, <1>9, <1>10, <1>11, <1>13, <1>14, <1>15, <1>16, <1>17, <1>18,
     LiveLabels

-----------------------------------------------------------------------------
(* Function bodies.                                                        *)

\* The end of a body: only the function's label is open, and nothing is below
\* its limit in the validator's stack.
LEMMA EndBodyLoads ==
  ASSUME Accepted, EndBody
  PROVE  LInv'
<1> DEFINE R == Truncate(v_type_stack, Limit)
           m == Len(label_stack)
           off == get_istream_offset
           P == Patched(istream, TopFixups, off)
           rc == ReturnCells(ImplicitReturnTypes, Len(top_label.sig))
           c == Cell("return", 0, 0, 0)
<1>1. /\ EndFunctionBody /\ V!EndFunc /\ top_label.label_type = "func"
      /\ status = "reading" /\ current_func # 0 /\ decls_left = 0
  BY DEF EndBody, BlockEnd, EndFunctionBody
<1>2. /\ InCode /\ Paired /\ IInv /\ FInv /\ v_skipped = 0 /\ unchecked = {}
      /\ \A k \in 1 .. Len(istream) : Uses(istream[k])
  BY <1>1 DEF Accepted, LInv, InCode
<1>3. V!EndsWell(V!top_label)
  BY <1>1, <1>2 DEF V!EndFunc, V!Errors, Accepted, Validated
<1>4. EndChecks(type_stack, top_label)
  BY <1>2, <1>3, EndsOk
<1>5. /\ V!reset_type_stack_to_limit(v_type_stack) = R
      /\ Fits(R) /\ Len(R) = Limit
  BY <1>2, ResetAnyhow
<1> HIDE DEF R
<1>6. /\ Aligned /\ m \in Nat /\ m > 0
  BY <1>2, PairedFacts
<1>7. m = 1
  <2>1. CASE m \in 2 .. m
    BY <2>1, <1>1, <1>2 DEF FInv, InnerLabels, top_label
  <2>2. m \in Nat /\ m > 0
    BY <1>6
  <2> HIDE DEF m
  <2>3. QED
    BY <2>1, <2>2
<1>8. Limit = 0
  <2>1. top_label.type_stack_limit = Len(param_and_local_types)
    BY <1>2, <1>7 DEF IInv, InCode, FunctionLimit, top_label
  <2>2. /\ Limit \in Nat /\ Len(param_and_local_types) \in Nat
        /\ top_label.type_stack_limit = Limit + Len(param_and_local_types)
    BY <1>6 DEF Aligned
  <2>3. QED
    BY <2>1, <2>2
<1>9. R = <<>>
  BY <1>5, <1>8 DEF Fits
<1>10. v_type_stack' = <<>> /\ UNCHANGED <<v_skipped, module>>
  BY <1>1, <1>5, <1>9 DEF V!EndFunc
<1>11. /\ istream' = (P \o rc) \o <<c>>
       /\ current_func' = 0 /\ UNCHANGED <<status, unchecked>>
  BY <1>1, <1>4 DEF EndFunctionBody, Checked
<1>12. AllUse((P \o rc) \o <<c>>)
  <2>1. istream \in Seq(Cells) /\ off \in Nat
    BY <1>2 DEF FInv, get_istream_offset
  <2>2. AllUse(P)
    BY <1>2, <2>1, PatchedUse
  <2>3. AllUse(rc)
    BY DropKeepUses, AllUseNone DEF ReturnCells
  <2>4. AllUse(<<c>>)
    BY PlainUses, AllUseOne DEF V!MemoryOps
  <2> HIDE DEF P, rc, c
  <2>5. AllUse(P \o rc)
    BY <2>2, <2>3, AllUseConcat
  <2>6. QED
    BY <2>4, <2>5, AllUseConcat
<1> HIDE DEF P, rc, c
<1>13. (\A k \in 1 .. Len(istream) : Uses(istream[k]))'
  BY <1>10, <1>11, <1>12 DEF AllUse, Uses
<1>14. QED
  BY <1>1, <1>2, <1>10, <1>11, <1>13 DEF LInv

\* The start of a body.
LEMMA BeginBodyLoads ==
  ASSUME Accepted, BeginBody
  PROVE  LInv'
<1> DEFINE f == next_func
           params == Funcs[f].params
           results == Funcs[f].results
           off == get_istream_offset
           P == Patched(istream, func_fixups[f], off)
           v == [label_type |-> "func", sig |-> results,
                 type_stack_limit |-> Len(v_type_stack), broke |-> FALSE]
           l == [label_type |-> "func", sig |-> results,
                 type_stack_limit |-> Len(params),
                 offset |-> INVALID, fixup_offset |-> INVALID]
<1>1. PICK n \in 0 .. MaxDecls : BeginFunctionBody(n) /\ V!check_func(f)
  BY DEF BeginBody
<1>2. /\ f \in DOMAIN Funcs /\ current_func = 0 /\ status = "reading"
      /\ status' = "reading" /\ current_func' = f /\ decls_left' = n
      /\ param_and_local_types' = params /\ type_stack' = params
      /\ label_stack' = <<l>> /\ istream' = P
      /\ UNCHANGED unchecked
  BY <1>1 DEF BeginFunctionBody
<1>3. /\ v_labels' = <<v>>
      /\ UNCHANGED <<v_type_stack, v_skipped, module>>
  BY <1>1 DEF V!check_func
<1>4. /\ v_type_stack = <<>> /\ v_skipped = 0 /\ unchecked = {}
      /\ \A k \in 1 .. Len(istream) : Uses(istream[k])
      /\ istream \in Seq(Cells)
  BY <1>2 DEF Accepted, LInv, FInv
<1>5. params \in Seq(Types) /\ results \in Sigs
  BY <1>2, FuncFacts
<1>6. Len(v_type_stack) = 0
  BY <1>4
<1>7. /\ v \in VLabels /\ v.label_type = "func" /\ v.sig = results
      /\ v.type_stack_limit = 0 /\ v.broke = FALSE
  BY <1>5, <1>6 DEF VLabels
<1>8. /\ l.label_type = "func" /\ l.sig = results
      /\ l.type_stack_limit = Len(params)
  OBVIOUS
<1> HIDE DEF v, l, params, results
<1>9. /\ v_labels' \in Seq(VLabels) /\ Len(v_labels') = 1 /\ v_labels'[1] = v
      /\ Len(label_stack') = 1 /\ label_stack'[1] = l
  BY <1>2, <1>3, <1>7
<1>10. Len(params) \in Nat /\ 0 + Len(params) = Len(params)
  BY <1>5
<1>11. LabelsPaired'
  <2>1. v.sig = Funcs[current_func'].results
    BY <1>2, <1>7 DEF results
  <2>2. QED
    BY <1>2, <1>7, <1>8, <1>9, <1>10, <2>1 DEF LabelsPaired
<1>12. BrokePaired'
  <2>1. ~top_type_is_any(type_stack)'
    BY <1>2, <1>10 DEF top_type_is_any
  <2>2. V!top_label'.broke = FALSE
    BY <1>7, <1>9 DEF V!top_label
  <2>3. QED
    BY <1>9, <2>1, <2>2 DEF BrokePaired
<1>13. params = params \o <<>>
  BY <1>5
<1>14. v_type_stack' = <<>> /\ <<>> \in Seq(Types \cup {ANY})
  BY <1>3, <1>4
<1>15. Paired'
  BY <1>2, <1>7, <1>9, <1>11, <1>12, <1>13, <1>14 DEF Paired
<1>16. AllUse(P)
  <2>1. off \in Nat
    BY <1>4 DEF get_istream_offset
  <2>2. QED
    BY <1>4, <2>1, PatchedUse
<1> HIDE DEF P
<1>17. (\A k \in 1 .. Len(istream) : Uses(istream[k]))'
  BY <1>2, <1>3, <1>16 DEF AllUse, Uses
<1>18. f # 0
  BY <1>2, CompilerAssumption
<1>19. QED
  BY <1>2, <1>3, <1>4, <1>15, <1>17, <1>18 DEF LInv

\* Raising the limit of a label leaves its kind and its types alone.
LEMMA RaisedKept ==
  ASSUME NEW ls \in Seq(Labels), Len(ls) = 1, NEW k \in Nat
  PROVE  /\ Len(Raised(ls, k)) = 1
         /\ Raised(ls, k)[1].label_type = ls[1].label_type
         /\ Raised(ls, k)[1].sig = ls[1].sig
<1>1. ls[1] \in Labels
  OBVIOUS
<1>2. /\ Len(Raised(ls, k)) = 1
      /\ Raised(ls, k)[1]
           = [ls[1] EXCEPT !.type_stack_limit = ls[1].type_stack_limit + k]
  BY DEF Raised
<1>3. QED
  BY <1>1, <1>2 DEF Labels

\* A local declaration, which only the compiler reads.
LEMMA LocalsLoad ==
  ASSUME Accepted, Locals
  PROVE  LInv'
<1>1. PICK n \in 0 .. MaxLocals, t \in Types : OnLocalDecl(n, t)
  BY DEF Locals
<1> DEFINE locals == [i \in 1 .. n |-> t]
           c == Cell("alloca", 0, local_count', 0)
<1>2. /\ status = "reading" /\ current_func # 0 /\ decls_left > 0
      /\ type_stack' = type_stack \o locals
      /\ param_and_local_types' = param_and_local_types \o locals
      /\ UNCHANGED <<current_func, status, unchecked>>
      /\ UNCHANGED <<v_type_stack, v_labels, v_skipped, module>>
  BY <1>1 DEF OnLocalDecl, Locals, validatorVars
<1>3. /\ \/ istream' = istream \o <<c>>
            /\ label_stack' = Raised(label_stack, local_count')
         \/ UNCHANGED <<istream, label_stack>>
  BY <1>1 DEF OnLocalDecl, emit, Raised
<1>4. /\ Paired /\ IInv /\ v_skipped = 0 /\ unchecked = {}
      /\ \A k \in 1 .. Len(istream) : Uses(istream[k])
      /\ istream \in Seq(Cells)
  BY <1>2 DEF Accepted, LInv, FInv
<1>5. /\ StackTypes /\ Len(label_stack) = 1 /\ StackTypes' /\ FunctionLimit'
      /\ decls_left # 0
  BY <1>2, <1>4 DEF Accepted, IInv, FunctionLimit, StackTypes
<1>6. v_type_stack = <<>> /\ v_labels[1].type_stack_limit = 0
  BY <1>4, <1>5 DEF Paired
<1>7. /\ param_and_local_types \in Seq(Types) /\ local_count' \in Nat
      /\ param_and_local_types' \in Seq(Types)
      /\ label_stack \in Seq(Labels)
  BY <1>5 DEF StackTypes
<1>8. type_stack = param_and_local_types
  BY <1>4, <1>6, <1>7 DEF Paired
<1> HIDE DEF locals
<1>9. type_stack' = param_and_local_types'
  BY <1>2, <1>8
<1>10. param_and_local_types' = param_and_local_types' \o <<>>
  BY <1>7
<1>11. /\ Len(label_stack') = 1
       /\ label_stack'[1].label_type = label_stack[1].label_type
       /\ label_stack'[1].sig = label_stack[1].sig
  <2>1. PICK k \in Nat : k = local_count'
    BY <1>7
  <2>2. /\ Len(Raised(label_stack, k)) = 1
        /\ Raised(label_stack, k)[1].label_type = label_stack[1].label_type
        /\ Raised(label_stack, k)[1].sig = label_stack[1].sig
    BY <1>5, <1>7, RaisedKept
  <2>3. CASE UNCHANGED <<istream, label_stack>>
    BY <2>3, <1>5
  <2>4. CASE label_stack' = Raised(label_stack, local_count')
    BY <2>1, <2>2, <2>4
  <2>5. QED
    BY <1>3, <2>3, <2>4
<1>12. LabelsPaired'
  <2>1. /\ v_labels \in Seq(VLabels) /\ Len(v_labels) = 1
        /\ label_stack[1].label_type = v_labels[1].label_type
        /\ label_stack[1].sig = v_labels[1].sig
        /\ v_labels[1].sig = Funcs[current_func].results
    BY <1>4, <1>5 DEF Paired, LabelsPaired
  <2>2. decls_left' = 0 => label_stack'[1].type_stack_limit
          = v_labels[1].type_stack_limit + Len(param_and_local_types')
    <3>1. decls_left' = 0 =>
            label_stack'[1].type_stack_limit = Len(param_and_local_types')
      BY <1>5 DEF FunctionLimit
    <3>2. Len(param_and_local_types') \in Nat
      BY <1>7
    <3>3. QED
      BY <1>6, <3>1, <3>2
  <2>3. QED
    BY <1>2, <1>11, <2>1, <2>2 DEF LabelsPaired
<1>13. BrokePaired'
  <2>1. Len(param_and_local_types) \in Nat /\ Len(param_and_local_types') \in Nat
    BY <1>7
  <2>2. ~top_type_is_any(type_stack)
    BY <1>8, <2>1 DEF top_type_is_any
  <2>3. ~top_type_is_any(type_stack)'
    BY <1>9, <2>1 DEF top_type_is_any
  <2>4. V!top_label' = V!top_label
    BY <1>2 DEF V!top_label
  <2>5. QED
    BY <1>2, <1>4, <2>2, <2>3, <2>4 DEF Paired, BrokePaired
<1>14. v_type_stack' = <<>> /\ <<>> \in Seq(Types \cup {ANY})
  BY <1>2, <1>6
<1>15. Paired'
  BY <1>2, <1>6, <1>9, <1>10, <1>12, <1>13, <1>14 DEF Paired
<1>16. PICK cells : AllUse(cells) /\ istream' = cells
  <2>1. AllUse(istream)
    BY <1>4, Zenon DEF AllUse, IsSeq
  <2>2. AllUse(<<c>>)
    BY PlainUses, AllUseOne DEF V!MemoryOps
  <2> HIDE DEF c
  <2>3. AllUse(istream \o <<c>>)
    BY <2>1, <2>2, AllUseConcat
  <2>4. QED
    BY <1>3, <2>1, <2>3
<1>17. (\A k \in 1 .. Len(istream) : Uses(istream[k]))'
  BY <1>2, <1>16 DEF AllUse, Uses
<1>18. QED
  BY <1>2, <1>4, <1>15, <1>17 DEF LInv

\* The end of the module.
LEMMA FinishLoads ==
  ASSUME Accepted, Finish
  PROVE  LInv'
<1>1. /\ status' = "loaded" /\ current_func = 0 /\ unchecked' = unchecked
      /\ UNCHANGED <<istream, current_func, v_type_stack, v_skipped, module>>
  BY DEF Finish, EndModule, validatorVars
<1>2. QED
  BY <1>1 DEF LInv, Accepted, Uses

-----------------------------------------------------------------------------
(* The theorems.                                                           *)

\* Nothing is read yet.
LEMMA InitLInv == LoadInit => LInv
<1> SUFFICES ASSUME LoadInit PROVE LInv
  OBVIOUS
<1>1. /\ status = "reading" /\ v_skipped = 0 /\ unchecked = {}
      /\ current_func = 0 /\ v_type_stack = <<>> /\ istream = <<>>
  BY DEF LoadInit, Init, V!Init
<1>2. Len(istream) = 0
  BY <1>1
<1>3. QED
  BY <1>1, <1>2 DEF LInv

\* Every step of the two checkers keeps them together.
LEMMA StepLInv ==
  ASSUME FInv, IInv, LInv, FInv', IInv', [LoadNext]_loadVars
  PROVE  LInv'
<1>1. CASE UNCHANGED loadVars
  BY <1>1 DEF loadVars, compilerVars, validatorVars, LInv, Validated, Uses,
     Paired, LabelsPaired, BrokePaired, V!top_label, top_type_is_any
<1>2. CASE ~Validated'
  BY <1>2 DEF LInv
<1>3. ASSUME Validated', LoadNext, ~LoadEnded PROVE LInv'
  <2>1. Accepted
    BY <1>3 DEF Accepted, LoadNext
  <2>2. CASE BeginBody
    BY <2>1, <2>2, BeginBodyLoads
  <2>3. CASE Locals
    BY <2>1, <2>3, LocalsLoad
  <2>4. CASE EndBody
    BY <2>1, <2>4, EndBodyLoads
  <2>5. CASE Finish
    BY <2>1, <2>5, FinishLoads
  <2>6. CASE Blocks
    BY <2>1, <2>6, BlockLoads, IfLoads DEF Blocks
  <2>7. CASE Ends
    BY <2>1, <2>7, ElseLoads, EndLoads DEF Ends
  <2>8. CASE Branches
    <3>1. CASE \E depth \in 0 .. Len(label_stack) :
                 \/ Expr(OnBr(depth), V!CheckBr(depth), None)
                 \/ Expr(OnBrIf(depth), V!CheckBrIf(depth), None)
      BY <2>1, <3>1, BrLoads, BrIfLoads
    <3>2. CASE \E n \in 1 .. MaxTargets + 1 :
                 \E targets \in [1 .. n -> 0 .. Len(label_stack)] :
                   Expr(OnBrTable(targets), V!CheckBrTable(targets),
                        If(\E i \in 1 .. n : AsksLoopForResults(targets[i]),
                           "loop"))
      BY <2>1, <3>2, BrTableLoads
    <3>3. CASE \/ Expr(OnReturn, V!CheckReturn, None)
               \/ Expr(OnUnreachable, V!CheckUnreachable, None)
      BY <2>1, <3>3, ReturnLoads, UnreachableLoads
    <3>4. QED
      BY <2>8, <3>1, <3>2, <3>3 DEF Branches
  <2>9. CASE Calls
    BY <2>1, <2>9, CallLoads, CallIndirectLoads DEF Calls
  <2>10. CASE Operators
    BY <2>1, <2>10, OpcodeLoads, ConstLoads, DropLoads, SelectLoads DEF Operators
  <2>11. CASE Variables
    BY <2>1, <2>11, GetGlobalLoads, SetGlobalLoads, LocalLoads, TeeLocalLoads
    DEF Variables
  <2>12. QED
    BY <1>3, <2>2, <2>3, <2>4, <2>5, <2>6, <2>7, <2>8, <2>9, <2>10, <2>11
    DEF LoadNext
<1>4. CASE LoadEnded
  BY <1>1, <1>4 DEF LoadEnded
<1>5. QED
  BY <1>1, <1>2, <1>3, <1>4

\* The invariant of both checkers, with the two of the compiler, which hold of
\* it because LoadSpec implements CompilerSpec.
THEOREM LoadInductive == LoadSpec => [](FInv /\ IInv /\ LInv)
<1>1. LoadSpec => [](FInv /\ IInv)
  BY LoadImplementsCompiler, FixupsInductive, PTL
<1>2. LoadInit => LInv
  BY InitLInv
<1>3. LInv /\ (FInv /\ IInv) /\ (FInv /\ IInv)' /\ [LoadNext]_loadVars => LInv'
  BY StepLInv
<1>4. QED
  BY <1>1, <1>2, <1>3, PTL DEF LoadSpec

\* binary-reader-interpreter.c and validator.c keep the same operands and the
\* same labels for every module without an error, up to the params and locals
\* below the compiler's.
THEOREM StacksAgreeAlways == LoadSpec => []StacksAgree
<1>1. LInv => StacksAgree
  BY DEF LInv, StacksAgree, Paired, LabelsPaired
<1>2. QED
  BY <1>1, LoadInductive, PTL

\* The compiler rejects no module the validator accepts, and fails none of its
\* assertions on one.
THEOREM ValidatedLoadsAlways == LoadSpec => []ValidatedLoads
<1>1. LInv => ValidatedLoads
  BY DEF LInv, ValidatedLoads
<1>2. QED
  BY <1>1, LoadInductive, PTL

\* What the compiler leaves unchecked in the arms of an if, in br_if, and about
\* memories and tables, the validator has checked.
THEOREM ValidatedIsCheckedAlways == LoadSpec => []ValidatedIsChecked
<1>1. FInv /\ LInv => ValidatedIsChecked
  BY DEF FInv, LInv, ValidatedIsChecked, Uses
<1>2. QED
  BY <1>1, LoadInductive, PTL

=============================================================================
