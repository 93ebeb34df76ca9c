------------------------- MODULE FuncCompilerProofs --------------------------
(***************************************************************************)
(* Proof that the compiler never pops a value an enclosing label owns and  *)
(* that the polymorphic type is only ever on top of the type stack; that   *)
(* no branch and no call is lost between its emission and its patch, and   *)
(* that every one of a loaded module leads to an instruction.  For every   *)
(* function index space, opcode set and bound.                             *)
(***************************************************************************)
EXTENDS FuncCompiler, WellFoundedInduction, TLAPS

-----------------------------------------------------------------------------
(* The inductive invariant.                                                *)

\* A type stack above the params and locals of the current function, with the
\* polymorphic type at most on top and never in place of a local.
Typed(ts) ==
  /\ ts \in Seq(Types \cup {ANY})
  /\ \A i \in 1 .. Len(ts) : ts[i] = ANY => i = Len(ts)
  /\ Len(param_and_local_types) <= Len(ts)
  /\ \A i \in 1 .. Len(param_and_local_types) : ts[i] # ANY

\* Every open label's limit is within the stack.
Above(ts) ==
  \A i \in 1 .. Len(label_stack) : label_stack[i].type_stack_limit <= Len(ts)

LabelsOrdered ==
  /\ Len(label_stack) > 0
  /\ \A i, j \in 1 .. Len(label_stack) : i <= j =>
       label_stack[i].type_stack_limit <= label_stack[j].type_stack_limit

\* While the local declarations are read only the function label is open, and
\* its limit is below the locals read so far.
FunctionLimit ==
  IF decls_left = 0
  THEN label_stack[1].type_stack_limit = Len(param_and_local_types)
  ELSE /\ Len(label_stack) = 1
       /\ label_stack[1].type_stack_limit + local_count
            = Len(param_and_local_types)
       /\ Len(type_stack) = Len(param_and_local_types)

\* The outermost label is the function's own, so closing any other label
\* leaves one.
FunctionLabel == label_stack[1].label_type = "func"

StackTypes ==
  /\ type_stack \in Seq(Types \cup {ANY})
  /\ label_stack \in Seq(Labels)
  /\ param_and_local_types \in Seq(Types)
  /\ local_count \in Nat
  /\ decls_left \in Nat
  /\ current_func \in 0 .. Len(Funcs)

IInv ==
  /\ StackTypes
  /\ current_func # 0 => /\ Typed(type_stack)
                         /\ Above(type_stack)
                         /\ LabelsOrdered
                         /\ FunctionLimit
                         /\ FunctionLabel
  /\ current_func = 0 => type_stack = <<>>

-----------------------------------------------------------------------------
(* Sequences.                                                              *)

\* Truncate keeps the first n elements.
LEMMA TruncateFacts ==
  ASSUME NEW S, NEW s \in Seq(S), NEW n \in 0 .. Len(s)
  PROVE  /\ Truncate(s, n) \in Seq(S)
         /\ Len(Truncate(s, n)) = n
         /\ \A i \in 1 .. n : Truncate(s, n)[i] = s[i]
BY DEF Truncate

\* Concatenation keeps the elements of both sequences.
LEMMA ConcatFacts ==
  ASSUME NEW S, NEW s \in Seq(S), NEW t \in Seq(S)
  PROVE  /\ s \o t \in Seq(S)
         /\ Len(s \o t) = Len(s) + Len(t)
         /\ \A i \in 1 .. Len(s) : (s \o t)[i] = s[i]
         /\ \A i \in 1 .. Len(t) : (s \o t)[Len(s) + i] = t[i]
OBVIOUS

\* An element of a sequence is in the set the sequence is over.
LEMMA ElementFacts ==
  ASSUME NEW S, NEW s \in Seq(S), NEW i \in 1 .. Len(s)
  PROVE  s[i] \in S
OBVIOUS

\* "any" is not a value type.
LEMMA AnyIsNoType == ANY \notin Types
BY CompilerAssumption DEF ANY

-----------------------------------------------------------------------------
(* The helpers on type stacks, inside a function body.                     *)

\* The fields of the labels.
LEMMA LabelFacts ==
  ASSUME StackTypes, NEW i \in 1 .. Len(label_stack)
  PROVE  /\ label_stack[i] \in Labels
         /\ label_stack[i].type_stack_limit \in Nat
         /\ label_stack[i].sig \in Sigs
<1>1. label_stack[i] \in Labels
  BY DEF StackTypes
<1>2. QED
  BY <1>1 DEF Labels

\* A label with another limit.
LEMMA LimitExcept ==
  ASSUME NEW l \in Labels, NEW n \in Nat
  PROVE  /\ [l EXCEPT !.type_stack_limit = n] \in Labels
         /\ [l EXCEPT !.type_stack_limit = n].type_stack_limit = n
         /\ [l EXCEPT !.type_stack_limit = n].label_type = l.label_type
BY DEF Labels

Body == StackTypes /\ decls_left = 0 /\ LabelsOrdered /\ FunctionLimit

\* The top label has the largest limit, and it is above the locals.
LEMMA TopLimit ==
  ASSUME Body
  PROVE  /\ top_label \in Labels
         /\ top_label.type_stack_limit \in Nat
         /\ top_label.sig \in Sigs
         /\ Len(param_and_local_types) <= top_label.type_stack_limit
         /\ \A i \in 1 .. Len(label_stack) :
              label_stack[i].type_stack_limit <= top_label.type_stack_limit
<1>1. Len(label_stack) \in Nat /\ Len(label_stack) \in 1 .. Len(label_stack)
  BY DEF Body, StackTypes, LabelsOrdered
<1>2. top_label \in Labels
  BY <1>1 DEF Body, StackTypes, top_label
<1>3. top_label.type_stack_limit \in Nat /\ top_label.sig \in Sigs
  BY <1>2 DEF Labels
<1>4. 1 \in 1 .. Len(label_stack)
  BY <1>1
<1>5. QED
  BY <1>1, <1>2, <1>3, <1>4 DEF Body, LabelsOrdered, FunctionLimit, top_label

\* Truncating at or above the top label's limit.
LEMMA TruncateTyped ==
  ASSUME Body, NEW ts, Typed(ts),
         NEW n \in Nat, top_label.type_stack_limit <= n, n <= Len(ts)
  PROVE  Typed(Truncate(ts, n)) /\ Above(Truncate(ts, n))
<1>1. ts \in Seq(Types \cup {ANY}) /\ Len(ts) \in Nat
  BY DEF Typed
<1>2. /\ Truncate(ts, n) \in Seq(Types \cup {ANY})
      /\ Len(Truncate(ts, n)) = n
      /\ \A i \in 1 .. n : Truncate(ts, n)[i] = ts[i]
  BY <1>1, TruncateFacts
<1>3. Len(param_and_local_types) <= n /\ Len(param_and_local_types) \in Nat
  BY TopLimit DEF Body, StackTypes
<1>4. Typed(Truncate(ts, n))
  BY <1>1, <1>2, <1>3 DEF Typed
<1>5. Above(Truncate(ts, n))
  <2>1. SUFFICES ASSUME NEW i \in 1 .. Len(label_stack)
                 PROVE  label_stack[i].type_stack_limit <= n
    BY <1>2 DEF Above
  <2>2. label_stack[i].type_stack_limit \in Nat
    BY LabelFacts DEF Body
  <2>3. QED
    BY <2>2, TopLimit
<1>6. QED
  BY <1>4, <1>5

\* pop_types, when check_type_stack_limit allows it.
LEMMA PopTyped ==
  ASSUME Body, NEW ts, Typed(ts), Above(ts), NEW n \in Nat,
         check_type_stack_limit(ts, n)
  PROVE  Typed(pop_types(ts, n)) /\ Above(pop_types(ts, n))
<1>1. CASE top_type_is_any(ts)
  BY <1>1 DEF pop_types
<1>2. CASE ~top_type_is_any(ts)
  <2>1. Len(ts) \in Nat /\ top_label.type_stack_limit \in Nat
    BY TopLimit DEF Typed
  <2>2. n <= Len(ts) - top_label.type_stack_limit
    BY <1>2 DEF check_type_stack_limit
  <2>3. /\ Len(ts) - n \in Nat
        /\ top_label.type_stack_limit <= Len(ts) - n
        /\ Len(ts) - n <= Len(ts)
    BY <2>1, <2>2
  <2>4. QED
    BY <1>2, <2>3, TruncateTyped DEF pop_types
<1>3. QED
  BY <1>1, <1>2

\* reset_type_stack_to_limit.
LEMMA ResetTyped ==
  ASSUME Body, NEW ts, Typed(ts), Above(ts)
  PROVE  /\ Typed(reset_type_stack_to_limit(ts))
         /\ Above(reset_type_stack_to_limit(ts))
<1>1. Len(label_stack) \in 1 .. Len(label_stack)
  BY DEF Body, StackTypes, LabelsOrdered
<1>2. top_label.type_stack_limit <= Len(ts)
  BY <1>1 DEF Above, top_label
<1>3. QED
  BY <1>2, TopLimit, TruncateTyped DEF reset_type_stack_to_limit

\* When the top is not the polymorphic type no element is.
LEMMA NoAny ==
  ASSUME NEW ts, Typed(ts), ~top_type_is_any(ts)
  PROVE  \A i \in 1 .. Len(ts) : ts[i] # ANY
<1>1. SUFFICES ASSUME NEW i \in 1 .. Len(ts), ts[i] = ANY
               PROVE  FALSE
  OBVIOUS
<1>2. i = Len(ts) /\ Len(ts) \in Nat
  BY <1>1 DEF Typed
<1>3. Len(ts) <= Len(param_and_local_types)
  BY <1>1, <1>2 DEF Typed, top_type_is_any
<1>4. QED
  BY <1>1, <1>2, <1>3 DEF Typed

\* Appending to a stack without the polymorphic type.
LEMMA ConcatTyped ==
  ASSUME StackTypes, NEW ts, Typed(ts), Above(ts), ~top_type_is_any(ts),
         NEW types \in Seq(Types)
  PROVE  Typed(ts \o types) /\ Above(ts \o types)
<1>1. types \in Seq(Types \cup {ANY}) /\ ts \in Seq(Types \cup {ANY})
  BY DEF Typed
<1>2. /\ ts \o types \in Seq(Types \cup {ANY})
      /\ Len(ts \o types) = Len(ts) + Len(types)
      /\ \A i \in 1 .. Len(ts) : (ts \o types)[i] = ts[i]
      /\ \A i \in 1 .. Len(types) : (ts \o types)[Len(ts) + i] = types[i]
  BY <1>1, ConcatFacts
<1>3. Len(ts) \in Nat /\ Len(types) \in Nat /\ Len(param_and_local_types) \in Nat
  BY <1>1 DEF StackTypes
<1>4. \A i \in 1 .. Len(ts) : ts[i] # ANY
  BY NoAny
<1>5. \A i \in 1 .. Len(types) : types[i] # ANY
  BY AnyIsNoType
<1>6. ASSUME NEW i \in 1 .. Len(ts \o types)
      PROVE  (ts \o types)[i] # ANY
  <2>1. CASE i <= Len(ts)
    BY <2>1, <1>2, <1>3, <1>4
  <2>2. CASE i > Len(ts)
    <3>1. i - Len(ts) \in 1 .. Len(types) /\ i = Len(ts) + (i - Len(ts))
      BY <2>2, <1>2, <1>3
    <3>2. QED
      BY <3>1, <1>2, <1>5
  <2>3. QED
    BY <2>1, <2>2, <1>2, <1>3
<1>7. Typed(ts \o types)
  BY <1>2, <1>3, <1>6 DEF Typed
<1>8. Above(ts \o types)
  <2>1. \A i \in 1 .. Len(label_stack) : label_stack[i].type_stack_limit \in Nat
    BY LabelFacts
  <2>2. QED
    BY <1>2, <1>3, <2>1 DEF Above
<1>9. QED
  BY <1>7, <1>8

\* push_types.
LEMMA PushTyped ==
  ASSUME StackTypes, NEW ts, Typed(ts), Above(ts), NEW types \in Seq(Types)
  PROVE  Typed(push_types(ts, types)) /\ Above(push_types(ts, types))
BY ConcatTyped DEF push_types

\* push_type of the polymorphic type.
LEMMA PushAnyTyped ==
  ASSUME StackTypes, NEW ts, Typed(ts), Above(ts)
  PROVE  Typed(push_type(ts, ANY)) /\ Above(push_type(ts, ANY))
<1>1. CASE top_type_is_any(ts)
  BY <1>1 DEF push_type
<1>2. CASE ~top_type_is_any(ts)
  <2>1. ts \in Seq(Types \cup {ANY}) /\ Len(ts) \in Nat
    BY DEF Typed
  <2>2. /\ Append(ts, ANY) \in Seq(Types \cup {ANY})
        /\ Len(Append(ts, ANY)) = Len(ts) + 1
        /\ \A i \in 1 .. Len(ts) : Append(ts, ANY)[i] = ts[i]
    BY <2>1
  <2>3. \A i \in 1 .. Len(ts) : ts[i] # ANY
    BY <1>2, NoAny
  <2>4. Len(param_and_local_types) \in Nat
    BY DEF StackTypes
  <2>5. Typed(Append(ts, ANY))
    BY <2>1, <2>2, <2>3, <2>4 DEF Typed
  <2>6. \A i \in 1 .. Len(label_stack) : label_stack[i].type_stack_limit \in Nat
    BY LabelFacts
  <2>7. Above(Append(ts, ANY))
    BY <2>1, <2>2, <2>6 DEF Above
  <2>8. QED
    BY <1>2, <2>5, <2>7 DEF push_type
<1>3. QED
  BY <1>1, <1>2

-----------------------------------------------------------------------------
(* The actions.                                                            *)

\* A callback that fails leaves the invariant in place.
LEMMA StopPreserves ==
  ASSUME IInv, NEW outcome, Stop(outcome)
  PROVE  IInv'
BY DEF IInv, StackTypes, Stop

\* A callback that replaces the type stack and leaves the labels alone.
LEMMA StackStep ==
  ASSUME IInv, current_func # 0, decls_left = 0,
         Typed(type_stack'), Above(type_stack'),
         UNCHANGED <<label_stack, inFunctionVars>>
  PROVE  IInv'
<1>1. /\ StackTypes'
      /\ current_func' # 0
  BY DEF IInv, StackTypes, Typed, inFunctionVars
<1>2. Typed(type_stack)' /\ Above(type_stack)'
  BY DEF Typed, Above, inFunctionVars
<1>3. LabelsOrdered'
  BY DEF IInv, LabelsOrdered
<1>4. FunctionLimit' /\ FunctionLabel'
  BY DEF IInv, FunctionLimit, FunctionLabel, inFunctionVars
<1>5. QED
  BY <1>1, <1>2, <1>3, <1>4 DEF IInv

\* Inside a body the facts the helpers need hold.
LEMMA InBodyFacts ==
  ASSUME IInv, NEW callback, InBody(callback)
  PROVE  /\ current_func # 0
         /\ decls_left = 0
         /\ Body
         /\ StackTypes
         /\ Typed(type_stack)
         /\ Above(type_stack)
BY DEF IInv, InBody, Body

\* UnreachableTypes.
LEMMA UnreachableTyped ==
  ASSUME Body, NEW ts, Typed(ts), Above(ts)
  PROVE  Typed(UnreachableTypes(ts)) /\ Above(UnreachableTypes(ts))
BY ResetTyped, PushAnyTyped DEF UnreachableTypes, Body

\* The check of pop_and_check includes that of check_type_stack_limit.
LEMMA PopAndCheckLimit ==
  ASSUME NEW ts, NEW params, pop_and_check(ts, params)
  PROVE  check_type_stack_limit(ts, Len(params))
BY DEF pop_and_check, check_type_stack_limit

\* The same for one operand.
LEMMA PopOneLimit ==
  ASSUME NEW ts, NEW t, pop_and_check(ts, <<t>>)
  PROVE  check_type_stack_limit(ts, 1)
<1>1. check_type_stack_limit(ts, Len(<<t>>))
  BY PopAndCheckLimit
<1>2. Len(<<t>>) = 1
  OBVIOUS
<1>3. QED
  BY <1>1, <1>2

\* Popping one checked operand.
LEMMA PopOneTyped ==
  ASSUME Body, NEW ts, Typed(ts), Above(ts), NEW t, pop_and_check(ts, <<t>>)
  PROVE  Typed(pop_types(ts, 1)) /\ Above(pop_types(ts, 1))
BY PopOneLimit, PopTyped

\* Callbacks that pop, push and emit one cell.
LEMMA SimplePreserves ==
  ASSUME IInv, NEW callback, InBody(callback),
         NEW params \in Seq(Types), NEW types \in Seq(Types), NEW c,
         SimpleExpr(params, types, c)
  PROVE  IInv'
<1>1. CASE ~pop_and_check(type_stack, params)
  BY <1>1, StopPreserves DEF SimpleExpr, Checked, Reject
<1>2. CASE pop_and_check(type_stack, params)
  <2>1. /\ type_stack' = push_types(pop_types(type_stack, Len(params)), types)
        /\ UNCHANGED <<label_stack, inFunctionVars>>
    BY <1>2 DEF SimpleExpr, Checked, NoLabelChange
  <2>2. check_type_stack_limit(type_stack, Len(params)) /\ Len(params) \in Nat
    BY <1>2, PopAndCheckLimit
  <2>3. /\ Typed(pop_types(type_stack, Len(params)))
        /\ Above(pop_types(type_stack, Len(params)))
    BY <2>2, InBodyFacts, PopTyped
  <2>4. Typed(type_stack') /\ Above(type_stack')
    BY <2>1, <2>3, InBodyFacts, PushTyped
  <2>5. QED
    BY <2>1, <2>4, InBodyFacts, StackStep
<1>3. QED
  BY <1>1, <1>2

\* Signatures are sequences of value types of length at most one.
LEMMA SigFacts ==
  ASSUME NEW sig \in Sigs
  PROVE  sig \in Seq(Types) /\ Len(sig) \in 0 .. 1
<1>1. CASE sig = <<>>
  BY <1>1
<1>2. CASE sig # <<>>
  <2>1. PICK t \in Types : sig = <<t>>
    BY <1>2 DEF Sigs
  <2>2. QED
    BY <2>1
<1>3. QED
  BY <1>1, <1>2

\* The constants an action looks up.
LEMMA FuncFacts ==
  ASSUME NEW f \in DOMAIN Funcs
  PROVE  Funcs[f].params \in Seq(Types) /\ Funcs[f].results \in Sigs
<1> DEFINE R == [params : Seq(Types), results : Sigs]
<1>1. Funcs \in Seq(R)
  BY CompilerAssumption
<1> HIDE DEF R
<1>2. Funcs[f] \in R
  BY <1>1
<1>3. QED
  BY <1>2 DEF R

\* begin_function_body starts with the params on the stack and one label
\* above them.
LEMMA BeginPreserves ==
  ASSUME IInv, NEW n \in 0 .. MaxDecls, BeginFunctionBody(n)
  PROVE  IInv'
<1> DEFINE params == Funcs[next_func].params
<1>1. /\ next_func \in 1 .. Len(Funcs)
      /\ params \in Seq(Types)
      /\ Funcs[next_func].results \in Sigs
  BY FuncFacts, CompilerAssumption DEF BeginFunctionBody
<1>2. /\ current_func' = next_func
      /\ decls_left' = n
      /\ local_count' = 0
      /\ param_and_local_types' = params
      /\ type_stack' = params
      /\ label_stack' = <<[label_type |-> "func",
                           sig |-> Funcs[next_func].results,
                           type_stack_limit |-> Len(params),
                           offset |-> INVALID, fixup_offset |-> INVALID]>>
  BY DEF BeginFunctionBody
<1> HIDE DEF params
<1>3. n \in Nat /\ Len(params) \in Nat
  BY <1>1, CompilerAssumption
<1>4. /\ label_stack' \in Seq(Labels)
      /\ Len(label_stack') = 1
      /\ label_stack'[1].type_stack_limit = Len(params)
      /\ label_stack'[1].label_type = "func"
  BY <1>1, <1>2, <1>3 DEF Labels, INVALID
<1>5. \A i \in 1 .. Len(params) : params[i] # ANY
  BY <1>1, AnyIsNoType
<1>6. StackTypes'
  BY <1>1, <1>2, <1>3, <1>4 DEF StackTypes
<1>7. Typed(type_stack)' /\ Above(type_stack)'
  BY <1>1, <1>2, <1>3, <1>4, <1>5 DEF Typed, Above
<1>8. LabelsOrdered' /\ FunctionLimit' /\ FunctionLabel'
  BY <1>2, <1>3, <1>4 DEF LabelsOrdered, FunctionLimit, FunctionLabel
<1>9. QED
  BY <1>1, <1>2, <1>6, <1>7, <1>8 DEF IInv

\* Each local declaration pushes its locals; the last one raises the function
\* label's limit above all of them.
LEMMA LocalDeclPreserves ==
  ASSUME IInv, NEW count \in 0 .. MaxLocals, NEW t \in Types,
         OnLocalDecl(count, t)
  PROVE  IInv'
<1> DEFINE locals == [i \in 1 .. count |-> t]
<1>1. count \in Nat /\ locals \in Seq(Types) /\ Len(locals) = count
  BY CompilerAssumption
<1>2. /\ current_func # 0 /\ current_func' = current_func
      /\ decls_left > 0 /\ decls_left' = decls_left - 1
      /\ local_count' = local_count + count
      /\ param_and_local_types' = param_and_local_types \o locals
      /\ type_stack' = type_stack \o locals
  BY DEF OnLocalDecl
<1>3. \/ /\ decls_left = 1
         /\ label_stack' = [label_stack EXCEPT
              ![1].type_stack_limit = @ + local_count']
      \/ decls_left # 1 /\ label_stack' = label_stack
  BY DEF OnLocalDecl
<1> HIDE DEF locals
<1>4. /\ StackTypes /\ Typed(type_stack) /\ FunctionLimit /\ FunctionLabel
      /\ Len(label_stack) = 1
      /\ decls_left \in Nat
      /\ label_stack[1].type_stack_limit + local_count
           = Len(param_and_local_types)
      /\ Len(type_stack) = Len(param_and_local_types)
  BY <1>2 DEF IInv, FunctionLimit, StackTypes
<1>5. /\ label_stack[1] \in Labels
      /\ label_stack[1].type_stack_limit \in Nat
      /\ local_count \in Nat
  BY <1>4, LabelFacts DEF StackTypes
<1>6. /\ label_stack' \in Seq(Labels)
      /\ Len(label_stack') = 1
      /\ label_stack'[1].type_stack_limit =
           IF decls_left = 1 THEN label_stack[1].type_stack_limit + local_count'
           ELSE label_stack[1].type_stack_limit
      /\ label_stack'[1].label_type = label_stack[1].label_type
  <2>1. CASE decls_left # 1
    BY <2>1, <1>3, <1>4 DEF StackTypes
  <2>2. CASE decls_left = 1
    <3>1. label_stack' = [label_stack EXCEPT ![1] =
            [label_stack[1] EXCEPT !.type_stack_limit = @ + local_count']]
      BY <2>2, <1>3
    <3>2. label_stack[1].type_stack_limit + local_count' \in Nat
      BY <1>1, <1>2, <1>5
    <3>3. PICK l \in Labels :
            /\ l = [label_stack[1] EXCEPT !.type_stack_limit = @ + local_count']
            /\ l.type_stack_limit
                 = label_stack[1].type_stack_limit + local_count'
            /\ l.label_type = label_stack[1].label_type
      BY ZenonT(30), <3>2, <1>5, LimitExcept
    <3>4. label_stack' = [label_stack EXCEPT ![1] = l]
      BY <3>1, <3>3
    <3>5. label_stack \in Seq(Labels) /\ Len(label_stack) = 1
      BY <1>4 DEF StackTypes
    <3>6. /\ label_stack' \in Seq(Labels)
          /\ Len(label_stack') = 1
          /\ label_stack'[1] = l
      BY SMTT(30), <3>4, <3>5
    <3>7. QED
      BY <2>2, <3>3, <3>6
  <2>3. QED
    BY <2>1, <2>2
<1>7. /\ param_and_local_types' \in Seq(Types)
      /\ Len(param_and_local_types') = Len(param_and_local_types) + count
  <2>1. param_and_local_types \in Seq(Types)
    BY <1>4 DEF StackTypes
  <2>2. /\ param_and_local_types \o locals \in Seq(Types)
        /\ Len(param_and_local_types \o locals)
             = Len(param_and_local_types) + Len(locals)
    BY <2>1, <1>1, ConcatFacts
  <2>3. QED
    BY <2>2, <1>1, <1>2
<1>8. /\ type_stack' \in Seq(Types \cup {ANY})
      /\ Len(type_stack') = Len(type_stack) + count
      /\ \A i \in 1 .. Len(type_stack) : type_stack'[i] = type_stack[i]
      /\ \A i \in 1 .. count : type_stack'[Len(type_stack) + i] = locals[i]
  <2>1. type_stack \in Seq(Types \cup {ANY}) /\ locals \in Seq(Types \cup {ANY})
    BY <1>1, <1>4 DEF StackTypes
  <2>2. /\ type_stack \o locals \in Seq(Types \cup {ANY})
        /\ Len(type_stack \o locals) = Len(type_stack) + Len(locals)
        /\ \A i \in 1 .. Len(type_stack) :
             (type_stack \o locals)[i] = type_stack[i]
        /\ \A i \in 1 .. Len(locals) :
             (type_stack \o locals)[Len(type_stack) + i] = locals[i]
    BY <2>1, ConcatFacts
  <2>3. QED
    BY <2>2, <1>1, <1>2
<1>9. \A i \in 1 .. count : locals[i] # ANY
  BY <1>1, AnyIsNoType
<1>10. Len(type_stack) \in Nat /\ Len(param_and_local_types) \in Nat
  BY <1>4 DEF StackTypes
<1>11. ASSUME NEW i \in 1 .. Len(type_stack')
       PROVE  type_stack'[i] # ANY
  <2>1. CASE i <= Len(type_stack)
    BY <2>1, <1>4, <1>8, <1>10 DEF Typed
  <2>2. CASE i > Len(type_stack)
    <3>1. i - Len(type_stack) \in 1 .. count
      BY <2>2, <1>1, <1>8, <1>10
    <3>2. QED
      <4>1. type_stack'[Len(type_stack) + (i - Len(type_stack))]
              = locals[i - Len(type_stack)]
        BY <3>1, <1>8
      <4>2. Len(type_stack) + (i - Len(type_stack)) = i
        BY <1>10
      <4>3. QED
        BY <3>1, <4>1, <4>2, <1>9
  <2>3. QED
    BY <2>1, <2>2, <1>8, <1>10
<1>12. StackTypes'
  BY <1>1, <1>2, <1>4, <1>5, <1>6, <1>7, <1>8 DEF StackTypes
<1>13. Typed(type_stack)'
  BY <1>4, <1>7, <1>8, <1>10, <1>11 DEF Typed
<1>14. Above(type_stack)'
  <2>1. label_stack'[1].type_stack_limit <= Len(type_stack')
    BY <1>1, <1>2, <1>4, <1>5, <1>6, <1>8, <1>10
  <2>2. QED
    BY <2>1, <1>6 DEF Above
<1>15. LabelsOrdered'
  <2>1. label_stack'[1].type_stack_limit \in Nat
    BY <1>1, <1>2, <1>5, <1>6
  <2>2. QED
    BY <2>1, <1>6 DEF LabelsOrdered
<1>16. FunctionLimit'
  <2>1. CASE decls_left = 1
    <3>1. label_stack'[1].type_stack_limit = Len(param_and_local_types')
      <4>1. label_stack'[1].type_stack_limit
              = label_stack[1].type_stack_limit + (local_count + count)
        BY <2>1, <1>2, <1>6
      <4>2. label_stack[1].type_stack_limit + local_count
              = Len(param_and_local_types)
        BY <1>4
      <4>3. Len(param_and_local_types') = Len(param_and_local_types) + count
        BY <1>7
      <4>4. /\ count \in Nat /\ local_count \in Nat
            /\ label_stack[1].type_stack_limit \in Nat
        BY <1>1, <1>5
      <4>5. label_stack[1].type_stack_limit + (local_count + count)
              = (label_stack[1].type_stack_limit + local_count) + count
        BY <4>4
      <4>6. QED
        BY <4>1, <4>2, <4>3, <4>5
    <3>2. QED
      BY <2>1, <3>1, <1>2 DEF FunctionLimit
  <2>2. CASE decls_left # 1
    <3>1. /\ Len(label_stack') = 1
          /\ label_stack'[1].type_stack_limit + local_count'
               = Len(param_and_local_types')
          /\ Len(type_stack') = Len(param_and_local_types')
      BY <2>2, <1>1, <1>2, <1>4, <1>5, <1>6, <1>7, <1>8, <1>10
    <3>2. decls_left' # 0
      BY <2>2, <1>2, <1>4
    <3>3. QED
      BY <3>1, <3>2 DEF FunctionLimit
  <2>3. QED
    BY <2>1, <2>2
<1>17. FunctionLabel'
  BY <1>4, <1>6 DEF FunctionLabel
<1>18. QED
  BY <1>2, <1>12, <1>13, <1>14, <1>15, <1>16, <1>17 DEF IInv

\* end_function_body closes the function's own label and empties the stack.
LEMMA EndFunctionPreserves ==
  ASSUME IInv, EndFunctionBody
  PROVE  IInv'
<1> DEFINE ok == /\ top_label.label_type = "func"
                 /\ EndChecks(type_stack, top_label)
<1>1. CASE ~ok
  BY <1>1, StopPreserves DEF EndFunctionBody, Checked, Reject
<1>2. CASE ok
  <2>1. /\ label_stack' = Truncate(label_stack, Len(label_stack) - 1)
        /\ current_func' = 0
        /\ type_stack' = <<>>
        /\ UNCHANGED <<decls_left, local_count, param_and_local_types>>
    BY <1>2 DEF EndFunctionBody, Checked, PatchAndPopLabel
  <2>2. Len(label_stack) > 0 /\ label_stack \in Seq(Labels)
    BY DEF IInv, LabelsOrdered, StackTypes, EndFunctionBody
  <2>3. label_stack' \in Seq(Labels)
    BY <2>1, <2>2, TruncateFacts
  <2>4. QED
    BY <2>1, <2>3 DEF IInv, StackTypes
<1>3. QED
  BY <1>1, <1>2

\* The end of the module changes the status only.
LEMMA EndModulePreserves ==
  ASSUME IInv, EndModule
  PROVE  IInv'
BY DEF IInv, EndModule, StackTypes

-----------------------------------------------------------------------------
(* Blocks.                                                                 *)

\* Pushing a label at the current size of the type stack.
LEMMA PushLabelPreserves ==
  ASSUME IInv, current_func # 0, decls_left = 0,
         Typed(type_stack'), Above(type_stack'),
         NEW l \in Labels, l.type_stack_limit = Len(type_stack'),
         label_stack' = Append(label_stack, l),
         UNCHANGED inFunctionVars
  PROVE  IInv'
<1>1. /\ StackTypes /\ LabelsOrdered /\ FunctionLimit
      /\ label_stack \in Seq(Labels) /\ Len(label_stack) \in Nat
  BY DEF IInv, StackTypes
<1>2. /\ label_stack' \in Seq(Labels)
      /\ Len(label_stack') = Len(label_stack) + 1
      /\ label_stack'[Len(label_stack) + 1] = l
      /\ \A i \in 1 .. Len(label_stack) : label_stack'[i] = label_stack[i]
  BY <1>1
<1>3. Len(type_stack') \in Nat /\ type_stack' \in Seq(Types \cup {ANY})
  BY DEF Typed
<1>4. StackTypes' /\ current_func' # 0
  BY <1>1, <1>2, <1>3 DEF StackTypes, inFunctionVars
<1>5. Typed(type_stack)'
  BY DEF Typed, inFunctionVars
<1>6. \A i \in 1 .. Len(label_stack') :
        /\ label_stack'[i].type_stack_limit \in Nat
        /\ label_stack'[i].type_stack_limit <= Len(type_stack')
  <2>1. SUFFICES ASSUME NEW i \in 1 .. Len(label_stack')
                 PROVE  /\ label_stack'[i].type_stack_limit \in Nat
                        /\ label_stack'[i].type_stack_limit <= Len(type_stack')
    OBVIOUS
  <2>2. CASE i = Len(label_stack) + 1
    BY <2>2, <1>2, <1>3
  <2>3. CASE i # Len(label_stack) + 1
    <3>1. i \in 1 .. Len(label_stack)
      BY <2>3, <1>1, <1>2
    <3>2. QED
      BY <3>1, <1>1, <1>2, LabelFacts DEF Above
  <2>4. QED
    BY <2>2, <2>3
<1>7. Above(type_stack)'
  BY <1>6 DEF Above
<1>8. LabelsOrdered'
  <2>1. SUFFICES ASSUME NEW i \in 1 .. Len(label_stack'),
                        NEW j \in 1 .. Len(label_stack'), i <= j
                 PROVE  label_stack'[i].type_stack_limit
                          <= label_stack'[j].type_stack_limit
    BY <1>1, <1>2 DEF LabelsOrdered
  <2>2. CASE j = Len(label_stack) + 1
    BY <2>2, <1>2, <1>6
  <2>3. CASE j # Len(label_stack) + 1
    <3>1. i \in 1 .. Len(label_stack) /\ j \in 1 .. Len(label_stack)
      BY <2>1, <2>3, <1>1, <1>2
    <3>2. QED
      BY <2>1, <3>1, <1>1, <1>2 DEF LabelsOrdered
  <2>4. QED
    BY <2>2, <2>3
<1>9. FunctionLimit' /\ FunctionLabel'
  <2>1. label_stack'[1] = label_stack[1]
    BY <1>1, <1>2 DEF LabelsOrdered
  <2>2. FunctionLabel
    BY DEF IInv
  <2>3. QED
    BY <2>1, <2>2, <1>1 DEF FunctionLimit, FunctionLabel, inFunctionVars
<1>10. QED
  BY <1>4, <1>5, <1>7, <1>8, <1>9 DEF IInv

\* A block or loop label starts at the current size of the stack.
LEMMA BlockPreserves ==
  ASSUME IInv, NEW sig \in Sigs, OnBlock(sig) \/ OnLoop(sig)
  PROVE  IInv'
<1>1. PICK callback : InBody(callback)
  BY DEF OnBlock, OnLoop
<1>2. /\ type_stack' = type_stack
      /\ UNCHANGED inFunctionVars
  BY DEF OnBlock, OnLoop
<1>3. Len(type_stack) \in Nat /\ get_istream_offset \in Nat
  BY DEF IInv, StackTypes, get_istream_offset
<1>4. PICK label_type \in {"block", "loop"}, offset \in Nat :
        push_label(label_type, sig, type_stack, offset, INVALID)
  BY <1>3 DEF OnBlock, OnLoop, INVALID
<1> DEFINE l == [label_type |-> label_type, sig |-> sig,
                 type_stack_limit |-> Len(type_stack), offset |-> offset,
                 fixup_offset |-> INVALID]
<1>5. l \in Labels /\ l.type_stack_limit = Len(type_stack)
  BY <1>3 DEF Labels, INVALID
<1>6. label_stack' = Append(label_stack, l)
  BY <1>4 DEF push_label
<1> HIDE DEF l
<1>7. QED
  BY <1>1, <1>2, <1>5, <1>6, InBodyFacts, PushLabelPreserves

\* The label of an if starts below its condition.
LEMMA IfPreserves ==
  ASSUME IInv, NEW sig \in Sigs, OnIf(sig)
  PROVE  IInv'
<1>1. InBody("if")
  BY DEF OnIf
<1>2. CASE ~pop_and_check(type_stack, <<"i32">>)
  BY <1>2, StopPreserves DEF OnIf, Checked, Reject
<1>3. CASE pop_and_check(type_stack, <<"i32">>)
  <2> DEFINE l == [label_type |-> "if", sig |-> sig,
                   type_stack_limit |-> Len(type_stack'),
                   offset |-> INVALID, fixup_offset |-> get_istream_offset]
  <2>1. /\ type_stack' = pop_types(type_stack, 1)
        /\ label_stack' = Append(label_stack, l)
        /\ UNCHANGED inFunctionVars
    BY <1>3 DEF OnIf, Checked, push_label
  <2>2. check_type_stack_limit(type_stack, 1)
    BY <1>3, PopOneLimit
  <2>3. Typed(type_stack') /\ Above(type_stack')
    BY <1>1, <2>1, <2>2, InBodyFacts, PopTyped
  <2>4. Len(type_stack') \in Nat /\ get_istream_offset \in Nat
    BY <2>3 DEF Typed, get_istream_offset
  <2>5. l \in Labels /\ l.type_stack_limit = Len(type_stack')
    BY <2>4 DEF Labels, INVALID
  <2> HIDE DEF l
  <2>6. QED
    BY <1>1, <2>1, <2>3, <2>5, InBodyFacts, PushLabelPreserves
<1>4. QED
  BY <1>2, <1>3

\* A label of another kind, with another cell to patch.
LEMMA ElseExcept ==
  ASSUME NEW l \in Labels, NEW n \in Nat
  PROVE  /\ [l EXCEPT !.label_type = "else", !.fixup_offset = n] \in Labels
         /\ [l EXCEPT !.label_type = "else", !.fixup_offset = n].type_stack_limit
              = l.type_stack_limit
BY DEF Labels

\* on_else turns the top label into an else label and resets the stack to its
\* limit, which it keeps.
LEMMA ElsePreserves ==
  ASSUME IInv, OnElse
  PROVE  IInv'
<1>1. InBody("else")
  BY DEF OnElse
<1>2. Body /\ Typed(type_stack) /\ Above(type_stack) /\ current_func # 0
  BY <1>1, InBodyFacts
<1> DEFINE ok == /\ top_label.label_type = "if"
                 /\ check_n_types(type_stack, top_label.sig)
<1>3. CASE ~ok
  BY <1>3, StopPreserves DEF OnElse, Checked, Reject
<1>4. CASE ok
  <2> DEFINE n == Len(label_stack)
             l == [top_label EXCEPT !.label_type = "else",
                                    !.fixup_offset = get_istream_offset]
  <2>1. /\ label_stack' = [label_stack EXCEPT ![n] = l]
        /\ type_stack' = reset_type_stack_to_limit(type_stack)
        /\ UNCHANGED inFunctionVars
    BY <1>4 DEF OnElse, Checked, top_label
  <2>2. /\ label_stack \in Seq(Labels) /\ n \in Nat /\ n > 0
        /\ label_stack[n] = top_label /\ top_label \in Labels
    BY <1>2, TopLimit DEF Body, StackTypes, LabelsOrdered, top_label
  <2>3. get_istream_offset \in Nat
    BY DEF get_istream_offset
  <2>4. /\ l \in Labels
        /\ l.type_stack_limit = top_label.type_stack_limit
    BY <2>2, <2>3, ElseExcept
  <2> HIDE DEF l
  <2>5. /\ label_stack' \in Seq(Labels)
        /\ Len(label_stack') = n
        /\ \A i \in 1 .. n : label_stack'[i].type_stack_limit
                               = label_stack[i].type_stack_limit
    BY <2>1, <2>2, <2>4
  <2>6. n > 1
    <3>1. FunctionLabel
      BY <1>2 DEF IInv
    <3>2. QED
      BY <3>1, <1>4, <2>2 DEF FunctionLabel
  <2>7. label_stack'[1] = label_stack[1]
    BY <2>1, <2>2, <2>6
  <2>8. Typed(type_stack') /\ Above(type_stack')
    BY <2>1, <1>2, ResetTyped
  <2>9. StackTypes'
    BY <1>2, <2>1, <2>5, <2>8 DEF Body, StackTypes, Typed, inFunctionVars
  <2>10. Typed(type_stack)'
    BY <2>1, <2>8 DEF Typed, inFunctionVars
  <2>11. Above(type_stack)'
    BY <2>5, <2>8 DEF Above
  <2>12. LabelsOrdered'
    BY <1>2, <2>2, <2>5 DEF Body, LabelsOrdered
  <2>13. FunctionLimit' /\ FunctionLabel'
    BY <1>2, <2>1, <2>7 DEF IInv, Body, FunctionLimit, FunctionLabel,
                            inFunctionVars
  <2>14. QED
    BY <1>2, <2>1, <2>9, <2>10, <2>11, <2>12, <2>13 DEF IInv, inFunctionVars
<1>5. QED
  BY <1>3, <1>4

\* on_end closes a label that is not the function's: the labels below it keep
\* their order, and the stack it leaves is at least at its limit.
LEMMA EndPreserves ==
  ASSUME IInv, OnEnd
  PROVE  IInv'
<1>1. InBody("end")
  BY DEF OnEnd
<1>2. /\ Body /\ Typed(type_stack) /\ Above(type_stack) /\ current_func # 0
      /\ StackTypes
  BY <1>1, InBodyFacts
<1> DEFINE ok == /\ top_label.label_type # "func"
                 /\ EndChecks(type_stack, top_label)
<1>3. CASE ~ok
  BY <1>3, StopPreserves DEF OnEnd, Checked, Reject
<1>4. CASE ok
  <2> DEFINE n == Len(label_stack)
  <2>1. /\ label_stack' = Truncate(label_stack, n - 1)
        /\ type_stack' = push_types(reset_type_stack_to_limit(type_stack),
                                    top_label.sig)
        /\ UNCHANGED inFunctionVars
    BY <1>4 DEF OnEnd, Checked, PatchAndPopLabel
  <2>2. label_stack \in Seq(Labels) /\ n \in Nat /\ n > 0
    BY <1>2 DEF Body, StackTypes, LabelsOrdered
  <2>3. n > 1
    <3>1. FunctionLabel
      BY <1>2 DEF IInv
    <3>2. QED
      BY <3>1, <1>4, <2>2 DEF FunctionLabel, top_label
  <2>4. /\ label_stack' \in Seq(Labels)
        /\ Len(label_stack') = n - 1
        /\ \A i \in 1 .. n - 1 : label_stack'[i] = label_stack[i]
    <3>1. n - 1 \in 0 .. Len(label_stack)
      BY <2>2
    <3>2. QED
      BY <2>1, <2>2, <3>1, TruncateFacts
  <2>5. Typed(type_stack') /\ Above(type_stack')
    <3>1. /\ Typed(reset_type_stack_to_limit(type_stack))
          /\ Above(reset_type_stack_to_limit(type_stack))
      BY <1>2, ResetTyped
    <3>2. top_label.sig \in Seq(Types)
      BY <1>2, TopLimit, SigFacts
    <3>3. QED
      BY <2>1, <3>1, <3>2, <1>2, PushTyped
  <2>6. StackTypes'
    BY <1>2, <2>1, <2>4, <2>5 DEF StackTypes, Typed, inFunctionVars
  <2>7. Typed(type_stack)'
    BY <2>1, <2>5 DEF Typed, inFunctionVars
  <2>8. Above(type_stack)'
    BY <2>2, <2>4, <2>5 DEF Above
  <2>9. LabelsOrdered'
    BY <1>2, <2>2, <2>3, <2>4 DEF Body, LabelsOrdered
  <2>10. label_stack'[1] = label_stack[1]
    BY <2>2, <2>3, <2>4
  <2>11. FunctionLimit' /\ FunctionLabel'
    BY <1>2, <2>1, <2>10 DEF IInv, Body, FunctionLimit, FunctionLabel,
                             inFunctionVars
  <2>12. QED
    BY <1>2, <2>1, <2>6, <2>7, <2>8, <2>9, <2>11 DEF IInv, inFunctionVars
<1>5. QED
  BY <1>3, <1>4

-----------------------------------------------------------------------------
(* Branches.                                                               *)

\* After an unconditional transfer the stack is the label's, marked as
\* unreachable: on_br, on_return and on_unreachable.
LEMMA TransferPreserves ==
  ASSUME IInv, \/ \E depth \in 0 .. Len(label_stack) : OnBr(depth)
               \/ OnReturn
               \/ OnUnreachable
  PROVE  IInv'
<1>1. PICK callback : InBody(callback)
  BY DEF OnBr, OnReturn, OnUnreachable
<1>2. \/ \E outcome : Stop(outcome)
      \/ /\ type_stack' = UnreachableTypes(type_stack)
         /\ UNCHANGED <<label_stack, inFunctionVars>>
  BY DEF OnBr, OnReturn, OnUnreachable, Checked, Asserted, Reject,
         NoLabelChange
<1>3. CASE \E outcome : Stop(outcome)
  BY <1>3, StopPreserves
<1>4. CASE /\ type_stack' = UnreachableTypes(type_stack)
           /\ UNCHANGED <<label_stack, inFunctionVars>>
  <2>1. Typed(type_stack') /\ Above(type_stack')
    BY <1>1, <1>4, InBodyFacts, UnreachableTyped
  <2>2. QED
    BY <1>1, <1>4, <2>1, InBodyFacts, StackStep
<1>5. QED
  BY <1>2, <1>3, <1>4

\* on_br_if pops its condition.
LEMMA BrIfPreserves ==
  ASSUME IInv, NEW depth \in 0 .. Len(label_stack), OnBrIf(depth)
  PROVE  IInv'
<1>1. InBody("br_if")
  BY DEF OnBrIf
<1>2. \/ \E outcome : Stop(outcome)
      \/ /\ pop_and_check(type_stack, <<"i32">>)
         /\ type_stack' = pop_types(type_stack, 1)
         /\ UNCHANGED <<label_stack, inFunctionVars>>
  BY DEF OnBrIf, Checked, Asserted, Reject
<1>3. CASE \E outcome : Stop(outcome)
  BY <1>3, StopPreserves
<1>4. CASE /\ pop_and_check(type_stack, <<"i32">>)
           /\ type_stack' = pop_types(type_stack, 1)
           /\ UNCHANGED <<label_stack, inFunctionVars>>
  <2>1. Typed(type_stack') /\ Above(type_stack')
    BY <1>1, <1>4, InBodyFacts, PopOneTyped
  <2>2. QED
    BY <1>1, <1>4, <2>1, InBodyFacts, StackStep
<1>5. QED
  BY <1>2, <1>3, <1>4

\* on_br_table pops its index, then what follows is unreachable.
LEMMA BrTablePreserves ==
  ASSUME IInv, NEW targets, OnBrTable(targets)
  PROVE  IInv'
<1>1. InBody("br_table")
  BY DEF OnBrTable
<1>2. \/ \E outcome : Stop(outcome)
      \/ /\ pop_and_check(type_stack, <<"i32">>)
         /\ type_stack' = UnreachableTypes(pop_types(type_stack, 1))
         /\ UNCHANGED <<label_stack, inFunctionVars>>
  BY DEF OnBrTable, Checked, Asserted, Reject
<1>3. CASE \E outcome : Stop(outcome)
  BY <1>3, StopPreserves
<1>4. CASE /\ pop_and_check(type_stack, <<"i32">>)
           /\ type_stack' = UnreachableTypes(pop_types(type_stack, 1))
           /\ UNCHANGED <<label_stack, inFunctionVars>>
  <2>1. Typed(pop_types(type_stack, 1)) /\ Above(pop_types(type_stack, 1))
    BY <1>1, <1>4, InBodyFacts, PopOneTyped
  <2>2. Typed(type_stack') /\ Above(type_stack')
    BY <1>1, <1>4, <2>1, InBodyFacts, UnreachableTyped
  <2>3. QED
    BY <1>1, <1>4, <2>2, InBodyFacts, StackStep
<1>5. QED
  BY <1>2, <1>3, <1>4

-----------------------------------------------------------------------------
(* Calls.                                                                  *)

\* on_call pops the params of the callee and pushes its results.
LEMMA CallPreserves ==
  ASSUME IInv, NEW f \in DOMAIN Funcs, OnCall(f)
  PROVE  IInv'
<1> DEFINE n == Len(Funcs[f].params)
           ts == pop_types(type_stack, n)
<1>1. InBody("call") /\ n \in Nat /\ Funcs[f].results \in Seq(Types)
  BY FuncFacts, SigFacts DEF OnCall
<1>2. \/ \E outcome : Stop(outcome)
      \/ /\ check_type_stack_limit(type_stack, n)
         /\ type_stack' = push_types(ts, Funcs[f].results)
         /\ UNCHANGED <<label_stack, inFunctionVars>>
  BY DEF OnCall, Checked, Asserted, Reject, NoLabelChange
<1>3. CASE \E outcome : Stop(outcome)
  BY <1>3, StopPreserves
<1>4. CASE /\ check_type_stack_limit(type_stack, n)
           /\ type_stack' = push_types(ts, Funcs[f].results)
           /\ UNCHANGED <<label_stack, inFunctionVars>>
  <2>1. Typed(ts) /\ Above(ts)
    BY <1>1, <1>4, InBodyFacts, PopTyped
  <2>2. Typed(type_stack') /\ Above(type_stack')
    BY <1>1, <1>4, <2>1, InBodyFacts, PushTyped
  <2>3. QED
    BY <1>1, <1>4, <2>2, InBodyFacts, StackStep
<1>5. QED
  BY <1>2, <1>3, <1>4

\* on_call_indirect pops the table index first.
LEMMA CallIndirectPreserves ==
  ASSUME IInv, NEW f \in DOMAIN Funcs, OnCallIndirect(f)
  PROVE  IInv'
<1> DEFINE n == Len(Funcs[f].params)
           ts == pop_types(type_stack, 1)
           rest == pop_types(ts, n)
<1>1. InBody("call_indirect") /\ n \in Nat /\ Funcs[f].results \in Seq(Types)
  BY FuncFacts, SigFacts DEF OnCallIndirect
<1>2. \/ \E outcome : Stop(outcome)
      \/ /\ pop_and_check(type_stack, <<"i32">>)
         /\ check_type_stack_limit(ts, n)
         /\ type_stack' = push_types(rest, Funcs[f].results)
         /\ UNCHANGED <<label_stack, inFunctionVars>>
  BY DEF OnCallIndirect, Checked, Asserted, Reject, NoLabelChange
<1>3. CASE \E outcome : Stop(outcome)
  BY <1>3, StopPreserves
<1>4. CASE /\ pop_and_check(type_stack, <<"i32">>)
           /\ check_type_stack_limit(ts, n)
           /\ type_stack' = push_types(rest, Funcs[f].results)
           /\ UNCHANGED <<label_stack, inFunctionVars>>
  <2>1. Typed(ts) /\ Above(ts)
    BY <1>1, <1>4, InBodyFacts, PopOneTyped
  <2>2. Typed(rest) /\ Above(rest)
    BY <1>1, <1>4, <2>1, InBodyFacts, PopTyped
  <2>3. Typed(type_stack') /\ Above(type_stack')
    BY <1>1, <1>4, <2>2, InBodyFacts, PushTyped
  <2>4. QED
    BY <1>1, <1>4, <2>3, InBodyFacts, StackStep
<1>5. QED
  BY <1>2, <1>3, <1>4

-----------------------------------------------------------------------------
(* Operators, constants, locals and globals.                               *)

\* A one-element sequence of value types.
LEMMA OneType ==
  ASSUME NEW t \in Types
  PROVE  <<t>> \in Seq(Types)
OBVIOUS

\* The callbacks of SimpleExpr: the operators, constants, and the accesses to
\* globals and locals that are in range.
LEMMA SimpleActionsPreserve ==
  ASSUME IInv,
         \/ \E op \in Opcodes : OnOpcode(op)
         \/ \E t \in Types : OnConst(t)
         \/ \E g \in 1 .. Len(Globals) + 1 : OnGetGlobal(g) \/ OnSetGlobal(g)
         \/ \E i \in 1 .. Len(param_and_local_types) + 1 :
              OnGetLocal(i) \/ OnSetLocal(i)
  PROVE  IInv'
<1>1. <<>> \in Seq(Types)
  OBVIOUS
<1>2. ASSUME NEW op \in Opcodes, OnOpcode(op)
      PROVE  IInv'
  <2>1. /\ OpcodeTable[op].params \in Seq(Types)
        /\ OpcodeTable[op].result \in Seq(Types)
    BY CompilerAssumption, SigFacts
  <2>2. /\ InBody("opcode")
        /\ SimpleExpr(OpcodeTable[op].params, OpcodeTable[op].result,
                      Cell(op, 0, 0, 0))
    BY <1>2 DEF OnOpcode
  <2>3. QED
    BY <2>1, <2>2, SimplePreserves
<1>3. ASSUME NEW t \in Types, OnConst(t)
      PROVE  IInv'
  <2>1. /\ InBody("const")
        /\ SimpleExpr(<<>>, <<t>>, Cell(ConstOp[t], 0, 0, 0))
    BY <1>3 DEF OnConst
  <2>2. QED
    BY <2>1, <1>1, OneType, SimplePreserves
<1>4. ASSUME NEW g \in 1 .. Len(Globals) + 1, OnGetGlobal(g) \/ OnSetGlobal(g)
      PROVE  IInv'
  <2>1. CASE g > Len(Globals)
    <3>1. Stop("rejected")
      BY <1>4, <2>1, CompilerAssumption
         DEF OnGetGlobal, OnSetGlobal, Checked, Reject
    <3>2. QED
      BY <3>1, StopPreserves
  <2>2. CASE g <= Len(Globals)
    <3>1. Globals[g].type \in Types
      <4>1. Globals \in Seq([type : Types, mutable : BOOLEAN])
        BY CompilerAssumption
      <4>2. g \in 1 .. Len(Globals)
        BY <2>2, <4>1
      <4>3. Globals[g] \in [type : Types, mutable : BOOLEAN]
        BY <4>1, <4>2, ElementFacts
      <4>4. QED
        BY <4>3
    <3>2. <<Globals[g].type>> \in Seq(Types)
      BY <3>1, OneType
    <3>3. InBody("global")
      BY <1>4 DEF OnGetGlobal, OnSetGlobal
    <3>4. \/ Stop("rejected")
          \/ SimpleExpr(<<>>, <<Globals[g].type>>, Cell("get_global", 0, g, 0))
          \/ SimpleExpr(<<Globals[g].type>>, <<>>, Cell("set_global", 0, g, 0))
      BY <1>4 DEF OnGetGlobal, OnSetGlobal, Checked, Reject
    <3>5. QED
      BY <3>2, <3>3, <3>4, <1>1, StopPreserves, SimplePreserves
  <2>3. QED
    BY <2>1, <2>2, CompilerAssumption
<1>5. ASSUME NEW i \in 1 .. Len(param_and_local_types) + 1,
             OnGetLocal(i) \/ OnSetLocal(i)
      PROVE  IInv'
  <2> DEFINE t == param_and_local_types[i]
  <2>1. InBody("local")
    BY <1>5 DEF OnGetLocal, OnSetLocal
  <2>2. \/ Stop("rejected")
        \/ /\ i <= Len(param_and_local_types)
           /\ \/ \E c : SimpleExpr(<<>>, <<t>>, c)
              \/ \E c : SimpleExpr(<<t>>, <<>>, c)
    BY <1>5 DEF OnGetLocal, OnSetLocal, Checked, Reject
  <2>3. i <= Len(param_and_local_types) => <<t>> \in Seq(Types)
    BY OneType DEF IInv, StackTypes
  <2> HIDE DEF t
  <2>4. QED
    BY <2>1, <2>2, <2>3, <1>1, StopPreserves, SimplePreserves
<1>6. QED
  BY <1>2, <1>3, <1>4, <1>5

\* on_drop pops one operand above the label's limit.
LEMMA DropPreserves ==
  ASSUME IInv, OnDrop
  PROVE  IInv'
<1>1. InBody("drop")
  BY DEF OnDrop
<1>2. \/ \E outcome : Stop(outcome)
      \/ /\ check_type_stack_limit(type_stack, 1)
         /\ type_stack' = pop_types(type_stack, 1)
         /\ UNCHANGED <<label_stack, inFunctionVars>>
  BY DEF OnDrop, Checked, Asserted, Reject, NoLabelChange
<1>3. CASE \E outcome : Stop(outcome)
  BY <1>3, StopPreserves
<1>4. CASE /\ check_type_stack_limit(type_stack, 1)
           /\ type_stack' = pop_types(type_stack, 1)
           /\ UNCHANGED <<label_stack, inFunctionVars>>
  <2>1. Typed(type_stack') /\ Above(type_stack')
    BY <1>1, <1>4, InBodyFacts, PopTyped
  <2>2. QED
    BY <1>1, <1>4, <2>1, InBodyFacts, StackStep
<1>5. QED
  BY <1>2, <1>3, <1>4

\* on_select pops the condition and two operands and pushes the first operand,
\* which is a value type because the polymorphic type is only on top.
LEMMA SelectPreserves ==
  ASSUME IInv, OnSelect
  PROVE  IInv'
<1> DEFINE ts == pop_types(type_stack, 1)
           n == Len(ts)
           rest == pop_types(ts, 2)
<1>1. InBody("select")
  BY DEF OnSelect
<1>2. /\ Body /\ StackTypes /\ Typed(type_stack) /\ Above(type_stack)
      /\ current_func # 0 /\ decls_left = 0
  BY <1>1, InBodyFacts
<1>3. \/ \E outcome : Stop(outcome)
      \/ /\ pop_and_check(type_stack, <<"i32">>)
         /\ check_type_stack_limit(ts, 2)
         /\ type_stack' = IF top_type_is_any(ts) THEN ts
                          ELSE push_type(rest, ts[n - 1])
         /\ UNCHANGED <<label_stack, inFunctionVars>>
  BY DEF OnSelect, Checked, Asserted, Reject, NoLabelChange
<1>4. CASE \E outcome : Stop(outcome)
  BY <1>4, StopPreserves
<1>5. CASE /\ pop_and_check(type_stack, <<"i32">>)
           /\ check_type_stack_limit(ts, 2)
           /\ type_stack' = IF top_type_is_any(ts) THEN ts
                            ELSE push_type(rest, ts[n - 1])
           /\ UNCHANGED <<label_stack, inFunctionVars>>
  <2>1. Typed(ts) /\ Above(ts)
    BY <1>2, <1>5, PopOneTyped
  <2>2. CASE top_type_is_any(ts)
    BY <1>2, <1>5, <2>1, <2>2, StackStep
  <2>3. CASE ~top_type_is_any(ts)
    <3>1. n \in Nat /\ n - 1 \in 1 .. n
      BY <1>2, <1>5, <2>1, <2>3, TopLimit DEF check_type_stack_limit, Typed
    <3>2. ts[n - 1] \in Types \cup {ANY}
      BY <2>1, <3>1 DEF Typed
    <3>3. ts[n - 1] # ANY
      BY <2>1, <2>3, <3>1, NoAny
    <3>4. <<ts[n - 1]>> \in Seq(Types)
      BY <3>2, <3>3, OneType
    <3>5. Typed(rest) /\ Above(rest)
      BY <1>2, <1>5, <2>1, PopTyped
    <3>6. type_stack' = push_types(rest, <<ts[n - 1]>>)
      <4>1. rest \in Seq(Types \cup {ANY})
        BY <3>5 DEF Typed
      <4>2. Append(rest, ts[n - 1]) = rest \o <<ts[n - 1]>>
        BY <4>1, <3>2
      <4>3. QED
        BY <1>5, <2>3, <4>2 DEF push_type, push_types
    <3>7. Typed(type_stack') /\ Above(type_stack')
      BY <1>2, <3>4, <3>5, <3>6, PushTyped
    <3>8. QED
      BY <1>2, <1>5, <3>7, StackStep
  <2>4. QED
    BY <2>2, <2>3
<1>6. QED
  BY <1>3, <1>4, <1>5

\* on_tee_local leaves the stack alone.
LEMMA TeeLocalPreserves ==
  ASSUME IInv, NEW i, OnTeeLocal(i)
  PROVE  IInv'
<1>1. InBody("local")
  BY DEF OnTeeLocal
<1>2. \/ \E outcome : Stop(outcome)
      \/ UNCHANGED <<type_stack, label_stack, inFunctionVars>>
  BY DEF OnTeeLocal, Checked, Asserted, Reject, NoLabelChange
<1>3. QED
  BY <1>1, <1>2, InBodyFacts, StopPreserves, StackStep

-----------------------------------------------------------------------------
(* The theorems.                                                           *)

\* Before the first callback no function is being compiled.
LEMMA InitIInv == Init => IInv
BY CompilerAssumption DEF Init, IInv, StackTypes

\* Every callback preserves the inductive invariant.
LEMMA StepIInv == IInv /\ [ReadStep]_compilerVars => IInv'
<1> SUFFICES ASSUME IInv, [ReadStep]_compilerVars
             PROVE  IInv'
  OBVIOUS
<1>1. CASE UNCHANGED compilerVars
  BY <1>1 DEF compilerVars, IInv, StackTypes, Typed, Above, LabelsOrdered,
              FunctionLimit, FunctionLabel
<1>2. CASE \E n \in 0 .. MaxDecls : BeginFunctionBody(n)
  BY <1>2, BeginPreserves
<1>3. CASE \E n \in 0 .. MaxLocals, t \in Types : OnLocalDecl(n, t)
  BY <1>3, LocalDeclPreserves
<1>4. CASE EndFunctionBody \/ EndModule
  BY <1>4, EndFunctionPreserves, EndModulePreserves
<1>5. CASE \E sig \in Sigs : OnBlock(sig) \/ OnLoop(sig) \/ OnIf(sig)
  BY <1>5, BlockPreserves, IfPreserves
<1>6. CASE OnElse \/ OnEnd
  BY <1>6, ElsePreserves, EndPreserves
<1>7. CASE \E depth \in 0 .. Len(label_stack) : OnBr(depth) \/ OnBrIf(depth)
  BY <1>7, TransferPreserves, BrIfPreserves
<1>8. CASE \E n \in 1 .. MaxTargets + 1 :
             \E targets \in [1 .. n -> 0 .. Len(label_stack)] :
               OnBrTable(targets)
  BY <1>8, BrTablePreserves
<1>9. CASE OnReturn \/ OnUnreachable
  BY <1>9, TransferPreserves
<1>10. CASE \E f \in DOMAIN Funcs : OnCall(f) \/ OnCallIndirect(f)
  BY <1>10, CallPreserves, CallIndirectPreserves
<1>11. CASE \/ \E op \in Opcodes : OnOpcode(op)
            \/ \E t \in Types : OnConst(t)
            \/ \E g \in 1 .. Len(Globals) + 1 :
                 OnGetGlobal(g) \/ OnSetGlobal(g)
  BY <1>11, SimpleActionsPreserve
<1>12. CASE OnDrop \/ OnSelect
  BY <1>12, DropPreserves, SelectPreserves
<1>13. CASE \E i \in 1 .. Len(param_and_local_types) + 1 :
              OnGetLocal(i) \/ OnSetLocal(i) \/ OnTeeLocal(i)
  BY <1>13, SimpleActionsPreserve, TeeLocalPreserves
<1>14. QED
  BY <1>1, <1>2, <1>3, <1>4, <1>5, <1>6, <1>7, <1>8, <1>9, <1>10, <1>11,
     <1>12, <1>13 DEF ReadStep

\* The inductive invariant holds throughout the compilation of any module.
THEOREM Inductive == CompilerSpec => []IInv
BY InitIInv, StepIInv, PTL DEF CompilerSpec

\* Whatever callbacks the reader delivers, the limits of the open labels are
\* ordered and within the type stack: no difference size - limit of
\* check_type_stack_limit, emit_br or translate_local_index wraps.
THEOREM LimitsOrderedAlways == CompilerSpec => []LimitsOrdered
<1>1. IInv => LimitsOrdered
  BY DEF IInv, LimitsOrdered, LabelsOrdered, Above, FunctionLimit, StackTypes
<1>2. QED
  BY <1>1, Inductive, PTL

\* Whatever callbacks the reader delivers, the polymorphic type of unreachable
\* code is only ever the top of the type stack: push_type and pop_type, which
\* look at the top only, see all there is to see.
THEOREM AnyOnlyOnTopAlways == CompilerSpec => []AnyOnlyOnTop
<1>1. IInv => AnyOnlyOnTop
  <2> SUFFICES ASSUME IInv
               PROVE  AnyOnlyOnTop
    OBVIOUS
  <2>1. CASE current_func = 0
    BY <2>1 DEF IInv, AnyOnlyOnTop
  <2>2. CASE current_func # 0
    BY <2>2 DEF IInv, AnyOnlyOnTop, Typed, StackTypes
  <2>3. QED
    BY <2>1, <2>2
<1>2. QED
  BY <1>1, Inductive, PTL

-----------------------------------------------------------------------------
(* Who patches a branch.                                                   *)

LabelOps == {"br", "br_unless", "entry"}

\* A branch to a label that has no offset yet.
Dangles(c) == c.op \in LabelOps /\ c.target = INVALID

\* The cells recorded for label d.
Fix(df, d) == IF d \in 1 .. Len(df) THEN df[d] ELSE {}

\* The branch around the arm of an if.
Arm(ls, d) ==
  IF ls[d].label_type \in {"if", "else"} THEN {ls[d].fixup_offset} ELSE {}

\* Each dangling branch is recorded for one label, in one place.
Owned(code, ls, df) ==
  /\ df \in Seq(SUBSET Nat)
  /\ Len(df) <= Len(ls)
  /\ \A d \in 1 .. Len(ls) : \A c \in Fix(df, d) \cup Arm(ls, d) :
       c \in 1 .. Len(code) /\ Dangles(code[c])
  /\ \A c \in 1 .. Len(code) : Dangles(code[c]) =>
       \E d \in 1 .. Len(ls) : c \in Fix(df, d) \cup Arm(ls, d)
  /\ \A d, e \in 1 .. Len(ls) : \A c :
       c \in Fix(df, d) \cup Arm(ls, d) /\ c \in Fix(df, e) \cup Arm(ls, e)
         => d = e
  /\ \A d \in 1 .. Len(ls) : \A c : ~(c \in Fix(df, d) /\ c \in Arm(ls, d))

-----------------------------------------------------------------------------
(* Cells.                                                                  *)

\* Patching changes the targets of the cells in S and nothing else.
LEMMA PatchedFacts ==
  ASSUME NEW code \in Seq(Cells), NEW S, NEW off \in Nat
  PROVE  /\ Patched(code, S, off) \in Seq(Cells)
         /\ Len(Patched(code, S, off)) = Len(code)
         /\ \A i \in 1 .. Len(code) :
              /\ Patched(code, S, off)[i].op = code[i].op
              /\ Patched(code, S, off)[i].a = code[i].a
              /\ Patched(code, S, off)[i].target =
                   IF i \in S THEN off ELSE code[i].target
<1> DEFINE P == Patched(code, S, off)
<1>1. ASSUME NEW i \in 1 .. Len(code)
      PROVE  /\ P[i] \in Cells
             /\ P[i].op = code[i].op
             /\ P[i].a = code[i].a
             /\ P[i].target = IF i \in S THEN off ELSE code[i].target
  <2>1. code[i] \in Cells
    OBVIOUS
  <2>2. P[i] = IF i \in S THEN [code[i] EXCEPT !.target = off] ELSE code[i]
    <3>1. i \in DOMAIN code
      OBVIOUS
    <3>2. QED
      BY <3>1, Zenon DEF Patched
  <2>3. QED
    BY <2>1, <2>2 DEF Cells
<1>2. P = [i \in 1 .. Len(code) |-> P[i]]
  BY DEF Patched
<1> HIDE DEF P
<1>3. P \in Seq(Cells) /\ Len(P) = Len(code)
  <2>1. Len(code) \in Nat
    OBVIOUS
  <2>2. P \in [1 .. Len(code) -> Cells]
    BY <1>1, <1>2
  <2>3. QED
    BY <2>1, <2>2
<1>4. QED
  BY <1>1, <1>3 DEF P

\* A cell of given parts.
LEMMA CellFacts ==
  ASSUME NEW op \in CellOps, NEW target \in Nat, NEW a \in Nat, NEW b \in Nat
  PROVE  /\ Cell(op, target, a, b) \in Cells
         /\ Cell(op, target, a, b).op = op
         /\ Cell(op, target, a, b).target = target
         /\ Cell(op, target, a, b).a = a
BY DEF Cell, Cells

\* A bounded set of numbers has a largest one.
LEMMA LargestFacts ==
  ASSUME NEW n \in Nat, NEW S, S \subseteq 0 .. n, S # {}
  PROVE  Largest(S) \in S /\ \A m \in S : m <= Largest(S)
<1> DEFINE R == {ss \in Nat \X Nat : ss[1] < ss[2]}
           T == {n - m : m \in S}
<1>1. IsWellFoundedOn(R, Nat)
  BY NatLessThanWellFounded DEF OpToRel
<1>2. /\ T \subseteq Nat /\ T # {}
      /\ \A x, y \in Nat : y < x => <<y, x>> \in R
      /\ \A m \in S : n - m \in T /\ m \in Nat
      /\ \A t \in T : \E m \in S : t = n - m
  <2>1. \A m \in S : n - m \in T /\ m \in Nat /\ n - m \in Nat
    OBVIOUS
  <2>2. \A t \in T : \E m \in S : t = n - m
    OBVIOUS
  <2>3. \A x, y \in Nat : y < x => <<y, x>> \in R
    OBVIOUS
  <2> HIDE DEF R, T
  <2>4. QED
    BY <2>1, <2>2, <2>3
<1> HIDE DEF R, T
<1>3. PICK x \in T : \A y \in T : ~(<<y, x>> \in R)
  BY <1>1, <1>2, WFMin
<1>4. PICK s \in S : x = n - s
  BY <1>2
<1>5. ASSUME NEW m \in S PROVE m <= s
  <2>1. m \in Nat /\ s \in Nat /\ n - m \in Nat /\ n - s \in Nat
    BY <1>2
  <2>2. ~(<<n - m, n - s>> \in R)
    BY <1>2, <1>3, <1>4
  <2>3. ~(n - m < n - s)
    BY <1>2, <2>1, <2>2
  <2>4. QED
    BY <2>1, <2>3
<1>6. QED
  BY <1>5 DEF Largest

\* append_fixup records the pairs of refs and nothing else, whatever the size
\* of the vector was.
LEMMA AppendFixup ==
  ASSUME NEW df \in Seq(SUBSET Nat), NEW N \in Nat, Len(df) <= N,
         NEW refs, \A r \in refs : r[1] \in 1 .. N /\ r[2] \in Nat
  PROVE  /\ append_fixup(df, refs) \in Seq(SUBSET Nat)
         /\ Len(append_fixup(df, refs)) <= N
         /\ \A d \in 1 .. N : \A c :
              c \in Fix(append_fixup(df, refs), d) <=>
                c \in Fix(df, d) \/ \E r \in refs : r[1] = d /\ r[2] = c
<1> DEFINE S == {Len(df)} \cup {r[1] : r \in refs}
           n == Largest(S)
           F(d) == (IF d <= Len(df) THEN df[d] ELSE {})
                     \cup {r[2] : r \in {q \in refs : q[1] = d}}
           new == append_fixup(df, refs)
<1>1. S \subseteq 0 .. N /\ S # {} /\ Len(df) \in S /\ Len(df) \in Nat
  OBVIOUS
<1>2. n \in S /\ \A m \in S : m <= n
  <2> HIDE DEF S
  <2>1. QED
    BY <1>1, LargestFacts
<1>3. n \in Nat /\ n <= N /\ Len(df) <= n /\ \A r \in refs : r[1] <= n
  <2>1. n \in 0 .. N
    BY <1>1, <1>2
  <2>2. \A r \in refs : r[1] \in S
    OBVIOUS
  <2>3. QED
    BY <1>1, <1>2, <2>1, <2>2
<1>4. new = [d \in 1 .. n |-> F(d)]
  BY DEF append_fixup
<1> HIDE DEF n, S
<1>5. ASSUME NEW d \in 1 .. n PROVE F(d) \in SUBSET Nat
  <2>1. d <= Len(df) => df[d] \in SUBSET Nat
    BY <1>1, <1>3
  <2>2. QED
    BY <2>1
<1>6. new \in Seq(SUBSET Nat) /\ Len(new) = n
  <2> HIDE DEF new, F
  <2>1. new \in [1 .. n -> SUBSET Nat]
    BY <1>4, <1>5
  <2>2. QED
    BY <1>3, <2>1
<1>7. ASSUME NEW d \in 1 .. N, NEW c
      PROVE  c \in Fix(new, d) <=>
               c \in Fix(df, d) \/ \E r \in refs : r[1] = d /\ r[2] = c
  <2>1. CASE d <= n
    <3>1. new[d] = F(d) /\ Fix(new, d) = new[d]
      <4> HIDE DEF new, F
      <4>1. QED
        BY <1>3, <1>4, <1>6, <2>1 DEF Fix
    <3>2. c \in F(d) <=> c \in Fix(df, d) \/ \E r \in refs : r[1] = d /\ r[2] = c
      BY <1>1 DEF Fix
    <3>3. QED
      BY <3>1, <3>2
  <2>2. CASE ~(d <= n)
    <3>1. Fix(new, d) = {} /\ Fix(df, d) = {}
      BY <1>1, <1>3, <1>6, <2>2 DEF Fix
    <3>2. QED
      BY <1>3, <2>2, <3>1
  <2>3. QED
    BY <2>1, <2>2
<1>8. QED
  BY <1>3, <1>6, <1>7

-----------------------------------------------------------------------------
(* Ownership along the steps of the compiler.                              *)

\* The pairs of refs give each dangling cell of an emission to one label.
Records(code, cells, ls, refs) ==
  /\ \A r \in refs : /\ r[1] \in 1 .. Len(ls)
                     /\ r[2] - Len(code) \in 1 .. Len(cells)
                     /\ r[2] \in Nat
                     /\ Dangles(cells[r[2] - Len(code)])
  /\ \A k \in 1 .. Len(cells) : Dangles(cells[k]) =>
       \E r \in refs : r[2] = Len(code) + k
  /\ \A q, r \in refs : q[2] = r[2] => q[1] = r[1]

\* Cells are emitted and recorded.
LEMMA EmitOwned ==
  ASSUME NEW code \in Seq(Cells), NEW cells \in Seq(Cells), NEW ls, NEW df,
         Len(ls) \in Nat, Owned(code, ls, df), NEW refs,
         Records(code, cells, ls, refs),
         NEW new \in Seq(SUBSET Nat), Len(new) <= Len(ls),
         \A d \in 1 .. Len(ls) : \A c :
           c \in Fix(new, d) <=>
             c \in Fix(df, d) \/ \E r \in refs : r[1] = d /\ r[2] = c
  PROVE  Owned(code \o cells, ls, new)
<1> DEFINE n == Len(code)
           full == code \o cells
           Old(d) == Fix(df, d) \cup Arm(ls, d)
           New(d) == Fix(new, d) \cup Arm(ls, d)
<1>1. /\ n \in Nat /\ Len(cells) \in Nat /\ Len(full) = n + Len(cells)
      /\ \A i \in 1 .. n : full[i] = code[i]
      /\ \A i \in 1 .. Len(cells) : full[n + i] = cells[i]
  BY ConcatFacts
<1>2. \A d \in 1 .. Len(ls) : \A c \in Old(d) : c \in 1 .. n /\ Dangles(code[c])
  BY DEF Owned
<1>3. \A r \in refs : r[2] \notin 1 .. n /\ r[2] = n + (r[2] - n)
  BY <1>1 DEF Records
<1>4. \A d \in 1 .. Len(ls) : \A c :
        c \in New(d) <=> c \in Old(d) \/ \E r \in refs : r[1] = d /\ r[2] = c
  OBVIOUS
<1> HIDE DEF n, full, Old, New
<1>5. ASSUME NEW d \in 1 .. Len(ls), NEW c \in New(d)
      PROVE  c \in 1 .. Len(full) /\ Dangles(full[c])
  <2>1. CASE c \in Old(d)
    BY <1>1, <1>2, <2>1
  <2>2. CASE \E r \in refs : r[1] = d /\ r[2] = c
    <3>1. PICK r \in refs : r[2] = c /\ r[2] \in Nat
      BY <2>2 DEF Records
    <3>2. /\ c - n \in 1 .. Len(cells) /\ c = n + (c - n)
          /\ Dangles(cells[c - n])
      BY <1>3, <3>1 DEF Records, n
    <3>3. full[c] = cells[c - n]
      BY <1>1, <3>2
    <3>4. c \in 1 .. Len(full)
      BY <1>1, <3>1, <3>2
    <3>5. QED
      BY <3>2, <3>3, <3>4
  <2>3. QED
    BY <1>4, <2>1, <2>2
<1>6. ASSUME NEW c \in 1 .. Len(full), Dangles(full[c])
      PROVE  \E d \in 1 .. Len(ls) : c \in New(d)
  <2>1. CASE c \in 1 .. n
    <3>1. Dangles(code[c])
      BY <1>1, <1>6, <2>1
    <3>2. PICK d \in 1 .. Len(ls) : c \in Old(d)
      BY <2>1, <3>1 DEF Owned, Old, n
    <3>3. QED
      BY <1>4, <3>2
  <2>2. CASE c \notin 1 .. n
    <3>1. c - n \in 1 .. Len(cells) /\ c = n + (c - n)
      BY <1>1, <2>2
    <3>2. Dangles(cells[c - n])
      BY <1>1, <1>6, <3>1
    <3>3. PICK r \in refs : r[2] = c
      BY ZenonT(30), <3>1, <3>2 DEF Records, n
    <3>4. r[1] \in 1 .. Len(ls)
      BY DEF Records
    <3>5. QED
      BY <1>4, <3>3, <3>4
  <2>3. QED
    BY <2>1, <2>2
<1>7. ASSUME NEW d \in 1 .. Len(ls), NEW e \in 1 .. Len(ls), NEW c,
             c \in New(d), c \in New(e)
      PROVE  d = e
  <2>1. CASE c \in 1 .. n
    <3>1. c \in Old(d) /\ c \in Old(e)
      BY <1>3, <1>4, <1>7, <2>1
    <3>2. QED
      BY <3>1 DEF Owned, Old
  <2>2. CASE c \notin 1 .. n
    <3>1. /\ \E r \in refs : r[1] = d /\ r[2] = c
          /\ \E r \in refs : r[1] = e /\ r[2] = c
      BY <1>2, <1>4, <1>7, <2>2
    <3>2. QED
      BY <3>1 DEF Records
  <2>3. QED
    BY <2>1, <2>2
<1>8. ASSUME NEW d \in 1 .. Len(ls), NEW c, c \in Fix(new, d), c \in Arm(ls, d)
      PROVE  FALSE
  <2>1. c \in 1 .. n
    BY <1>2, <1>8 DEF Old
  <2>2. c \in Fix(df, d)
    BY <1>3, <1>8, <2>1
  <2>3. QED
    BY <1>8, <2>2 DEF Owned
<1>9. QED
  BY <1>5, <1>6, <1>7, <1>8 DEF Owned, New, full

\* Labels with the same arms.
LEMMA RelabelOwned ==
  ASSUME NEW code, NEW ls, NEW df, Owned(code, ls, df),
         NEW new, Len(new) = Len(ls),
         \A d \in 1 .. Len(ls) : Arm(new, d) = Arm(ls, d)
  PROVE  Owned(code, new, df)
BY DEF Owned

\* A label is pushed that has no arm.
LEMMA PushOwned ==
  ASSUME NEW code, NEW ls \in Seq(Labels), NEW df, Owned(code, ls, df),
         NEW l \in Labels, l.label_type \notin {"if", "else"}
  PROVE  Owned(code, Append(ls, l), df)
<1> DEFINE new == Append(ls, l)
<1>1. /\ Len(ls) \in Nat /\ Len(new) = Len(ls) + 1
      /\ new[Len(ls) + 1] = l
      /\ \A d \in 1 .. Len(ls) : new[d] = ls[d]
  OBVIOUS
<1> HIDE DEF new
<1>2. \A d \in 1 .. Len(ls) : Arm(new, d) = Arm(ls, d)
  BY <1>1 DEF Arm
<1>3. Arm(new, Len(ls) + 1) = {}
  BY <1>1 DEF Arm
<1>4. Fix(df, Len(ls) + 1) = {} /\ Len(df) \in Nat
  BY <1>1 DEF Fix, Owned
<1>5. \A d \in 1 .. Len(new) : d \in 1 .. Len(ls) \/ d = Len(ls) + 1
  BY <1>1
<1>6. \A d \in 1 .. Len(ls) : d \in 1 .. Len(new)
  BY <1>1
<1>7. Len(df) <= Len(new)
  BY <1>1, <1>4 DEF Owned
<1>8. QED
  BY <1>2, <1>3, <1>4, <1>5, <1>6, <1>7 DEF Owned, new

\* The label of an if is pushed with the branch around its arm.
LEMMA PushArmOwned ==
  ASSUME NEW code \in Seq(Cells), NEW ls \in Seq(Labels), NEW df,
         Owned(code, ls, df), NEW c \in Cells, Dangles(c),
         NEW l \in Labels, l.label_type = "if",
         l.fixup_offset = Len(code) + 1
  PROVE  Owned(Append(code, c), Append(ls, l), df)
<1> DEFINE new == Append(ls, l)
           full == Append(code, c)
           n == Len(code)
           m == Len(ls)
<1>1. /\ m \in Nat /\ Len(new) = m + 1
      /\ new[m + 1] = l
      /\ \A d \in 1 .. m : new[d] = ls[d]
  OBVIOUS
<1>2. /\ n \in Nat /\ Len(full) = n + 1
      /\ full[n + 1] = c
      /\ \A i \in 1 .. n : full[i] = code[i]
  OBVIOUS
<1> HIDE DEF new, full
<1>3. \A d \in 1 .. m : Arm(new, d) = Arm(ls, d)
  BY <1>1 DEF Arm
<1>4. Arm(new, m + 1) = {n + 1}
  BY <1>1 DEF Arm
<1>5. Fix(df, m + 1) = {} /\ Len(df) \in Nat
  BY <1>1 DEF Fix, Owned
<1>6. \A d \in 1 .. Len(new) : d \in 1 .. m \/ d = m + 1
  BY <1>1
<1>7. Len(df) <= Len(new)
  BY <1>1, <1>5 DEF Owned
<1>8. ASSUME NEW d \in 1 .. Len(new), NEW i \in Fix(df, d) \cup Arm(new, d)
      PROVE  i \in 1 .. Len(full) /\ Dangles(full[i])
  <2>1. CASE d = m + 1
    BY <1>2, <1>4, <1>5, <1>8, <2>1
  <2>2. CASE d \in 1 .. m
    <3>1. i \in 1 .. n /\ Dangles(code[i])
      BY <1>3, <1>8, <2>2 DEF Owned
    <3>2. QED
      BY <1>2, <3>1
  <2>3. QED
    BY <1>6, <2>1, <2>2
<1>9. ASSUME NEW i \in 1 .. Len(full), Dangles(full[i])
      PROVE  \E d \in 1 .. Len(new) : i \in Fix(df, d) \cup Arm(new, d)
  <2>1. CASE i = n + 1
    BY <1>1, <1>4, <2>1
  <2>2. CASE i # n + 1
    <3>1. i \in 1 .. n /\ Dangles(code[i])
      BY <1>2, <1>9, <2>2
    <3>2. PICK d \in 1 .. m : i \in Fix(df, d) \cup Arm(ls, d)
      BY <3>1 DEF Owned
    <3>3. QED
      BY <1>1, <1>3, <3>2
  <2>3. QED
    BY <2>1, <2>2
<1>10. ASSUME NEW d \in 1 .. Len(new), NEW e \in 1 .. Len(new), NEW i,
              i \in Fix(df, d) \cup Arm(new, d),
              i \in Fix(df, e) \cup Arm(new, e)
       PROVE  d = e
  <2>1. \A k \in 1 .. m : i \in Fix(df, k) \cup Arm(new, k) => i \in 1 .. n
    BY <1>3 DEF Owned
  <2>2. n + 1 \notin 1 .. n
    BY <1>2
  <2>3. CASE d \in 1 .. m /\ e \in 1 .. m
    BY <1>3, <1>10, <2>3 DEF Owned
  <2>4. CASE d = m + 1 /\ e \in 1 .. m
    BY <1>4, <1>5, <1>10, <2>1, <2>2, <2>4
  <2>5. CASE d \in 1 .. m /\ e = m + 1
    BY <1>4, <1>5, <1>10, <2>1, <2>2, <2>5
  <2>6. QED
    BY <1>6, <2>3, <2>4, <2>5
<1>11. ASSUME NEW d \in 1 .. Len(new), NEW i,
              i \in Fix(df, d), i \in Arm(new, d)
       PROVE  FALSE
  BY <1>3, <1>5, <1>6, <1>11 DEF Owned
<1>12. QED
  BY <1>7, <1>8, <1>9, <1>10, <1>11 DEF Owned, new, full

\* A label is closed: its branches, and those no other label's, are patched.
LEMMA PopOwned ==
  ASSUME NEW code \in Seq(Cells), NEW ls, NEW df, Owned(code, ls, df),
         NEW m \in Nat, Len(ls) = m + 1, NEW off \in Nat, off # INVALID,
         NEW S, S = Fix(df, m + 1) \cup Arm(ls, m + 1),
         NEW new, Len(new) = m, \A d \in 1 .. m : new[d] = ls[d],
         NEW ndf \in Seq(SUBSET Nat), Len(ndf) <= m,
         \A d \in 1 .. m : Fix(ndf, d) = Fix(df, d)
  PROVE  Owned(Patched(code, S, off), new, ndf)
<1> DEFINE P == Patched(code, S, off)
<1>1. /\ Len(P) = Len(code)
      /\ \A i \in 1 .. Len(code) :
           /\ P[i].op = code[i].op
           /\ P[i].target = IF i \in S THEN off ELSE code[i].target
  BY PatchedFacts
<1> HIDE DEF P
<1>2. \A i \in 1 .. Len(code) : Dangles(P[i]) <=> Dangles(code[i]) /\ i \notin S
  BY <1>1 DEF Dangles
<1>3. \A d \in 1 .. m : Arm(new, d) = Arm(ls, d)
  BY DEF Arm
<1>4. /\ \A d \in 1 .. m : d \in 1 .. Len(ls) /\ d # m + 1
      /\ \A d \in 1 .. Len(ls) : d \in 1 .. m \/ d = m + 1
      /\ m + 1 \in 1 .. Len(ls)
  OBVIOUS
<1>5. ASSUME NEW d \in 1 .. m, NEW c \in Fix(ndf, d) \cup Arm(new, d)
      PROVE  c \in 1 .. Len(P) /\ Dangles(P[c])
  <2>1. c \in Fix(df, d) \cup Arm(ls, d)
    BY <1>3
  <2>2. c \in 1 .. Len(code) /\ Dangles(code[c])
    BY <1>4, <2>1 DEF Owned
  <2>3. c \notin S
    BY <1>4, <2>1 DEF Owned
  <2>4. QED
    BY <1>1, <1>2, <2>2, <2>3
<1>6. ASSUME NEW c \in 1 .. Len(P), Dangles(P[c])
      PROVE  \E d \in 1 .. m : c \in Fix(ndf, d) \cup Arm(new, d)
  <2>1. Dangles(code[c]) /\ c \notin S /\ c \in 1 .. Len(code)
    BY <1>1, <1>2, <1>6
  <2>2. PICK d \in 1 .. Len(ls) : c \in Fix(df, d) \cup Arm(ls, d)
    BY <2>1 DEF Owned
  <2>3. QED
    BY <1>3, <1>4, <2>1, <2>2
<1>7. ASSUME NEW d \in 1 .. m, NEW e \in 1 .. m, NEW c,
             c \in Fix(ndf, d) \cup Arm(new, d),
             c \in Fix(ndf, e) \cup Arm(new, e)
      PROVE  d = e
  BY <1>3, <1>4, <1>7 DEF Owned
<1>8. ASSUME NEW d \in 1 .. m, NEW c, c \in Fix(ndf, d), c \in Arm(new, d)
      PROVE  FALSE
  BY <1>3, <1>4, <1>8 DEF Owned
<1>9. QED
  BY <1>5, <1>6, <1>7, <1>8 DEF Owned, P

\* The true arm of an if ends: the branch around it is patched and the one
\* around the false arm emitted.
LEMMA ElseOwned ==
  ASSUME NEW code \in Seq(Cells), NEW ls, NEW df, Owned(code, ls, df),
         NEW m \in Nat, Len(ls) = m, m > 0,
         NEW off \in Nat, off # INVALID, NEW c \in Cells, Dangles(c),
         NEW arm, Arm(ls, m) = {arm},
         NEW new, Len(new) = m, Arm(new, m) = {Len(code) + 1},
         \A d \in 1 .. m - 1 : Arm(new, d) = Arm(ls, d)
  PROVE  Owned(Patched(code, {arm}, off) \o <<c>>, new, df)
<1> DEFINE P == Patched(code, {arm}, off)
           full == P \o <<c>>
           n == Len(code)
<1>1. /\ P \in Seq(Cells)
      /\ Len(P) = n
      /\ \A i \in 1 .. n :
           /\ P[i].op = code[i].op
           /\ P[i].target = IF i \in {arm} THEN off ELSE code[i].target
  BY PatchedFacts
<1> HIDE DEF P
<1>2. \A i \in 1 .. n : Dangles(P[i]) <=> Dangles(code[i]) /\ i # arm
  BY <1>1 DEF Dangles
<1>3. /\ n \in Nat /\ Len(full) = n + 1
      /\ full[n + 1] = c
      /\ \A i \in 1 .. n : full[i] = P[i]
  BY <1>1
<1> HIDE DEF full
<1>4. /\ m \in 1 .. m
      /\ \A d \in 1 .. m : d \in 1 .. m - 1 \/ d = m
      /\ \A d \in 1 .. m - 1 : d \in 1 .. m /\ d # m
      /\ n + 1 \in 1 .. Len(full)
      /\ \A i \in 1 .. n : i \in 1 .. Len(full)
      /\ \A i \in 1 .. Len(full) : i \in 1 .. n \/ i = n + 1
      /\ n + 1 \notin 1 .. n
  BY <1>3
<1> HIDE DEF n
<1>5. /\ \A d \in 1 .. m : \A i \in Fix(df, d) : i # arm /\ i \in 1 .. n
      /\ \A d \in 1 .. m - 1 : \A i \in Arm(ls, d) : i # arm /\ i \in 1 .. n
  <2>1. arm \in Fix(df, m) \cup Arm(ls, m)
    OBVIOUS
  <2>2. ASSUME NEW d \in 1 .. m, NEW i \in Fix(df, d)
        PROVE  i # arm /\ i \in 1 .. n
    <3>1. i \in 1 .. n
      BY DEF Owned, n
    <3>2. arm \in Fix(df, d) => d = m
      BY <1>4, <2>1 DEF Owned
    <3>3. QED
      BY <1>4, <3>1, <3>2 DEF Owned
  <2>3. ASSUME NEW d \in 1 .. m - 1, NEW i \in Arm(ls, d)
        PROVE  i # arm /\ i \in 1 .. n
    <3>1. i \in 1 .. n
      BY <1>4 DEF Owned, n
    <3>2. arm \in Arm(ls, d) => d = m
      BY <1>4, <2>1 DEF Owned
    <3>3. QED
      BY <1>4, <3>1, <3>2
  <2>4. QED
    BY <2>2, <2>3
<1>6. ASSUME NEW d \in 1 .. m, NEW i \in Fix(df, d) \cup Arm(new, d)
      PROVE  i \in 1 .. Len(full) /\ Dangles(full[i])
  <2>1. CASE i = n + 1
    BY <1>3, <1>4, <2>1
  <2>2. CASE i # n + 1
    <3>1. i \in Fix(df, d) \cup Arm(ls, d) /\ i \in 1 .. n /\ i # arm
      BY <1>4, <1>5, <1>6, <2>2 DEF n
    <3>2. Dangles(code[i])
      BY <3>1 DEF Owned
    <3>3. QED
      BY <1>2, <1>3, <1>4, <3>1, <3>2
  <2>3. QED
    BY <2>1, <2>2
<1>7. ASSUME NEW i \in 1 .. Len(full), Dangles(full[i])
      PROVE  \E d \in 1 .. m : i \in Fix(df, d) \cup Arm(new, d)
  <2>1. CASE i = n + 1
    BY <1>4, <2>1 DEF n
  <2>2. CASE i # n + 1
    <3>1. i \in 1 .. n /\ Dangles(code[i]) /\ i # arm
      BY <1>2, <1>3, <1>4, <1>7, <2>2
    <3>2. PICK d \in 1 .. m : i \in Fix(df, d) \cup Arm(ls, d)
      BY <3>1 DEF Owned, n
    <3>3. QED
      BY <1>4, <3>1, <3>2
  <2>3. QED
    BY <2>1, <2>2
<1>8. ASSUME NEW d \in 1 .. m, NEW e \in 1 .. m, NEW i,
             i \in Fix(df, d) \cup Arm(new, d),
             i \in Fix(df, e) \cup Arm(new, e)
      PROVE  d = e
  <2>1. CASE i = n + 1
    <3>1. \A k \in 1 .. m : i \in Fix(df, k) \cup Arm(new, k) => k = m
      BY <1>4, <1>5, <2>1
    <3>2. QED
      BY <1>8, <3>1
  <2>2. CASE i # n + 1
    <3>1. \A k \in 1 .. m : i \in Fix(df, k) \cup Arm(new, k) =>
            i \in Fix(df, k) \cup Arm(ls, k)
      BY <1>4, <2>2 DEF n
    <3>2. QED
      BY <1>8, <3>1 DEF Owned
  <2>3. QED
    BY <2>1, <2>2
<1>9. ASSUME NEW d \in 1 .. m, NEW i, i \in Fix(df, d), i \in Arm(new, d)
      PROVE  FALSE
  <2>1. CASE d = m
    BY <1>4, <1>5, <1>9, <2>1 DEF n
  <2>2. CASE d \in 1 .. m - 1
    BY <1>4, <1>9, <2>2 DEF Owned
  <2>3. QED
    BY <1>4, <2>1, <2>2
<1>10. QED
  BY <1>6, <1>7, <1>8, <1>9 DEF Owned, full, P

\* Patching a cell that is no branch to a label changes no owner.
LEMMA PatchOwned ==
  ASSUME NEW code \in Seq(Cells), NEW ls, NEW df, Owned(code, ls, df),
         NEW S, \A c \in S : c \in 1 .. Len(code) /\ code[c].op \notin LabelOps,
         NEW off \in Nat
  PROVE  Owned(Patched(code, S, off), ls, df)
<1>1. /\ Len(Patched(code, S, off)) = Len(code)
      /\ \A i \in 1 .. Len(code) :
           /\ Patched(code, S, off)[i].op = code[i].op
           /\ Patched(code, S, off)[i].target =
                IF i \in S THEN off ELSE code[i].target
  BY PatchedFacts
<1>2. \A i \in 1 .. Len(code) :
        Dangles(Patched(code, S, off)[i]) <=> Dangles(code[i])
  BY <1>1 DEF Dangles
<1>3. QED
  BY <1>1, <1>2 DEF Owned

-----------------------------------------------------------------------------
(* Calls.                                                                  *)

\* A call has the offset of its function, and is recorded for the function
\* while that has none.
Linked(code, offs, fixups) ==
  /\ offs \in [DOMAIN Funcs -> Nat]
  /\ fixups \in [DOMAIN Funcs -> SUBSET Nat]
  /\ \A c \in 1 .. Len(code) : code[c].op = "call" =>
       /\ code[c].a \in DOMAIN Funcs
       /\ code[c].a > NumImports
       /\ code[c].target = offs[code[c].a]
       /\ offs[code[c].a] = INVALID => c \in fixups[code[c].a]
  /\ \A f \in DOMAIN Funcs : \A c \in fixups[f] :
       c \in 1 .. Len(code) /\ code[c].op = "call" /\ code[c].a = f

\* The calls of an emission and their records.
RecordsCalls(code, cells, offs, old, new) ==
  /\ new \in [DOMAIN Funcs -> SUBSET Nat]
  /\ \A k \in 1 .. Len(cells) : cells[k].op = "call" =>
       /\ cells[k].a \in DOMAIN Funcs
       /\ cells[k].a > NumImports
       /\ cells[k].target = offs[cells[k].a]
       /\ offs[cells[k].a] = INVALID => Len(code) + k \in new[cells[k].a]
  /\ \A f \in DOMAIN Funcs :
       /\ old[f] \subseteq new[f]
       /\ \A c \in new[f] : c \in old[f] \/ \E k \in 1 .. Len(cells) :
            c = Len(code) + k /\ cells[k].op = "call" /\ cells[k].a = f

\* Cells are emitted and their calls recorded.
LEMMA EmitLinked ==
  ASSUME NEW code \in Seq(Cells), NEW cells \in Seq(Cells), NEW offs,
         NEW fixups, Linked(code, offs, fixups),
         NEW new, RecordsCalls(code, cells, offs, fixups, new)
  PROVE  Linked(code \o cells, offs, new)
<1> DEFINE n == Len(code)
           full == code \o cells
<1>1. /\ n \in Nat /\ Len(cells) \in Nat /\ Len(full) = n + Len(cells)
      /\ \A i \in 1 .. n : full[i] = code[i]
      /\ \A i \in 1 .. Len(cells) : full[n + i] = cells[i]
  BY ConcatFacts
<1> HIDE DEF full
<1>2. ASSUME NEW c \in 1 .. Len(full), full[c].op = "call"
      PROVE  /\ full[c].a \in DOMAIN Funcs
             /\ full[c].a > NumImports
             /\ full[c].target = offs[full[c].a]
             /\ offs[full[c].a] = INVALID => c \in new[full[c].a]
  <2>1. CASE c \in 1 .. n
    <3>1. full[c] = code[c]
      BY <1>1, <2>1
    <3>2. QED
      BY <1>2, <2>1, <3>1 DEF Linked, RecordsCalls
  <2>2. CASE c \notin 1 .. n
    <3>1. c - n \in 1 .. Len(cells) /\ c = n + (c - n)
      BY <1>1, <2>2
    <3>2. full[c] = cells[c - n]
      BY <1>1, <3>1
    <3>3. QED
      BY <1>2, <3>1, <3>2 DEF RecordsCalls
  <2>3. QED
    BY <2>1, <2>2
<1>3. ASSUME NEW f \in DOMAIN Funcs, NEW c \in new[f]
      PROVE  c \in 1 .. Len(full) /\ full[c].op = "call" /\ full[c].a = f
  <2>1. CASE c \in fixups[f]
    <3>1. c \in 1 .. n /\ code[c].op = "call" /\ code[c].a = f
      BY <2>1 DEF Linked
    <3>2. QED
      BY <1>1, <3>1
  <2>2. CASE c \notin fixups[f]
    <3>1. PICK k \in 1 .. Len(cells) :
            c = n + k /\ cells[k].op = "call" /\ cells[k].a = f
      BY <2>2 DEF RecordsCalls
    <3>2. QED
      BY <1>1, <3>1
  <2>3. QED
    BY <2>1, <2>2
<1>4. QED
  BY <1>2, <1>3 DEF Linked, RecordsCalls, full

\* Patching the branches of a label changes no call.
LEMMA PatchLinked ==
  ASSUME NEW code \in Seq(Cells), NEW offs, NEW fixups,
         Linked(code, offs, fixups),
         NEW S, \A c \in S : c \in 1 .. Len(code) /\ code[c].op \in LabelOps,
         NEW off \in Nat
  PROVE  Linked(Patched(code, S, off), offs, fixups)
<1> DEFINE P == Patched(code, S, off)
<1>1. /\ Len(P) = Len(code)
      /\ \A i \in 1 .. Len(code) :
           /\ P[i].op = code[i].op
           /\ P[i].a = code[i].a
           /\ P[i].target = IF i \in S THEN off ELSE code[i].target
  BY PatchedFacts
<1> HIDE DEF P
<1>2. \A i \in 1 .. Len(code) : P[i].op = "call" => P[i].target = code[i].target
  BY <1>1 DEF LabelOps
<1>3. QED
  BY ZenonT(30), <1>1, <1>2 DEF Linked, P

\* f with another value at i.
Updated(g, i, x) == [g EXCEPT ![i] = x]

\* A function gets its offset: the calls recorded for it are patched.
LEMMA BeginLinked ==
  ASSUME NEW code \in Seq(Cells), NEW offs, NEW fixups,
         Linked(code, offs, fixups),
         NEW f \in DOMAIN Funcs, offs[f] = INVALID,
         NEW off \in Nat, off # INVALID
  PROVE  Linked(Patched(code, fixups[f], off), Updated(offs, f, off), fixups)
<1> DEFINE P == Patched(code, fixups[f], off)
           new == Updated(offs, f, off)
<1>1. /\ Len(P) = Len(code)
      /\ \A i \in 1 .. Len(code) :
           /\ P[i].op = code[i].op
           /\ P[i].a = code[i].a
           /\ P[i].target = IF i \in fixups[f] THEN off ELSE code[i].target
  BY PatchedFacts
<1>2. /\ new \in [DOMAIN Funcs -> Nat]
      /\ new[f] = off
      /\ \A g \in DOMAIN Funcs : g # f => new[g] = offs[g]
  BY DEF Linked, Updated
<1> HIDE DEF P, new
<1>3. ASSUME NEW c \in 1 .. Len(P), P[c].op = "call"
      PROVE  /\ P[c].a \in DOMAIN Funcs
             /\ P[c].a > NumImports
             /\ P[c].target = new[P[c].a]
             /\ new[P[c].a] = INVALID => c \in fixups[P[c].a]
  <2>1. /\ P[c].a \in DOMAIN Funcs /\ P[c].a = code[c].a
        /\ P[c].a > NumImports
        /\ code[c].target = offs[P[c].a]
        /\ offs[P[c].a] = INVALID => c \in fixups[P[c].a]
    BY <1>1, <1>3 DEF Linked
  <2>2. CASE P[c].a = f
    BY <1>1, <1>2, <2>1, <2>2
  <2>3. CASE P[c].a # f
    <3>1. c \notin fixups[f]
      BY <2>1, <2>3 DEF Linked
    <3>2. QED
      BY <1>1, <1>2, <2>1, <2>3, <3>1
  <2>4. QED
    BY <2>2, <2>3
<1>4. ASSUME NEW g \in DOMAIN Funcs, NEW c \in fixups[g]
      PROVE  c \in 1 .. Len(P) /\ P[c].op = "call" /\ P[c].a = g
  <2>1. c \in 1 .. Len(code) /\ code[c].op = "call" /\ code[c].a = g
    BY DEF Linked
  <2>2. QED
    BY <1>1, <2>1
<1>5. Linked(P, new, fixups)
  BY <1>2, <1>3, <1>4 DEF Linked
<1>6. QED
  BY <1>5, Zenon DEF P, new

-----------------------------------------------------------------------------
(* Where branches and calls lead.                                          *)

\* An instruction, or the one that is emitted next.
Leads(code, t) ==
  /\ t \in 1 .. Len(code) + 1
  /\ t <= Len(code) => code[t].op \notin {"data", "entry"}

\* Every offset that branches, labels and functions have leads somewhere.
Targets(code, ls, offs) ==
  /\ \A c \in 1 .. Len(code) :
       code[c].op \in LabelOps /\ code[c].target # INVALID =>
         Leads(code, code[c].target)
  /\ \A d \in 1 .. Len(ls) :
       ls[d].offset # INVALID => Leads(code, ls[d].offset)
  /\ \A f \in DOMAIN Funcs : offs[f] # INVALID => Leads(code, offs[f])

\* No table data is put where an offset may lead.
Grows(code, full) ==
  /\ Len(code) <= Len(full)
  /\ \A i \in 1 .. Len(code) : full[i].op = code[i].op
  /\ Len(code) < Len(full) => full[Len(code) + 1].op \notin {"data", "entry"}

\* What led to an instruction still does.
LEMMA LeadsKept ==
  ASSUME NEW code \in Seq(Cells), NEW full \in Seq(Cells), Grows(code, full),
         NEW t, Leads(code, t)
  PROVE  Leads(full, t)
<1>1. Len(code) \in Nat /\ Len(full) \in Nat /\ t \in 1 .. Len(code) + 1
  BY DEF Leads
<1>2. CASE t \in 1 .. Len(code)
  BY <1>1, <1>2 DEF Leads, Grows
<1>3. CASE t = Len(code) + 1
  BY <1>1, <1>3 DEF Leads, Grows
<1>4. QED
  BY <1>1, <1>2, <1>3

\* A step that keeps each offset or sets it to one that leads somewhere.
LEMMA TargetsKept ==
  ASSUME NEW code \in Seq(Cells), NEW full \in Seq(Cells), Grows(code, full),
         NEW ls, NEW offs, Targets(code, ls, offs), NEW nls, NEW noffs,
         \A c \in 1 .. Len(full) :
           full[c].op \in LabelOps /\ full[c].target # INVALID =>
             \/ c \in 1 .. Len(code) /\ full[c].target = code[c].target
             \/ Leads(full, full[c].target),
         \A d \in 1 .. Len(nls) : nls[d].offset # INVALID =>
             \/ d \in 1 .. Len(ls) /\ nls[d].offset = ls[d].offset
             \/ Leads(full, nls[d].offset),
         \A f \in DOMAIN Funcs : noffs[f] # INVALID =>
             noffs[f] = offs[f] \/ Leads(full, noffs[f])
  PROVE  Targets(full, nls, noffs)
<1>1. \A c \in 1 .. Len(code) :
        full[c].op \in LabelOps /\ code[c].target # INVALID =>
          Leads(full, code[c].target)
  BY LeadsKept DEF Targets, Grows
<1>2. \A d \in 1 .. Len(ls) : ls[d].offset # INVALID =>
        Leads(full, ls[d].offset)
  BY LeadsKept DEF Targets
<1>3. \A f \in DOMAIN Funcs : offs[f] # INVALID => Leads(full, offs[f])
  BY LeadsKept DEF Targets
<1>4. QED
  BY <1>1, <1>2, <1>3 DEF Targets

-----------------------------------------------------------------------------
(* The inductive invariant.                                                *)

\* Between two functions no offset leads past the end.
Within(code, offs) ==
  /\ \A c \in 1 .. Len(code) :
       code[c].op \in LabelOps => code[c].target <= Len(code)
  /\ \A f \in DOMAIN Funcs : offs[f] <= Len(code)

\* The functions whose bodies were read are those that have an offset.
BodiesRead ==
  /\ next_func \in NumImports + 1 .. Len(Funcs) + 1
  /\ \A f \in DOMAIN Funcs :
       /\ f >= next_func => func_offset[f] = INVALID
       /\ f > NumImports /\ f < next_func => func_offset[f] # INVALID
  /\ next_func = NumImports + 1 => istream = <<>> /\ current_func = 0
  /\ status = "loaded" =>
       current_func = 0 /\ next_func \in {NumImports + 1, Len(Funcs) + 1}

\* Only the outermost label is a function's.
InnerLabels == \A d \in 2 .. Len(label_stack) : label_stack[d].label_type # "func"

FInv ==
  /\ istream \in Seq(Cells)
  /\ Owned(istream, label_stack, depth_fixups)
  /\ Linked(istream, func_offset, func_fixups)
  /\ Targets(istream, label_stack, func_offset)
  /\ InnerLabels
  /\ current_func = 0 => label_stack = <<>> /\ Within(istream, func_offset)
  /\ status \in {"reading", "loaded"} => BodiesRead

-----------------------------------------------------------------------------
(* The steps of the compiler.                                              *)

\* A callback that fails.
LEMMA StopKeeps ==
  ASSUME NEW outcome, outcome \notin {"reading", "loaded"}, Stop(outcome)
  PROVE  FInv'
<1>1. /\ istream' = <<>> /\ label_stack' = <<>> /\ depth_fixups' = <<>>
      /\ func_offset' = [f \in DOMAIN Funcs |-> INVALID]
      /\ func_fixups' = [f \in DOMAIN Funcs |-> {}]
      /\ status' = outcome
  BY DEF Stop
<1>2. istream' \in Seq(Cells) /\ Len(istream') = 0 /\ Len(label_stack') = 0
  BY <1>1
<1>3. Owned(istream', label_stack', depth_fixups')
  BY <1>1, <1>2 DEF Owned
<1>4. Linked(istream', func_offset', func_fixups')
  BY <1>1, <1>2 DEF Linked, INVALID
<1>5. Targets(istream', label_stack', func_offset')
  BY <1>1, <1>2 DEF Targets
<1>6. Within(istream', func_offset')
  BY <1>1, <1>2 DEF Within, INVALID
<1>7. InnerLabels'
  BY <1>2 DEF InnerLabels
<1>8. QED
  BY <1>1, <1>2, <1>3, <1>4, <1>5, <1>6, <1>7 DEF FInv

\* A rejected body leaves no code and no fixup behind.
LEMMA RejectKeeps ==
  ASSUME Reject
  PROVE  FInv'
BY StopKeeps DEF Reject

\* Labels that differ in their limits at most.
SameLabels(new, old) ==
  /\ Len(new) = Len(old)
  /\ \A d \in 1 .. Len(old) : /\ new[d].label_type = old[d].label_type
                              /\ new[d].offset = old[d].offset
                              /\ new[d].fixup_offset = old[d].fixup_offset

progressVars == <<func_offset, current_func, next_func, status>>

\* BodiesRead inside a function body, whatever is emitted.
LEMMA BodiesReadKept ==
  ASSUME FInv, current_func # 0, UNCHANGED progressVars
  PROVE  status \in {"reading", "loaded"} => BodiesRead'
BY DEF FInv, BodiesRead, progressVars

\* A callback that emits cells and records what dangles.
LEMMA EmitKeeps ==
  ASSUME FInv, current_func # 0, Len(label_stack) \in Nat,
         UNCHANGED progressVars,
         SameLabels(label_stack', label_stack),
         NEW cells \in Seq(Cells), istream' = istream \o cells,
         Len(cells) > 0, cells[1].op \notin {"data", "entry"},
         NEW refs, Records(istream, cells, label_stack, refs),
         \/ refs = {} /\ depth_fixups' = depth_fixups
         \/ depth_fixups' = append_fixup(depth_fixups, refs),
         RecordsCalls(istream, cells, func_offset, func_fixups, func_fixups'),
         \A k \in 1 .. Len(cells) :
           cells[k].op \in LabelOps /\ cells[k].target # INVALID =>
             Leads(istream \o cells, cells[k].target)
  PROVE  FInv'
<1> DEFINE full == istream \o cells
<1>1. /\ istream \in Seq(Cells) /\ Len(istream) \in Nat
      /\ Owned(istream, label_stack, depth_fixups)
      /\ Linked(istream, func_offset, func_fixups)
      /\ Targets(istream, label_stack, func_offset)
      /\ func_offset' = func_offset
  BY DEF FInv, progressVars
<1>2. /\ full \in Seq(Cells)
      /\ Len(cells) \in Nat /\ Len(full) = Len(istream) + Len(cells)
      /\ \A i \in 1 .. Len(istream) : full[i] = istream[i]
      /\ \A i \in 1 .. Len(cells) : full[Len(istream) + i] = cells[i]
  BY <1>1, ConcatFacts
<1>3. Owned(full, label_stack', depth_fixups')
  <2>1. /\ depth_fixups \in Seq(SUBSET Nat)
        /\ Len(depth_fixups) <= Len(label_stack)
    BY <1>1 DEF Owned
  <2>2. \A r \in refs : r[1] \in 1 .. Len(label_stack) /\ r[2] \in Nat
    BY DEF Records
  <2>3. /\ depth_fixups' \in Seq(SUBSET Nat)
        /\ Len(depth_fixups') <= Len(label_stack)
        /\ \A d \in 1 .. Len(label_stack) : \A c :
             c \in Fix(depth_fixups', d) <=>
               c \in Fix(depth_fixups, d) \/ \E r \in refs : r[1] = d /\ r[2] = c
    <3>1. CASE refs = {} /\ depth_fixups' = depth_fixups
      BY <2>1, <3>1
    <3>2. CASE depth_fixups' = append_fixup(depth_fixups, refs)
      BY <2>1, <2>2, <3>2, AppendFixup
    <3>3. QED
      BY <3>1, <3>2
  <2> HIDE DEF full
  <2>4. Owned(full, label_stack, depth_fixups')
    BY <1>1, <2>3, EmitOwned DEF full
  <2>5. \A d \in 1 .. Len(label_stack) : Arm(label_stack', d) = Arm(label_stack, d)
    BY DEF Arm, SameLabels
  <2>6. QED
    BY <2>4, <2>5, RelabelOwned DEF SameLabels
<1>4. Linked(full, func_offset, func_fixups')
  BY <1>1, EmitLinked
<1> HIDE DEF full
<1>5. Targets(full, label_stack', func_offset')
  <2>1. Grows(istream, full)
    <3>1. full[Len(istream) + 1] = cells[1]
      <4>1. 1 \in 1 .. Len(cells)
        BY <1>2
      <4>2. QED
        BY <1>2, <4>1, Zenon
    <3>2. QED
      BY <1>1, <1>2, <3>1 DEF Grows
  <2>2. ASSUME NEW c \in 1 .. Len(full),
               full[c].op \in LabelOps, full[c].target # INVALID
        PROVE  \/ c \in 1 .. Len(istream) /\ full[c].target = istream[c].target
               \/ Leads(full, full[c].target)
    <3>1. CASE c \in 1 .. Len(istream)
      BY <1>2, <3>1
    <3>2. CASE c \notin 1 .. Len(istream)
      <4>1. /\ c - Len(istream) \in 1 .. Len(cells)
            /\ c = Len(istream) + (c - Len(istream))
        BY <1>1, <1>2, <3>2
      <4>2. full[c] = cells[c - Len(istream)]
        BY <1>2, <4>1
      <4>3. QED
        BY <2>2, <4>1, <4>2 DEF full
    <3>3. QED
      BY <3>1, <3>2
  <2>3. \A d \in 1 .. Len(label_stack') : label_stack'[d].offset # INVALID =>
          d \in 1 .. Len(label_stack) /\ label_stack'[d].offset = label_stack[d].offset
    BY DEF SameLabels
  <2>4. QED
    BY <1>1, <1>2, <2>1, <2>2, <2>3, TargetsKept
<1>6. InnerLabels'
  <2>1. \A d \in 2 .. Len(label_stack) : d \in 1 .. Len(label_stack)
    OBVIOUS
  <2>2. QED
    BY <2>1 DEF FInv, InnerLabels, SameLabels
<1>7. current_func' # 0 /\ (status' \in {"reading", "loaded"} => BodiesRead')
  BY BodiesReadKept DEF progressVars
<1>8. QED
  BY <1>1, <1>2, <1>3, <1>4, <1>5, <1>6, <1>7 DEF FInv, full

\* Cells without an offset, and no table data.
Plain(cells) ==
  \A k \in 1 .. Len(cells) : cells[k].op \notin BranchOps \cup {"data"}

\* A callback that emits such cells.
LEMMA PlainKeeps ==
  ASSUME FInv, current_func # 0, Len(label_stack) \in Nat,
         UNCHANGED progressVars,
         SameLabels(label_stack', label_stack),
         NEW cells \in Seq(Cells), istream' = istream \o cells,
         Len(cells) > 0, Plain(cells),
         UNCHANGED <<depth_fixups, func_fixups>>
  PROVE  FInv'
<1>1. 1 \in 1 .. Len(cells)
  OBVIOUS
<1>2. \A k \in 1 .. Len(cells) :
        cells[k].op \notin LabelOps \cup {"call", "data", "entry"}
  BY DEF Plain, BranchOps, LabelOps
<1>3. Records(istream, cells, label_stack, {})
  BY <1>2 DEF Records, Dangles
<1>4. RecordsCalls(istream, cells, func_offset, func_fixups, func_fixups')
  BY <1>2 DEF RecordsCalls, FInv, Linked
<1>5. QED
  BY <1>1, <1>2, <1>3, <1>4, EmitKeeps

-----------------------------------------------------------------------------
(* Callbacks that emit no branch.                                          *)

\* A callback ends in an error or in a failed assertion.
Failed ==
  \E outcome \in {"rejected", "assert_emit_br", "assert_top_type",
                  "assert_translate_depth"} : Stop(outcome)

\* Any failed check or assertion of a callback does the same.
LEMMA FailedKeeps ==
  ASSUME Failed
  PROVE  FInv'
BY StopKeeps DEF Failed

\* A label stack is the same as itself in what the fixups look at.
LEMMA SameSelf ==
  ASSUME UNCHANGED label_stack
  PROVE  SameLabels(label_stack', label_stack)
BY DEF SameLabels

\* One cell without an offset.
LEMMA CellKeeps ==
  ASSUME FInv, IInv, NEW callback, InBody(callback),
         NEW cell \in Cells, cell.op \notin BranchOps \cup {"data"},
         istream' = istream \o <<cell>>,
         UNCHANGED <<label_stack, depth_fixups, func_fixups, inFunctionVars>>
  PROVE  FInv'
<1> DEFINE cells == <<cell>>
<1>1. /\ cells \in Seq(Cells) /\ Len(cells) = 1
      /\ \A k \in 1 .. Len(cells) : cells[k] = cell
      /\ istream' = istream \o cells
  OBVIOUS
<1> HIDE DEF cells
<1>2. Plain(cells)
  BY <1>1 DEF Plain
<1>3. Len(label_stack) \in Nat /\ current_func # 0
  BY InBodyFacts DEF StackTypes
<1>4. UNCHANGED progressVars
  BY DEF inFunctionVars, progressVars
<1>5. QED
  BY <1>1, <1>2, <1>3, <1>4, SameSelf, PlainKeeps

\* The same for the parts of a cell.
LEMMA OpKeeps ==
  ASSUME FInv, IInv, NEW callback, InBody(callback),
         NEW op \in CellOps, op \notin BranchOps \cup {"data"}, NEW a \in Nat,
         istream' = istream \o <<Cell(op, 0, a, 0)>>,
         UNCHANGED <<label_stack, depth_fixups, func_fixups, inFunctionVars>>
  PROVE  FInv'
<1>1. Cell(op, 0, a, 0) \in Cells /\ Cell(op, 0, a, 0).op = op
  BY CellFacts
<1>2. QED
  BY <1>1, CellKeeps

\* Callbacks that pop, push and emit one cell.
LEMMA SimpleKeeps ==
  ASSUME FInv, IInv, NEW callback, InBody(callback),
         NEW op \in CellOps, op \notin BranchOps \cup {"data"}, NEW a,
         NEW params, NEW types, SimpleExpr(params, types, Cell(op, 0, a, 0)),
         pop_and_check(type_stack, params) => a \in Nat
  PROVE  FInv'
<1>1. CASE ~pop_and_check(type_stack, params)
  BY <1>1, RejectKeeps DEF SimpleExpr, Checked
<1>2. CASE pop_and_check(type_stack, params)
  <2>1. /\ istream' = istream \o <<Cell(op, 0, a, 0)>>
        /\ UNCHANGED <<label_stack, depth_fixups, func_fixups, inFunctionVars>>
    BY <1>2 DEF SimpleExpr, Checked, NoLabelChange, emit
  <2>2. QED
    BY <1>2, <2>1, OpKeeps
<1>3. QED
  BY <1>1, <1>2

\* The names of the operators and constants are no branches.
LEMMA OpNames ==
  /\ \A op \in Opcodes : op \in CellOps /\ op \notin BranchOps \cup {"data"}
  /\ \A t \in Types :
       ConstOp[t] \in CellOps /\ ConstOp[t] \notin BranchOps \cup {"data"}
  /\ \A op \in {"alloca", "call_host", "call_indirect", "drop", "drop_keep",
                "get_global", "get_local", "return", "select", "set_global",
                "set_local", "tee_local", "unreachable"} :
       op \in CellOps /\ op \notin BranchOps \cup {"data"}
<1>1. ASSUME NEW op \in Opcodes PROVE op \notin BranchOps \cup {"data"}
  <2>1. op \in {"i32_add", "i32_div_s", "i32_wrap_i64", "i64_eqz", "i32_load",
                "i64_store", "grow_memory", "current_memory"}
    BY CompilerAssumption DEF OpcodeTable
  <2>2. QED
    BY <2>1 DEF BranchOps
<1>2. ASSUME NEW t \in Types PROVE ConstOp[t] \notin BranchOps \cup {"data"}
  <2>1. t \in {"i32", "i64", "f32", "f64"}
    BY CompilerAssumption
  <2>2. ConstOp[t] \in {"i32_const", "i64_const", "f32_const", "f64_const"}
    BY <2>1 DEF ConstOp
  <2>3. QED
    BY <2>2 DEF BranchOps
<1>3. \A op \in {"alloca", "call_host", "call_indirect", "drop", "drop_keep",
                 "get_global", "get_local", "return", "select", "set_global",
                 "set_local", "tee_local", "unreachable"} :
        op \in CellOps /\ op \notin BranchOps \cup {"data"}
  BY DEF CellOps, BranchOps
<1>4. QED
  BY <1>1, <1>2, <1>3 DEF CellOps

\* The distance of a local is a number: the locals are on the stack.
LEMMA LocalIndex ==
  ASSUME StackTypes, NEW ts, Typed(ts),
         NEW i \in 1 .. Len(param_and_local_types)
  PROVE  translate_local_index(ts, i) \in Nat
<1>1. Len(ts) \in Nat /\ Len(param_and_local_types) \in Nat
  BY DEF Typed, StackTypes
<1>2. Len(param_and_local_types) <= Len(ts)
  BY DEF Typed
<1>3. QED
  BY <1>1, <1>2 DEF translate_local_index

\* Operators, constants, drop, select, locals and globals emit cells without
\* an offset to patch.
LEMMA OperatorsKeep ==
  ASSUME FInv, IInv,
         \/ \E op \in Opcodes : OnOpcode(op)
         \/ \E t \in Types : OnConst(t)
         \/ \E g \in 1 .. Len(Globals) + 1 : OnGetGlobal(g) \/ OnSetGlobal(g)
         \/ \E i \in 1 .. Len(param_and_local_types) + 1 :
              OnGetLocal(i) \/ OnSetLocal(i)
  PROVE  FInv'
<1>1. ASSUME NEW op \in Opcodes, OnOpcode(op)
      PROVE  FInv'
  <2>1. /\ InBody("opcode")
        /\ SimpleExpr(OpcodeTable[op].params, OpcodeTable[op].result,
                      Cell(op, 0, 0, 0))
    BY <1>1 DEF OnOpcode
  <2>2. QED
    BY <2>1, OpNames, SimpleKeeps
<1>2. ASSUME NEW t \in Types, OnConst(t)
      PROVE  FInv'
  <2>1. /\ InBody("const")
        /\ SimpleExpr(<<>>, <<t>>, Cell(ConstOp[t], 0, 0, 0))
    BY <1>2 DEF OnConst
  <2>2. QED
    BY <2>1, OpNames, SimpleKeeps
<1>3. ASSUME NEW g \in 1 .. Len(Globals) + 1, OnGetGlobal(g) \/ OnSetGlobal(g)
      PROVE  FInv'
  <2>1. InBody("global")
    BY <1>3 DEF OnGetGlobal, OnSetGlobal
  <2>2. \/ Reject
        \/ SimpleExpr(<<>>, <<Globals[g].type>>, Cell("get_global", 0, g, 0))
        \/ SimpleExpr(<<Globals[g].type>>, <<>>, Cell("set_global", 0, g, 0))
    BY <1>3 DEF OnGetGlobal, OnSetGlobal, Checked
  <2>3. \A op \in {"get_global", "set_global"} :
          op \in CellOps /\ op \notin BranchOps \cup {"data"}
    BY OpNames
  <2>4. g \in Nat
    BY CompilerAssumption
  <2>5. QED
    BY <2>1, <2>2, <2>3, <2>4, RejectKeeps, SimpleKeeps
<1>4. ASSUME NEW i \in 1 .. Len(param_and_local_types) + 1,
             OnGetLocal(i) \/ OnSetLocal(i)
      PROVE  FInv'
  <2> DEFINE t == param_and_local_types[i]
             ts == pop_types(type_stack, 1)
  <2>1. InBody("local")
    BY <1>4 DEF OnGetLocal, OnSetLocal
  <2>2. \/ Reject
        \/ /\ i <= Len(param_and_local_types)
           /\ \/ SimpleExpr(<<>>, <<t>>, Cell("get_local", 0,
                                   translate_local_index(type_stack, i), 0))
              \/ SimpleExpr(<<t>>, <<>>, Cell("set_local", 0,
                                   translate_local_index(ts, i), 0))
    BY <1>4 DEF OnGetLocal, OnSetLocal, Checked
  <2>3. \A op \in {"get_local", "set_local"} :
          op \in CellOps /\ op \notin BranchOps \cup {"data"}
    BY OpNames
  <2>4. i <= Len(param_and_local_types) => i \in 1 .. Len(param_and_local_types)
    BY DEF IInv, StackTypes
  <2>5. i <= Len(param_and_local_types) =>
          translate_local_index(type_stack, i) \in Nat
    BY <2>1, <2>4, InBodyFacts, LocalIndex
  <2>6. i <= Len(param_and_local_types) /\ pop_and_check(type_stack, <<t>>)
          => translate_local_index(ts, i) \in Nat
    <3>1. ASSUME pop_and_check(type_stack, <<t>>)
          PROVE  Typed(ts)
      BY <2>1, <3>1, InBodyFacts, PopOneTyped
    <3> HIDE DEF t, ts
    <3>2. QED
      BY <2>1, <2>4, <3>1, InBodyFacts, LocalIndex
  <2> HIDE DEF t, ts
  <2>7. QED
    BY <2>1, <2>2, <2>3, <2>5, <2>6, RejectKeeps, SimpleKeeps
<1>5. QED
  BY <1>1, <1>2, <1>3, <1>4

\* on_drop, on_select, on_tee_local, on_call_indirect, on_unreachable.
LEMMA OtherCellsKeep ==
  ASSUME FInv, IInv,
         \/ OnDrop \/ OnSelect \/ OnUnreachable
         \/ \E f \in DOMAIN Funcs : OnCallIndirect(f)
         \/ \E i \in 1 .. Len(param_and_local_types) + 1 : OnTeeLocal(i)
  PROVE  FInv'
<1>1. PICK callback : InBody(callback)
  BY DEF OnDrop, OnSelect, OnUnreachable, OnCallIndirect, OnTeeLocal
<1> DEFINE Emits(op, a) ==
      /\ istream' = istream \o <<Cell(op, 0, a, 0)>>
      /\ UNCHANGED <<label_stack, depth_fixups, func_fixups, inFunctionVars>>
<1>2. \/ Failed
      \/ Emits("drop", 0) \/ Emits("select", 0) \/ Emits("unreachable", 0)
      \/ \E f \in DOMAIN Funcs : Emits("call_indirect", f)
      \/ \E i \in 1 .. Len(param_and_local_types) + 1 :
           /\ i <= Len(param_and_local_types)
           /\ Emits("tee_local", translate_local_index(type_stack, i))
  <2>1. CASE OnDrop
    BY <2>1 DEF OnDrop, Checked, Asserted, Reject, Failed, NoLabelChange, emit
  <2>2. CASE OnSelect
    BY <2>2 DEF OnSelect, Checked, Asserted, Reject, Failed, NoLabelChange, emit
  <2>3. CASE OnUnreachable
    BY <2>3 DEF OnUnreachable, NoLabelChange, emit
  <2>4. ASSUME NEW f \in DOMAIN Funcs, OnCallIndirect(f)
        PROVE  Failed \/ Emits("call_indirect", f)
    BY <2>4 DEF OnCallIndirect, Checked, Asserted, Reject, Failed,
                NoLabelChange, emit
  <2>5. ASSUME NEW i \in 1 .. Len(param_and_local_types) + 1, OnTeeLocal(i)
        PROVE  \/ Failed
               \/ /\ i <= Len(param_and_local_types)
                  /\ Emits("tee_local", translate_local_index(type_stack, i))
    BY <2>5 DEF OnTeeLocal, Checked, Asserted, Reject, Failed,
                NoLabelChange, emit
  <2> HIDE DEF Emits
  <2>6. QED
    BY <2>1, <2>2, <2>3, <2>4, <2>5
<1>3. ASSUME NEW op \in {"drop", "select", "unreachable", "call_indirect",
                         "tee_local"}, NEW a \in Nat, Emits(op, a)
      PROVE  FInv'
  <2>1. op \in CellOps /\ op \notin BranchOps \cup {"data"}
    BY OpNames
  <2>2. QED
    BY <1>1, <1>3, <2>1, OpKeeps
<1>4. \A f \in DOMAIN Funcs : f \in Nat
  BY CompilerAssumption
<1>5. ASSUME NEW i \in 1 .. Len(param_and_local_types) + 1,
             i <= Len(param_and_local_types)
      PROVE  translate_local_index(type_stack, i) \in Nat
  <2>1. i \in 1 .. Len(param_and_local_types)
    BY <1>5 DEF IInv, StackTypes
  <2>2. QED
    BY <1>1, <2>1, InBodyFacts, LocalIndex
<1> HIDE DEF Emits
<1>6. QED
  BY <1>2, <1>3, <1>4, <1>5, FailedKeeps

-----------------------------------------------------------------------------
(* Function bodies.                                                        *)

\* emit_drop_keep emits at most one cell, and no branch.
LEMMA DropKeepFacts ==
  ASSUME NEW drop \in Nat, NEW keep \in Nat
  PROVE  /\ emit_drop_keep(drop, keep) \in Seq(Cells)
         /\ Plain(emit_drop_keep(drop, keep))
<1> DEFINE c1 == Cell("drop", 0, 0, 0)
           c2 == Cell("drop_keep", 0, drop, keep)
<1>1. /\ emit_drop_keep(drop, keep) \in {<<>>, <<c1>>, <<c2>>}
  BY DEF emit_drop_keep
<1>2. /\ c1 \in Cells /\ c1.op = "drop"
      /\ c2 \in Cells /\ c2.op = "drop_keep"
  BY OpNames, CellFacts
<1>3. c1.op \notin BranchOps \cup {"data"} /\ c2.op \notin BranchOps \cup {"data"}
  BY <1>2, OpNames
<1> HIDE DEF c1, c2
<1>4. /\ <<>> \in Seq(Cells) /\ Plain(<<>>)
      /\ <<c1>> \in Seq(Cells) /\ Plain(<<c1>>)
      /\ <<c2>> \in Seq(Cells) /\ Plain(<<c2>>)
  BY <1>2, <1>3 DEF Plain
<1>5. QED
  BY <1>1, <1>4

\* Two emissions without a branch, one after the other.
LEMMA PlainConcat ==
  ASSUME NEW s \in Seq(Cells), Plain(s), NEW t \in Seq(Cells), Plain(t)
  PROVE  /\ s \o t \in Seq(Cells) /\ Plain(s \o t)
         /\ Len(s \o t) = Len(s) + Len(t)
<1>1. /\ s \o t \in Seq(Cells)
      /\ Len(s) \in Nat /\ Len(t) \in Nat
      /\ Len(s \o t) = Len(s) + Len(t)
      /\ \A i \in 1 .. Len(s) : (s \o t)[i] = s[i]
      /\ \A i \in 1 .. Len(t) : (s \o t)[Len(s) + i] = t[i]
  BY ConcatFacts
<1>2. ASSUME NEW k \in 1 .. Len(s \o t)
      PROVE  (s \o t)[k].op \notin BranchOps \cup {"data"}
  <2>1. CASE k \in 1 .. Len(s)
    BY <1>1, <2>1 DEF Plain
  <2>2. CASE k \notin 1 .. Len(s)
    <3>1. k - Len(s) \in 1 .. Len(t) /\ k = Len(s) + (k - Len(s))
      BY <1>1, <2>2
    <3>2. (s \o t)[k] = t[k - Len(s)]
      BY <1>1, <3>1
    <3>3. QED
      BY <3>1, <3>2 DEF Plain
  <2>3. QED
    BY <2>1, <2>2
<1>3. QED
  BY <1>1, <1>2 DEF Plain

\* The cells of a return.
LEMMA ReturnFacts ==
  ASSUME NEW ts, NEW n \in Nat, Len(ts) \in Nat,
         top_type_is_any(ts) \/ n <= Len(ts)
  PROVE  LET cells == ReturnCells(ts, n) \o <<Cell("return", 0, 0, 0)>>
         IN  cells \in Seq(Cells) /\ Plain(cells) /\ Len(cells) > 0
<1> DEFINE r == Cell("return", 0, 0, 0)
           t == <<r>>
           s == ReturnCells(ts, n)
<1>1. s \in Seq(Cells) /\ Plain(s)
  <2>1. CASE top_type_is_any(ts)
    BY <2>1 DEF ReturnCells, Plain
  <2>2. CASE ~top_type_is_any(ts)
    <3>1. Len(ts) - n \in Nat
      BY <2>2
    <3>2. QED
      BY <2>2, <3>1, DropKeepFacts DEF ReturnCells
  <2>3. QED
    BY <2>1, <2>2
<1>2. t \in Seq(Cells) /\ Plain(t) /\ Len(t) = 1
  <2>1. r \in Cells /\ r.op \notin BranchOps \cup {"data"}
    BY SMTT(30), OpNames, CellFacts
  <2> HIDE DEF r
  <2>2. QED
    BY <2>1 DEF Plain
<1> HIDE DEF s, t
<1>3. s \o t \in Seq(Cells) /\ Plain(s \o t) /\ Len(s \o t) = Len(s) + 1
  BY <1>1, <1>2, PlainConcat
<1>4. Len(s) \in Nat
  BY <1>1
<1>5. Len(s \o t) > 0
  BY <1>3, <1>4
<1>6. QED
  BY <1>3, <1>5 DEF s, t

\* What check_n_types finds is on the stack.
LEMMA CheckedLength ==
  ASSUME Body, NEW ts, Typed(ts), NEW types, Len(types) \in Nat,
         check_n_types(ts, types)
  PROVE  top_type_is_any(ts) \/ Len(types) <= Len(ts)
<1>1. Len(ts) \in Nat /\ top_label.type_stack_limit \in Nat
  BY TopLimit DEF Typed
<1>2. \/ top_type_is_any(ts)
      \/ Len(types) <= Len(ts) - top_label.type_stack_limit
  BY DEF check_n_types, check_type_stack_limit
<1>3. QED
  BY <1>1, <1>2

\* return emits cells without an offset to patch.
LEMMA ReturnKeeps ==
  ASSUME FInv, IInv, OnReturn
  PROVE  FInv'
<1> DEFINE n == Len(Funcs[current_func].results)
           cells == ReturnCells(type_stack, n) \o <<Cell("return", 0, 0, 0)>>
<1>1. InBody("return")
  BY DEF OnReturn
<1>2. \/ Failed
      \/ /\ check_n_types(type_stack, Funcs[current_func].results)
         /\ istream' = istream \o cells
         /\ UNCHANGED <<label_stack, depth_fixups, func_fixups, inFunctionVars>>
  BY DEF OnReturn, Checked, Reject, Failed, NoLabelChange, emit
<1>3. ASSUME check_n_types(type_stack, Funcs[current_func].results),
             istream' = istream \o cells,
             UNCHANGED <<label_stack, depth_fixups, func_fixups, inFunctionVars>>
      PROVE  FInv'
  <2>1. /\ current_func # 0 /\ Body /\ Typed(type_stack)
        /\ Len(label_stack) \in Nat /\ Len(type_stack) \in Nat
    BY <1>1, InBodyFacts DEF StackTypes
  <2>2. current_func \in DOMAIN Funcs
    BY <2>1, CompilerAssumption DEF IInv, StackTypes
  <2>3. n \in Nat
    BY <2>2, FuncFacts, SigFacts
  <2>4. top_type_is_any(type_stack) \/ n <= Len(type_stack)
    BY <1>3, <2>1, <2>3, CheckedLength
  <2>5. cells \in Seq(Cells) /\ Plain(cells) /\ Len(cells) > 0
    <3> HIDE DEF n
    <3>1. QED
      BY <2>1, <2>3, <2>4, ReturnFacts
  <2>6. UNCHANGED progressVars
    BY <1>3 DEF inFunctionVars, progressVars
  <2> HIDE DEF cells
  <2>7. QED
    BY <1>3, <2>1, <2>5, <2>6, SameSelf, PlainKeeps
<1>4. QED
  BY <1>2, <1>3, FailedKeeps

\* begin_function_body: the calls that waited for the function are patched.
LEMMA BeginKeeps ==
  ASSUME FInv, IInv, NEW count, BeginFunctionBody(count)
  PROVE  FInv'
<1> DEFINE f == next_func
           off == Len(istream) + 1
           P == Patched(istream, func_fixups[f], off)
<1>1. /\ status = "reading" /\ status' = "reading"
      /\ current_func = 0 /\ f \in DOMAIN Funcs
      /\ current_func' = f /\ next_func' = f + 1
      /\ func_offset' = Updated(func_offset, f, off)
      /\ istream' = P
      /\ depth_fixups' = <<>> /\ func_fixups' = func_fixups
      /\ Len(label_stack') = 1
      /\ label_stack'[1].label_type = "func"
      /\ label_stack'[1].offset = INVALID
  BY DEF BeginFunctionBody, Updated, get_istream_offset
<1>2. /\ istream \in Seq(Cells) /\ Len(istream) \in Nat
      /\ label_stack = <<>>
      /\ Owned(istream, label_stack, depth_fixups)
      /\ Linked(istream, func_offset, func_fixups)
      /\ Targets(istream, label_stack, func_offset)
      /\ BodiesRead
  BY <1>1 DEF FInv
<1>3. /\ P \in Seq(Cells) /\ Len(P) = Len(istream)
      /\ \A i \in 1 .. Len(istream) :
           /\ P[i].op = istream[i].op
           /\ P[i].target = IF i \in func_fixups[f] THEN off
                            ELSE istream[i].target
  BY <1>2, PatchedFacts
<1>4. /\ f \in Nat /\ f # 0 /\ f \in NumImports + 1 .. Len(Funcs)
      /\ NumImports \in Nat /\ Len(Funcs) \in Nat
      /\ \A g \in DOMAIN Funcs : g \in Nat
  BY SMTT(30), <1>1, <1>2, CompilerAssumption DEF BodiesRead
<1>5. func_offset[f] = INVALID
  BY <1>1, <1>2, <1>4 DEF BodiesRead
<1>6. \A c \in func_fixups[f] : c \in 1 .. Len(istream) /\ istream[c].op = "call"
  BY <1>1, <1>2 DEF Linked
<1>7. /\ func_offset'[f] = off
      /\ \A g \in DOMAIN Funcs : g # f => func_offset'[g] = func_offset[g]
  BY <1>1, <1>2 DEF Linked, Updated
<1> HIDE DEF P, f
<1>8. Owned(istream', label_stack', depth_fixups')
  <2>1. \A c \in 1 .. Len(P) : ~Dangles(P[c])
    <3>1. ASSUME NEW c \in 1 .. Len(P), Dangles(P[c]) PROVE FALSE
      <4>1. c \in 1 .. Len(istream) /\ P[c].op = istream[c].op /\ P[c].op \in LabelOps
        BY <1>3, <3>1 DEF Dangles
      <4>2. c \notin func_fixups[f]
        BY <1>6, <4>1 DEF LabelOps
      <4>3. Dangles(istream[c])
        BY <1>3, <3>1, <4>1, <4>2 DEF Dangles
      <4>4. 1 .. Len(label_stack) = {}
        BY <1>2
      <4>5. QED
        BY <1>2, <4>1, <4>3, <4>4 DEF Owned
    <3>2. QED
      BY <3>1
  <2>2. /\ depth_fixups' \in Seq(SUBSET Nat) /\ Len(depth_fixups') = 0
        /\ \A d : Fix(depth_fixups', d) = {}
    BY <1>1 DEF Fix
  <2>3. \A d \in 1 .. Len(label_stack') : Arm(label_stack', d) = {} /\ d = 1
    BY <1>1 DEF Arm
  <2>4. QED
    BY <1>1, <2>1, <2>2, <2>3 DEF Owned
<1>9. Linked(istream', func_offset', func_fixups')
  <2>1. off \in Nat /\ off # INVALID
    BY <1>2 DEF INVALID
  <2> HIDE DEF off
  <2>2. QED
    BY <1>1, <1>2, <1>5, <2>1, BeginLinked DEF P
<1>10. Targets(istream', label_stack', func_offset')
  <2>1. Grows(istream, P)
    BY <1>2, <1>3 DEF Grows
  <2>2. Leads(P, off)
    BY <1>2, <1>3 DEF Leads
  <2>3. \A c \in 1 .. Len(P) :
          P[c].op \in LabelOps /\ P[c].target # INVALID =>
             c \in 1 .. Len(istream) /\ P[c].target = istream[c].target
    BY <1>3, <1>6 DEF LabelOps
  <2>4. \A d \in 1 .. Len(label_stack') : label_stack'[d].offset = INVALID
    BY <1>1
  <2>5. \A g \in DOMAIN Funcs :
          func_offset'[g] = func_offset[g] \/ Leads(P, func_offset'[g])
    BY <1>7, <2>2
  <2>6. QED
    BY <1>1, <1>2, <1>3, <2>1, <2>3, <2>4, <2>5, TargetsKept
<1>11. InnerLabels'
  BY <1>1 DEF InnerLabels
<1>12. BodiesRead'
  <2>1. next_func' \in NumImports + 1 .. Len(Funcs) + 1 /\ next_func' # NumImports + 1
    BY <1>1, <1>4
  <2>2. ASSUME NEW g \in DOMAIN Funcs
        PROVE  /\ g >= next_func' => func_offset'[g] = INVALID
               /\ g > NumImports /\ g < next_func' => func_offset'[g] # INVALID
    <3>1. CASE g = f
      BY <1>1, <1>2, <1>4, <1>7, <3>1 DEF INVALID
    <3>2. CASE g # f
      BY <1>1, <1>2, <1>4, <1>7, <3>2 DEF BodiesRead, f
    <3>3. QED
      BY <3>1, <3>2
  <2>3. QED
    BY <1>1, <2>1, <2>2 DEF BodiesRead
<1>13. QED
  BY <1>1, <1>3, <1>4, <1>8, <1>9, <1>10, <1>11, <1>12 DEF FInv

\* What on_local_decl does to the function's label.
Raised(ls, k) == [ls EXCEPT ![1].type_stack_limit = @ + k]

\* The limit the last local declaration raises leaves the label's offset and
\* fixup_offset alone.
LEMMA LimitRaised ==
  ASSUME NEW ls \in Seq(Labels), Len(ls) > 0, NEW k \in Nat
  PROVE  SameLabels(Raised(ls, k), ls)
<1> DEFINE new == Raised(ls, k)
<1>1. Len(new) = Len(ls) /\ Len(ls) \in Nat /\ 1 \in 1 .. Len(ls)
  BY DEF Raised
<1>2. \A d \in 1 .. Len(ls) : d # 1 => new[d] = ls[d]
  BY DEF Raised
<1>3. /\ new[1].label_type = ls[1].label_type
      /\ new[1].offset = ls[1].offset
      /\ new[1].fixup_offset = ls[1].fixup_offset
  <2>1. ls[1] \in Labels
    BY <1>1
  <2>2. new[1] = [ls[1] EXCEPT !.type_stack_limit = ls[1].type_stack_limit + k]
    BY <1>1 DEF Raised
  <2>3. QED
    BY <2>1, <2>2 DEF Labels
<1> HIDE DEF new
<1>4. QED
  BY <1>1, <1>2, <1>3 DEF SameLabels, new

\* A local declaration emits at most the alloca.
LEMMA LocalDeclKeeps ==
  ASSUME FInv, IInv, NEW count \in 0 .. MaxLocals, NEW type \in Types,
         OnLocalDecl(count, type)
  PROVE  FInv'
<1>1. /\ current_func # 0 /\ UNCHANGED progressVars
      /\ UNCHANGED <<depth_fixups, func_fixups>>
      /\ local_count' = local_count + count
  BY DEF OnLocalDecl, progressVars
<1>2. /\ label_stack \in Seq(Labels) /\ Len(label_stack) > 0
      /\ Len(label_stack) \in Nat /\ local_count' \in Nat
  BY <1>1, CompilerAssumption DEF IInv, StackTypes, LabelsOrdered
<1>3. CASE decls_left = 1
  <2>0. PICK k \in Nat : k = local_count'
    BY <1>2
  <2> DEFINE c == Cell("alloca", 0, k, 0)
             cells == <<c>>
  <2>1. /\ istream' = istream \o cells
        /\ label_stack' = Raised(label_stack, k)
    BY <1>3, <2>0 DEF OnLocalDecl, emit, Raised
  <2>2. SameLabels(label_stack', label_stack)
    BY <1>2, <2>1, LimitRaised
  <2>3. c \in Cells /\ c.op \notin BranchOps \cup {"data"}
    <3>1. "alloca" \in CellOps /\ "alloca" \notin BranchOps \cup {"data"}
      BY OpNames
    <3>2. c \in Cells /\ c.op = "alloca"
      BY <3>1, CellFacts
    <3>3. QED
      BY <3>1, <3>2
  <2> HIDE DEF c
  <2>4. cells \in Seq(Cells) /\ Plain(cells) /\ Len(cells) > 0
    BY <2>3 DEF Plain
  <2> HIDE DEF cells
  <2>5. QED
    BY <1>1, <1>2, <2>1, <2>2, <2>4, PlainKeeps
<1>4. CASE decls_left # 1
  <2>1. UNCHANGED <<istream, label_stack>>
    BY <1>4 DEF OnLocalDecl
  <2>2. InnerLabels' /\ (BodiesRead => BodiesRead')
    BY <1>1, <2>1 DEF FInv, InnerLabels, BodiesRead, progressVars
  <2>3. QED
    BY <1>1, <2>1, <2>2 DEF FInv, progressVars
<1>5. QED
  BY <1>3, <1>4

\* The type stack that end_function_body returns from holds the results.
LEMMA ImplicitReturn ==
  ASSUME Body, Typed(type_stack), Above(type_stack),
         check_n_types(type_stack, top_label.sig)
  PROVE  /\ Len(ImplicitReturnTypes) \in Nat /\ Len(top_label.sig) \in Nat
         /\ \/ top_type_is_any(ImplicitReturnTypes)
            \/ Len(top_label.sig) <= Len(ImplicitReturnTypes)
<1>1. top_label.sig \in Seq(Types) /\ Len(top_label.sig) \in Nat
  BY TopLimit, SigFacts
<1>2. CASE top_type_is_any(type_stack)
  <2> DEFINE r == reset_type_stack_to_limit(type_stack)
  <2>1. Typed(r)
    BY ResetTyped
  <2>2. r \in Seq(Types \cup {ANY}) /\ top_label.sig \in Seq(Types \cup {ANY})
    BY <1>1, <2>1 DEF Typed
  <2> HIDE DEF r
  <2>3. Len(r \o top_label.sig) = Len(r) + Len(top_label.sig) /\ Len(r) \in Nat
    BY <2>2, ConcatFacts
  <2>4. ImplicitReturnTypes = r \o top_label.sig
    BY <1>2 DEF ImplicitReturnTypes, r
  <2>5. QED
    BY <1>1, <2>3, <2>4
<1>3. CASE ~top_type_is_any(type_stack)
  <2>1. ImplicitReturnTypes = type_stack
    BY <1>3 DEF ImplicitReturnTypes
  <2>2. Len(type_stack) \in Nat
    BY DEF Typed
  <2>3. QED
    BY <1>1, <1>3, <2>1, <2>2, CheckedLength
<1>4. QED
  BY <1>2, <1>3

\* Concatenation is associative.
LEMMA ConcatAssoc ==
  ASSUME NEW S, NEW s \in Seq(S), NEW t \in Seq(S), NEW u \in Seq(S)
  PROVE  (s \o t) \o u = s \o (t \o u)
OBVIOUS

\* The recorded cells of the top label.
LEMMA TopFixupsFacts ==
  ASSUME FInv, label_stack \in Seq(Labels), Len(label_stack) > 0
  PROVE  TopFixups = Fix(depth_fixups, Len(label_stack))
<1>1. /\ Len(depth_fixups) \in Nat /\ Len(label_stack) \in Nat
      /\ Len(depth_fixups) <= Len(label_stack)
  BY DEF FInv, Owned
<1>2. QED
  BY <1>1 DEF TopFixups, Fix

\* end_function_body: the branches to the function label lead to the return
\* it emits, so that nothing leads past the end any more.
LEMMA EndFunctionKeeps ==
  ASSUME FInv, IInv, EndFunctionBody
  PROVE  FInv'
<1> DEFINE ok == /\ top_label.label_type = "func"
                 /\ EndChecks(type_stack, top_label)
<1>1. CASE ~ok
  BY <1>1, RejectKeeps DEF EndFunctionBody, Checked
<1>2. CASE ok
  <2> DEFINE n == Len(istream)
             S == TopFixups
             P == Patched(istream, S, n + 1)
             R == ReturnCells(ImplicitReturnTypes, Len(top_label.sig))
             r == <<Cell("return", 0, 0, 0)>>
             cells == R \o r
             full == P \o cells
  <2>1. /\ status = "reading" /\ current_func # 0 /\ decls_left = 0
        /\ istream' = (P \o R) \o r
        /\ label_stack' = Truncate(label_stack, Len(label_stack) - 1)
        /\ depth_fixups' = IF Len(depth_fixups) > Len(label_stack) - 1
                           THEN Truncate(depth_fixups, Len(label_stack) - 1)
                           ELSE depth_fixups
        /\ current_func' = 0
        /\ UNCHANGED <<func_offset, func_fixups, next_func, status>>
    BY <1>2 DEF EndFunctionBody, Checked, PatchAndPopLabel, get_istream_offset
  <2>2. /\ istream \in Seq(Cells) /\ n \in Nat
        /\ Owned(istream, label_stack, depth_fixups)
        /\ Linked(istream, func_offset, func_fixups)
        /\ Targets(istream, label_stack, func_offset)
        /\ InnerLabels /\ BodiesRead
    BY <2>1 DEF FInv
  <2>3. /\ label_stack \in Seq(Labels) /\ Len(label_stack) > 0
        /\ Body /\ Typed(type_stack) /\ Above(type_stack)
    BY <2>1 DEF IInv, Body, StackTypes, LabelsOrdered
  <2>4. Len(label_stack) = 1
    <3>1. Len(label_stack) \in Nat /\ Len(label_stack) > 0
      BY <2>3
    <3>2. Len(label_stack) # 1 => Len(label_stack) \in 2 .. Len(label_stack)
      BY <3>1
    <3>3. QED
      BY <1>2, <2>2, <3>2 DEF InnerLabels, top_label
  <2>5. label_stack' = <<>> /\ Len(label_stack') = 0
    BY <2>1, <2>3, <2>4 DEF Truncate
  <2>6. Len(depth_fixups') = 0 /\ depth_fixups' \in Seq(SUBSET Nat)
    <3>1. depth_fixups \in Seq(SUBSET Nat) /\ Len(depth_fixups) \in Nat
      BY <2>2 DEF Owned
    <3>2. QED
      BY <2>1, <2>4, <3>1, TruncateFacts
  <2>7. S = Fix(depth_fixups, 1) /\ Arm(label_stack, 1) = {}
    <3>1. S = Fix(depth_fixups, 1)
      BY <2>3, <2>4, TopFixupsFacts
    <3>2. QED
      BY <1>2, <2>4, <3>1 DEF Arm, top_label
  <2>8. \A c \in S : c \in 1 .. n /\ istream[c].op \in LabelOps
    BY <2>2, <2>4, <2>7 DEF Owned, Dangles
  <2>9. \A c \in 1 .. n : Dangles(istream[c]) => c \in S
    BY <2>2, <2>4, <2>7 DEF Owned
  <2>10. cells \in Seq(Cells) /\ Plain(cells) /\ Len(cells) > 0
    <3>1. check_n_types(type_stack, top_label.sig)
      BY <1>2 DEF EndChecks
    <3>2. QED
      BY <2>3, <3>1, ImplicitReturn, ReturnFacts
  <2>11. R \in Seq(Cells) /\ r \in Seq(Cells)
    <3>1. /\ Len(top_label.sig) \in Nat /\ Len(ImplicitReturnTypes) \in Nat
          /\ \/ top_type_is_any(ImplicitReturnTypes)
             \/ Len(top_label.sig) <= Len(ImplicitReturnTypes)
      BY <1>2, <2>3, ImplicitReturn DEF EndChecks
    <3>2. R \in Seq(Cells)
      <4>1. CASE top_type_is_any(ImplicitReturnTypes)
        BY <4>1 DEF ReturnCells
      <4>2. CASE ~top_type_is_any(ImplicitReturnTypes)
        <5>1. Len(ImplicitReturnTypes) - Len(top_label.sig) \in Nat
          BY <3>1, <4>2
        <5>2. QED
          BY <3>1, <4>2, <5>1, DropKeepFacts DEF ReturnCells
      <4>3. QED
        BY <4>1, <4>2
    <3>3. Cell("return", 0, 0, 0) \in Cells
      BY OpNames, CellFacts
    <3>4. QED
      BY <3>2, <3>3
  <2> HIDE DEF R, r, S, n
  <2>12. /\ P \in Seq(Cells) /\ Len(P) = n
         /\ \A i \in 1 .. n :
              /\ P[i].op = istream[i].op
              /\ P[i].target = IF i \in S THEN n + 1 ELSE istream[i].target
    BY <2>2, PatchedFacts DEF n
  <2>13. Linked(P, func_offset, func_fixups)
    BY <2>2, <2>8, PatchLinked DEF n
  <2> HIDE DEF P
  <2>14. istream' = full
    BY SMTT(30), <2>1, <2>11, <2>12, ConcatAssoc
  <2> HIDE DEF cells
  <2>15. /\ full \in Seq(Cells) /\ Len(cells) \in Nat
         /\ Len(full) = n + Len(cells)
         /\ \A i \in 1 .. n : full[i] = P[i]
         /\ \A i \in 1 .. Len(cells) : full[n + i] = cells[i]
    <3>1. /\ full \in Seq(Cells) /\ Len(full) = Len(P) + Len(cells)
          /\ \A i \in 1 .. Len(P) : full[i] = P[i]
          /\ \A i \in 1 .. Len(cells) : full[Len(P) + i] = cells[i]
      <4>1. P \in Seq(Cells) /\ cells \in Seq(Cells)
        BY <2>10, <2>12
      <4>2. QED
        BY <4>1, ConcatFacts
    <3>2. QED
      BY <2>10, <2>12, <3>1
  <2>16. \A k \in 1 .. Len(cells) :
           cells[k].op \notin LabelOps \cup {"call", "data", "entry"}
    BY <2>10 DEF Plain, BranchOps, LabelOps
  <2>17. Linked(full, func_offset, func_fixups)
    <3>1. RecordsCalls(P, cells, func_offset, func_fixups, func_fixups)
      BY <2>13, <2>16 DEF RecordsCalls, Linked
    <3>2. QED
      BY <2>10, <2>12, <2>13, <3>1, EmitLinked
  <2> HIDE DEF full
  <2>18. ASSUME NEW c \in 1 .. Len(full), full[c].op \in LabelOps
         PROVE  /\ c \in 1 .. n
                /\ \/ full[c].target = n + 1
                   \/ /\ istream[c].target # INVALID
                      /\ istream[c].op \in LabelOps
                      /\ full[c].target = istream[c].target
    <3>1. CASE c \in 1 .. n
      <4>1. /\ full[c].op = istream[c].op
            /\ full[c].target = IF c \in S THEN n + 1 ELSE istream[c].target
        BY <2>12, <2>15, <3>1
      <4>2. c \notin S => istream[c].target # INVALID
        BY <2>9, <2>18, <3>1, <4>1 DEF Dangles
      <4>3. QED
        BY <2>18, <3>1, <4>1, <4>2
    <3>2. CASE c \notin 1 .. n
      <4>1. c - n \in 1 .. Len(cells) /\ c = n + (c - n)
        BY <2>2, <2>15, <3>2
      <4>2. full[c] = cells[c - n]
        BY <2>15, <4>1
      <4>3. QED
        BY <2>16, <2>18, <4>1, <4>2
    <3>3. QED
      BY <3>1, <3>2
  <2>19. Owned(full, label_stack', depth_fixups')
    <3>1. \A c \in 1 .. Len(full) : ~Dangles(full[c])
      <4>1. n + 1 # INVALID
        BY <2>2 DEF INVALID
      <4>2. QED
        BY <2>18, <4>1 DEF Dangles
    <3>2. QED
      BY <2>5, <2>6, <3>1 DEF Owned
  <2>20. Targets(full, label_stack', func_offset)
    <3>1. Grows(istream, full)
      <4>1. full[n + 1] = cells[1] /\ 1 \in 1 .. Len(cells)
        BY <2>10, <2>15
      <4>2. full[n + 1].op \notin {"data", "entry"}
        BY <2>16, <4>1
      <4>3. n <= Len(full)
        BY <2>2, <2>15
      <4>4. \A i \in 1 .. n : full[i].op = istream[i].op
        BY <2>12, <2>15
      <4>5. QED
        BY <4>2, <4>3, <4>4 DEF Grows, n
    <3>2. Leads(full, n + 1)
      <4>1. full[n + 1] = cells[1] /\ 1 \in 1 .. Len(cells)
        BY <2>10, <2>15
      <4>2. QED
        BY <2>2, <2>10, <2>15, <2>16, <4>1 DEF Leads
    <3>3. \A c \in 1 .. Len(full) :
            full[c].op \in LabelOps /\ full[c].target # INVALID =>
              \/ c \in 1 .. Len(istream) /\ full[c].target = istream[c].target
              \/ Leads(full, full[c].target)
      BY <2>18, <3>2 DEF n
    <3>4. \A d \in 1 .. Len(label_stack') : FALSE
      BY <2>5
    <3>5. QED
      BY <2>2, <2>15, <3>1, <3>3, <3>4, TargetsKept
  <2>21. Within(full, func_offset)
    <3>1. \A t : Leads(istream, t) => t <= Len(full)
      BY <2>2, <2>10, <2>15 DEF Leads, n
    <3>2. n + 1 <= Len(full) /\ INVALID <= Len(full)
      BY <2>2, <2>10, <2>15 DEF INVALID
    <3>3. ASSUME NEW c \in 1 .. Len(full), full[c].op \in LabelOps
          PROVE  full[c].target <= Len(full)
      BY <2>2, <2>18, <3>1, <3>2, <3>3 DEF Targets, n
    <3>4. ASSUME NEW f \in DOMAIN Funcs
          PROVE  func_offset[f] <= Len(full)
      BY <2>2, <3>1, <3>2 DEF Targets
    <3>5. QED
      BY <3>3, <3>4 DEF Within
  <2>22. InnerLabels'
    BY <2>5 DEF InnerLabels
  <2>23. BodiesRead'
    BY <2>1, <2>2 DEF BodiesRead
  <2>24. QED
    BY <2>1, <2>5, <2>14, <2>15, <2>17, <2>19, <2>20, <2>21, <2>22, <2>23
       DEF FInv
<1>3. QED
  BY <1>1, <1>2

\* The end of the module changes no code.
LEMMA EndModuleKeeps ==
  ASSUME FInv, EndModule
  PROVE  FInv'
<1>1. /\ status = "reading" /\ current_func = 0
      /\ next_func \in {NumImports + 1, Len(Funcs) + 1}
      /\ UNCHANGED <<istream, label_stack, depth_fixups, func_offset,
                     func_fixups, current_func, next_func>>
  BY DEF EndModule
<1>2. BodiesRead'
  BY <1>1 DEF FInv, BodiesRead
<1>3. InnerLabels'
  BY <1>1 DEF FInv, InnerLabels
<1>4. QED
  BY <1>1, <1>2, <1>3 DEF FInv

-----------------------------------------------------------------------------
(* Blocks.                                                                 *)

\* A label that is pushed.
NewLabel(label_type, sig, limit, offset, fixup_offset) ==
  [label_type |-> label_type, sig |-> sig, type_stack_limit |-> limit,
   offset |-> offset, fixup_offset |-> fixup_offset]

\* The facts of FInv that a push does not concern.
LEMMA PushKeeps ==
  ASSUME FInv, current_func # 0, label_stack \in Seq(Labels),
         UNCHANGED <<progressVars, func_fixups>>,
         NEW l \in Labels, l.label_type # "func",
         label_stack' = Append(label_stack, l),
         istream' \in Seq(Cells), Grows(istream, istream'),
         Owned(istream', label_stack', depth_fixups'),
         Linked(istream', func_offset, func_fixups),
         \A c \in 1 .. Len(istream') :
           istream'[c].op \in LabelOps /\ istream'[c].target # INVALID =>
             c \in 1 .. Len(istream) /\ istream'[c].target = istream[c].target,
         l.offset # INVALID => Leads(istream', l.offset)
  PROVE  FInv'
<1>1. /\ istream \in Seq(Cells) /\ Targets(istream, label_stack, func_offset)
      /\ InnerLabels
  BY DEF FInv
<1>2. /\ Len(label_stack) \in Nat /\ Len(label_stack') = Len(label_stack) + 1
      /\ label_stack'[Len(label_stack) + 1] = l
      /\ \A d \in 1 .. Len(label_stack) : label_stack'[d] = label_stack[d]
  OBVIOUS
<1>3. Targets(istream', label_stack', func_offset)
  <2>1. \A d \in 1 .. Len(label_stack') : label_stack'[d].offset # INVALID =>
          \/ /\ d \in 1 .. Len(label_stack)
             /\ label_stack'[d].offset = label_stack[d].offset
          \/ Leads(istream', label_stack'[d].offset)
    <3>1. \A d \in 1 .. Len(label_stack') :
            d \in 1 .. Len(label_stack) \/ d = Len(label_stack) + 1
      BY <1>2
    <3>2. QED
      BY <1>2, <3>1
  <2>2. QED
    BY <1>1, <2>1, TargetsKept
<1>4. InnerLabels'
  <2>1. \A d \in 2 .. Len(label_stack') :
          d \in 2 .. Len(label_stack) \/ d = Len(label_stack) + 1
    BY <1>2
  <2>2. \A d \in 2 .. Len(label_stack) : label_stack'[d] = label_stack[d]
    BY <1>2
  <2>3. QED
    BY <1>1, <1>2, <2>1, <2>2 DEF InnerLabels
<1>5. current_func' # 0 /\ (status' \in {"reading", "loaded"} => BodiesRead')
  BY BodiesReadKept DEF progressVars
<1>6. QED
  BY <1>3, <1>4, <1>5 DEF FInv, progressVars

\* A block or loop opens a label that no cell refers to yet.
LEMMA BlockKeeps ==
  ASSUME FInv, IInv, NEW sig \in Sigs, OnBlock(sig) \/ OnLoop(sig)
  PROVE  FInv'
<1>1. PICK callback : InBody(callback)
  BY DEF OnBlock, OnLoop
<1>2. PICK ty \in {"block", "loop"}, off \in {INVALID, Len(istream) + 1} :
        /\ label_stack' = Append(label_stack,
                            NewLabel(ty, sig, Len(type_stack), off, INVALID))
        /\ UNCHANGED <<istream, depth_fixups, func_fixups, inFunctionVars>>
  BY DEF OnBlock, OnLoop, push_label, NewLabel, get_istream_offset
<1> DEFINE l == NewLabel(ty, sig, Len(type_stack), off, INVALID)
<1>3. /\ current_func # 0 /\ label_stack \in Seq(Labels)
      /\ Len(type_stack) \in Nat
  BY <1>1, InBodyFacts DEF StackTypes
<1>4. istream \in Seq(Cells) /\ Len(istream) \in Nat /\ off \in Nat /\ INVALID \in Nat
  BY DEF FInv, INVALID
<1>5. l \in Labels /\ l.label_type = ty /\ l.offset = off
  <2>1. ty \in {"block", "loop", "if"}
    OBVIOUS
  <2>2. QED
    BY <1>3, <1>4, <2>1 DEF NewLabel, Labels
<1> HIDE DEF l
<1>6. label_stack' = Append(label_stack, l) /\ l.label_type \notin {"if", "else", "func"}
  BY <1>2, <1>5 DEF l
<1>7. Owned(istream, Append(label_stack, l), depth_fixups)
  BY <1>3, <1>5, <1>6, PushOwned DEF FInv
<1>8. Grows(istream, istream)
  BY <1>4 DEF Grows
<1>9. off # INVALID => Leads(istream, off)
  BY <1>4 DEF Leads
<1>10. UNCHANGED <<progressVars, func_fixups>> /\ UNCHANGED <<istream, depth_fixups>>
  BY <1>2 DEF inFunctionVars, progressVars
<1>11. Linked(istream, func_offset, func_fixups)
  BY DEF FInv
<1>12. QED
  BY <1>3, <1>4, <1>5, <1>6, <1>7, <1>8, <1>9, <1>10, <1>11, PushKeeps

\* An if opens a label whose fixup_offset is the br_unless it emits.
LEMMA IfKeeps ==
  ASSUME FInv, IInv, NEW sig \in Sigs, OnIf(sig)
  PROVE  FInv'
<1> DEFINE c == Cell("br_unless", INVALID, 0, 0)
           cells == <<c>>
           l == NewLabel("if", sig, Len(type_stack'), INVALID, Len(istream) + 1)
<1>1. InBody("if")
  BY DEF OnIf
<1>2. \/ Failed
      \/ /\ pop_and_check(type_stack, <<"i32">>)
         /\ type_stack' = pop_types(type_stack, 1)
         /\ istream' = istream \o cells
         /\ label_stack' = Append(label_stack, l)
         /\ UNCHANGED <<depth_fixups, func_fixups, inFunctionVars>>
  BY DEF OnIf, Checked, Reject, Failed, push_label, NewLabel, emit,
         get_istream_offset
<1>3. ASSUME /\ pop_and_check(type_stack, <<"i32">>)
             /\ type_stack' = pop_types(type_stack, 1)
             /\ istream' = istream \o cells
             /\ label_stack' = Append(label_stack, l)
             /\ UNCHANGED <<depth_fixups, func_fixups, inFunctionVars>>
      PROVE  FInv'
  <2>1. current_func # 0 /\ label_stack \in Seq(Labels) /\ Len(type_stack') \in Nat
    <3>1. Typed(type_stack')
      BY <1>1, <1>3, InBodyFacts, PopOneTyped
    <3>2. QED
      BY <1>1, <3>1, InBodyFacts DEF StackTypes, Typed
  <2>2. istream \in Seq(Cells) /\ Len(istream) \in Nat /\ INVALID \in Nat
    BY DEF FInv, INVALID
  <2>3. c \in Cells /\ c.op = "br_unless" /\ c.target = INVALID
    <3>1. "br_unless" \in CellOps
      BY DEF CellOps, BranchOps
    <3>2. QED
      BY <2>2, <3>1, CellFacts
  <2>4. /\ l \in Labels /\ l.label_type = "if" /\ l.offset = INVALID
        /\ l.fixup_offset = Len(istream) + 1
    <3>1. Len(istream) + 1 \in Nat
      BY <2>2
    <3>2. QED
      BY <2>1, <2>2, <3>1 DEF NewLabel, Labels
  <2> HIDE DEF l, c
  <2>5. /\ istream \o cells = Append(istream, c)
        /\ cells \in Seq(Cells) /\ Len(cells) = 1 /\ cells[1] = c
    BY <2>2, <2>3
  <2> HIDE DEF cells
  <2>6. /\ istream \o cells \in Seq(Cells)
        /\ Len(istream \o cells) = Len(istream) + 1
        /\ \A i \in 1 .. Len(istream) : (istream \o cells)[i] = istream[i]
        /\ (istream \o cells)[Len(istream) + 1] = c
    <3>1. /\ istream \o cells \in Seq(Cells)
          /\ Len(istream \o cells) = Len(istream) + Len(cells)
          /\ \A i \in 1 .. Len(istream) : (istream \o cells)[i] = istream[i]
          /\ \A i \in 1 .. Len(cells) : (istream \o cells)[Len(istream) + i] = cells[i]
      BY <2>2, <2>5, ConcatFacts
    <3>2. QED
      BY <2>5, <3>1
  <2>7. Dangles(c)
    BY <2>3 DEF Dangles, LabelOps
  <2>8. Owned(istream', label_stack', depth_fixups')
    <3>1. Owned(istream, label_stack, depth_fixups)
      BY DEF FInv
    <3>2. Owned(Append(istream, c), Append(label_stack, l), depth_fixups)
      BY <2>1, <2>2, <2>3, <2>4, <2>7, <3>1, PushArmOwned
    <3>3. QED
      BY <1>3, <2>5, <3>2
  <2>9. Linked(istream', func_offset, func_fixups)
    <3>1. Linked(istream, func_offset, func_fixups)
      BY DEF FInv
    <3>2. RecordsCalls(istream, cells, func_offset, func_fixups, func_fixups)
      BY <2>3, <2>5, <3>1 DEF RecordsCalls, Linked
    <3>3. QED
      BY <1>3, <2>2, <2>5, <3>1, <3>2, EmitLinked
  <2>10. Grows(istream, istream')
    BY <1>3, <2>2, <2>3, <2>6 DEF Grows
  <2>11. \A i \in 1 .. Len(istream') :
           istream'[i].op \in LabelOps /\ istream'[i].target # INVALID =>
             i \in 1 .. Len(istream) /\ istream'[i].target = istream[i].target
    <3>1. \A i \in 1 .. Len(istream') :
            i \in 1 .. Len(istream) \/ i = Len(istream) + 1
      BY <1>3, <2>2, <2>6
    <3>2. QED
      BY <1>3, <2>3, <2>6, <3>1
  <2>12. UNCHANGED <<progressVars, func_fixups>> /\ istream' \in Seq(Cells)
    BY <1>3, <2>6 DEF inFunctionVars, progressVars
  <2>13. QED
    BY <1>3, <2>1, <2>4, <2>8, <2>9, <2>10, <2>11, <2>12, PushKeeps
<1>4. QED
  BY <1>2, <1>3, FailedKeeps

\* An if label turned into an else label.
ElseLabels(ls, m, off) ==
  [ls EXCEPT ![m].label_type = "else", ![m].fixup_offset = off]

\* What on_else_expr changes in the label stack: the kind and the fixup_offset
\* of the top label.
LEMMA ElseLabelsFacts ==
  ASSUME NEW ls \in Seq(Labels), NEW m \in Nat, m = Len(ls), m > 0,
         NEW off \in Nat
  PROVE  /\ Len(ElseLabels(ls, m, off)) = m
         /\ \A d \in 1 .. m - 1 : ElseLabels(ls, m, off)[d] = ls[d]
         /\ ElseLabels(ls, m, off)[m].label_type = "else"
         /\ ElseLabels(ls, m, off)[m].fixup_offset = off
         /\ ElseLabels(ls, m, off)[m].offset = ls[m].offset
<1> DEFINE new == ElseLabels(ls, m, off)
<1>1. m \in 1 .. m /\ ls[m] \in Labels
  OBVIOUS
<1>2. /\ Len(new) = m
      /\ \A d \in 1 .. m - 1 : new[d] = ls[d]
      /\ new[m] = [ls[m] EXCEPT !.label_type = "else", !.fixup_offset = off]
  <2> DEFINE l == [ls[m] EXCEPT !.label_type = "else", !.fixup_offset = off]
  <2>1. new = [ls EXCEPT ![m] = l]
    BY DEF ElseLabels
  <2>2. l \in Labels
    BY <1>1, ElseExcept
  <2> HIDE DEF l, new
  <2>3. /\ Len(new) = m
        /\ \A d \in 1 .. m - 1 : new[d] = ls[d]
        /\ new[m] = l
    BY <1>1, <2>1, <2>2
  <2>4. QED
    BY <2>3 DEF l
<1> HIDE DEF new
<1>3. /\ new[m].label_type = "else"
      /\ new[m].fixup_offset = off
      /\ new[m].offset = ls[m].offset
  BY <1>1, <1>2 DEF Labels
<1>4. QED
  BY <1>2, <1>3 DEF new

\* on_else: the branch around the true arm leads behind the one emitted here.
LEMMA ElseKeeps ==
  ASSUME FInv, IInv, OnElse
  PROVE  FInv'
<1> DEFINE ok == /\ top_label.label_type = "if"
                 /\ check_n_types(type_stack, top_label.sig)
<1>1. InBody("else")
  BY DEF OnElse
<1>2. CASE ~ok
  BY <1>2, RejectKeeps DEF OnElse, Checked
<1>3. CASE ok
  <2> DEFINE n == Len(istream)
             m == Len(label_stack)
             arm == top_label.fixup_offset
             c == Cell("br", INVALID, 0, 0)
             cells == <<c>>
             P == Patched(istream, {arm}, n + 2)
             full == P \o cells
             new == ElseLabels(label_stack, m, n + 1)
  <2>1. /\ istream' = Patched(istream, {arm}, n + 1 + 1) \o cells
        /\ label_stack' = new
        /\ UNCHANGED <<depth_fixups, func_fixups, inFunctionVars>>
    BY <1>3 DEF OnElse, Checked, get_istream_offset, ElseLabels
  <2>2. /\ istream \in Seq(Cells) /\ n \in Nat
        /\ Owned(istream, label_stack, depth_fixups)
        /\ Linked(istream, func_offset, func_fixups)
        /\ Targets(istream, label_stack, func_offset)
        /\ InnerLabels
    BY DEF FInv
  <2>3. istream' = full /\ UNCHANGED <<progressVars, func_fixups>>
    <3>1. n + 1 + 1 = n + 2
      BY <2>2
    <3>2. QED
      BY <2>1, <3>1 DEF inFunctionVars, progressVars
  <2>4. /\ label_stack \in Seq(Labels) /\ m \in Nat /\ m > 0
        /\ label_stack[m] = top_label /\ current_func # 0
    BY <1>1, InBodyFacts DEF Body, StackTypes, LabelsOrdered, top_label
  <2>5. c \in Cells /\ c.op = "br" /\ c.target = INVALID
    <3>1. "br" \in CellOps /\ INVALID \in Nat
      BY DEF CellOps, BranchOps, INVALID
    <3>2. QED
      BY <3>1, CellFacts
  <2>6. Dangles(c)
    BY <2>5 DEF Dangles, LabelOps
  <2>7. /\ Len(new) = m
        /\ \A d \in 1 .. m - 1 : new[d] = label_stack[d]
        /\ new[m].label_type = "else"
        /\ new[m].fixup_offset = n + 1
        /\ new[m].offset = label_stack[m].offset
    <3>1. n + 1 \in Nat
      BY <2>2
    <3> HIDE DEF n
    <3>2. QED
      BY <2>4, <3>1, ElseLabelsFacts
  <2> HIDE DEF c, new, arm
  <2>8. Arm(label_stack, m) = {arm}
    BY <1>3, <2>4 DEF Arm, arm
  <2>9. Arm(new, m) = {n + 1} /\ \A d \in 1 .. m - 1 : Arm(new, d) = Arm(label_stack, d)
    BY <2>7 DEF Arm
  <2>10. n + 2 \in Nat /\ n + 2 # INVALID
    BY <2>2 DEF INVALID
  <2>11. Owned(full, new, depth_fixups)
    BY ZenonT(30), <2>2, <2>4, <2>5, <2>6, <2>7, <2>8, <2>9, <2>10, ElseOwned
  <2>12. /\ P \in Seq(Cells) /\ Len(P) = n
         /\ \A i \in 1 .. n :
              /\ P[i].op = istream[i].op
              /\ P[i].target = IF i \in {arm} THEN n + 2 ELSE istream[i].target
    BY <2>2, <2>10, PatchedFacts
  <2>13. arm \in 1 .. n /\ istream[arm].op \in LabelOps
    <3>1. m \in 1 .. m
      BY <2>4
    <3>2. QED
      BY <2>2, <2>8, <3>1 DEF Owned, Dangles
  <2>14. Linked(P, func_offset, func_fixups)
    BY <2>2, <2>10, <2>13, PatchLinked
  <2>15. cells \in Seq(Cells) /\ Len(cells) = 1 /\ cells[1] = c
    BY <2>5
  <2> HIDE DEF cells, P
  <2>16. /\ full \in Seq(Cells) /\ Len(full) = n + 1
         /\ \A i \in 1 .. n : full[i] = P[i]
         /\ full[n + 1] = c
    <3>1. /\ full \in Seq(Cells) /\ Len(full) = Len(P) + Len(cells)
          /\ \A i \in 1 .. Len(P) : full[i] = P[i]
          /\ \A i \in 1 .. Len(cells) : full[Len(P) + i] = cells[i]
      <4>1. P \in Seq(Cells) /\ cells \in Seq(Cells)
        BY <2>12, <2>15
      <4>2. QED
        BY <4>1, ConcatFacts
    <3>2. QED
      BY <2>12, <2>15, <3>1
  <2>17. Linked(full, func_offset, func_fixups)
    <3>1. RecordsCalls(P, cells, func_offset, func_fixups, func_fixups)
      BY <2>5, <2>14, <2>15 DEF RecordsCalls, Linked
    <3>2. QED
      BY <2>12, <2>14, <2>15, <3>1, EmitLinked
  <2> HIDE DEF full
  <2>18. Targets(full, new, func_offset)
    <3>1. Grows(istream, full)
      <4>1. n <= Len(full) /\ full[n + 1].op \notin {"data", "entry"}
        BY <2>2, <2>5, <2>16
      <4>2. \A i \in 1 .. n : full[i].op = istream[i].op
        BY <2>12, <2>16
      <4>3. QED
        BY <4>1, <4>2 DEF Grows
    <3>2. Leads(full, n + 2)
      BY <2>2, <2>16 DEF Leads
    <3>3. ASSUME NEW i \in 1 .. Len(full),
                 full[i].op \in LabelOps, full[i].target # INVALID
          PROVE  \/ i \in 1 .. n /\ full[i].target = istream[i].target
                 \/ Leads(full, full[i].target)
      <4>1. i \in 1 .. n \/ i = n + 1
        BY <2>2, <2>16
      <4>2. CASE i = n + 1
        BY <2>5, <2>16, <3>3, <4>2
      <4>3. CASE i \in 1 .. n
        BY <2>12, <2>16, <3>2, <4>3
      <4>4. QED
        BY <4>1, <4>2, <4>3
    <3>4. \A d \in 1 .. Len(new) :
            d \in 1 .. Len(label_stack) /\ new[d].offset = label_stack[d].offset
      <4>1. \A d \in 1 .. Len(new) : d \in 1 .. m /\ (d \in 1 .. m - 1 \/ d = m)
        BY <2>4, <2>7
      <4>2. QED
        BY <2>7, <4>1
    <3>5. QED
      BY <2>2, <2>16, <3>1, <3>3, <3>4, TargetsKept
  <2>19. InnerLabels'
    <3>1. \A d \in 2 .. Len(new) : d \in 2 .. m /\ (d \in 1 .. m - 1 \/ d = m)
      BY <2>4, <2>7
    <3>2. QED
      BY <2>1, <2>2, <2>7, <3>1 DEF InnerLabels
  <2>20. current_func' # 0 /\ (status' \in {"reading", "loaded"} => BodiesRead')
    BY <2>3, <2>4, BodiesReadKept DEF progressVars
  <2>21. QED
    BY <2>1, <2>3, <2>11, <2>16, <2>17, <2>18, <2>19, <2>20 DEF FInv, progressVars
<1>4. QED
  BY <1>2, <1>3

\* on_end: every branch to the label leads to what is emitted next.
LEMMA EndKeeps ==
  ASSUME FInv, IInv, OnEnd
  PROVE  FInv'
<1> DEFINE ok == /\ top_label.label_type # "func"
                 /\ EndChecks(type_stack, top_label)
<1>1. InBody("end")
  BY DEF OnEnd
<1>2. CASE ~ok
  BY <1>2, RejectKeeps DEF OnEnd, Checked
<1>3. CASE ok
  <2> DEFINE n == Len(istream)
             k == Len(label_stack)
             m == k - 1
             S == TopFixups \cup Arm(label_stack, k)
             P == Patched(istream, S, n + 1)
  <2>1. /\ istream' = P
        /\ label_stack' = Truncate(label_stack, m)
        /\ depth_fixups' = IF Len(depth_fixups) > m
                           THEN Truncate(depth_fixups, m) ELSE depth_fixups
        /\ UNCHANGED <<func_fixups, inFunctionVars>>
    BY <1>3 DEF OnEnd, Checked, PatchAndPopLabel, get_istream_offset, Arm,
                top_label
  <2>2. /\ istream \in Seq(Cells) /\ n \in Nat
        /\ Owned(istream, label_stack, depth_fixups)
        /\ Linked(istream, func_offset, func_fixups)
        /\ Targets(istream, label_stack, func_offset)
        /\ InnerLabels
    BY DEF FInv
  <2>3. UNCHANGED <<progressVars, func_fixups>>
    BY <2>1 DEF inFunctionVars, progressVars
  <2>4. /\ label_stack \in Seq(Labels) /\ k \in Nat /\ k > 0
        /\ current_func # 0
    BY <1>1, InBodyFacts DEF Body, StackTypes, LabelsOrdered
  <2>5. m \in Nat /\ k = m + 1 /\ m \in 0 .. k
    BY <2>4
  <2>6. S = Fix(depth_fixups, k) \cup Arm(label_stack, k)
    BY <2>4, TopFixupsFacts
  <2> HIDE DEF S, m
  <2>7. /\ Len(label_stack') = m
        /\ \A d \in 1 .. m : label_stack'[d] = label_stack[d]
    BY <2>1, <2>4, <2>5, TruncateFacts
  <2>8. /\ depth_fixups' \in Seq(SUBSET Nat) /\ Len(depth_fixups') <= m
        /\ \A d \in 1 .. m : Fix(depth_fixups', d) = Fix(depth_fixups, d)
    <3>1. depth_fixups \in Seq(SUBSET Nat) /\ Len(depth_fixups) \in Nat
      BY <2>2 DEF Owned
    <3>2. CASE Len(depth_fixups) > m
      <4>1. m \in 0 .. Len(depth_fixups)
        BY <2>5, <3>1, <3>2
      <4>2. /\ depth_fixups' \in Seq(SUBSET Nat) /\ Len(depth_fixups') = m
            /\ \A d \in 1 .. m : depth_fixups'[d] = depth_fixups[d]
        BY <2>1, <3>1, <3>2, <4>1, TruncateFacts
      <4>3. QED
        BY <2>5, <3>1, <3>2, <4>2 DEF Fix
    <3>3. CASE ~(Len(depth_fixups) > m)
      BY <2>1, <2>5, <3>1, <3>3
    <3>4. QED
      BY <3>2, <3>3
  <2>9. n + 1 \in Nat /\ n + 1 # INVALID
    BY <2>2 DEF INVALID
  <2>10. Owned(P, label_stack', depth_fixups')
    <3>1. Len(label_stack) = m + 1 /\ S = Fix(depth_fixups, m + 1) \cup Arm(label_stack, m + 1)
      BY <2>5, <2>6
    <3>2. QED
      BY <2>2, <2>5, <2>7, <2>8, <2>9, <3>1, PopOwned
  <2>11. \A c \in S : c \in 1 .. n /\ istream[c].op \in LabelOps
    <3>1. k \in 1 .. k
      BY <2>4
    <3>2. QED
      BY <2>2, <2>6, <3>1 DEF Owned, Dangles
  <2>12. Linked(P, func_offset, func_fixups)
    BY <2>2, <2>9, <2>11, PatchLinked
  <2>13. /\ P \in Seq(Cells) /\ Len(P) = n
         /\ \A i \in 1 .. n :
              /\ P[i].op = istream[i].op
              /\ P[i].target = IF i \in S THEN n + 1 ELSE istream[i].target
    BY <2>2, <2>9, PatchedFacts
  <2> HIDE DEF P
  <2>14. Targets(P, label_stack', func_offset)
    <3>1. Grows(istream, P)
      BY <2>2, <2>13 DEF Grows
    <3>2. Leads(P, n + 1)
      BY <2>2, <2>13 DEF Leads
    <3>3. \A i \in 1 .. Len(P) :
            P[i].op \in LabelOps /\ P[i].target # INVALID =>
              \/ i \in 1 .. n /\ P[i].target = istream[i].target
              \/ Leads(P, P[i].target)
      BY <2>13, <3>2
    <3>4. \A d \in 1 .. Len(label_stack') :
            /\ d \in 1 .. Len(label_stack)
            /\ label_stack'[d].offset = label_stack[d].offset
      BY <2>5, <2>7
    <3>5. QED
      BY <2>2, <2>13, <3>1, <3>3, <3>4, TargetsKept
  <2>15. InnerLabels'
    <3>1. \A d \in 2 .. Len(label_stack') : d \in 2 .. k /\ d \in 1 .. m
      BY <2>5, <2>7
    <3>2. QED
      BY <2>2, <2>7, <3>1 DEF InnerLabels
  <2>16. current_func' # 0 /\ (status' \in {"reading", "loaded"} => BodiesRead')
    BY <2>3, <2>4, BodiesReadKept DEF progressVars
  <2>17. QED
    BY <2>1, <2>3, <2>10, <2>12, <2>13, <2>14, <2>15, <2>16 DEF FInv, progressVars
<1>4. QED
  BY <1>2, <1>3

-----------------------------------------------------------------------------
(* Branches and calls.                                                     *)

\* Cells before a branch: none dangles, and none is a call or table data.
Quiet(full, pre) ==
  \A k \in 1 .. Len(pre) :
    /\ pre[k].op \notin {"call", "data", "entry"}
    /\ pre[k].op \in LabelOps => /\ pre[k].target # INVALID
                                 /\ Leads(full, pre[k].target)

\* A callback that emits a branch to label d, recorded if the label has no
\* offset yet.
LEMMA BranchKeeps ==
  ASSUME FInv, current_func # 0, label_stack \in Seq(Labels),
         UNCHANGED <<progressVars, label_stack, func_fixups>>,
         NEW d \in 1 .. Len(label_stack), NEW pre \in Seq(Cells), NEW cells,
         cells = pre \o <<Cell("br", label_stack[d].offset, 0, 0)>>,
         istream' = istream \o cells,
         Quiet(istream \o cells, pre),
         depth_fixups' =
           append_fixup(depth_fixups, BranchRefs(d, Len(istream')))
  PROVE  FInv'
<1> DEFINE off == label_stack[d].offset
           c == Cell("br", off, 0, 0)
           n == Len(istream)
           p == Len(pre)
           full == istream \o cells
           refs == BranchRefs(d, Len(istream'))
<1>1. /\ istream \in Seq(Cells) /\ n \in Nat /\ p \in Nat
      /\ Len(label_stack) \in Nat
      /\ Linked(istream, func_offset, func_fixups)
      /\ Targets(istream, label_stack, func_offset)
  BY DEF FInv
<1>2. off \in Nat
  <2>1. label_stack[d] \in Labels
    OBVIOUS
  <2>2. QED
    BY <2>1 DEF Labels
<1> HIDE DEF off
<1>3. c \in Cells /\ c.op = "br" /\ c.target = off
  <2>1. "br" \in CellOps
    BY DEF CellOps, BranchOps
  <2>2. QED
    BY <1>2, <2>1 DEF Cell, Cells
<1>4. cells = pre \o <<c>>
  BY DEF off
<1> HIDE DEF c
<1>5. /\ cells \in Seq(Cells) /\ Len(cells) = p + 1
      /\ \A k \in 1 .. p : cells[k] = pre[k]
      /\ cells[p + 1] = c
  BY <1>1, <1>3, <1>4
<1>6. \A k \in 1 .. Len(cells) : k \in 1 .. p \/ k = p + 1
  BY <1>1, <1>5
<1>7. Len(istream') = n + p + 1 /\ full \in Seq(Cells)
  BY <1>1, <1>5, ConcatFacts
<1>8. Grows(istream, full)
  <2>1. /\ Len(full) = n + Len(cells)
        /\ \A i \in 1 .. n : full[i] = istream[i]
        /\ \A i \in 1 .. Len(cells) : full[n + i] = cells[i]
    BY <1>1, <1>5, ConcatFacts
  <2>2. cells[1].op \notin {"data", "entry"} /\ 1 \in 1 .. Len(cells)
    BY <1>1, <1>3, <1>5, <1>6 DEF Quiet
  <2>3. QED
    BY <1>1, <1>5, <2>1, <2>2 DEF Grows
<1> HIDE DEF n, p
<1>9. Records(istream, cells, label_stack, refs)
  <2>1. CASE off = INVALID
    <3>1. \A r \in refs : r[1] = d /\ r[2] = n + p + 1
      BY <1>7, <2>1 DEF BranchRefs, off
    <3>2. \E r \in refs : r[2] = n + p + 1
      BY <1>7, <2>1 DEF BranchRefs, off
    <3>3. Dangles(c)
      BY <1>3, <2>1 DEF Dangles, LabelOps
    <3>4. n + p + 1 - n = p + 1 /\ n + (p + 1) = n + p + 1 /\ n + p + 1 \in Nat
      BY <1>1
    <3>5. p + 1 \in 1 .. Len(cells)
      BY <1>1, <1>5
    <3>6. \A k \in 1 .. p : ~Dangles(cells[k])
      BY <1>5 DEF Quiet, Dangles, p
    <3> HIDE DEF refs
    <3>7. \A r \in refs : /\ r[1] \in 1 .. Len(label_stack)
                          /\ r[2] - n \in 1 .. Len(cells)
                          /\ r[2] \in Nat
                          /\ Dangles(cells[r[2] - n])
      <4>1. ASSUME NEW r \in refs
            PROVE  r[1] = d /\ r[2] - n = p + 1 /\ r[2] \in Nat
        <5>1. r[1] = d /\ r[2] = n + p + 1
          BY <3>1
        <5>2. QED
          BY <1>1, <5>1
      <4>2. QED
        BY <1>5, <3>3, <3>5, <4>1
    <3>8. \A k \in 1 .. Len(cells) : Dangles(cells[k]) =>
            \E r \in refs : r[2] = n + k
      BY <1>6, <3>2, <3>4, <3>6
    <3>9. \A q, r \in refs : q[2] = r[2] => q[1] = r[1]
      BY <3>1
    <3>10. QED
      BY <3>7, <3>8, <3>9 DEF Records, n
  <2>2. CASE off # INVALID
    <3>1. refs = {}
      BY <2>2 DEF BranchRefs, off
    <3>2. \A k \in 1 .. Len(cells) : ~Dangles(cells[k])
      BY <1>3, <1>5, <1>6, <2>2 DEF Quiet, Dangles, p
    <3> HIDE DEF refs
    <3>3. QED
      BY <3>1, <3>2 DEF Records
  <2>3. QED
    BY <2>1, <2>2
<1>10. RecordsCalls(istream, cells, func_offset, func_fixups, func_fixups')
  <2>1. \A k \in 1 .. Len(cells) : cells[k].op # "call"
    BY <1>3, <1>5, <1>6 DEF Quiet, p
  <2>2. QED
    BY <1>1, <2>1 DEF RecordsCalls, Linked
<1>11. \A k \in 1 .. Len(cells) :
         cells[k].op \in LabelOps /\ cells[k].target # INVALID =>
           Leads(full, cells[k].target)
  <2>1. off # INVALID => Leads(full, off)
    <3>1. off # INVALID => Leads(istream, off)
      BY <1>1 DEF Targets, off
    <3> HIDE DEF full
    <3>2. QED
      BY <1>1, <1>7, <1>8, <3>1, LeadsKept
  <2>2. QED
    BY <1>3, <1>5, <1>6, <2>1 DEF Quiet, p
<1>12. Len(cells) > 0 /\ cells[1].op \notin {"data", "entry"}
  <2>1. 1 \in 1 .. Len(cells)
    BY <1>1, <1>5
  <2>2. QED
    BY <1>3, <1>5, <1>6, <2>1 DEF Quiet, p
<1>13. UNCHANGED progressVars /\ SameLabels(label_stack', label_stack)
  BY SameSelf
<1> HIDE DEF refs, full
<1>14. QED
  BY <1>1, <1>5, <1>9, <1>10, <1>11, <1>12, <1>13, EmitKeeps DEF refs, full

\* What a branch drops is a number, once its assertion holds.
LEMMA DropCount ==
  ASSUME NEW ts, Len(ts) \in Nat, NEW l \in Labels, EmitBrAsserts(ts, l)
  PROVE  br_drop_count(ts, l) \in Nat /\ get_label_br_arity(l) \in Nat
<1>1. l.type_stack_limit \in Nat /\ Len(l.sig) \in Nat
  BY SigFacts DEF Labels
<1>2. get_label_br_arity(l) \in Nat
  BY <1>1 DEF get_label_br_arity
<1>3. QED
  BY <1>1, <1>2 DEF EmitBrAsserts, br_drop_count

\* Cells without an offset may precede a branch.
LEMMA PlainQuiet ==
  ASSUME NEW full, NEW pre, Plain(pre)
  PROVE  Quiet(full, pre)
BY DEF Plain, Quiet, BranchOps, LabelOps

\* A br is recorded for its label, or has the offset of a loop.
LEMMA BrKeeps ==
  ASSUME FInv, IInv, NEW depth \in 0 .. Len(label_stack), OnBr(depth)
  PROVE  FInv'
<1> DEFINE d == translate_depth(depth)
           l == label_stack[d]
           drop == emit_drop_keep(br_drop_count(type_stack, l),
                                  get_label_br_arity(l))
           cells == drop \o <<Cell("br", label_stack[d].offset, 0, 0)>>
<1>1. InBody("br")
  BY DEF OnBr
<1>2. \/ Failed
      \/ /\ depth < Len(label_stack) /\ EmitBrAsserts(type_stack, l)
         /\ istream' = istream \o cells
         /\ depth_fixups' = append_fixup(depth_fixups, BranchRefs(d, Len(istream')))
         /\ UNCHANGED <<label_stack, func_fixups, inFunctionVars>>
  BY DEF OnBr, Checked, Asserted, Reject, Failed, emit
<1>3. ASSUME depth < Len(label_stack), EmitBrAsserts(type_stack, l),
             istream' = istream \o cells,
             depth_fixups' = append_fixup(depth_fixups, BranchRefs(d, Len(istream'))),
             UNCHANGED <<label_stack, func_fixups, inFunctionVars>>
      PROVE  FInv'
  <2>1. /\ label_stack \in Seq(Labels) /\ Len(label_stack) \in Nat
        /\ Len(type_stack) \in Nat /\ current_func # 0
    BY <1>1, InBodyFacts DEF StackTypes
  <2>2. d \in 1 .. Len(label_stack)
    BY <1>3, <2>1 DEF translate_depth
  <2> HIDE DEF d
  <2>3. l \in Labels
    BY <2>1, <2>2
  <2>4. drop \in Seq(Cells) /\ Plain(drop)
    BY <1>3, <2>1, <2>3, DropCount, DropKeepFacts
  <2>5. UNCHANGED <<progressVars, label_stack, func_fixups>>
    BY <1>3 DEF inFunctionVars, progressVars
  <2> HIDE DEF drop
  <2>6. Quiet(istream \o cells, drop)
    BY <2>4, PlainQuiet
  <2>7. QED
    BY <1>3, <2>1, <2>2, <2>4, <2>5, <2>6, BranchKeeps
<1>4. QED
  BY <1>2, <1>3, FailedKeeps

\* The branch a false condition takes leads behind the callback's last cell.
LEMMA BrIfKeeps ==
  ASSUME FInv, IInv, NEW depth \in 0 .. Len(label_stack), OnBrIf(depth)
  PROVE  FInv'
<1> DEFINE d == translate_depth(depth)
           l == label_stack[d]
           ts == pop_types(type_stack, 1)
           drop == emit_drop_keep(br_drop_count(ts, l), get_label_br_arity(l))
           past == get_istream_offset + Len(drop) + 2
           b == Cell("br_unless", past, 0, 0)
           pre == <<b>> \o drop
           cells == pre \o <<Cell("br", label_stack[d].offset, 0, 0)>>
<1>1. InBody("br_if")
  BY DEF OnBrIf
<1>2. \/ Failed
      \/ /\ depth < Len(label_stack) /\ EmitBrAsserts(ts, l)
         /\ pop_and_check(type_stack, <<"i32">>)
         /\ istream' = istream \o cells
         /\ depth_fixups' = append_fixup(depth_fixups, BranchRefs(d, Len(istream')))
         /\ UNCHANGED <<label_stack, func_fixups, inFunctionVars>>
  BY DEF OnBrIf, Checked, Asserted, Reject, Failed, emit
<1>3. ASSUME depth < Len(label_stack), EmitBrAsserts(ts, l),
             pop_and_check(type_stack, <<"i32">>),
             istream' = istream \o cells,
             depth_fixups' = append_fixup(depth_fixups, BranchRefs(d, Len(istream'))),
             UNCHANGED <<label_stack, func_fixups, inFunctionVars>>
      PROVE  FInv'
  <2>1. /\ label_stack \in Seq(Labels) /\ Len(label_stack) \in Nat
        /\ current_func # 0
        /\ istream \in Seq(Cells) /\ Len(istream) \in Nat
    BY <1>1, InBodyFacts DEF StackTypes, FInv
  <2>2. Len(ts) \in Nat
    <3>1. Typed(ts)
      BY <1>1, <1>3, InBodyFacts, PopOneTyped
    <3>2. QED
      BY <3>1 DEF Typed
  <2>3. d \in 1 .. Len(label_stack)
    BY <1>3, <2>1 DEF translate_depth
  <2> HIDE DEF d
  <2>4. l \in Labels
    BY <2>1, <2>3
  <2> HIDE DEF ts
  <2>5. drop \in Seq(Cells) /\ Plain(drop) /\ Len(drop) \in Nat
    <3>1. br_drop_count(ts, l) \in Nat /\ get_label_br_arity(l) \in Nat
      BY <1>3, <2>2, <2>4, DropCount
    <3>2. drop \in Seq(Cells) /\ Plain(drop)
      BY <3>1, DropKeepFacts
    <3> HIDE DEF drop
    <3>3. QED
      BY <3>2
  <2> HIDE DEF drop
  <2>6. past \in Nat /\ past # INVALID /\ past = Len(istream) + Len(drop) + 3
    BY <2>1, <2>5 DEF get_istream_offset, INVALID
  <2> HIDE DEF past
  <2>7. b \in Cells /\ b.op = "br_unless" /\ b.target = past
    <3>1. "br_unless" \in CellOps
      BY DEF CellOps, BranchOps
    <3>2. QED
      BY <2>6, <3>1, CellFacts
  <2> HIDE DEF b
  <2>8. /\ pre \in Seq(Cells) /\ Len(pre) = Len(drop) + 1
        /\ pre[1] = b
        /\ \A k \in 1 .. Len(drop) : pre[k + 1] = drop[k]
    BY <2>5, <2>7
  <2> HIDE DEF pre
  <2>9. Quiet(istream \o cells, pre)
    <3> DEFINE c == Cell("br", label_stack[d].offset, 0, 0)
    <3>1. c \in Cells
      <4>1. "br" \in CellOps /\ label_stack[d].offset \in Nat
        BY <2>4 DEF CellOps, BranchOps, Labels
      <4>2. QED
        BY <4>1, CellFacts
    <3> HIDE DEF c
    <3>2. Len(pre \o <<c>>) = Len(drop) + 2 /\ pre \o <<c>> \in Seq(Cells)
      BY <2>5, <2>8, <3>1
    <3>3. Len(istream \o cells) = Len(istream) + Len(drop) + 2
      <4>1. cells = pre \o <<c>>
        BY DEF c
      <4> HIDE DEF cells
      <4>2. Len(istream \o cells) = Len(istream) + Len(cells)
        <5>1. cells \in Seq(Cells)
          BY <3>2, <4>1
        <5>2. QED
          BY <2>1, <5>1, ConcatFacts
      <4>3. Len(cells) = Len(drop) + 2
        BY <3>2, <4>1
      <4>4. QED
        BY <2>1, <2>5, <4>2, <4>3
    <3>4. Leads(istream \o cells, past)
      <4> HIDE DEF cells
      <4>1. QED
        BY <2>1, <2>5, <2>6, <3>3 DEF Leads
    <3>5. ASSUME NEW k \in 1 .. Len(pre)
          PROVE  /\ pre[k].op \notin {"call", "data", "entry"}
                 /\ pre[k].op \in LabelOps => pre[k] = b
      <4>1. CASE k = 1
        BY <2>7, <2>8, <4>1
      <4>2. CASE k # 1
        <5>1. k - 1 \in 1 .. Len(drop) /\ k = (k - 1) + 1
          BY <2>5, <2>8, <4>2
        <5>2. pre[k] = drop[k - 1]
          BY <2>8, <5>1
        <5>3. QED
          BY <2>5, <5>1, <5>2 DEF Plain, BranchOps, LabelOps
      <4>3. QED
        BY <4>1, <4>2
    <3> HIDE DEF cells
    <3>6. QED
      BY <2>6, <2>7, <3>4, <3>5 DEF Quiet
  <2>10. UNCHANGED <<progressVars, label_stack, func_fixups>>
    BY <1>3 DEF inFunctionVars, progressVars
  <2>11. QED
    BY <1>3, <2>1, <2>3, <2>8, <2>9, <2>10, BranchKeeps
<1>4. QED
  BY <1>2, <1>3, FailedKeeps

\* on_br_table: the entries, and only they, may dangle.
LEMMA BrTableKeeps ==
  ASSUME FInv, IInv, NEW k \in 1 .. MaxTargets + 1,
         NEW targets \in [1 .. k -> 0 .. Len(label_stack)], OnBrTable(targets)
  PROVE  FInv'
<1> DEFINE ts == pop_types(type_stack, 1)
           D(i) == translate_depth(targets[i])
           L(i) == label_stack[D(i)]
           E(i) == Cell("entry", L(i).offset, br_drop_count(ts, L(i)),
                        get_label_br_arity(L(i)))
           n == Len(istream)
           table == get_istream_offset + 2
           head == <<Cell("br_table", table, k - 1, 0), Cell("data", 0, k, 0)>>
           entries == [i \in 1 .. k |-> E(i)]
           cells == head \o entries
           refs == UNION {BranchRefs(D(i), table + i - 1) : i \in 1 .. k}
<1>1. InBody("br_table")
  BY DEF OnBrTable
<1>2. k \in Nat /\ k > 0 /\ targets \in Seq(0 .. Len(label_stack)) /\ Len(targets) = k
  BY CompilerAssumption
<1>3. \/ Failed
      \/ /\ pop_and_check(type_stack, <<"i32">>)
         /\ \A i \in 1 .. k : targets[i] < Len(label_stack)
         /\ \A i \in 1 .. k : EmitBrAsserts(ts, L(i))
         /\ istream' = istream \o cells
         /\ depth_fixups' = append_fixup(depth_fixups, refs)
         /\ UNCHANGED <<label_stack, func_fixups, inFunctionVars>>
  BY <1>2 DEF OnBrTable, Checked, Asserted, Reject, Failed, emit
<1>4. ASSUME pop_and_check(type_stack, <<"i32">>),
             \A i \in 1 .. k : targets[i] < Len(label_stack),
             \A i \in 1 .. k : EmitBrAsserts(ts, L(i)),
             istream' = istream \o cells,
             depth_fixups' = append_fixup(depth_fixups, refs),
             UNCHANGED <<label_stack, func_fixups, inFunctionVars>>
      PROVE  FInv'
  <2>1. /\ label_stack \in Seq(Labels) /\ Len(label_stack) \in Nat
        /\ current_func # 0
        /\ istream \in Seq(Cells) /\ n \in Nat
        /\ Linked(istream, func_offset, func_fixups)
        /\ Targets(istream, label_stack, func_offset)
    BY <1>1, InBodyFacts DEF StackTypes, FInv
  <2>2. Len(ts) \in Nat
    <3>1. Typed(ts)
      BY <1>1, <1>4, InBodyFacts, PopOneTyped
    <3>2. QED
      BY <3>1 DEF Typed
  <2> HIDE DEF ts, n
  <2>3. ASSUME NEW i \in 1 .. k
        PROVE  D(i) \in 1 .. Len(label_stack) /\ L(i) \in Labels
    <3>1. targets[i] \in 0 .. Len(label_stack) /\ targets[i] < Len(label_stack)
      BY <1>4
    <3>2. D(i) \in 1 .. Len(label_stack)
      BY <2>1, <3>1 DEF translate_depth
    <3>3. QED
      BY <2>1, <3>2, ElementFacts
  <2> HIDE DEF D
  <2>4. ASSUME NEW i \in 1 .. k
        PROVE  E(i) \in Cells /\ E(i).op = "entry" /\ E(i).target = L(i).offset
    <3>1. br_drop_count(ts, L(i)) \in Nat /\ get_label_br_arity(L(i)) \in Nat
      BY <1>4, <2>2, <2>3, DropCount
    <3>2. L(i).offset \in Nat
      BY <2>3 DEF Labels
    <3>3. "entry" \in CellOps
      BY DEF CellOps, BranchOps
    <3>4. QED
      BY <3>1, <3>2, <3>3 DEF Cell, Cells
  <2> HIDE DEF E
  <2>5. table = n + 3 /\ table \in Nat
    BY <2>1 DEF get_istream_offset, n
  <2>6. /\ head \in Seq(Cells) /\ Len(head) = 2
        /\ head[1].op = "br_table" /\ head[2].op = "data"
    <3> DEFINE h1 == Cell("br_table", table, k - 1, 0)
               h2 == Cell("data", 0, k, 0)
    <3>1. "br_table" \in CellOps /\ "data" \in CellOps /\ k - 1 \in Nat
      BY <1>2 DEF CellOps
    <3> HIDE DEF table
    <3>2. h1 \in Cells /\ h1.op = "br_table" /\ h2 \in Cells /\ h2.op = "data"
      BY <1>2, <2>5, <3>1 DEF Cell, Cells
    <3>3. head = <<h1, h2>>
      OBVIOUS
    <3> HIDE DEF h1, h2, head
    <3>4. QED
      BY <3>2, <3>3
  <2>7. /\ entries \in Seq(Cells) /\ Len(entries) = k
        /\ \A i \in 1 .. k : entries[i] = E(i)
    <3>1. entries \in [1 .. k -> Cells]
      BY <2>4
    <3>2. \A i \in 1 .. k : entries[i] = E(i)
      OBVIOUS
    <3> HIDE DEF entries
    <3>3. QED
      BY <1>2, <3>1, <3>2
  <2> HIDE DEF head, entries
  <2>8. /\ cells \in Seq(Cells) /\ Len(cells) = k + 2
        /\ cells[1].op = "br_table" /\ cells[2].op = "data"
        /\ \A i \in 1 .. k : cells[i + 2] = E(i)
    <3>1. head \in Seq(Cells) /\ entries \in Seq(Cells)
      BY <2>6, <2>7
    <3>2. /\ cells \in Seq(Cells) /\ Len(cells) = Len(head) + Len(entries)
          /\ \A i \in 1 .. Len(head) : cells[i] = head[i]
          /\ \A i \in 1 .. Len(entries) : cells[Len(head) + i] = entries[i]
      BY <3>1, ConcatFacts
    <3> HIDE DEF cells
    <3>3. \A i \in 1 .. k : 2 + i = i + 2
      BY <1>2
    <3>4. 1 \in 1 .. 2 /\ 2 \in 1 .. 2 /\ 2 + k = k + 2
      BY <1>2
    <3>5. QED
      BY <2>6, <2>7, <3>2, <3>3, <3>4
  <2>9. ASSUME NEW j \in 1 .. Len(cells)
        PROVE  \/ j = 1 /\ cells[j].op = "br_table"
               \/ j = 2 /\ cells[j].op = "data"
               \/ /\ j - 2 \in 1 .. k /\ j = (j - 2) + 2
                  /\ cells[j] = E(j - 2)
    <3>1. j = 1 \/ j = 2 \/ (j - 2 \in 1 .. k /\ j = (j - 2) + 2)
      BY <1>2, <2>8
    <3>2. QED
      BY <2>8, <3>1
  <2> HIDE DEF cells
  <2>10. ASSUME NEW r \in refs
         PROVE  \E i \in 1 .. k : /\ r[1] = D(i) /\ r[2] = n + 2 + i
                                  /\ L(i).offset = INVALID
    <3>1. PICK i \in 1 .. k : r \in BranchRefs(D(i), table + i - 1)
      OBVIOUS
    <3>2. r[1] = D(i) /\ r[2] = table + i - 1 /\ L(i).offset = INVALID
      BY <3>1 DEF BranchRefs
    <3>3. table + i - 1 = n + 2 + i
      BY <2>1, <2>5
    <3>4. QED
      BY <3>2, <3>3
  <2>11. ASSUME NEW i \in 1 .. k, L(i).offset = INVALID
         PROVE  \E r \in refs : r[2] = n + 2 + i
    <3>1. <<D(i), table + i - 1>> \in BranchRefs(D(i), table + i - 1)
      BY <2>11 DEF BranchRefs
    <3>2. <<D(i), table + i - 1>> \in refs
      BY <3>1
    <3>3. table + i - 1 = n + 2 + i
      BY <2>1, <2>5
    <3>4. QED
      BY <3>2, <3>3
  <2> HIDE DEF refs, table
  <2>12. Records(istream, cells, label_stack, refs)
    <3>1. ASSUME NEW r \in refs
          PROVE  /\ r[1] \in 1 .. Len(label_stack)
                 /\ r[2] - n \in 1 .. Len(cells)
                 /\ r[2] \in Nat
                 /\ Dangles(cells[r[2] - n])
      <4>1. PICK i \in 1 .. k : /\ r[1] = D(i) /\ r[2] = n + 2 + i
                                /\ L(i).offset = INVALID
        BY <2>10
      <4>2. r[2] - n = i + 2 /\ i + 2 \in 1 .. Len(cells) /\ r[2] \in Nat
        BY <1>2, <2>1, <2>8, <4>1
      <4>3. Dangles(cells[i + 2])
        BY <2>4, <2>8, <4>1 DEF Dangles, LabelOps
      <4>4. QED
        BY <2>3, <4>1, <4>2, <4>3
    <3>2. ASSUME NEW j \in 1 .. Len(cells), Dangles(cells[j])
          PROVE  \E r \in refs : r[2] = n + j
      <4>1. j - 2 \in 1 .. k /\ cells[j] = E(j - 2)
        BY <2>9, <3>2 DEF Dangles, LabelOps
      <4>2. L(j - 2).offset = INVALID
        BY <2>4, <3>2, <4>1 DEF Dangles
      <4>3. \E r \in refs : r[2] = n + 2 + (j - 2)
        BY <2>11, <4>1, <4>2
      <4>4. n + 2 + (j - 2) = n + j
        BY <1>2, <2>1, <2>8
      <4>5. QED
        BY <4>3, <4>4
    <3>3. ASSUME NEW q \in refs, NEW r \in refs, q[2] = r[2]
          PROVE  q[1] = r[1]
      <4>1. PICK i \in 1 .. k : q[1] = D(i) /\ q[2] = n + 2 + i
        BY <2>10
      <4>2. PICK j \in 1 .. k : r[1] = D(j) /\ r[2] = n + 2 + j
        BY <2>10
      <4>3. n + 2 + i = n + 2 + j
        BY <3>3, <4>1, <4>2
      <4>4. i = j
        BY <1>2, <2>1, <4>3
      <4>5. QED
        BY <4>1, <4>2, <4>4
    <3>4. QED
      BY <3>1, <3>2, <3>3 DEF Records, n
  <2>13. RecordsCalls(istream, cells, func_offset, func_fixups, func_fixups')
    <3>1. \A j \in 1 .. Len(cells) : cells[j].op # "call"
      BY <2>4, <2>9
    <3>2. func_fixups' = func_fixups
      BY <1>4
    <3>3. QED
      BY <2>1, <3>1, <3>2 DEF RecordsCalls, Linked
  <2>14. 1 \in 1 .. Len(cells) /\ Len(cells) > 0 /\ cells[1].op \notin {"data", "entry"}
    BY <1>2, <2>8
  <2>15. ASSUME NEW j \in 1 .. Len(cells),
                cells[j].op \in LabelOps, cells[j].target # INVALID
         PROVE  Leads(istream \o cells, cells[j].target)
    <3>1. j - 2 \in 1 .. k /\ cells[j] = E(j - 2)
      BY <2>9, <2>15 DEF LabelOps
    <3>2. /\ cells[j].target = L(j - 2).offset
          /\ D(j - 2) \in 1 .. Len(label_stack)
      BY <2>3, <2>4, <3>1
    <3>3. Leads(istream, cells[j].target)
      BY <2>1, <2>15, <3>2 DEF Targets
    <3> DEFINE full == istream \o cells
    <3>4. /\ full \in Seq(Cells) /\ Len(full) = n + Len(cells)
          /\ \A i \in 1 .. n : full[i] = istream[i]
          /\ \A i \in 1 .. Len(cells) : full[n + i] = cells[i]
      <4>1. istream \in Seq(Cells) /\ cells \in Seq(Cells)
        BY <2>1, <2>8
      <4>2. QED
        BY <4>1, ConcatFacts DEF n
    <3> HIDE DEF full
    <3>5. Grows(istream, full)
      <4>1. full[n + 1] = cells[1] /\ n <= Len(full)
        BY <1>2, <2>1, <2>8, <2>14, <3>4
      <4>2. QED
        BY <2>14, <3>4, <4>1 DEF Grows, n
    <3>6. Leads(full, cells[j].target)
      BY <2>1, <3>3, <3>4, <3>5, LeadsKept
    <3>7. QED
      BY <3>6 DEF full
  <2>16. UNCHANGED progressVars /\ SameLabels(label_stack', label_stack)
    BY <1>4, SameSelf DEF inFunctionVars, progressVars
  <2>17. QED
    BY <1>4, <2>1, <2>8, <2>12, <2>13, <2>14, <2>15, <2>16, EmitKeeps
<1>5. QED
  BY <1>3, <1>4, FailedKeeps

\* on_call: a call to a function without an offset is recorded for it.
LEMMA CallKeeps ==
  ASSUME FInv, IInv, NEW f \in DOMAIN Funcs, OnCall(f)
  PROVE  FInv'
<1> DEFINE host == f <= NumImports
           n == Len(istream)
           c == IF host THEN Cell("call_host", 0, f, 0)
                ELSE Cell("call", func_offset[f], f, 0)
           cells == <<c>>
           new == IF ~host /\ func_offset[f] = INVALID
                  THEN [func_fixups EXCEPT ![f] = @ \cup {n + 1}]
                  ELSE func_fixups
<1>1. InBody("call")
  BY DEF OnCall
<1>2. \/ Failed
      \/ /\ istream' = istream \o cells
         /\ func_fixups' = new
         /\ UNCHANGED <<label_stack, depth_fixups, inFunctionVars>>
  BY DEF OnCall, Checked, Asserted, Reject, Failed, emit, NoLabelChange,
         get_istream_offset
<1>3. ASSUME istream' = istream \o cells, func_fixups' = new,
             UNCHANGED <<label_stack, depth_fixups, inFunctionVars>>
      PROVE  FInv'
  <2>1. /\ label_stack \in Seq(Labels) /\ Len(label_stack) \in Nat
        /\ current_func # 0
        /\ istream \in Seq(Cells) /\ n \in Nat
        /\ Linked(istream, func_offset, func_fixups)
    BY <1>1, InBodyFacts DEF StackTypes, FInv
  <2>2. f \in Nat /\ NumImports \in Nat /\ func_offset[f] \in Nat
    BY <2>1, CompilerAssumption DEF Linked
  <2>3. /\ c \in Cells /\ c.a = f
        /\ c.op = IF host THEN "call_host" ELSE "call"
        /\ ~host => c.target = func_offset[f]
    <3>1. "call_host" \in CellOps /\ "call" \in CellOps
      BY DEF CellOps, BranchOps
    <3>2. QED
      BY <2>2, <3>1 DEF Cell, Cells
  <2>4. /\ new \in [DOMAIN Funcs -> SUBSET Nat]
        /\ new[f] = IF ~host /\ func_offset[f] = INVALID
                    THEN func_fixups[f] \cup {n + 1} ELSE func_fixups[f]
        /\ \A g \in DOMAIN Funcs : g # f => new[g] = func_fixups[g]
    <3>1. func_fixups \in [DOMAIN Funcs -> SUBSET Nat] /\ n + 1 \in Nat
      BY <2>1 DEF Linked
    <3> HIDE DEF n
    <3>2. CASE ~host /\ func_offset[f] = INVALID
      <4>1. new = [func_fixups EXCEPT ![f] = func_fixups[f] \cup {n + 1}]
        BY <3>2
      <4>2. func_fixups[f] \cup {n + 1} \in SUBSET Nat
        BY <3>1
      <4> HIDE DEF new
      <4>3. QED
        BY <3>1, <3>2, <4>1, <4>2
    <3>3. CASE ~(~host /\ func_offset[f] = INVALID)
      BY <3>1, <3>3
    <3>4. QED
      BY <3>2, <3>3
  <2> HIDE DEF c, new
  <2>5. cells \in Seq(Cells) /\ Len(cells) = 1 /\ cells[1] = c
    BY <2>3
  <2> HIDE DEF cells
  <2>6. \A k \in 1 .. Len(cells) : k = 1 /\ cells[k] = c
    BY <2>5
  <2>7. c.op \notin LabelOps \cup {"data"}
    BY <2>3 DEF LabelOps
  <2>8. Records(istream, cells, label_stack, {})
    BY <2>6, <2>7 DEF Records, Dangles
  <2>9. RecordsCalls(istream, cells, func_offset, func_fixups, func_fixups')
    <3>1. ASSUME NEW k \in 1 .. Len(cells), cells[k].op = "call"
          PROVE  /\ cells[k].a = f /\ f > NumImports
                 /\ cells[k].target = func_offset[f]
                 /\ func_offset[f] = INVALID => n + k \in new[f]
      <4>1. ~host /\ cells[k] = c /\ k = 1
        BY <2>3, <2>6, <3>1
      <4>2. f > NumImports
        BY <2>2, <4>1
      <4>3. QED
        BY <2>3, <2>4, <4>1, <4>2
    <3>2. ASSUME NEW g \in DOMAIN Funcs
          PROVE  /\ func_fixups[g] \subseteq new[g]
                 /\ \A i \in new[g] : i \in func_fixups[g] \/
                      \E k \in 1 .. Len(cells) :
                        i = n + k /\ cells[k].op = "call" /\ cells[k].a = g
      <4>1. CASE g = f /\ ~host /\ func_offset[f] = INVALID
        <5>1. 1 \in 1 .. Len(cells) /\ cells[1].op = "call" /\ cells[1].a = g
          BY <2>3, <2>5, <4>1
        <5>2. QED
          BY <2>4, <4>1, <5>1
      <4>2. CASE ~(g = f /\ ~host /\ func_offset[f] = INVALID)
        BY <2>4, <4>2
      <4>3. QED
        BY <4>1, <4>2
    <3>3. QED
      BY <1>3, <2>4, <3>1, <3>2 DEF RecordsCalls
  <2>10. UNCHANGED progressVars /\ SameLabels(label_stack', label_stack)
    BY <1>3, SameSelf DEF inFunctionVars, progressVars
  <2>11. \A k \in 1 .. Len(cells) : cells[k].op \notin LabelOps
    BY <2>6, <2>7
  <2>12. Len(cells) > 0 /\ cells[1].op \notin {"data", "entry"}
    BY <2>3, <2>5
  <2>13. QED
    BY <1>3, <2>1, <2>5, <2>8, <2>9, <2>10, <2>11, <2>12, EmitKeeps
<1>4. QED
  BY <1>2, <1>3, FailedKeeps

-----------------------------------------------------------------------------
(* The theorems.                                                           *)

\* Before the first callback there is no code.
LEMMA InitFInv == Init => FInv
<1> SUFFICES ASSUME Init PROVE FInv
  OBVIOUS
<1>1. /\ istream = <<>> /\ label_stack = <<>> /\ depth_fixups = <<>>
      /\ func_offset = [f \in DOMAIN Funcs |-> INVALID]
      /\ func_fixups = [f \in DOMAIN Funcs |-> {}]
      /\ current_func = 0 /\ next_func = NumImports + 1 /\ status = "reading"
  BY DEF Init
<1>2. istream \in Seq(Cells) /\ Len(istream) = 0 /\ Len(label_stack) = 0
  BY <1>1
<1>3. Owned(istream, label_stack, depth_fixups)
  BY <1>1, <1>2 DEF Owned
<1>4. Linked(istream, func_offset, func_fixups)
  BY <1>1, <1>2 DEF Linked, INVALID
<1>5. Targets(istream, label_stack, func_offset) /\ InnerLabels
  BY <1>1, <1>2 DEF Targets, InnerLabels
<1>6. Within(istream, func_offset)
  BY <1>1, <1>2 DEF Within, INVALID
<1>7. BodiesRead
  <2>1. /\ NumImports + 1 \in NumImports + 1 .. Len(Funcs) + 1
        /\ \A f \in DOMAIN Funcs : ~(f > NumImports /\ f < NumImports + 1)
    BY CompilerAssumption
  <2>2. QED
    BY <1>1, <2>1 DEF BodiesRead
<1>8. QED
  BY <1>1, <1>2, <1>3, <1>4, <1>5, <1>6, <1>7 DEF FInv

\* Every callback of the reader preserves the invariant on fixups.
LEMMA StepFInv == FInv /\ IInv /\ [ReadStep]_compilerVars => FInv'
<1> SUFFICES ASSUME FInv, IInv, [ReadStep]_compilerVars
             PROVE  FInv'
  OBVIOUS
<1>1. ASSUME NEW n \in 0 .. MaxDecls, BeginFunctionBody(n) PROVE FInv'
  BY <1>1, BeginKeeps
<1>2. ASSUME NEW n \in 0 .. MaxLocals, NEW t \in Types, OnLocalDecl(n, t)
      PROVE  FInv'
  BY <1>2, LocalDeclKeeps
<1>3. ASSUME NEW sig \in Sigs, OnBlock(sig) \/ OnLoop(sig) \/ OnIf(sig)
      PROVE  FInv'
  BY <1>3, BlockKeeps, IfKeeps
<1>4. ASSUME NEW depth \in 0 .. Len(label_stack), OnBr(depth) \/ OnBrIf(depth)
      PROVE  FInv'
  BY <1>4, BrKeeps, BrIfKeeps
<1>5. ASSUME NEW n \in 1 .. MaxTargets + 1,
             NEW targets \in [1 .. n -> 0 .. Len(label_stack)],
             OnBrTable(targets)
      PROVE  FInv'
  BY <1>5, BrTableKeeps
<1>6. ASSUME NEW f \in DOMAIN Funcs, OnCall(f) \/ OnCallIndirect(f)
      PROVE  FInv'
  BY <1>6, CallKeeps, OtherCellsKeep
<1>7. ASSUME NEW i \in 1 .. Len(param_and_local_types) + 1,
             OnGetLocal(i) \/ OnSetLocal(i) \/ OnTeeLocal(i)
      PROVE  FInv'
  BY <1>7, OperatorsKeep, OtherCellsKeep
<1>8. CASE \/ EndFunctionBody \/ EndModule \/ OnElse \/ OnEnd \/ OnReturn
           \/ OnUnreachable \/ OnDrop \/ OnSelect
  BY <1>8, EndFunctionKeeps, EndModuleKeeps, ElseKeeps, EndKeeps, ReturnKeeps,
     OtherCellsKeep
<1>9. CASE \/ \E op \in Opcodes : OnOpcode(op)
           \/ \E t \in Types : OnConst(t)
           \/ \E g \in 1 .. Len(Globals) + 1 : OnGetGlobal(g) \/ OnSetGlobal(g)
  BY <1>9, OperatorsKeep
<1>10. CASE UNCHANGED compilerVars
  BY <1>10 DEF compilerVars, FInv, InnerLabels, BodiesRead
<1>11. QED
  BY <1>1, <1>2, <1>3, <1>4, <1>5, <1>6, <1>7, <1>8, <1>9, <1>10 DEF ReadStep

\* What is invalid is exactly what someone will patch.
LEMMA PendingFromFInv == FInv /\ IInv => FixupsPending
<1> SUFFICES ASSUME FInv, IInv PROVE FixupsPending
  OBVIOUS
<1> DEFINE A == UNION {depth_fixups[d] : d \in DOMAIN depth_fixups}
           B == {label_stack[d].fixup_offset :
                   d \in {e \in DOMAIN label_stack :
                            label_stack[e].label_type \in {"if", "else"}}}
           C == UNION {func_fixups[f] : f \in {g \in DOMAIN Funcs :
                                                 func_offset[g] = INVALID}}
           Open == {c \in DOMAIN istream : /\ istream[c].op \in BranchOps
                                           /\ istream[c].target = INVALID}
<1>1. /\ DOMAIN istream = 1 .. Len(istream)
      /\ DOMAIN label_stack = 1 .. Len(label_stack)
      /\ Len(label_stack) \in Nat
      /\ Owned(istream, label_stack, depth_fixups)
      /\ Linked(istream, func_offset, func_fixups)
  BY DEF FInv, IInv, StackTypes
<1>2. /\ DOMAIN depth_fixups = 1 .. Len(depth_fixups)
      /\ \A d \in 1 .. Len(depth_fixups) : d \in 1 .. Len(label_stack)
  BY <1>1 DEF Owned
<1>3. ASSUME NEW c \in A \cup B \cup C PROVE c \in Open
  <2>1. CASE c \in A
    <3>1. PICK d \in DOMAIN depth_fixups : c \in depth_fixups[d]
      BY <2>1
    <3>2. d \in 1 .. Len(label_stack) /\ c \in Fix(depth_fixups, d)
      BY <1>2, <3>1 DEF Fix
    <3>3. QED
      BY <1>1, <3>2 DEF Owned, Dangles, LabelOps, BranchOps
  <2>2. CASE c \in B
    <3>1. PICK d \in DOMAIN label_stack :
            /\ label_stack[d].label_type \in {"if", "else"}
            /\ c = label_stack[d].fixup_offset
      BY <2>2
    <3>2. d \in 1 .. Len(label_stack) /\ c \in Arm(label_stack, d)
      BY <1>1, <3>1 DEF Arm
    <3>3. QED
      BY <1>1, <3>2 DEF Owned, Dangles, LabelOps, BranchOps
  <2>3. CASE c \in C
    <3>1. PICK f \in DOMAIN Funcs : func_offset[f] = INVALID /\ c \in func_fixups[f]
      BY <2>3
    <3>2. c \in 1 .. Len(istream) /\ istream[c].op = "call" /\ istream[c].a = f
      BY <1>1, <3>1 DEF Linked
    <3>3. istream[c].target = INVALID
      BY <1>1, <3>1, <3>2 DEF Linked
    <3>4. QED
      BY <1>1, <3>2, <3>3 DEF BranchOps
  <2>4. QED
    BY <2>1, <2>2, <2>3
<1>4. ASSUME NEW c \in Open PROVE c \in A \cup B \cup C
  <2>1. c \in 1 .. Len(istream) /\ istream[c].target = INVALID
    BY <1>1
  <2>2. CASE istream[c].op = "call"
    <3>1. /\ istream[c].a \in DOMAIN Funcs
          /\ func_offset[istream[c].a] = INVALID
          /\ c \in func_fixups[istream[c].a]
      BY <1>1, <2>1, <2>2 DEF Linked
    <3>2. QED
      BY <3>1
  <2>3. CASE istream[c].op # "call"
    <3>1. Dangles(istream[c])
      BY <2>1, <2>3 DEF Dangles, LabelOps, BranchOps
    <3>2. PICK d \in 1 .. Len(label_stack) :
            c \in Fix(depth_fixups, d) \cup Arm(label_stack, d)
      BY <1>1, <2>1, <3>1 DEF Owned
    <3>3. CASE c \in Fix(depth_fixups, d)
      <4>1. d \in DOMAIN depth_fixups /\ c \in depth_fixups[d]
        BY <1>2, <3>3 DEF Fix
      <4>2. QED
        BY <4>1
    <3>4. CASE c \in Arm(label_stack, d)
      <4>1. /\ d \in DOMAIN label_stack
            /\ label_stack[d].label_type \in {"if", "else"}
            /\ c = label_stack[d].fixup_offset
        BY <1>1, <3>4 DEF Arm
      <4>2. QED
        BY <4>1
    <3>5. QED
      BY <3>2, <3>3, <3>4
  <2>4. QED
    BY <2>2, <2>3
<1>5. A \cup B \cup C = Open
  <2> HIDE DEF A, B, C, Open
  <2>1. QED
    BY <1>3, <1>4
<1>6. PendingCells = A \cup B \cup C
  BY Zenon DEF PendingCells
<1>7. FixupsPending <=> PendingCells = Open
  BY Zenon DEF FixupsPending
<1> HIDE DEF A, B, C, Open
<1>8. QED
  BY <1>5, <1>6, <1>7

\* Between functions nothing dangles, and every body is read by the end.
LEMMA ResolvedFromFInv == FInv => LoadedResolved
<1> SUFFICES ASSUME FInv, status = "loaded",
                    NEW c \in DOMAIN istream, istream[c].op \in BranchOps
             PROVE  /\ istream[c].target \in DOMAIN istream
                    /\ istream[istream[c].target].op \notin {"data", "entry"}
  BY DEF LoadedResolved
<1> DEFINE t == istream[c].target
<1>1. /\ istream \in Seq(Cells) /\ Len(istream) \in Nat
      /\ c \in 1 .. Len(istream)
      /\ BodiesRead /\ current_func = 0 /\ label_stack = <<>>
      /\ Owned(istream, label_stack, depth_fixups)
      /\ Linked(istream, func_offset, func_fixups)
      /\ Targets(istream, label_stack, func_offset)
      /\ Within(istream, func_offset)
  BY DEF FInv, BodiesRead
<1>2. next_func = Len(Funcs) + 1
  <2>1. istream # <<>>
    BY <1>1
  <2>2. QED
    BY <1>1, <2>1 DEF BodiesRead
<1>3. Leads(istream, t) /\ t <= Len(istream)
  <2>1. CASE istream[c].op = "call"
    <3> DEFINE f == istream[c].a
    <3>1. f \in DOMAIN Funcs /\ f > NumImports /\ t = func_offset[f]
      BY <1>1, <2>1 DEF Linked
    <3>2. f < next_func
      BY <1>2, <3>1, CompilerAssumption
    <3>3. func_offset[f] # INVALID
      BY <1>1, <3>1, <3>2 DEF BodiesRead
    <3>4. QED
      BY <1>1, <3>1, <3>3 DEF Targets, Within
  <2>2. CASE istream[c].op # "call"
    <3>1. istream[c].op \in LabelOps
      BY <2>2 DEF LabelOps, BranchOps
    <3>2. 1 .. Len(label_stack) = {}
      BY <1>1
    <3>3. ~Dangles(istream[c])
      BY <1>1, <3>2 DEF Owned
    <3>4. QED
      BY <1>1, <3>1, <3>3 DEF Dangles, Targets, Within
  <2>3. QED
    BY <2>1, <2>2
<1>4. DOMAIN istream = 1 .. Len(istream)
  BY <1>1
<1> HIDE DEF t
<1>5. t \in 1 .. Len(istream) /\ istream[t].op \notin {"data", "entry"}
  BY <1>1, <1>3 DEF Leads
<1>6. QED
  BY <1>4, <1>5 DEF t

\* The invariant of the fixups holds throughout the compilation of any module.
THEOREM FixupsInductive == CompilerSpec => [](FInv /\ IInv)
BY InitFInv, StepFInv, InitIInv, StepIInv, PTL DEF CompilerSpec

\* Whatever callbacks the reader delivers, the cells emitted with an invalid
\* offset are at every moment exactly those that emit_br_offset, on_if,
\* on_else and on_call recorded and that fixup_top_label, on_else, on_end or
\* begin_function_body will still patch: no fixup is lost when depth_fixups
\* shrinks, and none outlives its label.
THEOREM FixupsPendingAlways == CompilerSpec => []FixupsPending
BY FixupsInductive, PendingFromFInv, PTL

\* Every branch and every call of a module that was read to its end leads to
\* an instruction of the istream, never to the data of a br_table and never
\* past the end.
THEOREM LoadedResolvedAlways == CompilerSpec => []LoadedResolved
BY FixupsInductive, ResolvedFromFInv, PTL

=============================================================================
