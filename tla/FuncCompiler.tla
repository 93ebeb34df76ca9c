---------------------------- MODULE FuncCompiler ----------------------------
(***************************************************************************)
(* The function-body compiler of binary-reader-interpreter.c.  The binary  *)
(* reader delivers one callback per opcode; each callback type-checks the  *)
(* opcode against type_stack and label_stack and appends code to istream.  *)
(* Forward branches are emitted as WASM_INVALID_OFFSET and patched when    *)
(* their label is closed (depth_fixups, a label's fixup_offset) or when    *)
(* the called function is compiled (func_fixups).                          *)
(*                                                                         *)
(* One cell of istream stands for one emitted instruction with its         *)
(* operands, so offsets count cells.  Any callback the reader may deliver  *)
(* is delivered: nothing is assumed about the module being well typed.     *)
(***************************************************************************)
EXTENDS Integers, Sequences, FiniteSets

CONSTANTS Types,       \* value types in use, a subset of i32, i64, f32, f64
          Funcs,       \* function index space: records [params, results]
          NumImports,  \* the first NumImports functions are host functions
          Globals,     \* global index space: records [type, mutable]
          Opcodes,     \* opcodes delivered, a subset of OpcodeTable's domain
          Callbacks,   \* names of the callbacks the reader may deliver
          MaxIstream,  \* bound on the cells emitted
          MaxLabels,   \* bound on the depth of label_stack
          MaxTargets,  \* bound on the targets of a br_table
          MaxDecls,    \* bound on the local declarations of a function
          MaxLocals    \* bound on the locals of one declaration

VARIABLES istream,       \* emitted cells
          type_stack,    \* types of the operands, params and locals below
          label_stack,   \* open labels, the function's own label first
          depth_fixups,  \* per label: cells to patch when the label closes
          func_offset,   \* func->defined.offset, per function
          func_fixups,   \* per function: call cells to patch
          current_func,  \* function being compiled, 0 for NULL
          next_func,     \* next function body in the code section
          decls_left,    \* local declarations still to be read
          local_count,   \* func->defined.local_count
          param_and_local_types,
          status,        \* reading, loaded, rejected or a failed assertion
          typing,        \* history: type_stack before each cell executes
          unchecked      \* history: conditions no callback checked

compilerVars == <<istream, type_stack, label_stack, depth_fixups, func_offset,
                  func_fixups, current_func, next_func, decls_left,
                  local_count, param_and_local_types, status, typing,
                  unchecked>>

ANY == "any"                    \* WASM_TYPE_ANY
INVALID == 0                    \* WASM_INVALID_OFFSET; offsets start at 1
Sigs == {<<>>} \cup {<<t>> : t \in Types}   \* inline block signatures

\* Opcodes that differ in their operand types, in what they can trap with, or
\* in the union field the interpreter writes (push).
OpcodeTable ==
  [i32_add        |-> [params |-> <<"i32", "i32">>, result |-> <<"i32">>,
                       push |-> <<"i32">>, traps |-> {}],
   i32_div_s      |-> [params |-> <<"i32", "i32">>, result |-> <<"i32">>,
                       push |-> <<"i32">>,
                       traps |-> {"integer_divide_by_zero",
                                  "integer_overflow"}],
   i32_wrap_i64   |-> [params |-> <<"i64">>, result |-> <<"i32">>,
                       push |-> <<"i32">>, traps |-> {}],
   i64_eqz        |-> [params |-> <<"i64">>, result |-> <<"i32">>,
                       push |-> <<"i64">>, traps |-> {}],
   i32_load       |-> [params |-> <<"i32">>, result |-> <<"i32">>,
                       push |-> <<"i32">>,
                       traps |-> {"memory_access_out_of_bounds"}],
   i64_store      |-> [params |-> <<"i32", "i64">>, result |-> <<>>,
                       push |-> <<>>,
                       traps |-> {"memory_access_out_of_bounds"}],
   grow_memory    |-> [params |-> <<"i32">>, result |-> <<"i32">>,
                       push |-> <<"i32">>, traps |-> {}],
   current_memory |-> [params |-> <<>>, result |-> <<"i32">>,
                       push |-> <<"i32">>, traps |-> {}]]

ASSUME CompilerAssumption ==
  /\ Types \subseteq {"i32", "i64", "f32", "f64"}
  /\ "i32" \in Types
  /\ Funcs \in Seq([params : Seq(Types), results : Sigs])
  /\ NumImports \in 0 .. Len(Funcs)
  /\ Globals \in Seq([type : Types, mutable : BOOLEAN])
  /\ Opcodes \subseteq DOMAIN OpcodeTable
  /\ \A op \in Opcodes : /\ OpcodeTable[op].params \in Seq(Types)
                         /\ OpcodeTable[op].result \in Sigs
  /\ MaxIstream \in Nat
  /\ MaxLabels \in Nat
  /\ MaxTargets \in Nat
  /\ MaxDecls \in Nat
  /\ MaxLocals \in Nat

-----------------------------------------------------------------------------
(* The istream.                                                            *)

\* One emitted instruction: its opcode, a branch, table or call offset, and
\* two immediate operands.
Cell(op, target, a, b) == [op |-> op, target |-> target, a |-> a, b |-> b]

get_istream_offset == Len(istream) + 1

\* Mutant of Patched: only the first cell recorded is patched.
PatchedFirst(code, S, off) ==
  [i \in DOMAIN code |->
     IF i \in S /\ \A j \in S : i <= j THEN [code[i] EXCEPT !.target = off]
     ELSE code[i]]

\* emit_i32_at for every offset in S.
Patched(code, S, off) ==
  [i \in DOMAIN code |->
     IF i \in S THEN [code[i] EXCEPT !.target = off] ELSE code[i]]

emit_drop_keep(drop, keep) ==
  CASE drop = 0               -> <<>>
    [] drop = 1 /\ keep = 0   -> <<Cell("drop", 0, 0, 0)>>
    [] OTHER                  -> <<Cell("drop_keep", 0, drop, keep)>>

\* History of the cells emitted by emit_drop_keep.
DropKeepTyping(drop, ts) == IF drop = 0 THEN <<>> ELSE <<ts>>

-----------------------------------------------------------------------------
(* The type stack.  Each helper takes the stack it looks at.               *)

Truncate(s, n) == SubSeq(s, 1, n)
LastN(s, n) == SubSeq(s, Len(s) - n + 1, Len(s))

top_label == label_stack[Len(label_stack)]

top_type_is_any(ts) ==
  /\ Len(ts) > Len(param_and_local_types)
  /\ ts[Len(ts)] = ANY

\* Mutant of check_type_stack_limit: the limit of the label is forgotten.
check_type_stack_sizeOnly(ts, expected) ==
  top_type_is_any(ts) \/ expected <= Len(ts)

check_type_stack_limit(ts, expected) ==
  top_type_is_any(ts) \/ expected <= Len(ts) - top_label.type_stack_limit

check_type_stack_limit_exact(ts, expected) ==
  top_type_is_any(ts) \/ expected = Len(ts) - top_label.type_stack_limit

reset_type_stack_to_limit(ts) == Truncate(ts, top_label.type_stack_limit)

check_type(ts, expected, actual) ==
  top_type_is_any(ts) \/ expected = actual

check_n_types(ts, expected) ==
  \/ top_type_is_any(ts)
  \/ LET n == Len(expected)
     IN  /\ check_type_stack_limit(ts, n)
         /\ \A i \in 0 .. n - 1 :
              check_type(ts, expected[n - i], ts[Len(ts) - n + i + 1])

\* Mutant of push_type: unreachable code pushes too.
push_typeAlways(ts, t) == Append(ts, t)

push_type(ts, t) == IF top_type_is_any(ts) THEN ts ELSE Append(ts, t)

push_types(ts, types) == IF top_type_is_any(ts) THEN ts ELSE ts \o types

\* pop_type, n times.
pop_types(ts, n) ==
  IF top_type_is_any(ts) THEN ts ELSE Truncate(ts, Len(ts) - n)

\* assert(ctx->type_stack.size > label->type_stack_limit) in top_type, which
\* every pop_type calls.
TopTypeAsserts(ts, n) == n > 0 => Len(ts) > top_label.type_stack_limit

\* Pop the types of params, the last one first, checking each.
pop_and_check(ts, params) ==
  LET n == Len(params)
  IN  \/ top_type_is_any(ts)
      \/ /\ check_type_stack_limit(ts, n)
         /\ \A i \in 1 .. n :
              check_type(Truncate(ts, Len(ts) - n + i - 1), params[i],
                         ts[Len(ts) - n + i])

-----------------------------------------------------------------------------
(* Labels and fixups.                                                      *)

push_label(label_type, sig, ts, offset, fixup_offset) ==
  label_stack' = Append(label_stack,
                        [label_type |-> label_type, sig |-> sig,
                         type_stack_limit |-> Len(ts), offset |-> offset,
                         fixup_offset |-> fixup_offset])

\* Mutant of get_label_br_arity: a branch to a loop carries its results.
get_label_br_arityOfLoop(label) == Len(label.sig)

get_label_br_arity(label) ==
  IF label.label_type # "loop" THEN Len(label.sig) ELSE 0

translate_depth(depth) == Len(label_stack) - depth

Largest(S) == CHOOSE n \in S : \A m \in S : m <= n

\* append_fixup for every pair <<label index, cell>> of refs: the vector grows
\* to hold the index, its new entries empty.
append_fixup(fixups, refs) ==
  [d \in 1 .. Largest({Len(fixups)} \cup {r[1] : r \in refs}) |->
     (IF d <= Len(fixups) THEN fixups[d] ELSE {})
       \cup {r[2] : r \in {q \in refs : q[1] = d}}]

\* Mutant of TopFixups: the comparison of the two sizes is off by one.
TopFixupsOffByOne ==
  IF Len(label_stack) >= Len(depth_fixups) THEN {}
  ELSE depth_fixups[Len(label_stack)]

\* The cells fixup_top_label patches.
TopFixups ==
  IF Len(label_stack) > Len(depth_fixups) THEN {}
  ELSE depth_fixups[Len(label_stack)]

\* fixup_top_label and pop_label, which shrinks label_stack and also
\* depth_fixups, that may be the shorter of the two.
PatchAndPopLabel ==
  /\ label_stack' = Truncate(label_stack, Len(label_stack) - 1)
  /\ depth_fixups' = IF Len(depth_fixups) > Len(label_stack) - 1
                     THEN Truncate(depth_fixups, Len(label_stack) - 1)
                     ELSE depth_fixups

\* assert(size >= limit + arity) in emit_br and emit_br_table_offset.
EmitBrAsserts(ts, label) ==
  Len(ts) >= label.type_stack_limit + get_label_br_arity(label)

br_drop_count(ts, label) ==
  (Len(ts) - label.type_stack_limit) - get_label_br_arity(label)

\* History: the stack once the branch's drop and keep are done.
BranchTyping(ts, label) ==
  IF top_type_is_any(ts) THEN ts
  ELSE Truncate(ts, label.type_stack_limit)
         \o LastN(ts, get_label_br_arity(label))

\* emit_br_offset: a label without an offset yet gets a fixup for the cell.
BranchRefs(d, cell) ==
  IF label_stack[d].offset = INVALID THEN {<<d, cell>>} ELSE {}

-----------------------------------------------------------------------------
(* Outcomes of a callback.                                                 *)

\* A callback that fails raises an error: wasm_read_binary returns WASM_ERROR
\* and wasm_read_binary_interpreter drops what it appended to the istream.
Stop(outcome) ==
  /\ status' = outcome
  /\ istream' = <<>>
  /\ type_stack' = <<>>
  /\ label_stack' = <<>>
  /\ depth_fixups' = <<>>
  /\ func_offset' = [f \in DOMAIN Funcs |-> INVALID]
  /\ func_fixups' = [f \in DOMAIN Funcs |-> {}]
  /\ current_func' = 0
  /\ next_func' = 0
  /\ decls_left' = 0
  /\ local_count' = 0
  /\ param_and_local_types' = <<>>
  /\ typing' = <<>>
  /\ unchecked' = {}

Reject == Stop("rejected")

\* CHECK_RESULT: the rest of the callback runs only if the check succeeds.
Checked(ok, effect) == IF ok THEN effect ELSE Reject

\* assert: a debug build aborts.
Asserted(ok, assertion, effect) == IF ok THEN effect ELSE Stop(assertion)

emit(cells, types) ==
  /\ istream' = istream \o cells
  /\ typing' = typing \o types

\* The reader is inside a function body, past its local declarations.
InBody(callback) ==
  /\ status = "reading"
  /\ current_func # 0
  /\ decls_left = 0
  /\ callback \in Callbacks
  /\ Len(istream) < MaxIstream

inFunctionVars == <<func_offset, current_func, next_func, decls_left,
                    local_count, param_and_local_types, status>>

\* A callback that touches neither the labels nor their fixups.
NoLabelChange == UNCHANGED <<label_stack, depth_fixups>>

-----------------------------------------------------------------------------
(* Function bodies.                                                        *)

\* begin_function_body followed by on_local_decl_count(decl_count).
BeginFunctionBody(decl_count) ==
  LET f == next_func
      sig == Funcs[f]
  IN  /\ status = "reading"
      /\ current_func = 0
      /\ f \in DOMAIN Funcs
      /\ current_func' = f
      /\ next_func' = f + 1
      /\ func_offset' = [func_offset EXCEPT ![f] = get_istream_offset]
      /\ istream' = Patched(istream, func_fixups[f], get_istream_offset)
      /\ decls_left' = decl_count
      /\ local_count' = 0
      /\ param_and_local_types' = sig.params
      /\ type_stack' = sig.params
      /\ label_stack' = <<[label_type |-> "func", sig |-> sig.results,
                           type_stack_limit |-> Len(sig.params),
                           offset |-> INVALID, fixup_offset |-> INVALID]>>
      /\ depth_fixups' = <<>>
      /\ UNCHANGED <<func_fixups, status, typing, unchecked>>

\* The last declaration allocates every local of the function and moves the
\* function label's limit above them.
OnLocalDecl(count, type) ==
  LET locals == [i \in 1 .. count |-> type]
      last == decls_left = 1
  IN  /\ status = "reading"
      /\ current_func # 0
      /\ decls_left > 0
      /\ decls_left' = decls_left - 1
      /\ local_count' = local_count + count
      /\ param_and_local_types' = param_and_local_types \o locals
      /\ type_stack' = type_stack \o locals
      /\ IF last
         THEN /\ emit(<<Cell("alloca", 0, local_count', 0)>>,
                      <<Truncate(type_stack', Len(Funcs[current_func].params))>>)
              /\ label_stack' = [label_stack EXCEPT
                   ![1].type_stack_limit = @ + local_count']
         ELSE UNCHANGED <<istream, typing, label_stack>>
      /\ UNCHANGED <<depth_fixups, func_offset, func_fixups, current_func,
                     next_func, status, unchecked>>

\* check_n_types and check_type_stack_limit_exact at the end of a label.
EndChecks(ts, label) ==
  /\ check_n_types(ts, label.sig)
  /\ check_type_stack_limit_exact(ts, Len(label.sig))

\* drop_types_for_return: everything but the results goes, unless the code is
\* unreachable.
ReturnCells(ts, arity) ==
  IF top_type_is_any(ts) THEN <<>> ELSE emit_drop_keep(Len(ts) - arity, arity)

ReturnTyping(ts, arity) ==
  IF top_type_is_any(ts) THEN <<ts>>
  ELSE DropKeepTyping(Len(ts) - arity, ts) \o <<LastN(ts, arity)>>

\* The type stack end_function_body returns from: unreachable code may still
\* be entered by a branch to the function label.
ImplicitReturnTypes ==
  IF top_type_is_any(type_stack)
  THEN reset_type_stack_to_limit(type_stack) \o top_label.sig
  ELSE type_stack

EndFunctionBody ==
  LET label == top_label
      ts == ImplicitReturnTypes
  IN  /\ status = "reading"
      /\ current_func # 0
      /\ decls_left = 0
      /\ Checked(/\ label.label_type = "func"
                 /\ EndChecks(type_stack, label),
           /\ istream' = Patched(istream, TopFixups, get_istream_offset)
                           \o ReturnCells(ts, Len(label.sig))
                           \o <<Cell("return", 0, 0, 0)>>
           /\ typing' = typing \o ReturnTyping(ts, Len(label.sig))
           /\ PatchAndPopLabel
           /\ current_func' = 0
           /\ type_stack' = <<>>
           /\ UNCHANGED <<func_offset, func_fixups, next_func, decls_left,
                          local_count, param_and_local_types, status,
                          unchecked>>)

\* A code section has one body per declared function, and a module has a code
\* section or none: that a module without one declares no function is not
\* checked.
EndModule ==
  /\ status = "reading"
  /\ current_func = 0
  /\ next_func \in {NumImports + 1, Len(Funcs) + 1}
  /\ status' = "loaded"
  /\ unchecked' = unchecked \cup
       (IF next_func = Len(Funcs) + 1 THEN {} ELSE {"bodies"})
  /\ UNCHANGED <<istream, type_stack, label_stack, depth_fixups, func_offset,
                 func_fixups, current_func, next_func, decls_left,
                 local_count, param_and_local_types, typing>>

-----------------------------------------------------------------------------
(* Blocks.                                                                 *)

OnBlock(sig) ==
  /\ InBody("block")
  /\ Len(label_stack) < MaxLabels
  /\ push_label("block", sig, type_stack, INVALID, INVALID)
  /\ UNCHANGED <<inFunctionVars, istream, type_stack, depth_fixups,
                 func_fixups, typing, unchecked>>

OnLoop(sig) ==
  /\ InBody("loop")
  /\ Len(label_stack) < MaxLabels
  /\ push_label("loop", sig, type_stack, get_istream_offset, INVALID)
  /\ UNCHANGED <<inFunctionVars, istream, type_stack, depth_fixups,
                 func_fixups, typing, unchecked>>

OnIf(sig) ==
  /\ InBody("if")
  /\ Len(label_stack) < MaxLabels
  /\ Checked(pop_and_check(type_stack, <<"i32">>),
       /\ type_stack' = pop_types(type_stack, 1)
       /\ emit(<<Cell("br_unless", INVALID, 0, 0)>>, <<type_stack>>)
       /\ push_label("if", sig, type_stack', INVALID, get_istream_offset)
       /\ UNCHANGED <<inFunctionVars, depth_fixups, func_fixups, unchecked>>)

\* The true arm must end with the label's types on top; that nothing else is
\* above the label's limit is not checked.
OnElse ==
  LET label == top_label
      exact == check_type_stack_limit_exact(type_stack, Len(label.sig))
  IN  /\ InBody("else")
      /\ Checked(/\ label.label_type = "if"
                 /\ check_n_types(type_stack, label.sig),
           /\ istream' = Patched(istream, {label.fixup_offset},
                                 get_istream_offset + 1)
                           \o <<Cell("br", INVALID, 0, 0)>>
           /\ typing' = Append(typing, type_stack)
           /\ label_stack' = [label_stack EXCEPT
                ![Len(label_stack)].label_type = "else",
                ![Len(label_stack)].fixup_offset = get_istream_offset]
           /\ type_stack' = reset_type_stack_to_limit(type_stack)
           /\ unchecked' = unchecked \cup (IF exact THEN {} ELSE {"else"})
           /\ UNCHANGED <<inFunctionVars, depth_fixups, func_fixups>>)

\* Closes a block, loop or if.  That an if with a result has an else arm is
\* not checked.
OnEnd ==
  LET label == top_label
      arms == IF label.label_type \in {"if", "else"} THEN {label.fixup_offset}
              ELSE {}
  IN  /\ InBody("end")
      /\ Checked(/\ label.label_type # "func"
                 /\ EndChecks(type_stack, label),
           /\ istream' = Patched(istream, TopFixups \cup arms,
                                 get_istream_offset)
           /\ type_stack' = push_types(reset_type_stack_to_limit(type_stack),
                                       label.sig)
           /\ PatchAndPopLabel
           /\ unchecked' = unchecked \cup
                (IF label.label_type = "if" /\ label.sig # <<>>
                 THEN {"if"} ELSE {})
           /\ UNCHANGED <<inFunctionVars, func_fixups, typing>>)

-----------------------------------------------------------------------------
(* Branches.                                                               *)

\* What follows an unconditional transfer of control is unreachable.
UnreachableTypes(ts) == push_type(reset_type_stack_to_limit(ts), ANY)

OnBr(depth) ==
  LET d == translate_depth(depth)
      label == label_stack[d]
      drop == emit_drop_keep(br_drop_count(type_stack, label),
                             get_label_br_arity(label))
  IN  /\ InBody("br")
      /\ Checked(/\ depth < Len(label_stack)
                 /\ label.label_type # "loop" =>
                      check_n_types(type_stack, label.sig),
           Asserted(EmitBrAsserts(type_stack, label), "assert_emit_br",
             /\ emit(drop \o <<Cell("br", label.offset, 0, 0)>>,
                     DropKeepTyping(br_drop_count(type_stack, label),
                                    type_stack)
                       \o <<BranchTyping(type_stack, label)>>)
             /\ depth_fixups' =
                  append_fixup(depth_fixups, BranchRefs(d, Len(istream')))
             /\ type_stack' = UnreachableTypes(type_stack)
             /\ UNCHANGED <<inFunctionVars, label_stack, func_fixups,
                            unchecked>>))

\* The operands a taken br_if carries to its label are not checked.
OnBrIf(depth) ==
  LET d == translate_depth(depth)
      label == label_stack[d]
      ts == pop_types(type_stack, 1)
      drop == emit_drop_keep(br_drop_count(ts, label),
                             get_label_br_arity(label))
      typed == label.label_type = "loop" \/ check_n_types(ts, label.sig)
  IN  /\ InBody("br_if")
      /\ Checked(/\ depth < Len(label_stack)
                 /\ pop_and_check(type_stack, <<"i32">>),
           Asserted(EmitBrAsserts(ts, label), "assert_emit_br",
             /\ emit(<<Cell("br_unless", get_istream_offset + Len(drop) + 2,
                            0, 0)>>
                       \o drop \o <<Cell("br", label.offset, 0, 0)>>,
                     <<type_stack>>
                       \o DropKeepTyping(br_drop_count(ts, label), ts)
                       \o <<BranchTyping(ts, label)>>)
             /\ depth_fixups' =
                  append_fixup(depth_fixups, BranchRefs(d, Len(istream')))
             /\ type_stack' = ts
             /\ unchecked' = unchecked \cup (IF typed THEN {} ELSE {"br_if"})
             /\ UNCHANGED <<inFunctionVars, label_stack, func_fixups>>))

\* targets holds the depths of the table and, last, the default's.  The table
\* follows the br_table and a data marker.  The first bad target decides how
\* the callback ends: a depth out of range is asserted, not checked.
OnBrTable(targets) ==
  LET ts == pop_types(type_stack, 1)
      n == Len(targets)
      InRange(i) == targets[i] < Len(label_stack)
      Label(i) == label_stack[translate_depth(targets[i])]
      Bad == {i \in 1 .. n : ~InRange(i) \/ ~check_n_types(ts, Label(i).sig)}
      First == CHOOSE i \in Bad : \A j \in Bad : i <= j
      Entry(i) == Cell("entry", Label(i).offset, br_drop_count(ts, Label(i)),
                       get_label_br_arity(Label(i)))
      table == get_istream_offset + 2
  IN  /\ InBody("br_table")
      /\ Len(istream) + n < MaxIstream
      /\ Checked(pop_and_check(type_stack, <<"i32">>),
           IF Bad # {}
           THEN Asserted(InRange(First), "assert_translate_depth", Reject)
           ELSE Asserted(\A i \in 1 .. n : EmitBrAsserts(ts, Label(i)),
                         "assert_emit_br",
                  /\ emit(<<Cell("br_table", table, n - 1, 0),
                            Cell("data", 0, n, 0)>>
                            \o [i \in 1 .. n |-> Entry(i)],
                          <<type_stack>> \o [i \in 1 .. n + 1 |-> <<ANY>>])
                  /\ depth_fixups' = append_fixup(depth_fixups,
                       UNION {BranchRefs(translate_depth(targets[i]),
                                         table + i - 1) : i \in 1 .. n})
                  /\ type_stack' = UnreachableTypes(ts)
                  /\ UNCHANGED <<inFunctionVars, label_stack, func_fixups,
                                 unchecked>>))

OnReturn ==
  LET results == Funcs[current_func].results
  IN  /\ InBody("return")
      /\ Checked(check_n_types(type_stack, results),
           /\ emit(ReturnCells(type_stack, Len(results))
                     \o <<Cell("return", 0, 0, 0)>>,
                   ReturnTyping(type_stack, Len(results)))
           /\ type_stack' = UnreachableTypes(type_stack)
           /\ NoLabelChange
           /\ UNCHANGED <<inFunctionVars, func_fixups, unchecked>>)

OnUnreachable ==
  /\ InBody("unreachable")
  /\ emit(<<Cell("unreachable", 0, 0, 0)>>, <<type_stack>>)
  /\ type_stack' = UnreachableTypes(type_stack)
  /\ NoLabelChange
  /\ UNCHANGED <<inFunctionVars, func_fixups, unchecked>>

-----------------------------------------------------------------------------
(* Calls.                                                                  *)

\* A call to a function whose body was not read yet is patched later.
OnCall(f) ==
  LET sig == Funcs[f]
      ts == pop_types(type_stack, Len(sig.params))
      host == f <= NumImports
  IN  /\ InBody("call")
      /\ Checked(check_type_stack_limit(type_stack, Len(sig.params)),
           Asserted(TopTypeAsserts(type_stack, Len(sig.params)),
                    "assert_top_type",
             Checked(pop_and_check(type_stack, sig.params),
               /\ emit(IF host THEN <<Cell("call_host", 0, f, 0)>>
                       ELSE <<Cell("call", func_offset[f], f, 0)>>,
                       <<type_stack>>)
               /\ func_fixups' =
                    IF ~host /\ func_offset[f] = INVALID
                    THEN [func_fixups EXCEPT ![f] = @ \cup {get_istream_offset}]
                    ELSE func_fixups
               /\ type_stack' = push_types(ts, sig.results)
               /\ NoLabelChange
               /\ UNCHANGED <<inFunctionVars, unchecked>>)))

\* The signature is that of function f.
OnCallIndirect(f) ==
  LET sig == Funcs[f]
      ts == pop_types(type_stack, 1)
      rest == pop_types(ts, Len(sig.params))
  IN  /\ InBody("call_indirect")
      /\ Checked(/\ pop_and_check(type_stack, <<"i32">>)
                 /\ check_type_stack_limit(ts, Len(sig.params)),
           Asserted(TopTypeAsserts(ts, Len(sig.params)), "assert_top_type",
             Checked(pop_and_check(ts, sig.params),
               /\ emit(<<Cell("call_indirect", 0, f, 0)>>, <<type_stack>>)
               /\ type_stack' = push_types(rest, sig.results)
               /\ NoLabelChange
               /\ UNCHANGED <<inFunctionVars, func_fixups, unchecked>>)))

-----------------------------------------------------------------------------
(* Operators, constants, locals and globals.                               *)

\* A callback that pops params, pushes results and emits one cell.
SimpleExpr(params, results, cell) ==
  Checked(pop_and_check(type_stack, params),
    /\ emit(<<cell>>, <<type_stack>>)
    /\ type_stack' = push_types(pop_types(type_stack, Len(params)), results)
    /\ NoLabelChange
    /\ UNCHANGED <<inFunctionVars, func_fixups, unchecked>>)

\* on_unary_expr, on_binary_expr, on_load_expr, on_store_expr,
\* on_grow_memory_expr and on_current_memory_expr.
OnOpcode(op) ==
  /\ InBody("opcode")
  /\ SimpleExpr(OpcodeTable[op].params, OpcodeTable[op].result,
                Cell(op, 0, 0, 0))

ConstOp == [i32 |-> "i32_const", i64 |-> "i64_const", f32 |-> "f32_const",
            f64 |-> "f64_const"]

OnConst(type) ==
  /\ InBody("const")
  /\ SimpleExpr(<<>>, <<type>>, Cell(ConstOp[type], 0, 0, 0))

OnDrop ==
  /\ InBody("drop")
  /\ Checked(check_type_stack_limit(type_stack, 1),
       Asserted(TopTypeAsserts(type_stack, 1), "assert_top_type",
         /\ emit(<<Cell("drop", 0, 0, 0)>>, <<type_stack>>)
         /\ type_stack' = pop_types(type_stack, 1)
         /\ NoLabelChange
         /\ UNCHANGED <<inFunctionVars, func_fixups, unchecked>>))

OnSelect ==
  LET ts == pop_types(type_stack, 1)
      n == Len(ts)
      rest == pop_types(ts, 2)
  IN  /\ InBody("select")
      /\ Checked(/\ pop_and_check(type_stack, <<"i32">>)
                 /\ check_type_stack_limit(ts, 2),
           Asserted(TopTypeAsserts(ts, 2), "assert_top_type",
             Checked(\/ top_type_is_any(ts)
                     \/ check_type(rest, ts[n - 1], ts[n]),
               /\ emit(<<Cell("select", 0, 0, 0)>>, <<type_stack>>)
               /\ type_stack' = IF top_type_is_any(ts) THEN ts
                                ELSE push_type(rest, ts[n - 1])
               /\ NoLabelChange
               /\ UNCHANGED <<inFunctionVars, func_fixups, unchecked>>)))

OnGetGlobal(g) ==
  /\ InBody("global")
  /\ Checked(g <= Len(Globals),
       SimpleExpr(<<>>, <<Globals[g].type>>, Cell("get_global", 0, g, 0)))

OnSetGlobal(g) ==
  /\ InBody("global")
  /\ Checked(g <= Len(Globals) /\ Globals[g].mutable,
       SimpleExpr(<<Globals[g].type>>, <<>>, Cell("set_global", 0, g, 0)))

\* Mutant of translate_local_index: off by one.
translate_local_indexOffByOne(ts, i) == Len(ts) - i + 2

\* Distance of local i from the top of a stack of types ts.
translate_local_index(ts, i) == Len(ts) - i + 1

OnGetLocal(i) ==
  /\ InBody("local")
  /\ Checked(i <= Len(param_and_local_types),
       SimpleExpr(<<>>, <<param_and_local_types[i]>>,
                  Cell("get_local", 0, translate_local_index(type_stack, i), 0)))

OnSetLocal(i) ==
  /\ InBody("local")
  /\ Checked(i <= Len(param_and_local_types),
       SimpleExpr(<<param_and_local_types[i]>>, <<>>,
                  Cell("set_local", 0,
                       translate_local_index(pop_types(type_stack, 1), i), 0)))

OnTeeLocal(i) ==
  LET top == type_stack[Len(type_stack)]
  IN  /\ InBody("local")
      /\ Checked(/\ i <= Len(param_and_local_types)
                 /\ check_type_stack_limit(type_stack, 1),
           Asserted(TopTypeAsserts(type_stack, 1), "assert_top_type",
             Checked(check_type(type_stack, param_and_local_types[i], top),
               /\ emit(<<Cell("tee_local", 0,
                              translate_local_index(type_stack, i), 0)>>,
                       <<type_stack>>)
               /\ NoLabelChange
               /\ UNCHANGED <<inFunctionVars, type_stack, func_fixups,
                              unchecked>>)))

-----------------------------------------------------------------------------
Init ==
  /\ istream = <<>>
  /\ type_stack = <<>>
  /\ label_stack = <<>>
  /\ depth_fixups = <<>>
  /\ func_offset = [f \in DOMAIN Funcs |-> INVALID]
  /\ func_fixups = [f \in DOMAIN Funcs |-> {}]
  /\ current_func = 0
  /\ next_func = NumImports + 1
  /\ decls_left = 0
  /\ local_count = 0
  /\ param_and_local_types = <<>>
  /\ status = "reading"
  /\ typing = <<>>
  /\ unchecked = {}

\* One callback of the binary reader.
ReadStep ==
  \/ \E n \in 0 .. MaxDecls : BeginFunctionBody(n)
  \/ \E n \in 0 .. MaxLocals, t \in Types : OnLocalDecl(n, t)
  \/ EndFunctionBody
  \/ EndModule
  \/ \E sig \in Sigs : OnBlock(sig) \/ OnLoop(sig) \/ OnIf(sig)
  \/ OnElse
  \/ OnEnd
  \/ \E depth \in 0 .. Len(label_stack) : OnBr(depth) \/ OnBrIf(depth)
  \/ \E n \in 1 .. MaxTargets + 1 :
       \E targets \in [1 .. n -> 0 .. Len(label_stack)] : OnBrTable(targets)
  \/ OnReturn
  \/ OnUnreachable
  \/ \E f \in DOMAIN Funcs : OnCall(f) \/ OnCallIndirect(f)
  \/ \E op \in Opcodes : OnOpcode(op)
  \/ \E t \in Types : OnConst(t)
  \/ OnDrop
  \/ OnSelect
  \/ \E g \in 1 .. Len(Globals) + 1 : OnGetGlobal(g) \/ OnSetGlobal(g)
  \/ \E i \in 1 .. Len(param_and_local_types) + 1 :
       OnGetLocal(i) \/ OnSetLocal(i) \/ OnTeeLocal(i)

CompilerSpec == Init /\ [][ReadStep]_compilerVars

-----------------------------------------------------------------------------
(* Properties.                                                             *)

\* Cells with an offset that a fixup may patch.
BranchOps == {"br", "br_unless", "entry", "call"}

\* What the callbacks emit.
CellOps ==
  BranchOps \cup Opcodes \cup {ConstOp[t] : t \in Types}
    \cup {"alloca", "br_table", "call_host", "call_indirect", "data", "drop",
          "drop_keep", "get_global", "get_local", "return", "select",
          "set_global", "set_local", "tee_local", "unreachable"}

Cells == [op : CellOps, target : Nat, a : Nat, b : Nat]

Labels == [label_type : {"func", "block", "loop", "if", "else"}, sig : Sigs,
           type_stack_limit : Nat, offset : Nat, fixup_offset : Nat]

CompilerTypeOK ==
  /\ istream \in Seq(Cells)
  /\ type_stack \in Seq(Types \cup {ANY})
  /\ label_stack \in Seq(Labels)
  /\ depth_fixups \in Seq(SUBSET (1 .. Len(istream)))
  /\ func_offset \in [DOMAIN Funcs -> Nat]
  /\ func_fixups \in [DOMAIN Funcs -> SUBSET (1 .. Len(istream))]
  /\ current_func \in 0 .. Len(Funcs)
  /\ next_func \in 0 .. Len(Funcs) + 1
  /\ decls_left \in 0 .. MaxDecls
  /\ local_count \in Nat
  /\ param_and_local_types \in Seq(Types)
  /\ status \in {"reading", "loaded", "rejected", "assert_emit_br",
                 "assert_top_type", "assert_translate_depth"}
  /\ Len(typing) = Len(istream)
  /\ unchecked \subseteq {"if", "else", "br_if", "bodies", "host"}

\* A type stack is never popped below the values an enclosing label owns: the
\* limits of the open labels grow with their depth and stay at or below the
\* size of the stack, so the unsigned differences size - limit never wrap, and
\* every param and local stays addressable (the assertion of
\* translate_local_index).
LimitsOrdered ==
  current_func # 0 =>
    /\ Len(label_stack) > 0
    /\ \A i, j \in DOMAIN label_stack : i <= j =>
         label_stack[i].type_stack_limit <= label_stack[j].type_stack_limit
    /\ \A i \in DOMAIN label_stack :
         label_stack[i].type_stack_limit <= Len(type_stack)
    /\ decls_left = 0 =>
         Len(param_and_local_types) = label_stack[1].type_stack_limit

\* The polymorphic type that marks unreachable code is only ever the top of
\* the stack: check_type, which looks at the top left by a pop, can therefore
\* never skip the check of a real operand.
AnyOnlyOnTop ==
  \A i \in DOMAIN type_stack : type_stack[i] = ANY => i = Len(type_stack)

\* The cells that some open label or uncompiled function will patch.
PendingCells ==
  (UNION {depth_fixups[d] : d \in DOMAIN depth_fixups})
    \cup {label_stack[d].fixup_offset :
            d \in {e \in DOMAIN label_stack :
                     label_stack[e].label_type \in {"if", "else"}}}
    \cup (UNION {func_fixups[f] : f \in {g \in DOMAIN Funcs :
                                            func_offset[g] = INVALID}})

\* An offset is left invalid exactly while a label or function that will patch
\* it is still open.  A fixup lost when depth_fixups shrinks, or one that
\* outlives its label, breaks this.
FixupsPending ==
  PendingCells = {c \in DOMAIN istream : /\ istream[c].op \in BranchOps
                                         /\ istream[c].target = INVALID}

\* Every branch and call of a loaded module has an offset, and it is the
\* offset of an instruction: neither the table data of a br_table nor the end
\* of the istream is ever a target.
LoadedResolved ==
  status = "loaded" =>
    \A c \in DOMAIN istream : istream[c].op \in BranchOps =>
      /\ istream[c].target \in DOMAIN istream
      /\ istream[istream[c].target].op \notin {"data", "entry"}

=============================================================================
