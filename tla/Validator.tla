----------------------------- MODULE Validator ------------------------------
(***************************************************************************)
(* The type checker of validator.c, which wast2wasm runs on the AST before *)
(* it writes a module.  check_expr walks a function body in the order in   *)
(* which the binary writer later emits it, so the walk is modelled as one  *)
(* step per expression, with a step for each end of a nested block.  An    *)
(* error is recorded and the walk goes on.                                 *)
(***************************************************************************)
EXTENDS Integers, Sequences

CONSTANTS Funcs,        \* function index space: records [params, results]
          Globals,      \* global index space: records [type, mutable]
          OpcodeTable,  \* operand and result types of the operators
          Modules       \* numbers of tables and memories a module may have

VARIABLES type_stack,
          labels,   \* the LabelNodes, the function's own first
          skipped,  \* blocks open in the code that check_block left out
          result,   \* WASM_OK or WASM_ERROR
          module    \* numbers of tables and memories of current_module

vars == <<type_stack, labels, skipped, result, module>>

ANY == "any"

Truncate(s, n) == SubSeq(s, 1, n)

-----------------------------------------------------------------------------
(* The type stack.                                                         *)

top_label == labels[Len(labels)]

avail(ts) == Len(ts) - top_label.type_stack_limit

check_type_stack_limit(ts, expected) == expected <= avail(ts)

check_type_stack_limit_exact(ts, expected) == expected = avail(ts)

reset_type_stack_to_limit(ts) == Truncate(ts, top_label.type_stack_limit)

\* A stack that is used up answers i32, for checking to go on.
top_type(ts) == IF avail(ts) > 0 THEN ts[Len(ts)] ELSE "i32"

pop_type(ts) == IF avail(ts) > 0 THEN Truncate(ts, Len(ts) - 1) ELSE ts

\* The types on top of ts are those expected.
TopTypesAre(ts, expected) ==
  \A i \in DOMAIN expected : ts[Len(ts) - Len(expected) + i] = expected[i]

check_n_types(ts, expected) ==
  check_type_stack_limit(ts, Len(expected)) /\ TopTypesAre(ts, expected)

\* pop_and_check_1_type and pop_and_check_2_types: nothing is popped from a
\* stack that is too small.
pop_and_check(ts, params) ==
  IF check_type_stack_limit(ts, Len(params))
  THEN Truncate(ts, Len(ts) - Len(params)) ELSE ts

LabelTypesOk(ts, label) ==
  label.label_type # "loop" => check_n_types(ts, label.sig)

\* find_label_by_var, check_label_var and check_br.
check_br(ts, depth) ==
  /\ depth < Len(labels)
  /\ LabelTypesOk(ts, labels[Len(labels) - depth])

check_call(ts, sig) ==
  (IF Len(sig.params) <= avail(ts) THEN Truncate(ts, Len(ts) - Len(sig.params))
   ELSE reset_type_stack_to_limit(ts))
    \o sig.results

-----------------------------------------------------------------------------
(* Walking a block.                                                        *)

push_label(label_type, sig, ts) ==
  Append(labels, [label_type |-> label_type, sig |-> sig,
                  type_stack_limit |-> Len(ts), broke |-> FALSE])

\* Mutant of Live: check_block goes on after unreachable code.
LiveAlways == skipped = 0

\* check_block stops at the first expression that leaves the type ANY: the
\* rest of the block, and the blocks in it, are left out.
Live == skipped = 0 /\ ~top_label.broke

Errors(ok) == result' = IF ok THEN result ELSE "error"

\* check_expr of an expression without a block of its own, and the test of
\* the loop in check_block.
check_expr(ok, ts) ==
  IF Live
  THEN /\ Errors(ok)
       /\ type_stack' = ts
       /\ labels' = [labels EXCEPT
            ![Len(labels)].broke = top_type(ts) = ANY]
       /\ UNCHANGED <<skipped, module>>
  ELSE UNCHANGED vars

\* check_block starts.
BeginBlock(label_type, sig, ok, ts) ==
  IF Live
  THEN /\ Errors(ok)
       /\ type_stack' = ts
       /\ labels' = push_label(label_type, sig, ts)
       /\ UNCHANGED <<skipped, module>>
  ELSE /\ skipped' = skipped + 1
       /\ UNCHANGED <<type_stack, labels, result, module>>

\* Mutant of EndsWell: the height of the stack is not looked at.
EndsWellAbove(label) == label.broke \/ check_n_types(type_stack, label.sig)

\* The checks at the end of check_block.
EndsWell(label) ==
  \/ label.broke
  \/ /\ check_n_types(type_stack, label.sig)
     /\ check_type_stack_limit_exact(type_stack, Len(label.sig))

\* Between the two check_blocks of an if.
CheckElse ==
  IF skipped > 0 THEN UNCHANGED vars
  ELSE /\ Errors(EndsWell(top_label))
       /\ type_stack' = reset_type_stack_to_limit(type_stack)
       /\ labels' = [labels EXCEPT ![Len(labels)].label_type = "else",
                                   ![Len(labels)].broke = FALSE]
       /\ UNCHANGED <<skipped, module>>

\* The end of check_block, pop_label and push_types.  An if without an else
\* has a second check_block, of no expressions.
CheckEnd ==
  LET label == top_label
      no_else == label.label_type = "if" => label.sig = <<>>
  IN  IF skipped > 0
      THEN /\ skipped' = skipped - 1
           /\ UNCHANGED <<type_stack, labels, result, module>>
      ELSE /\ Errors(EndsWell(label) /\ no_else)
           /\ type_stack' = reset_type_stack_to_limit(type_stack) \o label.sig
           /\ labels' = Truncate(labels, Len(labels) - 1)
           /\ UNCHANGED <<skipped, module>>

check_func(f) ==
  /\ labels' = <<[label_type |-> "func", sig |-> Funcs[f].results,
                  type_stack_limit |-> Len(type_stack), broke |-> FALSE]>>
  /\ UNCHANGED <<type_stack, skipped, result, module>>

EndFunc ==
  /\ Errors(EndsWell(top_label))
  /\ type_stack' = reset_type_stack_to_limit(type_stack)
  /\ labels' = <<>>
  /\ UNCHANGED <<skipped, module>>

-----------------------------------------------------------------------------
(* Expressions.                                                            *)

CheckBlock(sig) == BeginBlock("block", sig, TRUE, type_stack)

CheckLoop(sig) == BeginBlock("loop", sig, TRUE, type_stack)

CheckIf(sig) ==
  BeginBlock("if", sig, check_n_types(type_stack, <<"i32">>),
             pop_and_check(type_stack, <<"i32">>))

\* What follows a transfer of control is unreachable.
UnreachableTypes(ts) == Append(reset_type_stack_to_limit(ts), ANY)

CheckBr(depth) ==
  check_expr(check_br(type_stack, depth), UnreachableTypes(type_stack))

CheckBrIf(depth) ==
  LET ts == pop_and_check(type_stack, <<"i32">>)
  IN  check_expr(check_n_types(type_stack, <<"i32">>) /\ check_br(ts, depth), ts)

CheckBrTable(targets) ==
  LET ts == pop_and_check(type_stack, <<"i32">>)
  IN  check_expr(/\ check_n_types(type_stack, <<"i32">>)
                 /\ \A i \in DOMAIN targets : check_br(ts, targets[i]),
                 UnreachableTypes(ts))

CheckReturn ==
  check_expr(check_n_types(type_stack, labels[1].sig),
             UnreachableTypes(type_stack))

CheckUnreachable == check_expr(TRUE, UnreachableTypes(type_stack))

CheckCall(f) ==
  check_expr(check_n_types(type_stack, Funcs[f].params),
             check_call(type_stack, Funcs[f]))

\* The index is popped without a look at the size of the stack.
CheckCallIndirect(f) ==
  LET ts == pop_type(type_stack)
  IN  check_expr(/\ module.tables > 0
                 /\ top_type(type_stack) = "i32"
                 /\ check_n_types(ts, Funcs[f].params),
                 check_call(ts, Funcs[f]))

MemoryOps == {"i32_load", "i64_store", "grow_memory", "current_memory"}

\* Mutant of check_has_memory: any module has a memory.
check_has_memoryAlways(op) == TRUE

check_has_memory(op) == op \in MemoryOps => module.memories > 0

\* check_opcode1 and check_opcode2, current_memory included.
CheckOpcode(op) ==
  LET params == OpcodeTable[op].params
  IN  check_expr(check_has_memory(op) /\ check_n_types(type_stack, params),
                 pop_and_check(type_stack, params) \o OpcodeTable[op].result)

CheckConst(type) == check_expr(TRUE, Append(type_stack, type))

CheckDrop == check_expr(check_type_stack_limit(type_stack, 1), pop_type(type_stack))

CheckSelect ==
  LET ts == pop_and_check(type_stack, <<"i32">>)
      enough == check_type_stack_limit(ts, 2)
  IN  check_expr(/\ check_n_types(type_stack, <<"i32">>)
                 /\ enough
                 /\ ts[Len(ts)] = ts[Len(ts) - 1],
                 IF enough THEN Append(Truncate(ts, Len(ts) - 2), ts[Len(ts)])
                 ELSE ts)

CheckGetGlobal(g) ==
  check_expr(g <= Len(Globals),
             IF g <= Len(Globals) THEN Append(type_stack, Globals[g].type)
             ELSE type_stack)

\* A type an expression is checked against, i32 where the index has none.
TypeAt(types, i) == IF i <= Len(types) THEN types[i] ELSE "i32"

\* Whether the global is mutable is not asked.
CheckSetGlobal(g) ==
  LET type == TypeAt([i \in DOMAIN Globals |-> Globals[i].type], g)
  IN  check_expr(g <= Len(Globals) /\ check_n_types(type_stack, <<type>>),
                 pop_and_check(type_stack, <<type>>))

\* locals: the types of the params and locals of current_func.
CheckGetLocal(i, locals) ==
  check_expr(i <= Len(locals),
             IF i <= Len(locals) THEN Append(type_stack, locals[i])
             ELSE type_stack)

CheckSetLocal(i, locals) ==
  LET type == TypeAt(locals, i)
  IN  check_expr(i <= Len(locals) /\ check_n_types(type_stack, <<type>>),
                 pop_and_check(type_stack, <<type>>))

\* check_type_stack_limit returns WASM_OK, which is 0, when there is an
\* operand: its type is then not looked at.
CheckTeeLocal(i, locals) ==
  check_expr(i <= Len(locals) /\ check_type_stack_limit(type_stack, 1),
             type_stack)

Init ==
  /\ type_stack = <<>>
  /\ labels = <<>>
  /\ skipped = 0
  /\ result = "ok"
  /\ module \in Modules

=============================================================================
