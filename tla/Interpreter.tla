---------------------------- MODULE Interpreter ------------------------------
(***************************************************************************)
(* wasm_run_interpreter (interpreter.c) and run_function (wasm-interp.c)   *)
(* on the istream FuncCompiler produced.  Values are abstracted to the     *)
(* union field they were written through, so the value stack is a sequence *)
(* of types; conditions, table keys and table entries are free choices.    *)
(* The interpreter itself keeps no types: that the value stack has the     *)
(* shape the compiler computed is what has to hold.                        *)
(***************************************************************************)
EXTENDS FuncCompiler, SequencesExt

CONSTANTS Table,           \* env table: function indexes, 0 uninitialized
          ArgLists,        \* argument type lists run_function is called with
          HostOutcomes,    \* what a host callback may do
          ValueStackSize,  \* thread options
          CallStackSize

VARIABLES pc, value_stack, call_stack,   \* thread; call_stack: return offsets
          mode,      \* idle, running, or how the process ended
          run_func,  \* function run_function was called with
          result,    \* WasmInterpreterResult of the last run
          results    \* values copy_results took from the stack

threadVars == <<pc, value_stack, call_stack, mode, run_func, result, results>>
vars == <<compilerVars, threadVars>>

ASSUME InterpreterAssumption ==
  /\ Table \in Seq(0 .. Len(Funcs))
  /\ \A args \in ArgLists : args \in Seq(Types)
  /\ HostOutcomes \subseteq {"ok", "trap", "mismatch"}
  /\ ValueStackSize \in Nat \ {0}
  /\ CallStackSize \in Nat \ {0}

-----------------------------------------------------------------------------
(* run_function.                                                           *)

\* The end of run_function: both stacks are always reset.
EndRun(iresult, copied) ==
  /\ mode' = "idle"
  /\ result' = iresult
  /\ results' = copied
  /\ pc' = INVALID
  /\ value_stack' = <<>>
  /\ call_stack' = <<>>

\* assert, or a read below the stack: nothing is known of what follows.
Abort(how) ==
  /\ mode' = how
  /\ pc' = INVALID
  /\ value_stack' = <<>>
  /\ call_stack' = <<>>
  /\ UNCHANGED <<result, results>>

\* copy_results asserts that the results are all the stack holds.
copy_results(stack, sig) ==
  IF Len(stack) = Len(sig.results)
  THEN EndRun("ok", stack)
  ELSE Abort("assert_copy_results")

\* push_args stops at the first argument of the wrong type or one too many
\* for the stack.
push_args(sig, args) ==
  LET Fails(i) == sig.params[i] # args[i] \/ i > ValueStackSize
  IN  IF Len(args) # Len(sig.params) THEN "argument_type_mismatch"
      ELSE IF \E i \in DOMAIN args : Fails(i)
      THEN LET i == CHOOSE j \in DOMAIN args :
                      Fails(j) /\ \A k \in 1 .. j - 1 : ~Fails(k)
           IN  IF sig.params[i] # args[i] THEN "argument_type_mismatch"
               ELSE "value_stack_exhausted"
      ELSE "ok"

\* Mutants of wasm_call_host: the arguments stay on the stack; the type of the
\* result is not compared.
wasm_call_hostKeepsArgs(stack, sig) ==
  {[stack |-> stack \o sig.results, result |-> "ok"] : how \in HostOutcomes}

wasm_call_hostAnyResult(stack, sig) ==
  {[stack |-> Truncate(stack, Len(stack) - Len(sig.params))
                \o [i \in DOMAIN sig.results |->
                      IF how = "mismatch"
                      THEN CHOOSE t \in Types : t # sig.results[i]
                      ELSE sig.results[i]],
    result |-> "ok"] : how \in HostOutcomes}

\* wasm_call_host: the stack it leaves and its result.
wasm_call_host(stack, sig) ==
  LET rest == Truncate(stack, Len(stack) - Len(sig.params))
      Outcome(how) ==
        IF how = "trap" THEN [stack |-> rest, result |-> "host_trapped"]
        ELSE IF sig.results = <<>> THEN [stack |-> rest, result |-> "ok"]
        ELSE IF how = "mismatch"
        THEN [stack |-> rest, result |-> "host_result_type_mismatch"]
        ELSE IF Len(rest) >= ValueStackSize
        THEN [stack |-> rest, result |-> "value_stack_exhausted"]
        ELSE [stack |-> rest \o sig.results, result |-> "ok"]
  IN  {Outcome(how) : how \in HostOutcomes}

\* run_function up to the first instruction, or all of it for a host function
\* or bad arguments.
RunFunction(f, args) ==
  LET sig == Funcs[f]
      pushed == push_args(sig, args)
  IN  /\ status = "loaded"
      /\ mode = "idle"
      /\ run_func' = f
      /\ \/ /\ pushed # "ok"
            /\ EndRun(pushed, results)
         \/ /\ pushed = "ok"
            /\ f > NumImports
            /\ mode' = "running"
            /\ pc' = func_offset[f]
            /\ value_stack' = args
            /\ UNCHANGED <<call_stack, result, results>>
         \/ /\ pushed = "ok"
            /\ f <= NumImports
            /\ \E out \in wasm_call_host(args, sig) :
                 IF out.result = "ok" THEN copy_results(out.stack, sig)
                 ELSE EndRun(out.result, results)
      /\ UNCHANGED compilerVars

-----------------------------------------------------------------------------
(* wasm_run_interpreter, one action per kind of instruction.               *)

cell == istream[pc]

AtOp(ops) ==
  /\ mode = "running"
  /\ pc \in DOMAIN istream
  /\ cell.op \in ops

Pop(n) == Truncate(value_stack, Len(value_stack) - n)
Pick(n) == value_stack[Len(value_stack) - n + 1]

Continue(stack, offset) ==
  /\ value_stack' = stack
  /\ pc' = offset
  /\ UNCHANGED <<call_stack, mode, run_func, result, results, compilerVars>>

TRAP(type) == EndRun(type, results) /\ UNCHANGED <<run_func, compilerVars>>

\* Mutant of CHECK_STACK: one value too many.
CHECK_STACKOffByOne(stack) == Len(stack) <= ValueStackSize

CHECK_STACK(stack) == Len(stack) < ValueStackSize

\* PUSH of one value or none onto stack.
PushAndContinue(stack, types) ==
  IF types = <<>> \/ CHECK_STACK(stack)
  THEN Continue(stack \o types, pc + 1)
  ELSE TRAP("value_stack_exhausted")

\* How far below its top an instruction reads or writes the value stack.
Operands(c) ==
  CASE c.op \in {"br_unless", "br_table", "drop", "set_global"} -> 1
    [] c.op = "select" -> 3
    [] c.op \in {"get_local", "tee_local"} -> c.a
    [] c.op = "set_local" -> c.a + 1
    [] c.op = "drop_keep" -> c.a + c.b
    [] c.op = "call_host" -> Len(Funcs[c.a].params)
    [] c.op = "call_indirect" -> 1
    [] c.op \in DOMAIN OpcodeTable -> Len(OpcodeTable[c.op].params)
    [] OTHER -> 0

HasOperands == Len(value_stack) >= Operands(cell)

ExecConst ==
  \E t \in Types : /\ AtOp({ConstOp[t]})
                   /\ PushAndContinue(value_stack, <<t>>)

ExecOpcode ==
  /\ AtOp(Opcodes)
  /\ HasOperands
  /\ LET op == OpcodeTable[cell.op]
     IN  \/ PushAndContinue(Pop(Len(op.params)), op.push)
         \/ \E type \in op.traps : TRAP(type)

ExecSelect ==
  /\ AtOp({"select"})
  /\ HasOperands
  /\ \E chosen \in {Pick(3), Pick(2)} : PushAndContinue(Pop(3), <<chosen>>)

ExecBr ==
  /\ AtOp({"br"})
  /\ Continue(value_stack, cell.target)

ExecBrUnless ==
  /\ AtOp({"br_unless"})
  /\ HasOperands
  /\ \E offset \in {cell.target, pc + 1} : Continue(Pop(1), offset)

\* DROP_KEEP: a kept value is moved below the dropped ones.
DROP_KEEP(stack, drop, keep) ==
  LET n == Len(stack)
  IN  IF keep = 1 THEN Append(Truncate(stack, n - drop - 1), stack[n])
      ELSE Truncate(stack, n - drop)

\* Any key: the entries of the table, the last one for keys out of range.
ExecBrTable ==
  /\ AtOp({"br_table"})
  /\ HasOperands
  /\ \E key \in 0 .. cell.a :
       LET entry == istream[cell.target + key]
       IN  IF Len(Pop(1)) >= entry.a + entry.b
           THEN Continue(DROP_KEEP(Pop(1), entry.a, entry.b), entry.target)
           ELSE Abort("undefined") /\ UNCHANGED <<run_func, compilerVars>>

ExecReturn ==
  /\ AtOp({"return"})
  /\ IF call_stack = <<>>
     THEN /\ copy_results(value_stack, Funcs[run_func])
          /\ UNCHANGED run_func
     ELSE /\ pc' = Last(call_stack)
          /\ call_stack' = Front(call_stack)
          /\ UNCHANGED <<value_stack, mode, run_func, result, results>>
  /\ UNCHANGED compilerVars

ExecUnreachable ==
  /\ AtOp({"unreachable"})
  /\ TRAP("unreachable")

ExecGlobal ==
  \/ /\ AtOp({"get_global"})
     /\ PushAndContinue(value_stack, <<Globals[cell.a].type>>)
  \/ /\ AtOp({"set_global"})
     /\ HasOperands
     /\ Continue(Pop(1), pc + 1)

ExecLocal ==
  \/ /\ AtOp({"get_local"})
     /\ HasOperands
     /\ PushAndContinue(value_stack, <<Pick(cell.a)>>)
  \/ /\ AtOp({"set_local"})
     /\ HasOperands
     /\ Continue([Pop(1) EXCEPT ![Len(value_stack) - cell.a] = Pick(1)], pc + 1)
  \/ /\ AtOp({"tee_local"})
     /\ HasOperands
     /\ Continue([value_stack EXCEPT ![Len(value_stack) - cell.a + 1] = Pick(1)],
                 pc + 1)

\* Mutant of Enter: a full call stack does not trap and the call is tried
\* again.
EnterRetries(stack, offset) ==
  IF Len(call_stack) >= CallStackSize
  THEN UNCHANGED vars
  ELSE /\ call_stack' = Append(call_stack, pc + 1)
       /\ pc' = offset
       /\ value_stack' = stack
       /\ UNCHANGED <<mode, run_func, result, results, compilerVars>>

\* PUSH_CALL and GOTO.
Enter(stack, offset) ==
  IF Len(call_stack) >= CallStackSize
  THEN TRAP("call_stack_exhausted")
  ELSE /\ call_stack' = Append(call_stack, pc + 1)
       /\ pc' = offset
       /\ value_stack' = stack
       /\ UNCHANGED <<mode, run_func, result, results, compilerVars>>

ExecCall ==
  /\ AtOp({"call"})
  /\ Enter(value_stack, cell.target)

\* The result of wasm_call_host is not looked at.
CallHostAndContinue(stack, sig) ==
  \E out \in wasm_call_host(stack, sig) :
    /\ value_stack' = out.stack
    /\ pc' = pc + 1
    /\ unchecked' = unchecked \cup (IF out.result = "ok" THEN {} ELSE {"host"})
    /\ UNCHANGED <<call_stack, mode, run_func, result, results, istream,
                   type_stack, label_stack, depth_fixups, func_offset,
                   func_fixups, current_func, next_func, decls_left,
                   local_count, param_and_local_types, status, typing>>

ExecCallHost ==
  /\ AtOp({"call_host"})
  /\ HasOperands
  /\ CallHostAndContinue(value_stack, Funcs[cell.a])

ExecCallIndirect ==
  /\ AtOp({"call_indirect"})
  /\ HasOperands
  /\ \E entry_index \in 1 .. Len(Table) + 1 :
       LET f == Table[entry_index]
       IN  IF entry_index > Len(Table) THEN TRAP("undefined_table_index")
           ELSE IF f = 0 THEN TRAP("uninitialized_table_element")
           ELSE IF Funcs[f] # Funcs[cell.a]
           THEN TRAP("indirect_call_signature_mismatch")
           ELSE IF f <= NumImports THEN CallHostAndContinue(Pop(1), Funcs[f])
           ELSE Enter(Pop(1), func_offset[f])

\* The locals are zeroed, and zero is a value of every type.  The check is
\* made with the locals on the stack and fails already when they fill it.
ExecAlloca ==
  /\ AtOp({"alloca"})
  /\ LET stack == value_stack \o [i \in 1 .. cell.a |-> "zero"]
     IN  IF CHECK_STACK(stack) THEN Continue(stack, pc + 1)
         ELSE TRAP("value_stack_exhausted")

ExecDrop ==
  /\ AtOp({"drop"})
  /\ HasOperands
  /\ Continue(Pop(1), pc + 1)

ExecDropKeep ==
  /\ AtOp({"drop_keep"})
  /\ HasOperands
  /\ Continue(DROP_KEEP(value_stack, cell.a, cell.b), pc + 1)

\* Neither GOTO nor POP and PICK check: outside the istream or below the bottom
\* of the stack they read memory that is not theirs.
ExecOutside ==
  /\ mode = "running"
  /\ pc \in DOMAIN istream => ~HasOperands
  /\ Abort("undefined")
  /\ UNCHANGED <<run_func, compilerVars>>

-----------------------------------------------------------------------------
ThreadInit ==
  /\ pc = INVALID
  /\ value_stack = <<>>
  /\ call_stack = <<>>
  /\ mode = "idle"
  /\ run_func = 0
  /\ result = "ok"
  /\ results = <<>>

Exec ==
  \/ ExecConst
  \/ ExecOpcode
  \/ ExecSelect
  \/ ExecBr
  \/ ExecBrUnless
  \/ ExecBrTable
  \/ ExecReturn
  \/ ExecUnreachable
  \/ ExecGlobal
  \/ ExecLocal
  \/ ExecCall
  \/ ExecCallHost
  \/ ExecCallIndirect
  \/ ExecAlloca
  \/ ExecDrop
  \/ ExecDropKeep
  \/ ExecOutside

Read == ReadStep /\ UNCHANGED threadVars

\* The process ends when the module is rejected or an assertion fails.
Ended ==
  /\ \/ status \notin {"reading", "loaded"}
     \/ mode \notin {"idle", "running"}
  /\ UNCHANGED vars

SysInit == Init /\ ThreadInit

Next ==
  \/ Read
  \/ \E f \in DOMAIN Funcs, args \in ArgLists : RunFunction(f, args)
  \/ Exec
  \/ Ended

\* run_defined_function calls wasm_run_interpreter until it returns something
\* other than OK, so a running thread always takes its next instruction.
Spec == SysInit /\ [][Next]_vars /\ WF_vars(Exec)

-----------------------------------------------------------------------------
(* Properties.                                                             *)

Traps == {"unreachable", "integer_divide_by_zero", "integer_overflow",
          "memory_access_out_of_bounds", "value_stack_exhausted",
          "call_stack_exhausted", "undefined_table_index",
          "uninitialized_table_element", "indirect_call_signature_mismatch",
          "host_trapped", "host_result_type_mismatch",
          "argument_type_mismatch"}

\* Types of the variables; neither stack of the thread exceeds its size.
TypeOK ==
  /\ CompilerTypeOK
  /\ pc \in Nat
  /\ value_stack \in Seq(Types \cup {"zero"})
  /\ Len(value_stack) <= ValueStackSize
  /\ call_stack \in Seq(Nat)
  /\ Len(call_stack) <= CallStackSize
  /\ mode \in {"idle", "running", "undefined", "assert_copy_results"}
  /\ run_func \in 0 .. Len(Funcs)
  /\ result \in Traps \cup {"ok"}
  /\ results \in Seq(Types \cup {"zero"})

\* A value can be read as type t.
Fits(stack, types) ==
  /\ Len(stack) = Len(types)
  /\ \A i \in DOMAIN stack : stack[i] = types[i] \/ stack[i] = "zero"

ReturnsFromCall(r) ==
  r - 1 \in DOMAIN istream /\ istream[r - 1].op \in {"call", "call_indirect"}

\* What the frame that returns to offset r keeps below the callee's params.
FrameBelow(r) ==
  LET call == istream[r - 1]
      popped == Len(Funcs[call.a].params)
                  + (IF call.op = "call_indirect" THEN 1 ELSE 0)
  IN  Truncate(typing[r - 1], Len(typing[r - 1]) - popped)

\* The whole value stack the compiler's types predict: one part per caller and
\* the current function's.
PredictedStack ==
  FlattenSeq([k \in DOMAIN call_stack |-> FrameBelow(call_stack[k])])
    \o typing[pc]

\* Type soundness of the untyped interpreter.  Before every instruction the
\* value stack of a running thread is exactly, frame by frame, the stack of
\* types the compiler had when it emitted that instruction, for every module
\* that does not use one of the conditions the compiler leaves unchecked.  In
\* particular the pc is at an instruction and not in table data, every frame
\* returns to the instruction after a call, code compiled as unreachable is
\* never executed, locals are found at the distance computed at compile time,
\* and a branch leaves its label's operands and no others.
TypeSound ==
  mode = "running" /\ unchecked = {} =>
    /\ pc \in DOMAIN istream
    /\ cell.op \notin {"data", "entry"}
    /\ \A k \in DOMAIN call_stack : ReturnsFromCall(call_stack[k])
    /\ Fits(value_stack, PredictedStack)

\* No assertion of the interpreter fails and no operand is read below the
\* stack in a module that does not use an unchecked condition.
RunsDefined == unchecked = {} => mode \in {"idle", "running"}

\* A run that ends normally leaves the results its signature promises.
ResultsTyped ==
  result = "ok" /\ mode = "idle" /\ unchecked = {} /\ run_func # 0 =>
    Fits(results, Funcs[run_func].results)

NoBackwardBranch ==
  \A c \in DOMAIN istream : istream[c].op \in {"br", "br_unless", "entry"} =>
    istream[c].target > c

\* Without a loop every run ends: recursion is cut off by the call stack.
LooplessRunsEnd ==
  (mode = "running" /\ NoBackwardBranch) ~> (mode # "running")

=============================================================================
