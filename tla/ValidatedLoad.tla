--------------------------- MODULE ValidatedLoad ----------------------------
(***************************************************************************)
(* The two type checkers on one module: the validator, which wast2wasm     *)
(* runs, and the function-body compiler, which wasm-interp runs on what    *)
(* wast2wasm wrote.  Each step hands an expression to both.  The module    *)
(* comes from an AST, so its blocks nest.                                  *)
(***************************************************************************)
EXTENDS FuncCompiler

CONSTANT Modules  \* numbers of tables and memories a module may have

VARIABLES v_type_stack, v_labels, v_skipped, v_result, module,
          gaps  \* history: where one checker leaves out what the other asks

validatorVars == <<v_type_stack, v_labels, v_skipped, v_result, module>>
loadVars == <<compilerVars, validatorVars, gaps>>

V == INSTANCE Validator WITH type_stack <- v_type_stack, labels <- v_labels,
                             skipped <- v_skipped, result <- v_result

\* The validator has no error so far, and no known difference was met.
Validated == v_result = "ok" /\ gaps = {}

-----------------------------------------------------------------------------
\* An expression inside a body; gap is a known difference in its checks.
Expr(compile, validate, gap) ==
  /\ compile
  /\ validate
  /\ gaps' = gaps \cup gap \cup (IF V!Live THEN {} ELSE {"dead"})

None == {}

\* The end of a block or an arm, which both checkers reach.
BlockEnd(compile, validate) == compile /\ validate /\ UNCHANGED gaps

If(cond, gap) == IF cond THEN {gap} ELSE {}

\* on_br_table_expr checks the results of a loop it branches to the start of.
AsksLoopForResults(depth) ==
  /\ depth < Len(label_stack)
  /\ label_stack[translate_depth(depth)].label_type = "loop"
  /\ label_stack[translate_depth(depth)].sig # <<>>

LoadInit == Init /\ V!Init /\ gaps = {}

BeginBody ==
  \E n \in 0 .. MaxDecls :
    /\ BeginFunctionBody(n)
    /\ V!check_func(next_func)
    /\ UNCHANGED gaps

Locals ==
  /\ \E n \in 0 .. MaxLocals, t \in Types : OnLocalDecl(n, t)
  /\ UNCHANGED <<validatorVars, gaps>>

EndBody ==
  /\ current_func # 0
  /\ top_label.label_type = "func"
  /\ BlockEnd(EndFunctionBody, V!EndFunc)

\* A written module has all its bodies.
Finish ==
  /\ next_func = Len(Funcs) + 1
  /\ EndModule
  /\ UNCHANGED <<validatorVars, gaps>>

Blocks ==
  \E sig \in Sigs :
    \/ Expr(OnBlock(sig), V!CheckBlock(sig), None)
    \/ Expr(OnLoop(sig), V!CheckLoop(sig), None)
    \/ Expr(OnIf(sig), V!CheckIf(sig), None)

Ends ==
  /\ current_func # 0
  /\ \/ top_label.label_type = "if" /\ BlockEnd(OnElse, V!CheckElse)
     \/ top_label.label_type # "func" /\ BlockEnd(OnEnd, V!CheckEnd)

Branches ==
  \/ \E depth \in 0 .. Len(label_stack) :
       \/ Expr(OnBr(depth), V!CheckBr(depth), None)
       \/ Expr(OnBrIf(depth), V!CheckBrIf(depth), None)
  \/ \E n \in 1 .. MaxTargets + 1 :
       \E targets \in [1 .. n -> 0 .. Len(label_stack)] :
         Expr(OnBrTable(targets), V!CheckBrTable(targets),
              If(\E i \in 1 .. n : AsksLoopForResults(targets[i]), "loop"))
  \/ Expr(OnReturn, V!CheckReturn, None)
  \/ Expr(OnUnreachable, V!CheckUnreachable, None)

Calls ==
  \E f \in DOMAIN Funcs :
    \/ Expr(OnCall(f), V!CheckCall(f), None)
    \/ Expr(OnCallIndirect(f), V!CheckCallIndirect(f),
            If(~V!check_type_stack_limit(v_type_stack, 1), "call_indirect"))

Operators ==
  \/ \E op \in Opcodes : Expr(OnOpcode(op), V!CheckOpcode(op), None)
  \/ \E t \in Types : Expr(OnConst(t), V!CheckConst(t), None)
  \/ Expr(OnDrop, V!CheckDrop, None)
  \/ Expr(OnSelect, V!CheckSelect, None)

Variables ==
  \/ \E g \in 1 .. Len(Globals) + 1 :
       \/ Expr(OnGetGlobal(g), V!CheckGetGlobal(g), None)
       \/ Expr(OnSetGlobal(g), V!CheckSetGlobal(g),
               If(g <= Len(Globals) /\ ~Globals[g].mutable, "set_global"))
  \/ \E i \in 1 .. Len(param_and_local_types) + 1 :
       \/ Expr(OnGetLocal(i), V!CheckGetLocal(i, param_and_local_types), None)
       \/ Expr(OnSetLocal(i), V!CheckSetLocal(i, param_and_local_types), None)
       \/ Expr(OnTeeLocal(i), V!CheckTeeLocal(i, param_and_local_types),
               If(V!top_type(v_type_stack) # V!TypeAt(param_and_local_types, i),
                  "tee_local"))

\* Loading has ended, one way or the other, or the code has reached its bound.
LoadEnded ==
  /\ ~Validated \/ status # "reading" \/ Len(istream) >= MaxIstream
  /\ UNCHANGED loadVars

\* wast2wasm writes no module with an error; what follows a difference is not
\* looked at.
LoadNext ==
  \/ /\ Validated
     /\ \/ BeginBody
        \/ Locals
        \/ EndBody
        \/ Finish
        \/ Blocks
        \/ Ends
        \/ Branches
        \/ Calls
        \/ Operators
        \/ Variables
  \/ LoadEnded

LoadSpec == LoadInit /\ [][LoadNext]_loadVars

-----------------------------------------------------------------------------
(* Properties.                                                             *)

\* The compiler never rejects, and never fails an assertion on, a module that
\* the validator finds no error in: no call sequence the writer can produce
\* for a valid module trips translate_depth, top_type or emit_br.
ValidatedLoads == status \notin {"reading", "loaded"} => ~Validated

\* What the compiler does not check, the validator does: the arms and the
\* missing else of an if, the operands of br_if, and that a memory or table
\* used by an instruction exists.  This is the assumption under which the
\* interpreter's run is sound.
ValidatedIsChecked ==
  Validated =>
    /\ unchecked = {}
    /\ \A c \in DOMAIN istream :
         /\ istream[c].op \in V!MemoryOps => module.memories > 0
         /\ istream[c].op = "call_indirect" => module.tables > 0

\* Where both checkers are in reachable code, their stacks agree: the compiler
\* has the same operands above the params and locals, and the same labels with
\* limits shifted by these.
StacksAgree ==
  Validated /\ status = "reading" /\ current_func # 0 /\ decls_left = 0 =>
    LET base == Len(param_and_local_types)
    IN  /\ Len(v_labels) = Len(label_stack)
        /\ \A d \in DOMAIN v_labels :
             /\ label_stack[d].label_type = v_labels[d].label_type
             /\ label_stack[d].sig = v_labels[d].sig
             /\ label_stack[d].type_stack_limit =
                  v_labels[d].type_stack_limit + base
        /\ type_stack = param_and_local_types \o v_type_stack

=============================================================================
