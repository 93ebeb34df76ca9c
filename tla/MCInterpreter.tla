---------------------------- MODULE MCInterpreter ----------------------------
(* Instances of Interpreter for TLC. *)
EXTENDS Interpreter

Sig(p, r) == [params |-> p, results |-> r]

MCNoGlobals == <<>>
MCNoTable == <<>>
MCNoArgs == {<<>>}

\* Control flow: one function that returns a value.
MCOneFunc == <<Sig(<<>>, <<"i32">>)>>

\* Calls: a host function, the function that is run first, and one compiled
\* after it and called before.
MCCallFuncs == <<Sig(<<"i32">>, <<"i32">>), Sig(<<>>, <<"i32">>),
                 Sig(<<"i64">>, <<"i32">>)>>
MCCallTable == <<3, 0, 1>>
MCCallArgs == {<<>>, <<"i32">>, <<"i64">>}

\* Operators and locals: one function of one i64 param.
MCLocalFuncs == <<Sig(<<"i64">>, <<"i64">>)>>
MCLocalArgs == {<<"i64">>}
MCGlobals == <<[type |-> "i64", mutable |-> TRUE],
               [type |-> "i32", mutable |-> FALSE]>>

=============================================================================
