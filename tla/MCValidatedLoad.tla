--------------------------- MODULE MCValidatedLoad ---------------------------
(* Instances of ValidatedLoad for TLC. *)
EXTENDS ValidatedLoad

\* One function of a param and a result of different types, which may call
\* itself.
MCFunc == <<[params |-> <<"i64">>, results |-> <<"i32">>]>>
MCGlobals == <<[type |-> "i32", mutable |-> TRUE],
               [type |-> "i64", mutable |-> FALSE]>>

MCModules == {[tables |-> 0, memories |-> 0], [tables |-> 1, memories |-> 1]}

=============================================================================
