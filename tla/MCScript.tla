------------------------------- MODULE MCScript -------------------------------
(* Scripts for TLC.  One module has the name A, another a name that the list of
   commands must escape; f is a function in one and a global in the other, so
   that an action on the wrong module shows.  All names have one main slot, and a
   table is resized at the fourth binding, not at the ninth. *)
EXTENDS Script

A == <<65>>
NeedsEscape == <<34>>
f == <<102>>

F32 == [params |-> <<>>, results |-> <<"f32">>]
Void == [params |-> <<>>, results |-> <<>>]
Function == [kind |-> "func", index |-> 1]
Global == [kind |-> "global", index |-> 1]

Good == [name |-> NoName, binary |-> FALSE, readable |-> TRUE, resolves |-> TRUE, valid |-> TRUE,
         links |-> TRUE, start |-> "returns", funcs |-> <<F32>>, globals |-> <<>>,
         exports |-> f :> Function]

Modules ==
  {[Good EXCEPT !.name = A], Good,
   [Good EXCEPT !.name = NeedsEscape, !.funcs = <<Void>>, !.globals = <<"f32">>, !.exports = f :> Global],
   [Good EXCEPT !.funcs = <<[Void EXCEPT !.params = <<"i32">>]>>],
   [Good EXCEPT !.name = A, !.start = "traps"]}

Raw == {[Good EXCEPT !.binary = TRUE, !.readable = FALSE], [Good EXCEPT !.links = FALSE],
        [Good EXCEPT !.valid = FALSE], [Good EXCEPT !.start = "traps"], Good}

Get == [type |-> "get", field |-> f, args |-> <<>>]
Invoke == [type |-> "invoke", field |-> f, args |-> <<>>]
InvokeWith == [Invoke EXCEPT !.args = <<[type |-> "i32", bits |-> 10]>>]
Constant == [type |-> "f32", bits |-> 0]

MCCommands ==
  [type : {"module"}, module : Modules]
  \cup [type : RawCommands, module : Raw]
  \cup [type : {"register"}, var : {NoName, A}, as : {A}]
  \cup [type : {"assert_return_nan", "assert_trap"}, var : {NoName, A, NeedsEscape}, action : {Invoke, Get}]
  \cup [type : {"assert_return"}, var : {NoName, A}, action : {Invoke, InvokeWith}, expected : {<<Constant>>, <<>>}]
  \cup [type : {"action"}, var : {NoName, NeedsEscape}, action : {Invoke, Get}]

\* Every script of three commands; of five, those that begin with these two names,
\* so that A does not head the chain and comes again before or after the action.
MCBounded(s) ==
  /\ Len(s) <= 5
  /\ Len(s) > 3 =>
       /\ \A i \in 1 .. 2 : s[i].type = "module" /\ s[i].module.start = "returns"
       /\ s[1].module.name = NeedsEscape /\ s[2].module.name = A

MCMainSlot(name) == 0

MCRelinked(bindings, name) ==
  IF Cardinality(DOMAIN bindings) % 2 = 0 THEN Min(Hits(bindings, name)) ELSE Max(Hits(bindings, name))
=============================================================================
