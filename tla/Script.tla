--------------------------------- MODULE Script --------------------------------
(* A test script through both tools: wast2wasm --spec parses it, resolves names,
   validates it and writes a file for every module and a list of commands
   (binary-writer-spec.c); wasm-interp --spec runs the list (wasm-interp.c).  A
   module is what the commands can tell of it: its name, functions, globals and
   exports, and how the passes and the interpreter take it.  A name is a sequence
   of bytes, a constant its type and its bits, which the list has in decimal. *)
EXTENDS Integers, SequencesExt

CONSTANTS Commands,      \* the commands a script is made of
          Bounded(_),    \* the scripts that are looked at
          Bits,          \* the bits of a constant; NaN is one of them
          MainSlot(_),   \* the slot of a name in a table (binding-hash.c)
          Relinked(_, _),          \* the binding of a name a resized table comes upon
          INITIAL_HASH_CAPACITY    \* the bindings that a table takes without a resize

ASSUME BitsAssumption == Bits \subseteq 0 .. 99
ASSUME CapacityAssumption == INITIAL_HASH_CAPACITY \in Nat

NaN == 10
ASSUME NaNAssumption == NaN \in Bits

ActionCommands == {"action", "assert_return", "assert_return_nan", "assert_trap"}
RawCommands == {"assert_malformed", "assert_invalid", "assert_unlinkable", "assert_uninstantiable"}

Byte == 0 .. 255
Strings == Seq(Byte)
Constants(consts) == \A k \in DOMAIN consts : consts[k].bits \in Bits

ASSUME CommandsAssumption ==
  \A c \in Commands :
    /\ c.type \in {"module", "register"} \cup RawCommands \cup ActionCommands
    /\ c.type = "module" => c.module.name \in Strings
    /\ c.type = "register" => c.var \in Strings /\ c.as \in Strings
    /\ c.type \in ActionCommands =>
         c.var \in Strings /\ c.action.field \in Strings /\ Constants(c.action.args)
    /\ c.type = "assert_return" => Constants(c.expected)

VARIABLES script,    \* the commands
          phase,     \* the next pass, or how the conversion or the run ended
          files,     \* the modules written, by the number in their file names
          json,      \* the list of commands
          pos,       \* the next command to run
          env,       \* modules of the environment and the names bound to them
          tests,     \* [passed, total]
          ran,       \* history: what the last command acted on, and how it ended
          failed     \* history: some module command has failed

scriptVars == <<script, phase, files, json, pos, env, tests, ran, failed>>

None == -1
NoName == <<>>

(* ---------------------------------- parsing -------------------------------- *)
\* The script so far: a var without a name is the module before it.
LastModule(s, i) ==
  LET before == {j \in 1 .. i : s[j].type = "module"}
  IN IF before = {} THEN None ELSE CHOOSE j \in before : \A k \in before : k <= j

\* The bindings in the order they are made, by the numbers of their commands.
module_bindings ==
  LET named == {i \in DOMAIN script : script[i].type = "module" /\ script[i].module.name # NoName}
  IN [i \in named |-> [name |-> script[i].module.name, index |-> i]]

(* A name may be bound more than once.  The first binding of a main slot heads its
   chain and each later one comes second, so a lookup takes the head when it has the
   name and else the last binding of the name.  A resize makes the chains anew, in
   the order of the old slots.  The table of wast2wasm has all the names of the
   script when it is used, that of wasm-interp those of the modules run so far. *)
Hits(bindings, name) == {i \in DOMAIN bindings : bindings[i].name = name}
Chain(bindings, name) == {i \in DOMAIN bindings : MainSlot(bindings[i].name) = MainSlot(name)}

MayFind(bindings, name) ==
  LET hits == Hits(bindings, name)
      head == {i \in hits : \A j \in Chain(bindings, name) : i <= j}
      last == {i \in hits : \A j \in hits : j <= i}
  IN IF Cardinality(DOMAIN bindings) > INITIAL_HASH_CAPACITY THEN hits
     ELSE IF head # {} THEN head ELSE last

wasm_find_binding_index_by_name(bindings, name) ==
  LET may == MayFind(bindings, name)
      first == Relinked(bindings, name)
  IN IF may = {} THEN None ELSE bindings[CHOOSE i \in may : first \in may => i = first].index

ModuleVar(i) == IF script[i].var # NoName
                THEN [name |-> script[i].var, index |-> None]
                ELSE [name |-> NoName, index |-> LastModule(script, i)]

wasm_get_module_by_var(var) ==
  IF var.name # NoName THEN wasm_find_binding_index_by_name(module_bindings, var.name) ELSE var.index

\* A binary module of a module command is read while the script is parsed.
ParseFails == \E i \in DOMAIN script : script[i].type = "module" /\ ~script[i].module.readable

\* Modules that are to be malformed or invalid are left alone.
visit_command(c) ==
  c.type \in {"module", "assert_unlinkable", "assert_uninstantiable"} =>
    c.module.binary \/ c.module.resolves

(* -------------------------------- validation ------------------------------- *)
Error == [ok |-> FALSE, types |-> <<>>]

\* The export's index is looked up whatever its kind is.
Checked(module, action, items, args_ok) ==
  IF module = None \/ action.field \notin DOMAIN script[module].module.exports THEN Error
  ELSE LET index == script[module].module.exports[action.field].index
       IN IF index \in DOMAIN items /\ args_ok[index]
          THEN [ok |-> TRUE, types |-> items[index]] ELSE Error

TypesOf(consts) == [i \in DOMAIN consts |-> consts[i].type]

check_invoke(module, action) ==
  LET funcs == IF module = None THEN <<>> ELSE script[module].module.funcs
  IN Checked(module, action, [i \in DOMAIN funcs |-> funcs[i].results],
             [i \in DOMAIN funcs |-> funcs[i].params = TypesOf(action.args)])

check_get(module, action) ==
  LET globals == IF module = None THEN <<>> ELSE script[module].module.globals
  IN Checked(module, action, [i \in DOMAIN globals |-> <<globals[i]>>],
             [i \in DOMAIN globals |-> TRUE])

check_action(i) ==
  LET module == wasm_get_module_by_var(ModuleVar(i))
  IN IF script[i].action.type = "invoke" THEN check_invoke(module, script[i].action)
     ELSE check_get(module, script[i].action)

check_command(i) ==
  LET c == script[i]
  IN CASE c.type = "module" -> c.module.valid
       [] c.type \in {"action", "assert_trap"} -> check_action(i).ok
       [] c.type = "assert_return" ->
            check_action(i).ok /\ check_action(i).types = TypesOf(c.expected)
       [] c.type = "assert_return_nan" ->
            check_action(i).ok /\ check_action(i).types \in {<<"f32">>, <<"f64">>}
       [] OTHER -> TRUE

wasm_validate_script == \A i \in DOMAIN script : check_command(i)

\* assert_invalid: one of reading, resolving and checking must fail.
check_raw_module(m) ==
  IF m.binary THEN m.readable /\ m.valid ELSE m.resolves /\ m.valid

wasm_validate_assert_invalid_and_malformed ==
  \A i \in DOMAIN script :
    /\ script[i].type = "assert_invalid" => ~check_raw_module(script[i].module)
    /\ script[i].type = "assert_malformed" => script[i].module.binary /\ ~script[i].module.readable

(* --------------------------- the list of commands -------------------------- *)
Quote == 34
Backslash == 92
HexChar(n) == IF n < 10 THEN 48 + n ELSE 87 + n
Escaped(c) == <<Backslash, 117, 48, 48, HexChar(c \div 16), HexChar(c % 16)>>

Char(c) == IF c < 32 \/ c = Backslash \/ c = Quote THEN Escaped(c) ELSE <<c>>

write_escaped_string_slice(ss) ==
  LET written[i \in 0 .. Len(ss)] == IF i = 0 THEN <<>> ELSE written[i - 1] \o Char(ss[i])
  IN written[Len(ss)]

HexValue(c) == IF c < 58 THEN c - 48 ELSE c - 87

\* The next character of a string or of an escape \uxxxx, of which "left" are missing
Read(acc, c) ==
  CASE acc.left > 1 ->
         [out |-> acc.out, left |-> acc.left - 1,
          code |-> IF acc.left = 5 THEN 0 ELSE acc.code * 16 + HexValue(c)]
    [] acc.left = 1 ->
         [out |-> Append(acc.out, acc.code * 16 + HexValue(c)), left |-> 0, code |-> acc.code]
    [] acc.left = 0 /\ c = Backslash -> [out |-> acc.out, left |-> 5, code |-> acc.code]
    [] OTHER -> [out |-> Append(acc.out, c), left |-> 0, code |-> acc.code]

parse_string(s) ==
  LET read[i \in 0 .. Len(s)] ==
        IF i = 0 THEN [out |-> <<>>, left |-> 0, code |-> 0] ELSE Read(read[i - 1], s[i])
  IN read[Len(s)].out

\* a constant, and constants, with the bits in decimal
write_const(const) ==
  [type |-> const.type,
   value |-> IF const.bits >= 10 THEN <<const.bits \div 10, const.bits % 10>> ELSE <<const.bits>>]
write_const_vector(consts) == [i \in DOMAIN consts |-> write_const(consts[i])]

parse_const(const) ==
  LET n[i \in 0 .. Len(const.value)] == IF i = 0 THEN 0 ELSE 10 * n[i - 1] + const.value[i]
  IN [type |-> const.type, bits |-> n[Len(const.value)]]
parse_const_vector(consts) == [i \in DOMAIN consts |-> parse_const(consts[i])]

\* mutant: the files of modules that are expected to be bad are not counted
num_modulesOfGood(s, i) == Cardinality({j \in 1 .. i - 1 : s[j].type = "module"})

num_modules(s, i) == Cardinality({j \in 1 .. i - 1 : s[j].type \in {"module"} \cup RawCommands})

\* A module that is named by nothing but its place is not named in the list.
write_action(i) ==
  [type |-> script[i].action.type, module |-> write_escaped_string_slice(script[i].var),
   field |-> write_escaped_string_slice(script[i].action.field), args |-> write_const_vector(script[i].action.args)]

write_command(i) ==
  LET c == script[i]
  IN CASE c.type = "module" ->
            [type |-> c.type, name |-> write_escaped_string_slice(c.module.name),
             filename |-> num_modules(script, i)]
       [] c.type \in RawCommands -> [type |-> c.type, filename |-> num_modules(script, i)]
       [] c.type = "register" ->
            [type |-> c.type, name |-> write_escaped_string_slice(c.var),
             as |-> write_escaped_string_slice(c.as)]
       [] OTHER -> [type |-> c.type, action |-> write_action(i),
                    expected |-> IF c.type = "assert_return" THEN write_const_vector(c.expected) ELSE <<>>]

\* A later file of the same name replaces an earlier one.
write_commands ==
  LET writes == {i \in DOMAIN script : script[i].type \in {"module"} \cup RawCommands}
      Same(n) == {i \in writes : num_modules(script, i) = n}
      Latest(n) == CHOOSE i \in Same(n) : \A j \in Same(n) : j <= i
  IN [n \in {num_modules(script, i) : i \in writes} |->
        [cmd |-> Latest(n), text |-> script[Latest(n)].module]]

\* write_action_result_type asserts the kind of the export of assert_return_nan.
ExportKind(action) == IF action.type = "invoke" THEN "func" ELSE "global"
KindMatches(i) ==
  LET module == wasm_get_module_by_var(ModuleVar(i))
  IN script[module].module.exports[script[i].action.field].kind = ExportKind(script[i].action)
write_action_result_type ==
  \A i \in DOMAIN script : script[i].type = "assert_return_nan" => KindMatches(i)

(* ------------------------------ wast2wasm, in steps ------------------------ *)
Init ==
  /\ script = <<>> /\ phase = "text"
  /\ files = <<>> /\ json = <<>> /\ pos = 1
  /\ env = [modules |-> <<[cmd |-> 0, name |-> NoName]>>, bindings |-> <<>>, registered |-> <<>>]
  /\ tests = [passed |-> 0, total |-> 0] /\ ran = [cmd |-> None] /\ failed = FALSE

Type ==
  /\ phase = "text"
  /\ \E c \in Commands : Bounded(Append(script, c)) /\ script' = Append(script, c)
  /\ UNCHANGED <<phase, files, json, pos, env, tests, ran, failed>>

Convert ==
  /\ phase = "text" /\ script # <<>>
  /\ phase' = CASE ParseFails -> "rejected"
                [] \E i \in DOMAIN script : ~visit_command(script[i]) -> "rejected"
                [] ~wasm_validate_script -> "rejected"
                [] ~wasm_validate_assert_invalid_and_malformed -> "rejected"
                [] ~write_action_result_type -> "aborted"
                [] OTHER -> "run"
  /\ files' = IF phase' = "run" THEN write_commands ELSE files
  /\ json' = IF phase' = "run" THEN [i \in DOMAIN script |-> write_command(i)] ELSE json
  /\ UNCHANGED <<script, pos, env, tests, ran, failed>>

(* ------------------------------- wasm-interp ------------------------------- *)
Command(type) == phase = "run" /\ pos <= Len(json) /\ json[pos].type = type
Cmd == json[pos]
Advance == pos' = pos + 1 /\ UNCHANGED <<script, phase, files, json>>
Count(pass) == tests' = [passed |-> tests.passed + (IF pass THEN 1 ELSE 0), total |-> tests.total + 1]

\* reading and running the start function, which the commands undo on failure
Reads(m) == m.readable /\ m.valid /\ m.links
Text == files[Cmd.filename].text

Bound(modules, name) == [name |-> name, index |-> Len(modules) - 1]

on_module_command ==
  LET name == parse_string(Cmd.name)
      ok == Reads(Text) /\ Text.start # "traps"
      modules == Append(env.modules, [cmd |-> files[Cmd.filename].cmd, name |-> name])
  IN /\ Command("module")
     /\ env' = IF ~ok THEN env
               ELSE [env EXCEPT !.modules = modules,
                                !.bindings = IF name = NoName THEN @ ELSE Append(@, Bound(modules, name))]
     /\ failed' = (failed \/ ~ok)
     /\ ran' = [cmd |-> None]
     /\ Advance /\ UNCHANGED tests

(* A module may be expected to be bad; what is read is taken back.  The
   environment of assert_malformed is an empty one; assert_invalid is not
   implemented. *)
on_assert_malformed_command == Command("assert_malformed") /\ Count(~Reads(Text))
on_assert_unlinkable_command == Command("assert_unlinkable") /\ Count(~Reads(Text))
on_assert_invalid_command == Command("assert_invalid") /\ UNCHANGED tests
on_assert_uninstantiable_command ==
  Command("assert_uninstantiable") /\ Count(Reads(Text) /\ Text.start = "traps")

on_assert_module_command ==
  /\ \/ on_assert_malformed_command \/ on_assert_unlinkable_command
     \/ on_assert_invalid_command \/ on_assert_uninstantiable_command
  /\ ran' = [cmd |-> files[Cmd.filename].cmd]
  /\ Advance /\ UNCHANGED <<env, failed>>

Positions(name) == {i \in DOMAIN env.modules : env.modules[i].name = name}

\* The list of modules is searched for a name, the last one is taken without.
on_register_command ==
  LET name == parse_string(Cmd.name)
      at == CASE name = NoName -> Len(env.modules)
              [] name # NoName /\ Positions(name) = {} -> None
              [] OTHER -> CHOOSE i \in Positions(name) : \A j \in Positions(name) : i <= j
  IN /\ Command("register")
     /\ env' = IF at = None THEN env
               ELSE [env EXCEPT !.registered = Append(@, [name |-> parse_string(Cmd.as), index |-> at - 1])]
     /\ ran' = [cmd |-> IF at = None THEN None ELSE env.modules[at].cmd]
     /\ Advance /\ UNCHANGED <<tests, failed>>

parse_action ==
  [type |-> Cmd.action.type, module_name |-> parse_string(Cmd.action.module),
   field_name |-> parse_string(Cmd.action.field), args |-> parse_const_vector(Cmd.action.args)]

ActionModule ==
  IF parse_action.module_name # NoName
  THEN wasm_find_binding_index_by_name(env.bindings, parse_action.module_name)
  ELSE Len(env.modules) - 1

\* the values a function or a global may give
Values(types) == [DOMAIN types -> Bits]
Typed(types, v) == [i \in DOMAIN types |-> [type |-> types[i], bits |-> v[i]]]
Ended(result) == [result |-> result, values |-> <<>>]

\* The host module, which is module 0, has no exports until something is imported.
Exports(module) == IF module = 0 THEN <<>> ELSE script[module].module.exports

\* run_export_by_name, run_function: how an invocation may end
Invoked(module, field, args) ==
  LET export == Exports(module)[field]
      func == script[module].module.funcs[export.index]
  IN IF field \notin DOMAIN Exports(module) THEN {Ended("unknown export")}
     ELSE IF export.kind # "func" THEN {Ended("export kind mismatch")}
     ELSE IF func.params # TypesOf(args) THEN {Ended("argument type mismatch")}
     ELSE {Ended("trap")} \cup {[result |-> "ok", values |-> Typed(func.results, v)] : v \in Values(func.results)}

get_global_export_by_name(module, field) ==
  LET export == Exports(module)[field]
      type == script[module].module.globals[export.index]
  IN IF field \notin DOMAIN Exports(module) THEN {Ended("unknown export")}
     ELSE IF export.kind # "global" THEN {Ended("export kind mismatch")}
     ELSE {[result |-> "ok", values |-> Typed(<<type>>, v)] : v \in Values(<<type>>)}

run_action(module) ==
  IF parse_action.type = "invoke" THEN Invoked(module, parse_action.field_name, parse_action.args)
  ELSE get_global_export_by_name(module, parse_action.field_name)

IsNaN(v) == v.type \in {"f32", "f64"} /\ v.bits = NaN

ReturnsExpected(r) == r.result = "ok" /\ r.values = parse_const_vector(Cmd.expected)

\* mutant: whatever a function returns is taken for a NaN
ReturnsAnything(r) == r.result = "ok"
ReturnsNaN(r) == r.result = "ok" /\ Len(r.values) = 1 /\ IsNaN(r.values[1])

Traps(r) == r.result # "ok"

\* when the command counts as passed
Passes(r) ==
  CASE Cmd.type = "action" -> r.result = "ok"
    [] Cmd.type = "assert_return" -> ReturnsExpected(r)
    [] Cmd.type = "assert_return_nan" -> ReturnsNaN(r)
    [] Cmd.type = "assert_trap" -> Traps(r)

(* A name that no module has gives index -1; assert_return_nan looks at the first
   result of a function that has none. *)
on_action_command ==
  /\ \E t \in ActionCommands : Command(t)
  /\ ActionModule # None
  /\ \E r \in run_action(env.modules[ActionModule + 1].cmd) :
       /\ ran' = [cmd |-> env.modules[ActionModule + 1].cmd, result |-> r.result, values |-> r.values]
       /\ IF Cmd.type = "assert_return_nan" /\ r.result = "ok" /\ r.values = <<>>
          THEN phase' = "undefined" /\ UNCHANGED <<script, files, json, pos, tests>>
          ELSE Count(Passes(r)) /\ Advance
  /\ UNCHANGED <<env, failed>>

ActionOnNoModule ==
  /\ \E t \in ActionCommands : Command(t)
  /\ ActionModule = None
  /\ phase' = "undefined"
  /\ UNCHANGED <<script, files, json, pos, env, tests, ran, failed>>

Ending ==
  /\ phase = "run" /\ pos > Len(json) /\ phase' = "done"
  /\ UNCHANGED <<script, files, json, pos, env, tests, ran, failed>>

Stopped == phase \in {"rejected", "aborted", "undefined", "done"} /\ UNCHANGED scriptVars

Next ==
  \/ Type \/ Convert
  \/ on_module_command \/ on_assert_module_command \/ on_register_command
  \/ on_action_command \/ ActionOnNoModule \/ Ending \/ Stopped

Spec == Init /\ [][Next]_scriptVars

(* -------------------------------- properties ------------------------------- *)
OneOfName(name) == Cardinality({i \in DOMAIN script : script[i].type = "module" /\ script[i].module.name = name}) <= 1

\* Both tools look the name up alike: in tables that are resized, only a name that
\* one module has.
FoundAlike(i) ==
  \/ script[i].var = NoName \/ OneOfName(script[i].var)
  \/ Cardinality(DOMAIN module_bindings) <= INITIAL_HASH_CAPACITY

\* The module of a command is there when it is run, if no module has failed.
Precedes(i) ==
  /\ ~failed
  /\ wasm_get_module_by_var(ModuleVar(i)) < i
  /\ script[i].type \in ActionCommands => KindMatches(i)
  /\ FoundAlike(i)

(* A command that wast2wasm validated acts, in wasm-interp, on the module it was
   validated against: the module of that command of the script, from its own file,
   with an export of that name and parameters of those types: also where several
   modules have the name and wasm-interp has loaded some of them only.  Exceptions
   are the scripts where a module command failed before, where the module comes
   after the command, which the validator accepts, or where the name is bound
   twice and the table was resized.  Of two modules of one name register takes the
   first, whatever an action takes; before any module it takes the host module. *)
ActsOnChecked ==
  /\ phase = "undefined" => failed \/ ~Precedes(pos)
  /\ phase = "run" /\ pos > 1 =>
       LET i == pos - 1
       IN /\ script[i].type \in ActionCommands /\ Precedes(i) =>
               /\ ran.cmd = wasm_get_module_by_var(ModuleVar(i))
               /\ ran.result \in {"ok", "trap"}
          /\ script[i].type = "register" /\ Precedes(i) /\ OneOfName(script[i].var) =>
               ran.cmd = IF ModuleVar(i) = [name |-> NoName, index |-> None] THEN 0
                         ELSE wasm_get_module_by_var(ModuleVar(i))
          /\ script[i].type \in RawCommands => ran.cmd = i

\* What a command of the script says, of what the functions and modules did.
Holds(i, r) ==
  LET m == script[i].module
  IN CASE script[i].type = "action" -> r.result # "trap"
       [] script[i].type = "assert_return" ->
            r.result # "trap" /\ \A k \in DOMAIN r.values : r.values[k].bits = script[i].expected[k].bits
       [] script[i].type = "assert_return_nan" -> r.result # "trap" /\ \A v \in ToSet(r.values) : v.bits = NaN
       [] script[i].type = "assert_trap" -> r.result = "trap"
       [] script[i].type \in {"assert_malformed", "assert_unlinkable"} -> ~(m.readable /\ m.valid /\ m.links)
       [] script[i].type = "assert_uninstantiable" -> m.readable /\ m.valid /\ m.links /\ m.start = "traps"

(* "passed" counts the commands whose statement about the module they name is
   true, and all that state something are counted but assert_invalid: also of a
   list that went through escapes, file numbers and tables of names. *)
CountedRight ==
  phase = "run" /\ pos' = pos + 1 =>
    LET counted == script[pos].type \in (ActionCommands \cup RawCommands) \ {"assert_invalid"}
    IN /\ tests'.total = tests.total + (IF counted THEN 1 ELSE 0)
       /\ script[pos].type \in RawCommands \/ (counted /\ Precedes(pos)) =>
            tests'.passed = tests.passed + (IF counted /\ Holds(pos, ran') THEN 1 ELSE 0)

PassedMeans == [][CountedRight]_scriptVars
================================================================================
