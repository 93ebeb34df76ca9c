# A verification project for the WebAssembly prototype toolkit

The repository is the prototype of the WebAssembly binary toolkit: a text parser and
writer, a validator, a binary reader and writer, and `wasm-interp`, an interpreter that
loads binary modules and runs the JSON scripts made from the specification's tests.
This directory holds TLA+ modules translated from its C source, configurations that
model-check them with TLC, and theorems proved with TLAPS.

## Inventory

| Part | State it keeps | Operations | What makes it correct |
|---|---|---|---|
| function-body compiler (`binary-reader-interpreter.c`) | type stack, label stack, pending fixups, emitted istream | one callback per opcode, function and local declaration | never pops an enclosing block's values; every branch and call is patched; what it accepts runs as typed |
| interpreter loop (`interpreter.c`) | pc, value stack, call stack, globals, memories, tables | one case per opcode | the untyped value stack has the shape the compiler computed; stacks stay in bounds; no assertion fails |
| function runner (`wasm-interp.c`: `run_function`, `push_args`, `copy_results`) | the thread's stacks | run a function with arguments | results have the declared types; stacks are reset after every outcome |
| linear memory (`interpreter.c`, `binary-reader-interpreter.c`) | page limits, byte size, bytes | declare, data segment, load, store, grow, size | accesses stay inside, addresses do not wrap, growth respects the maximum |
| environment and linking (`interpreter.c`, `binary-reader-interpreter.c`) | modules, functions, tables, memories, globals, two name hashes | import, define, export, elem segment, start, mark, reset | indexes lead where they were made to lead, also after modules are undone |
| spec command runner (`wasm-interp.c`) | the environment, a thread, counts of passed commands | `module`, `action`, `register`, `assert_*` | a failed command leaves older modules as they were; a name finds its module |
| binary reader (`binary-reader.c`) | offset, section bounds, counts | LEB128 decoding, sections, opcodes | stops at its bounds, accepts exactly the encodings of a value, counts agree |
| validator (`validator.c`) | its own type and label stacks over the AST | check a module | accepts what the compiler accepts |
| name passes (`resolve-names.c`, `apply-names.c`, `generate-names.c`) | label stack, bindings | names to indexes and back | the round trip is the identity |
| binary writer (`binary-writer.c`, `writer.c`, `stream.c`) | output buffer, open section sizes, label stack | write sections, fix sizes up | the reader reads back the module; label depths agree |
| AST builder (`binary-reader-ast.c`, `ast.c`) | label stack, expression lists | the reader's callbacks | every callback lands in the right expression list |
| binding hash (`binding-hash.c`) | entries chained in an array that is doubled, free list in the same pointers | insert, resize, find, remove | what was inserted is found, what was removed is not |
| stack allocator (`stack-allocator.c`) | chunk chain, free list | alloc, realloc, free, mark, reset | blocks do not overlap; a reset returns to the mark |
| literals (`literal.c`) | none | parse and print numbers | overflow is detected, printing and parsing agree |
| numeric instructions (`interpreter.c`) | none | operators, conversions, comparisons | the value WebAssembly defines, a trap exactly where it has none |
| text parser (`ast-parser.y`, `prebuilt/ast-parser-gen.c`) | the module or script being built | one action per grammar rule | fields, bindings and implicit types agree |
| text writer (`ast-writer.c`) | none | write a module | what it writes is read as the same module |
| spec script writer (`binary-writer-spec.c`) | file counter, JSON stream | write commands and module files | a command leads to the module it was checked against |
| tool drivers (`wast2wasm.c`, `wasm2wast.c`) | none | run the passes | the two tools are inverse to each other |
| lexer, dumping tools, option parser, stack and libc allocators, vectors | | | not modelled, see below |

How the parts interact.  The binary reader calls back into a `WasmBinaryReader`; for
`wasm-interp` that is `binary-reader-interpreter.c`, which fills the environment section
by section and compiles the code section to the istream.  `wasm-interp.c` marks the
environment, has a module read, runs its start function and, when anything failed,
resets the environment to the mark.  A thread then executes the istream.  Host imports
call back into `wasm-interp.c`.  `wast2wasm` parses a text into an AST, resolves names,
validates and writes a binary, or for a script one binary per module and a JSON list of
commands, which is what `wasm-interp --spec` runs.  `wasm2wast` has the same binary reader
call `binary-reader-ast.c`, generates and applies names and writes text.  So a body is
checked twice, by `validator.c` before it is written and by the compiler after it is
read, and each relies on the other for what it leaves out.

What is hard here.  Nothing runs concurrently and nothing is persisted.  The difficulty
is in long sequences of legal calls: forward references that are patched much later, in
a different callback; checks that are switched off in unreachable code; two stacks, one
of types at compile time and one of values at run time, which nothing compares; modules
that are undone after they changed other modules' tables and memories, or left indexes
behind; 32-bit sums that are compared as 64-bit ones; errors of a callee that a caller
ignores; recursion that only a bound ends; two tools that each resolve names, count files
and check types, and must agree; float bits compared with constants at the edge of a
range.

## Modules

| Module | Models | Extends |
|---|---|---|
| `FuncCompiler` | the callbacks of a function body | |
| `Interpreter` | `wasm_run_interpreter` and `run_function` on the compiled istream | `FuncCompiler` |
| `MCInterpreter` | function index spaces, tables and arguments for TLC | `Interpreter` |
| `FuncCompilerProofs` | theorems about the type stack and the offsets of `FuncCompiler` | `FuncCompiler`, `TLAPS` |
| `TypingProofs` | a theorem about the types recorded by `FuncCompiler` | `FuncCompilerProofs` |
| `InterpreterProofs` | theorems about the stacks and types of `Interpreter` | `Interpreter`, `TypingProofs` |
| `Memory` | one linear memory | |
| `MemoryProofs` | theorems about `Memory` | `Memory`, `TLAPS` |
| `Environment` | the shared environment, module reading, start functions, commands | |
| `LinkingProofs` | theorems about the bindings and the shared items of `Environment` | `Environment`, `TLAPS` |
| `MCEnvironment` | limits and hash slots for TLC | `Environment` |
| `Validator` | the type checker of `validator.c`, one step per expression | |
| `ValidatedLoad` | both type checkers on one body, in lockstep | `FuncCompiler`, instance of `Validator` |
| `ValidatedLoadProofs` | theorems about `ValidatedLoad` | `ValidatedLoad`, `FuncCompilerProofs` |
| `MCValidatedLoad` | functions, globals and modules for TLC | `ValidatedLoad` |
| `Ast` | modules, fields and bindings; the parser's actions | |
| `Names` | resolving, generating and applying names | `Ast` |
| `Leb128` | variable-length integers, both ways | |
| `BinaryWriter` | sections, bodies, fixups of sizes, names section | `Ast`, `Leb128` |
| `ModuleValidator` | the validator's checks of fields and variables | `BinaryWriter` |
| `BinaryReaderAst` | the callbacks that build the AST | `Ast` |
| `BinaryReader` | header, sections, opcodes, names section | `BinaryReaderAst` and the above |
| `AstWriter` | the text of a module | `BinaryWriter` |
| `Tools` | `wast2wasm`, `wasm2wast`, `wast2wasm` in a row | all of these |
| `MCTools` | texts and options for TLC | `Tools` |
| `Bindings` | what a binding hash promises | |
| `BindingHash` | the chained hash, shown to implement `Bindings` | |
| `BindingHashProofs` | theorems about `BindingHash` | `BindingHash`, `TLAPS` |
| `MCBindingHash` | symmetry for TLC | `BindingHash` |
| `Numeric` | numeric instructions of the interpreter | |
| `Literal` | integer and hexadecimal float literals | `Numeric` |
| `Numbers` | one calculation per behaviour, with its reference definition | `Literal`, `Leb128` |
| `MCNumbers` | widths, formats and operands for TLC | `Numbers` |
| `Script` | a test script through the parser, the validator, the JSON and the command runner | |
| `ScriptProofs` | theorems about `Script` | `Script`, `TLAPS` |
| `MCScript` | commands for TLC | `Script` |

### FuncCompiler

`istream`, `type_stack`, `label_stack`, `depth_fixups`, `func_fixups`, `func_offset`,
`current_func` and `param_and_local_types` are the fields of the reader's context and of
the functions.  One cell of `istream` stands for one emitted instruction with its
operands, so offsets count cells instead of bytes.  Each `on_*_expr` callback is an
action (`OnBlock`, `OnBr`, `OnBrTable`, ...) with the checks and pushes in the order of
the code; a failed check is the step `Stop("rejected")`, a failed assertion a status of
its own.  The reader is free to deliver any callback next, so every malformed body is
among the behaviours, and the model never assumes that a validator ran first
(`ValidatedLoad` does).
Operators are reduced to the shapes that differ (operand types, result, traps, and the
field of the value union that is written).

Two history variables serve the properties.  `typing` keeps the type stack each cell was
emitted under.  `unchecked` collects the conditions that the code should check and does
not: an `if` with a result and no `else`, arms of different heights (`on_else_expr`
checks types but not the height), the operands of `br_if`, missing bodies, and a host
call that failed.  The soundness properties are about modules that meet none of them;
`ValidatedIsChecked` shows that the validator keeps them out.

### Interpreter

`pc`, `value_stack` and `call_stack` are the thread's.  A value is the type it was
written through, or `"zero"` for the zeroed slots of locals, which read as zero of any
type.  Conditions and table keys are free choices, so both ways of a branch are
explored.  `RunFunction` is `run_function` (arguments of any type list are pushed and
checked), and `Exec` is one iteration of the loop.  A host function may succeed, trap or
answer with a value of the wrong type.  An operand read below the stack ends the run in
a mode of its own.

### Memory

`Word` stands for 2^32, and page counts, byte sizes and operands are reduced modulo it
where the code computes in `uint32_t`; the address sum of an access is unbounded below
2 `Word`, as the code's `uint64_t` sum is.  `shadow` is a history variable: the bytes as
a memory addressed by unbounded integers would hold them.  Growing by a sum of page
counts that wraps writes outside the allocation, which is the status `undefined`.

### Environment

`modules`, `funcs`, `tables`, `memories`, `globals` are the vectors of
`WasmInterpreterEnvironment`, `module_bindings` and `registered_module_bindings` its
hashes.  `ctx` is the module being read with the mark its command took; one step reads
one section entry, in section order, and `RejectModule` may end the reading anywhere,
since any later byte may be wrong.  Data the properties do not need is dropped: bytes,
values, the istream, the table of signatures (a function carries its signature).  The
run of a function appears as its result and what it may leave of the memories.  Each
item carries the number of the load that made it, a history field, so that a property
can tell an item from another that took its index after a reset.

`RunEffects` is what a run may do to shared memories: `grow_memory` with any operand, so
that the sum of page counts may wrap.  That leaves a smaller memory, which is undefined
when the code clears the new pages of an allocation that shrank, but not from `MaxPages`
pages, whose `byte_size` is zero (`RunsUndefined`).  The field `wrapped` of a memory is
history: the number of loads when a sum last wrapped.

Lookup in a binding hash keeps the order the chains have (`Found`): an entry is linked in
behind the head of its chain, so among several bindings of a name the first one wins if it
is the head and the last one if it is not.  A resize links the entries anew in the order of
their slots; which binding of a name is then found is the constant `Relinked`, a free
function of the names bound so far.

### Validator and ValidatedLoad

`type_stack` and `labels` are the validator's own; it walks the AST in the order in which
the writer later emits it, so a body is a sequence of expressions and of ends of blocks.
`check_block` stops at the first expression after which the top of the stack is ANY, and
what it leaves out is counted in `skipped`.  `ValidatedLoad` hands each expression to the
validator and to the callback of `FuncCompiler`.  The differences that were found between
the two are named in `gaps`, and a behaviour is followed up to the first of them: dead
code, which only the compiler looks at; `tee_local`, whose test is inverted
(`validator.c:764`); assignment to an immutable global; the index of `call_indirect` on an
empty stack; and `br_table` to a loop with a result, where the compiler asks for it.

### Ast, Names, BinaryWriter, BinaryReader, BinaryReaderAst, AstWriter, Tools

A text is a sequence of fields in the form the grammar distinguishes; tokens and layout
are gone.  A module is the list of its fields with vectors of positions into it, as in
`ast.h`, so that a pass changes the one copy all users see.  A file is a sequence of
bytes, written through a buffer in which sizes are fixed up afterwards, and read with an
offset and an end that moves between section and file.  A group of a LEB128 number and
the word are parameters (`GroupBits`, `WordBits`), so that numbers of several bytes occur
in small files.  A reader state `r` is threaded through the callbacks with `Then`, which
stops at the first error, like the code's `longjmp`.
`write_type_bindings` keeps the parenthesis of `param` and `local` open from one type
without a name to the next type, as the code does, so that `SharesField` can say when a
name comes to share it.  `Tools` has one step per pass: parse, resolve, validate, write,
then read (perhaps a file that was cut short), generate and apply names, write text, and
once more parse, resolve, validate, write.

### Bindings and BindingHash

`BindingHash` has the array of entries with its `next` and `prev` pointers, the free list
and the three ways an entry gets a slot.  `hash_name` is any function of the names.
`Bindings` is a set of bindings with insert, find and remove; the refinement mapping takes
the entries that are in use.  `Rehashed` copies the entries of the old array one after the
other, as the loop of `hash_resize` does.

### Numeric, Literal, Numbers

Words and floats have parameters for their widths.  `Numbers` chooses an operation and
operands in its first step and applies the operator in the second; the properties compare
the outcome with what the operation means on integers and dyadic fractions.  What C and
IEEE 754 define (a cast, a comparison) is modelled by that definition.

### Script

The script is typed in command by command, converted in one step (parse, resolve,
validate, write) and run command by command.  A module is what the commands can tell of
it: name, exports, signatures, and whether it can be read, is valid, links, and traps when
started.  The JSON keeps names as bytes with their escapes and constants as decimal
digits, and files are found by their number.  What a function returns is free.

`CommandsAssumption` says what the parser delivers: one of the types of commands, names
of bytes, and constants whose bits are in `Bits`.  `BitsAssumption` bounds them by two
decimal digits, which is enough for a constant to have leading and trailing digits.

Each tool has a table of names of its own.  wast2wasm resolves names when the script has
been read, so its table (`module_bindings`) has all of them; that of wasm-interp
(`env.bindings`) has those of the modules run so far.  `MayFind` is what a lookup comes
upon in a table made by these insertions: without a resize the first binding of the chain
if it has the name, else the last of the name; `MainSlot`, the hash, is any function.
After a resize, at the insertion past `INITIAL_HASH_CAPACITY`, it is any binding of the
name, given by `Relinked`, any function of the table.  So the two tools may find different
modules, and `ActsOnChecked` is about when they do not.

## Runs

Passing runs, all with deadlock checking:

* `control`: one function with every form of structured control flow, four cells of
  code and three labels.  `LimitsOrdered`: no pop reaches into an enclosing label.
  `AnyOnlyOnTop`: the polymorphic type is only on top, so no check of a real operand is
  skipped.  `TypeSound`: before every instruction the value stack is, frame by frame, the
  stack of types of the compiler.
* `calls`: a host function and two compiled ones that call each other directly, forward,
  recursively and through a table with an empty slot.  `TypeOK` (the value and call
  stacks stay within their arrays), `FixupsPending` (an offset is unresolved exactly while
  something open will patch it), `RunsDefined` (no assertion, no read below the stack),
  `ResultsTyped`, and the liveness property `LooplessRunsEnd`: a run of code without
  backward branches ends, because recursion exhausts the call stack.
* `bodies`: locals, globals, `select`, the operator shapes and `br_table` in nested
  blocks.  `LoadedResolved`: every branch of a loaded module leads to an instruction and
  never into table data.  `TypeSound` here means that the distance computed for a local
  at compile time is right at run time.
* `memory`: all 32-bit addresses, offsets and page counts of a scaled-down word.
  `HoldsStores`, `AccessesInside`, `DefinedUnlessWrapped`.
* `linking`: two loads of modules of up to three entries that import functions, tables
  and globals from each other and from the host, export, fill tables, are named,
  registered and rejected at any point.  `IndexSpaces`, `ExportsLive`, `TablesLive`,
  `BindingsBelowMark`, `NamesAgree`, and `ImportsSatisfied` for tables.
* `starting`: start functions of any signature that succeed or trap, under `module`,
  `assert_unlinkable` and `assert_uninstantiable`, growth of shared memories by every
  operand, actions on exports.  `TypeOK`, `OlderKept`, and `ImportsSatisfied` for memories:
  what a module imported still has the limits it asked for after any growth, except the
  minimum of a memory whose page count wrapped since.
* `validating`: every body of up to three cells through both type checkers, in modules
  with and without a memory and a table.  `ValidatedLoads`: the compiler neither rejects
  nor fails an assertion on what the validator accepts.  `ValidatedIsChecked`: what the
  compiler leaves unchecked (arms, missing `else`, operands of `br_if`, memories and
  tables) the validator has checked; this is the premise of the soundness properties
  above.  `StacksAgree`: the two stacks are the same up to the params and locals.
* `tools`: a host module around each statement, alone and nested in blocks, and all
  combinations of three fields.  `ReadsBack`: what is written is read as the same module.
  `RoundTrip`: the text written from it gives the same file again, unless a name shares a
  field or is one of the names the passes get wrong (see below).  `CutAtSection`: of a
  file cut at any byte whole sections are read or nothing.  `ValidWritten`: the writer's
  assertions hold for valid modules, dead code aside.
* `hash`: four names, all hash functions to four values, five bindings, two resizes.
  `EntriesLinked`: free list and chains share the pointers without mixing.
  `ImplementsBindings`: the refinement.
* `numbers`: `IntegersExact`, `TruncInRange`, `FloatsExact` for the instructions;
  `LiteralsExact` (an integer literal has its value or is refused, a hexadecimal float has
  its value or is the nearest one or next to that; unnoticed overflows and zeros between
  digits aside), `HexRoundTrip` for literals; `LebRoundTrip`.
* `script`: scripts of up to three commands, and of five that begin with two names in one
  chain.  `ActsOnChecked`: a command acts on the module it was validated against.  `PassedMeans`: a command is counted as passed exactly
  when what it says of that module is true.

One run ends in a violation of an assertion of the source:

* `stale_export`: the host module keeps the export of an import whose module was undone;
  the assertion of `run_function` (`wasm-interp.c:353`) fails for an action on it.

### Other divergences met while modelling

They are reachable in the models, where a status, a member of `unchecked` or `gaps`, or a
premise of a property sets them apart, and have no run of their own.

* Function-body compiler: `br_if` to a label with a result and no operand for it reaches
  the assertion of `emit_br` (`binary-reader-interpreter.c:345`); an `if` whose arms leave
  different heights is accepted and fails the assertion of `copy_results`
  (`wasm-interp.c:333`); a `br_table` depth that names no label fails the assertion of
  `translate_depth` (`:949`); an operand popped in a block opened in unreachable code
  passes its check and fails the assertion of `top_type` (`:987`).
* Interpreter: the result of `wasm_call_host` is ignored for calls from WebAssembly code,
  so a host function that traps does not end the run (`interpreter.c:930`); `i64.eqz`
  writes its result through the i64 field although its type is i32; `i32.trunc_s/f64` and
  `i32.trunc_u/f64` refuse values with a fraction next to the limit whose whole part fits.
* Reader: a module with declared functions and no code section is loaded
  (`binary-reader.c:1929`); a memory of `WASM_MAX_PAGES` pages has zero bytes
  (`binary-reader-interpreter.c:777`); the indexes of locals and globals are not compared
  with their number.
* Environment: a memory of 65536 pages has a `byte_size` of zero, and `grow_memory` by an
  operand with which the sum of pages wraps passes its checks (`interpreter.c:1037-1045`),
  so that a memory can become smaller than a module declared when it imported it; from
  other sizes the same sum makes the code clear bytes past the new allocation.  A start
  function with a result fails the assertion of
  `run_start_function`; a host table has the entries of the import's declaration and the
  limits of the host; a global import is not compared in type or mutability.
* Validator: the five gaps above.  Dead code is not validated at all, so an index that
  means nothing there fails an assertion of the writer (`binary-writer.c:328`) or gives a
  file the reader refuses.
* Names: `visit_export` of `apply-names.c` looks up every export among the functions,
  whatever its kind; generated names may be names the module already has; `wasm2wast`
  ignores a pass that fails.  `RoundTrip` excludes the modules concerned.
* Text writer: "named params/locals must be specified by themselves"
  (`ast-writer.c:533-536`), but the parenthesis of a type without a name is left open for
  the next type, also when that has a name: params i32, i64, `$b` i32 are written
  `(param i32 i64 $b i32)`, which the grammar does not accept (`ast-parser.y:723-758`).
  `RoundTrip` does not ask that the text of such a module is accepted (`SharesField`).
* Scripts: names of modules are bound over the whole script, so an action may be validated
  against a module that comes later and then finds index -1, or another module of that
  name; when two modules have one name and the script has more than eight names, the tables
  of the two tools may be resized at different commands, or one of them only, and an action
  may run on another module of the name than the one it was validated against
  (`binding-hash.c:114`, premise `FoundAlike`); after a module command that
  failed, actions without a name go to the module before it; `assert_trap` passes on an
  unknown export; the kind of an export is asserted when `assert_return_nan` is written
  (`binary-writer-spec.c:269`) and checked by no pass; the failure to write a module file
  is overwritten by the next one (`:305`).
* Literals: the overflow test of `wasm_parse_uint64` misses some overflows
  (`literal.c:107`); zeros before the dot that stand between other digits are misread
  although "we want to support extra zeroes anywhere" (`:241`), so that `0x10.8p0` is 24;
  a literal between two floats is not rounded to the nearest, and the carry of a rounded
  subnormal can fail the assertion of `make_float`.
* Binding hash: a binding of the empty name looks like a free entry; `wasm_remove_binding`
  takes the index of a binding for the slot of its entry, which does no harm because its
  only caller asks for names that are not bound.
* Stack allocator: a block of exactly `CHUNK_MAX_AVAIL` bytes may take a chunk from the
  free list and keep its stale link (`stack-allocator.c:67`).

### Bounds

Code is bounded in cells, labels, targets, locals and stack sizes, environments in
loads, entries per module and items per vector.  They are the smallest at which the
behaviours in question occur: three labels give a branch across a block into a third,
with fixups at two depths pending when the middle one closes; four cells hold a value, a
conditional branch and the code after it; two functions besides the host function give a
forward call, recursion and a call back; a value stack of three to five slots is
exhausted by some bodies and not by others.  In the environment two loads give an older
module and one that uses it and fails, and three entries suffice for import, definition
and a use of both; an index is reused by the item the second load appends after the
first was undone.  All names of modules share one hash slot and all exports another, so
that collisions are the normal case.  Every action fires in some passing run.

`validating` has three cells and three labels: a value, an operator and a branch in a
block in a block.  In `tools` a group of a LEB128 number has four bits and a word nine, so
that sizes and constants of one to three bytes occur and a fixup moves bytes; three fields
give an item, one that depends on it and one that refers to either.  In `hash` four names
over four hash values with a first capacity of two give every pattern of collisions in
arrays of two, four and eight entries.  In `numbers` i32 has four bits and i64 eight, of
which all or the boundary values are tried; floats keep the proportions that matter to the
range checks (the smaller holds more than i64, the larger every i32 exactly).  In `script`
three commands give a module, another one or a bad one, and a command on either.  Scripts of
five commands begin with two modules whose names have the same main slot; a third and a
fourth name, before or after the action, give a name bound twice whose last binding is
found, tables of which only one was resized (`INITIAL_HASH_CAPACITY` is three), and a
module that comes too late.  In `starting` `MaxPages` is four, and memories are declared with
one page of two or with `MaxPages` of no maximum, so that sums wrap from both.  In `linking`
and `starting` a hash is resized at the third binding.

### Fairness

The only fairness is `WF_vars(Exec)`: `run_defined_function` calls
`wasm_run_interpreter` in a loop until the result is not OK, so a running thread always
takes its next step.  Nothing is assumed about which callbacks the reader delivers or
which commands a script holds.

## Proofs

`FuncCompilerProofs` proves that `CompilerSpec` (the compiler alone) implies
`[]LimitsOrdered` (`LimitsOrderedAlways`) and `[]AnyOnlyOnTop` (`AnyOnlyOnTopAlways`),
for every set of types, function index space, opcode set and bound that
`CompilerAssumption` allows.  Neither is inductive.  The invariant `IInv` adds that the
stacks have their types, that the params and locals are the bottom of the type stack and
hold no polymorphic type, that the function's own label is the outermost one (so closing
any other label leaves one to check against), and what the limit of that label is while
local declarations are still being read.  The argument goes through lemmas on the
helpers of the type stack (`PopTyped`, `PushTyped`, `PushAnyTyped`, `ResetTyped`: each
takes a typed stack above the limits to another) and one lemma per action.

It then proves `FixupsPendingAlways` and `LoadedResolvedAlways` of the same
specification.  Their invariant `FInv` says where each offset that is still missing is
recorded and that each recorded cell is missing its offset (`Owned` for the labels,
`Linked` for the functions: every cell has one owner), that an offset that is there leads
to an instruction or just past the end, and never past the end once the function is
closed (`Targets`, `Within`), and which functions have been compiled (`BodiesRead`).
`Owned` has to say that `depth_fixups` is never longer than `label_stack`: this is why a
vector that `pop_label` may find shorter than the labels loses nothing.  There is a lemma
for each way the state changes (`EmitOwned`, `PushOwned`, `PopOwned`, `ElseOwned`,
`BeginLinked`), and one for each action on top of them.

`TypingProofs` proves what the interpreter rests on: the compiled code is typed
(`TypingInductive`).  `typing` records the type stack under which each cell was emitted, and
the invariants `WInv` and `TInv` say that it is right on every way through the code: an
instruction that goes on to the next cell leaves the types recorded there (`Flow`), a
branch that has its offset arrives with the types recorded at its target, and one that
still waits for it will arrive with the types its label promises (`Pending`, `Goes`), which
`pop_label` makes the types after the block.  `EntriesTyped` says the same of the entries of a
`br_table`, `LoopsTyped` of the labels that are branched back to, `LocalsBelow` keeps the
params and locals at the bottom of every recorded stack, and `CurrentLast` makes the code of
the function that is being read the last of the istream.  All of it holds as long as no
condition was left unchecked except the result of a host call, which is the
interpreter's.  There is a lemma for every shape of emitted code (`StraightTyped`,
`AroundTyped`, `TableTyped`, ...), because one callback may emit up to three cells and the
entries of a table.

`InterpreterProofs` proves every invariant of `Interpreter`: `TypeOKAlways`,
`RunsDefinedAlways`, `TypeSoundAlways` and `ResultsTypedAlways` of `Spec`, for every function
index space, set of opcodes, stack sizes and bound.  `TypeOKAlways` needs `ThreadOK` only,
that every push is checked against the size of its stack.  The others share `RInv`, which
is about a running thread in code without unchecked conditions: each return address
follows a call (`Running`); the function of each activation leaves what its caller
expects (`Owners`); and the value stack is, value by value, the recorded types of the
callers without the operands of their calls, one after the other, and on top
`typing[pc]` (`Holds`).  `Flow` of `TypingProofs` then takes each instruction to the next
one, and `HoldsEnter` and `HoldsRegroup` move the border between two activations when a
call takes its operands and a return leaves its results.  That the thread is never out of
operands (`RunningHasOperands`) follows, because the recorded types are there, and so the
step that reads below the stack is impossible.  The frames are concatenated by
`FlattenSeq`, whose recursive function is shown to be the only one with its equations
(`FlattenAppend`); this takes the place of induction.

`RunsDefinedAlways` has no hypothesis: a value of the wrong type is still one slot.
`TypeSoundAlways` and `ResultsTypedAlways` assume `PushesResults`, that every opcode of the
instance pushes the type its signature declares.  All operators of the code do but
`i64.eqz` (see the divergences above), for which the two properties are false; an
instance of the opcodes without it satisfies the hypothesis, as those that TLC checks do.

`ValidatedLoadProofs` proves `StacksAgreeAlways`, `ValidatedLoadsAlways` and
`ValidatedIsCheckedAlways` of `LoadSpec`, for every set of modules too.
`LoadImplementsCompiler` first shows that the compiler in it is that of `CompilerSpec`, so
that `IInv` and `FInv` are at hand.  The invariant `LInv` holds as long as the validator
has found no error and no known difference was met: the labels of both correspond
(`LabelsPaired`), the compiler's stack is the validator's on top of the params and locals,
and the validator has left a block if and only if the polymorphic type is on top of the
compiler's stack, above the limit of the label (`BrokePaired`).  The last part carries the
argument: in reachable code both stacks are of value types, and each check of the
validator implies the compiler's (`TypesOk`, `PopOk`, `LimitOk`, `TargetOk`); at the end of
a block that was left the compiler's checks pass because of the polymorphic type
(`EndsOk`), and what is below the limit is again of value types (`ResetAnyhow`).

`MemoryProofs` proves `HoldsStoresAlways`, `AccessesInsideAlways`, `TypesAlways` and
`DefinedUnlessWrappedAlways` for every word, page size and set of widths under
`MemoryAssumption`, whose content is that `WASM_MAX_PAGES` pages are one word.  The
first two share the invariant `IInv`: the allocation has `byte_size` bytes, all byte
values, and `byte_size` fits the word (so that an address that passes the bounds check is
its own 32-bit truncation); nothing was stored before the declaration (so that the bytes
the declaration clears agree with the history); and the two properties together, because
the bytes of new pages agree with the history only if no store reached past the old
allocation.  `TypesAlways` adds the types of the results.  `DefinedUnlessWrappedAlways`
has an invariant of its own, `PagesInv`: the page count is within the declared maximum
from the declaration on, and unless a sum wrapped the memory has at most as many bytes as
its pages, so that a growth that is not refused never shrinks the allocation.

`LinkingProofs` first proves `BindingsBelowMarkAlways`, that the `Spec` of `Environment`
implies `[]BindingsBelowMark`, for every set of names, signatures and limits and every
bound.  Its invariant `IInv` adds to the property that a module being read or started is
the last of the list and the only one above the mark, and that every module has a name
(`NO_NAME` counts).  The first is needed where the module is kept: its binding leads to
the end of the list, which is one past the mark.  The second is needed because
`on_register_command` searches the names: the index it finds is that of a module of the
list (`LeastElement`).  Every way a step can end is a lemma (`ReadingOn`, `UndoKeeps`,
`KeepKeeps`, `OtherKeeps`), and each action is brought under one of them.

It then proves the other properties of `Environment`: `IndexSpacesAlways`,
`ExportsLiveAlways`, `TablesLiveAlways`, `ImportsSatisfiedAlways`, `NamesAgreeAlways`,
`EnvironmentTypeOK` and the action property `OlderKeptAlways`.  None of them is inductive
alone, because a reset truncates vectors that every module points into.  The invariant
`LInv` adds to `IInv` and the types:

* `Context`: what is above the mark was made by the module being read, and until the
  function section (the global section) the index space of functions (globals) holds
  imports only, so that `DefinedMapping` numbers a module's own items as they are appended;
* `Linked`: what a module refers to is in its `Room`, which for a module below the mark
  ends at the mark and for the one being read at the end of the vector.  This is why
  undoing is safe: a module that stays refers to nothing that a reset takes away.  Only the
  host module's exports may do so, and those carry a load that is in `failed`.

A step either goes on reading (`ReadOn`: vectors are only added to, with items of this
load), undoes or keeps the module, or leaves all but the size of memories (`Stays`); each
of these keeps `LInv` (`ReadKeeps`, `UndoLinked`, `StaysKeeps`) and what is below the mark
(`ReadOlder`, `UndoOlder`, `OlderFrom`), and one lemma per action shows which it is.  The
import actions rest on `ImportFound` (an import that resolves gives an item below the
mark, or the next one of the vector for the host module), the elem action on
`EnvIndexFound`.  `ImportsSatisfied` survives growth because `grow_memory` changes
`initial` only, to the maximum at most, and downwards only where a sum wraps, which
`wrapped` then records (`RunEffectsResize`).  A module is served by its memory (`Serves`) if
the minimum it declared is there or the sum wrapped after it was read; as no module has
a number past `loads` (`LoadsPast`), a memory that wraps now excuses every module there is,
and none that is read later (`StillServes`).  `NamesAgree` has
the invariant `NamesBound` besides: each binding leads to a module of its name and each named module has one,
where `BindName` is the only step that touches either.  `EnvironmentAssumption` asks that
the declared page limits, and those of the host memory, are at most `MaxPages`: the binary
reader refuses others (`binary-reader.c:1186`, `1189`).  Nothing in the proofs depends on
which of several bindings of a name is found, so they hold past a resize.

`BindingHashProofs` proves `EntriesLinkedAlways` and `ImplementsBindingsAlways` of the `Spec`
of `BindingHash`, for every set of names, every hash function, first capacity and number of
bindings.  The assumptions are `CapacityAssumption` (the first capacity is not zero) and
`NamesAssumption` (no name is empty, as an entry of the empty name looks free; hash values
are naturals).  The properties follow the pointers to the end, which no single step can be
shown to preserve, so the invariant `HashInv` says it locally and of every slot:

* `FreeLinked`: the free slots are linked both ways, and only the head has none before it;
  `ChainsLinked`: a used slot leads to a used one of the same main slot, no two lead to the
  same, and each but the main slot has one before it.  Each has a rank that grows along the
  pointers; without it a ring beside the list would satisfy the rest.
* `Distinct`, `Numbered`: every used slot has an index of its own, below their number.
  Without it two entries could be the same binding, and the set of bindings would lose one
  that is moved onto another.

A free slot is taken by popping the head or unlinking any other (`TakenLinked`), and
there is a lemma for each of the three ways the slot is then used: it starts a chain
(`StartsLinked`), joins one (`JoinsLinked`), or takes over the entry of another chain whose
slot the new name needs (`MovesLinked`).  The last one needs that the entry before the
moved one is found by walking its chain; that walk, the search and the two properties
rest on `PathEnds` and `PathCovers`: a walk along ranked pointers ends within the capacity,
and misses none of the slots that have one before them.  A resize copies entry by entry
(`CopyOne`), and `ResizeKeeps` is the induction over the entries copied so far: the
bindings are the same, and there is a free slot again.  With these `AbsInsert`, `AbsFind`
and `AbsRemove` map each operation to that of `Bindings`.

`ScriptProofs` proves `ActsOnCheckedAlways` and `PassedMeansAlways` of the `Spec` of
`Script`, for every set of commands that `CommandsAssumption` allows, every length of a
script, every hash and every order a resize may give the bindings.  Their premises are
those of `Precedes`: no module command has failed, the module comes before the command, the
export of an action is of its kind, and a name was looked up alike (`FoundAlike`): one
module has it, or the script has no more names than a table takes without a resize.  The
last one cannot be left out; TLC finds a script of five commands otherwise.  The invariant
`RunInv` says what the two tools share at each command:

* `Converted`: the JSON and the files are those of the script, and it was validated;
* `ModulesMatch`: the environment has the host module and then the modules of module
  commands before the next one, in their order and under their names; `AllModules`: unless
  one has failed, it has all of them; `BindingsMatch`: a binding for each that has a name,
  in the same order;
* `RanRight`: the last command was run as `ActsOnChecked` says.

The proof follows a command through the JSON.  `StringRead`: what `parse_string` reads is
what `write_escaped_string_slice` wrote, for every sequence of bytes.  The functions that
both are built from are shown to be the only ones with their equations (`WritesFacts`,
`ReadingFacts`), and a smallest prefix for which reading fails takes the place of induction
(`CharRead` is its step: an escape is six characters, a plain one itself).  `ConstRead` is
the same for decimal digits.  `FileOfCommand`: no two commands have the same file number,
so that no module is written over.  `NameFinds`: the binding that a lookup finds is of the
same module in the table of the parser and in that of the environment, though the second
one has fewer.  In tables that were not resized (`SmallTablesAgree`; `FewerBindings`: the
second table is not resized if the first is not) this rests on the order of both being that
of the commands: a binding heads its chain in one table if it does in the other
(`SameHead`), and where no binding of the name does, the last of the name is found, which
is the same in both, because the module that was validated against precedes the command
and so do all others of its name.  `RegisterFinds` is about the search through
the list of modules, which takes the first, and so needs that there is one module of the
name.  `ActionEnds`: on that module an action can only trap or return values of the types
it was validated with.  From this `PassesHolds`, the second theorem for actions, compares
what the command runner tests with what the script states; `RawCounted` does so for the
assertions on modules.

Only model-checked: `LooplessRunsEnd`, because the prover does not do liveness under
fairness; the properties of `Tools` and `Numbers`, which are about recursive
definitions (trees, folds over bytes and digits) whose value for every input needs
induction over data; and `ExportIndexAssertion`, which is violated.

## Not modelled, and why

* The lexer is a table generated by re2c, and the grammar's automaton one generated by
  bison: the model starts from the fields and expressions the grammar's actions are given.
* The dumping tools print what the binary reader delivers; `wast-desugar` and the option
  parser are text and command-line handling.
* The stack allocator is pointer arithmetic in chunks; no component can tell more of it
  than that blocks do not overlap.  The libc allocator ends the process when memory runs
  out.  Vectors appear as sequences where they are used.
* Decimal floats are left to `strtof` and `strtod`, and float arithmetic to the C compiler.
* Bytes of imported memories that a rejected module has written (`Memory` has one module,
  `Environment` no bytes).

## What could follow

The properties of `Numbers` as lemmas on its operators: those that are no folds (the
conversions of ranges, the division that traps) are within the prover's arithmetic, while
`Literal` and `Leb128` would need the argument of `StringRead` for digits of every base.
