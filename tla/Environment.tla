----------------------------- MODULE Environment -----------------------------
(***************************************************************************)
(* The interpreter environment of wasm-interp and the spec commands that   *)
(* fill it.  Every module of a script is read into one environment         *)
(* (binary-reader-interpreter.c): its functions, tables, memories and      *)
(* globals are appended to shared vectors, its imports are indexes into    *)
(* them.  A module that is rejected, or whose start function traps, is     *)
(* undone by truncating the vectors to a mark (interpreter.c).             *)
(*                                                                         *)
(* Reading a module is one step per section entry, in section order; what  *)
(* FuncCompiler does with the code section appears only as an acceptance   *)
(* or a rejection, and the run of a function only as its result and the    *)
(* page counts of the memories.  A function record holds its signature,    *)
(* not an index into env->sigs.  Indexes start at 1; 0 is                  *)
(* WASM_INVALID_INDEX.                                                     *)
(***************************************************************************)
EXTENDS Integers, Sequences, FiniteSetsExt

CONSTANTS Names,        \* names of modules, in commands
          RegisteredNames,  \* names modules are registered as and imported by
          Fields,       \* names of exports
          MainSlot,     \* the slot of a binding hash that each name hashes to
          INITIAL_HASH_CAPACITY,  \* the bindings a hash takes without a resize
          Relinked(_, _),         \* the binding of a name a resized hash comes upon
          Sigs,         \* signatures of functions, "void" among them
          TableLimits,  \* limits tables are declared with
          PageLimits,   \* limits memories are declared with
          Callbacks,    \* names of the callbacks and commands delivered
          MaxLoads,     \* bound on the modules read
          MaxItems,     \* bound on each vector of the environment
          MaxEntries,   \* bound on the section entries of a module
          MaxPages      \* WASM_MAX_PAGES, scaled down

VARIABLES modules, funcs, tables, memories, globals,   \* env
          module_bindings,              \* pairs <<name, module index>>
          registered_module_bindings,
          ctx,      \* the module being read or started, Idle for none
          loads,    \* number of modules read so far
          failed,   \* history: the loads that were undone
          status    \* running, a failed assertion or undefined

envVars == <<modules, funcs, tables, memories, globals>>
bindingVars == <<module_bindings, registered_module_bindings>>
historyVars == <<loads, failed>>
vars == <<envVars, bindingVars, ctx, historyVars, status>>

SPECTEST == "spectest"    \* the host module, registered by init_environment
NO_NAME == "none"         \* an empty string slice

\* What the host module supplies, by kind, and the limits it sets.
HostField == [func |-> "print", table |-> "table", memory |-> "memory",
              global |-> "global"]
Kinds == DOMAIN HostField
HostFields == {HostField[k] : k \in Kinds}
HostTableLimits == [initial |-> 2, has_max |-> TRUE, max |-> 3]
HostPageLimits == [initial |-> 1, has_max |-> TRUE, max |-> 2]

NoLimits == [initial |-> 0, has_max |-> FALSE, max |-> 0]

LimitsType == [initial : Nat, has_max : BOOLEAN, max : Nat]

ASSUME EnvironmentAssumption ==
  /\ SPECTEST \notin Names /\ NO_NAME \notin Names
  /\ MainSlot \in
       [Names \cup RegisteredNames \cup {SPECTEST} \cup Fields \cup HostFields
          -> Nat]
  /\ "void" \in Sigs
  /\ TableLimits \subseteq LimitsType
  /\ PageLimits \subseteq LimitsType
  /\ \A l \in TableLimits \cup PageLimits : l.has_max => l.initial <= l.max
  /\ MaxLoads \in Nat /\ MaxItems \in Nat /\ MaxEntries \in Nat
  /\ MaxPages \in Nat /\ INITIAL_HASH_CAPACITY \in Nat
  /\ \A l \in PageLimits \cup {HostPageLimits} :
       l.initial <= MaxPages /\ l.max <= MaxPages

-----------------------------------------------------------------------------
(* Bindings and exports.                                                   *)

\* The position of the binding that a hash finds, of those inserted under
\* these names, 0 for none.  hash_new_entry links an entry in behind the head
\* of its chain, so of several bindings of a name the first is found if it is
\* the head, and the last if not.  A resize links them anew, in the order of
\* their old slots.
Found(names, name) ==
  LET chain == {i \in DOMAIN names : MainSlot[names[i]] = MainSlot[name]}
      same == {i \in chain : names[i] = name}
      first == IF Len(names) > INITIAL_HASH_CAPACITY THEN Relinked(names, name)
               ELSE Min(chain)
  IN  IF same = {} THEN 0 ELSE IF first \in same THEN first ELSE Max(same)

\* The module bound to a name, 0 for none.
wasm_find_binding_index_by_name(bindings, name) ==
  LET b == Found([i \in DOMAIN bindings |-> bindings[i][1]], name)
  IN  IF b = 0 THEN 0 ELSE bindings[b][2]

\* The position of an export in its module, 0 for none.
wasm_get_interpreter_export_by_name(module, name) ==
  Found([i \in DOMAIN module.exports |-> module.exports[i].name], name)

\* The vector of the environment that holds the items of a kind.
Items(kind) == CASE kind = "func" -> funcs
                 [] kind = "table" -> tables
                 [] kind = "memory" -> memories
                 [] kind = "global" -> globals

Export(name, kind, index, load) ==
  [name |-> name, kind |-> kind, index |-> index, load |-> load]

append_export(ms, m, export) ==
  [ms EXCEPT ![m].exports = Append(@, export)]

-----------------------------------------------------------------------------
(* Mark and reset.                                                         *)

Idle == [command |-> "none"]

wasm_mark_interpreter_environment ==
  [modules |-> Len(modules), funcs |-> Len(funcs), tables |-> Len(tables),
   memories |-> Len(memories), globals |-> Len(globals)]

\* wasm_reset_interpreter_environment_to_mark, of an environment whose
\* memories have become mems.  Its loops over the bindings find nothing to
\* remove (BindingsBelowMark).
Reset(mark, mems) ==
  /\ modules' = SubSeq(modules, 1, mark.modules)
  /\ funcs' = SubSeq(funcs, 1, mark.funcs)
  /\ tables' = SubSeq(tables, 1, mark.tables)
  /\ memories' = SubSeq(mems, 1, mark.memories)
  /\ globals' = SubSeq(globals, 1, mark.globals)

\* Mutant of UndoAfter: the environment is not reset.
UndoAfterNothing(mems) ==
  /\ memories' = mems
  /\ ctx' = Idle
  /\ failed' = failed \cup {loads}
  /\ UNCHANGED <<modules, funcs, tables, globals, bindingVars, loads, status>>

\* Mutant of UndoAfter: the name was bound before the module was started.
UndoAfterBinding(mems) ==
  /\ Reset(ctx.mark, mems)
  /\ module_bindings' = IF ctx.name = NO_NAME THEN module_bindings
                        ELSE Append(module_bindings, <<ctx.name, Len(modules)>>)
  /\ ctx' = Idle
  /\ failed' = failed \cup {loads}
  /\ UNCHANGED <<registered_module_bindings, loads, status>>

\* A module is undone and its command ends.
UndoAfter(mems) ==
  /\ Reset(ctx.mark, mems)
  /\ ctx' = Idle
  /\ failed' = failed \cup {loads}
  /\ UNCHANGED <<bindingVars, loads, status>>

Undo == UndoAfter(memories)

-----------------------------------------------------------------------------
(* Reading a module.                                                       *)

Sections == <<"import", "function", "table", "memory", "global", "export",
              "start", "elem", "code">>

SectionCode(section) == CHOOSE i \in DOMAIN Sections : Sections[i] = section

\* The command handler marks the environment and read_module begins.
BeginModule(command, name) ==
  /\ status = "running"
  /\ ctx = Idle
  /\ command \in Callbacks
  /\ loads < MaxLoads
  /\ loads' = loads + 1
  /\ modules' = Append(modules,
       [name |-> NO_NAME, is_host |-> FALSE, table_index |-> 0,
        memory_index |-> 0, exports |-> <<>>, start |-> 0, load |-> loads',
        table_limits |-> NoLimits, page_limits |-> NoLimits])
  /\ ctx' = [command |-> command, name |-> name,
             mark |-> wasm_mark_interpreter_environment, section |-> 1,
             entries |-> 0, func_index_mapping |-> <<>>,
             global_index_mapping |-> <<>>, num_func_imports |-> 0,
             num_global_imports |-> 0]
  /\ UNCHANGED <<funcs, tables, memories, globals, bindingVars, failed,
                 status>>

\* The module being read.
Module == Len(modules)

\* A module is being read, as far as a section at most.
Reading(section) ==
  /\ status = "running"
  /\ ctx # Idle
  /\ ctx.section <= SectionCode(section)

\* A number of entries of a section can be next.
At(section, callback, count) ==
  /\ Reading(section)
  /\ callback \in Callbacks
  /\ ctx.entries + count <= MaxEntries

\* The reader is in the section from now on.
In(c, section, count) ==
  [c EXCEPT !.section = SectionCode(section), !.entries = @ + count]

\* Any later byte of the module may be wrong.
RejectModule ==
  /\ Reading("code")
  /\ "reject" \in Callbacks
  /\ Undo

-----------------------------------------------------------------------------
(* Imports: on_import and the on_import_* of the kind.                     *)

\* Mutant of check_import_limits: the maximum is not compared.
check_import_initial(declared, actual) == actual.initial >= declared.initial

check_import_limits(declared, actual) ==
  /\ actual.initial >= declared.initial
  /\ declared.has_max => actual.has_max /\ actual.max <= declared.max

\* An import of a kind from the module registered as a name: what a host
\* module makes of it, or what a read module exports.  ok says that the
\* import resolves to an item of the kind.
Import(as, field, kind) ==
  LET m == wasm_find_binding_index_by_name(registered_module_bindings, as)
      e == wasm_get_interpreter_export_by_name(modules[m], field)
  IN  IF m = 0 THEN [ok |-> FALSE]
      ELSE IF modules[m].is_host
      THEN [ok |-> field = HostField[kind], is_host |-> TRUE, module |-> m,
            index |-> Len(Items(kind)) + 1]
      ELSE IF e = 0 THEN [ok |-> FALSE]
      ELSE [ok |-> modules[m].exports[e].kind = kind, is_host |-> FALSE,
            module |-> m, index |-> modules[m].exports[e].index]

CanImport(kind) ==
  /\ At("import", kind, 1)
  /\ ctx.section = 1
  /\ Len(Items(kind)) < MaxItems

\* A host import appends an item and an export of it to the host module.
HostExported(import, field, kind) ==
  IF import.is_host
  THEN append_export(modules, import.module,
                     Export(field, kind, import.index, loads))
  ELSE modules

Func(sig, is_host) == [sig |-> sig, is_host |-> is_host, load |-> loads]

OnImportFunc(as, field, sig) ==
  LET import == Import(as, field, "func")
  IN  /\ CanImport("func")
      /\ IF import.ok /\ (~import.is_host => funcs[import.index].sig = sig)
         THEN /\ funcs' = IF import.is_host
                          THEN Append(funcs, Func(sig, TRUE))
                          ELSE funcs
              /\ modules' = HostExported(import, field, "func")
              /\ ctx' = [In(ctx, "import", 1) EXCEPT
                   !.func_index_mapping = Append(@, import.index),
                   !.num_func_imports = @ + 1]
              /\ UNCHANGED <<tables, memories, globals, bindingVars,
                             historyVars, status>>
         ELSE Undo

\* init_table_func_indexes
NoEntry == [func |-> 0, load |-> 0]
NewTable(limits, size) ==
  [limits |-> limits, func_indexes |-> [i \in 1 .. size |-> NoEntry],
   load |-> loads]

\* The entries of a host table are those of the declaration: they are made
\* before the host module sets its own limits.
OnImportTable(as, field, limits) ==
  LET import == Import(as, field, "table")
      actual == IF import.is_host THEN HostTableLimits
                ELSE tables[import.index].limits
  IN  /\ CanImport("table")
      /\ IF /\ modules[Module].table_index = 0
            /\ import.ok
            /\ check_import_limits(limits, actual)
         THEN /\ tables' = IF import.is_host
                           THEN Append(tables, NewTable(actual, limits.initial))
                           ELSE tables
              /\ modules' = [HostExported(import, field, "table") EXCEPT
                   ![Module].table_index = import.index,
                   ![Module].table_limits = limits]
              /\ ctx' = In(ctx, "import", 1)
              /\ UNCHANGED <<funcs, memories, globals, bindingVars,
                             historyVars, status>>
         ELSE Undo

\* wrapped is history: the loads when its page count last wrapped, 0 for never.
NewMemory(limits) == [limits |-> limits, load |-> loads, wrapped |-> 0]

OnImportMemory(as, field, limits) ==
  LET import == Import(as, field, "memory")
      actual == IF import.is_host THEN HostPageLimits
                ELSE memories[import.index].limits
  IN  /\ CanImport("memory")
      /\ IF /\ modules[Module].memory_index = 0
            /\ import.ok
            /\ check_import_limits(limits, actual)
         THEN /\ memories' = IF import.is_host
                             THEN Append(memories, NewMemory(actual))
                             ELSE memories
              /\ modules' = [HostExported(import, field, "memory") EXCEPT
                   ![Module].memory_index = import.index,
                   ![Module].page_limits = limits]
              /\ ctx' = In(ctx, "import", 1)
              /\ UNCHANGED <<funcs, tables, globals, bindingVars,
                             historyVars, status>>
         ELSE Undo

\* Neither the type nor the mutability of a global is compared.
OnImportGlobal(as, field) ==
  LET import == Import(as, field, "global")
  IN  /\ CanImport("global")
      /\ IF import.ok
         THEN /\ globals' = IF import.is_host
                            THEN Append(globals, [load |-> loads])
                            ELSE globals
              /\ modules' = HostExported(import, field, "global")
              /\ ctx' = [In(ctx, "import", 1) EXCEPT
                   !.global_index_mapping = Append(@, import.index),
                   !.num_global_imports = @ + 1]
              /\ UNCHANGED <<funcs, tables, memories, bindingVars,
                             historyVars, status>>
         ELSE Undo

-----------------------------------------------------------------------------
(* The other sections.                                                     *)

\* Mutant of DefinedMapping: the items are numbered as if the imports had
\* been appended to the environment too.
DefinedMappingPastImports(mapping, num_imports, size, count) ==
  [i \in 1 .. Len(mapping) + count |->
     IF i <= num_imports THEN mapping[i] ELSE size + i]

\* The module's index space once count items are appended to a vector.
DefinedMapping(mapping, num_imports, size, count) ==
  [i \in 1 .. Len(mapping) + count |->
     IF i <= num_imports THEN mapping[i] ELSE size + i - num_imports]

\* on_function_signatures_count and the on_function_signature that follow.
OnFunctions(sigs) ==
  /\ At("function", "func", Len(sigs))
  /\ ctx.section = 1
  /\ Len(funcs) + Len(sigs) <= MaxItems
  /\ funcs' = funcs \o [i \in DOMAIN sigs |-> Func(sigs[i], FALSE)]
  /\ ctx' = [In(ctx, "function", Len(sigs)) EXCEPT
       !.func_index_mapping =
          DefinedMapping(@, ctx.num_func_imports, Len(funcs), Len(sigs))]
  /\ UNCHANGED <<modules, tables, memories, globals, bindingVars,
                 historyVars, status>>

OnTable(limits) ==
  /\ At("table", "table", 1)
  /\ Len(tables) < MaxItems
  /\ IF modules[Module].table_index = 0
     THEN /\ tables' = Append(tables, NewTable(limits, limits.initial))
          /\ modules' = [modules EXCEPT ![Module].table_index = Len(tables')]
          /\ ctx' = In(ctx, "table", 1)
          /\ UNCHANGED <<funcs, memories, globals, bindingVars, historyVars,
                         status>>
     ELSE Undo

OnMemory(limits) ==
  /\ At("memory", "memory", 1)
  /\ Len(memories) < MaxItems
  /\ IF modules[Module].memory_index = 0
     THEN /\ memories' = Append(memories, NewMemory(limits))
          /\ modules' = [modules EXCEPT ![Module].memory_index = Len(memories')]
          /\ ctx' = In(ctx, "memory", 1)
          /\ UNCHANGED <<funcs, tables, globals, bindingVars, historyVars,
                         status>>
     ELSE Undo

\* on_global_count and the globals that follow.
OnGlobals(count) ==
  /\ At("global", "global", count)
  /\ ctx.section < SectionCode("global")
  /\ Len(globals) + count <= MaxItems
  /\ globals' = globals \o [i \in 1 .. count |-> [load |-> loads]]
  /\ ctx' = [In(ctx, "global", count) EXCEPT
       !.global_index_mapping =
          DefinedMapping(@, ctx.num_global_imports, Len(globals), count)]
  /\ UNCHANGED <<modules, funcs, tables, memories, bindingVars, historyVars,
                 status>>

\* The environment index of an item of the module.
EnvIndex(kind, item_index) ==
  CASE kind = "func" -> ctx.func_index_mapping[item_index]
    [] kind = "table" -> modules[Module].table_index
    [] kind = "memory" -> modules[Module].memory_index
    [] kind = "global" -> ctx.global_index_mapping[item_index]

\* The item indexes of a kind that the reader accepts.
ItemIndexes(kind) ==
  CASE kind = "func" -> DOMAIN ctx.func_index_mapping
    [] kind = "table" -> IF modules[Module].table_index = 0 THEN {} ELSE {1}
    [] kind = "memory" -> IF modules[Module].memory_index = 0 THEN {} ELSE {1}
    [] kind = "global" -> DOMAIN ctx.global_index_mapping

\* Mutant of OnExport: the index is not translated.
OnExportUntranslated(name, kind, item_index) ==
  /\ At("export", "export", 1)
  /\ item_index \in ItemIndexes(kind)
  /\ modules' = append_export(modules, Module,
       Export(name, kind, item_index,
              Items(kind)[EnvIndex(kind, item_index)].load))
  /\ ctx' = In(ctx, "export", 1)
  /\ UNCHANGED <<funcs, tables, memories, globals, bindingVars, historyVars,
                 status>>

OnExport(name, kind, item_index) ==
  LET index == EnvIndex(kind, item_index)
  IN  /\ At("export", "export", 1)
      /\ item_index \in ItemIndexes(kind)
      /\ modules' = append_export(modules, Module,
           Export(name, kind, index, Items(kind)[index].load))
      /\ ctx' = In(ctx, "export", 1)
      /\ UNCHANGED <<funcs, tables, memories, globals, bindingVars,
                     historyVars, status>>

OnStartFunction(func_index) ==
  /\ At("start", "start", 1)
  /\ ctx.section < SectionCode("start")
  /\ func_index \in DOMAIN ctx.func_index_mapping
  /\ modules' = [modules EXCEPT ![Module].start = EnvIndex("func", func_index)]
  /\ ctx' = In(ctx, "start", 1)
  /\ UNCHANGED <<funcs, tables, memories, globals, bindingVars, historyVars,
                 status>>

\* Mutant of OnElem: the function index is not translated.
OnElemUntranslated(offset, func_index) ==
  LET t == modules[Module].table_index
  IN  /\ At("elem", "elem", 1)
      /\ t # 0
      /\ func_index \in DOMAIN ctx.func_index_mapping
      /\ IF offset \in DOMAIN tables[t].func_indexes
         THEN /\ tables' = [tables EXCEPT ![t].func_indexes[offset] =
                   [func |-> func_index,
                    load |-> funcs[EnvIndex("func", func_index)].load]]
              /\ ctx' = In(ctx, "elem", 1)
              /\ UNCHANGED <<modules, funcs, memories, globals, bindingVars,
                             historyVars, status>>
         ELSE Undo

\* One function index of an elem segment, written to the module's own or
\* imported table as soon as it is read.
OnElem(offset, func_index) ==
  LET t == modules[Module].table_index
      f == EnvIndex("func", func_index)
  IN  /\ At("elem", "elem", 1)
      /\ t # 0
      /\ func_index \in DOMAIN ctx.func_index_mapping
      /\ IF offset \in DOMAIN tables[t].func_indexes
         THEN /\ tables' = [tables EXCEPT ![t].func_indexes[offset] =
                              [func |-> f, load |-> funcs[f].load]]
              /\ ctx' = In(ctx, "elem", 1)
              /\ UNCHANGED <<modules, funcs, memories, globals, bindingVars,
                             historyVars, status>>
         ELSE Undo

-----------------------------------------------------------------------------
(* The end of a command.                                                   *)

\* The pages a memory may have at most.
Maximum(limits) == IF limits.has_max THEN limits.max ELSE MaxPages

\* Mutant of PagesAfter: a memory grows past its maximum.
PagesAfterNoMaximum(limits) ==
  {limits.initial} \cup
    {n \in 0 .. MaxPages - 1 :
       n >= limits.initial \/ limits.initial = MaxPages}

\* The page counts that any number of GROW_MEMORY of any operands leave.  The
\* sum is made in 32 bits and refused above the maximum or if the bytes do not
\* fit.  One that wraps is not refused: a memory of WASM_MAX_PAGES, whose
\* byte_size is 0, is shrunk by it; for the others see RunsUndefined.
PagesAfter(limits) ==
  {limits.initial} \cup
    {n \in 0 .. MaxPages - 1 :
       /\ n <= Maximum(limits)
       /\ n >= limits.initial \/ limits.initial = MaxPages}

Resized(memory, n) ==
  [memory EXCEPT !.limits.initial = n,
                 !.wrapped = IF n < memory.limits.initial THEN loads ELSE @]

\* What running a function may leave of the memories, its own and those of the
\* functions it calls.  The host module's print leaves them alone.
RunEffects(func) ==
  LET Pages == {pages \in [DOMAIN memories -> 0 .. MaxPages] :
                  \A i \in DOMAIN memories :
                    pages[i] \in PagesAfter(memories[i].limits)}
  IN  IF func.is_host THEN {memories}
      ELSE {[i \in DOMAIN memories |-> Resized(memories[i], pages[i])] :
              pages \in Pages}

\* A sum of page counts that wraps below a byte_size that is not 0 leads to a
\* memset outside the allocation.
RunsUndefined(func) ==
  /\ ~func.is_host
  /\ \E i \in DOMAIN memories :
       PagesAfter(memories[i].limits) \cap 1 .. MaxPages - 1 # {}

\* Mutant of BindName: the binding is made to the module's position in the
\* list of bindings.
BindNamePosition ==
  /\ modules' = [modules EXCEPT ![Module].name = ctx.name]
  /\ module_bindings' =
       IF ctx.name = NO_NAME THEN module_bindings
       ELSE Append(module_bindings, <<ctx.name, Len(module_bindings) + 1>>)

\* The name a module command gives once everything succeeded.
BindName ==
  /\ modules' = [modules EXCEPT ![Module].name = ctx.name]
  /\ module_bindings' = IF ctx.name = NO_NAME THEN module_bindings
                        ELSE Append(module_bindings, <<ctx.name, Module>>)

\* A module command has read and started its module.
Keep(mems) ==
  /\ BindName
  /\ memories' = mems
  /\ ctx' = Idle
  /\ UNCHANGED <<funcs, tables, globals, registered_module_bindings,
                 historyVars, status>>

\* read_module succeeds and nothing is to be run: assert_unlinkable undoes
\* the module all the same, and so does assert_uninstantiable.
EndModule ==
  /\ Reading("code")
  /\ "end" \in Callbacks
  /\ ctx.command = "assert_unlinkable" \/ modules[Module].start = 0
  /\ IF ctx.command = "module" THEN Keep(memories) ELSE Undo

\* read_module succeeds and the start function runs: a function of the module
\* may trap.  Its signature was not checked: with params the arguments do not
\* match, and with a result an assertion of run_start_function fails.
RunStartFunction ==
  LET func == funcs[modules[Module].start]
  IN  /\ Reading("code")
      /\ "end" \in Callbacks
      /\ ctx.command # "assert_unlinkable"
      /\ modules[Module].start # 0
      /\ \/ /\ func.sig = "param"
            /\ Undo
         \/ /\ func.sig # "param" /\ ~func.is_host
            /\ \E mems \in RunEffects(func) : UndoAfter(mems)
         \/ /\ func.sig = "void"
            /\ \E mems \in RunEffects(func) :
                 IF ctx.command = "module" THEN Keep(mems) ELSE UndoAfter(mems)
         \/ /\ func.sig # "param" /\ RunsUndefined(func)
            /\ status' = "undefined"
            /\ UNCHANGED <<envVars, bindingVars, ctx, historyVars>>
         \/ /\ func.sig = "result"
            /\ status' = "assert_start_results"
            /\ UNCHANGED <<envVars, bindingVars, ctx, historyVars>>

-----------------------------------------------------------------------------
(* The other commands.                                                     *)

Ready(command) == status = "running" /\ ctx = Idle /\ command \in Callbacks

\* on_register_command looks for the name among the modules.
ModuleOfName(name) ==
  LET named == {i \in DOMAIN modules : modules[i].name = name}
  IN  IF name = NO_NAME THEN Len(modules)
      ELSE IF named = {} THEN 0
      ELSE Min(named)

OnRegister(name, as) ==
  /\ Ready("register")
  /\ Len(registered_module_bindings) < MaxItems
  /\ ModuleOfName(name) # 0
  /\ registered_module_bindings' =
       Append(registered_module_bindings, <<as, ModuleOfName(name)>>)
  /\ UNCHANGED <<envVars, module_bindings, ctx, historyVars, status>>

\* run_action looks for the name among the bindings; a name that is not bound
\* gives index -1, which its assertion lets through.
ModuleOfAction(name) ==
  IF name = NO_NAME THEN Len(modules)
  ELSE wasm_find_binding_index_by_name(module_bindings, name)

\* An invoke or get action on the export of a module.
OnAction(name, field) ==
  LET m == ModuleOfAction(name)
      e == wasm_get_interpreter_export_by_name(modules[m], field)
      export == modules[m].exports[e]
  IN  /\ Ready("action")
      /\ IF m = 0 THEN status' = "undefined" /\ UNCHANGED memories
         ELSE /\ e # 0
              /\ export.kind \in {"func", "global"}
              /\ IF export.index > Len(Items(export.kind))
                 THEN status' = "assert_index" /\ UNCHANGED memories
                 ELSE /\ export.kind = "func"
                      /\ \/ /\ memories' \in RunEffects(funcs[export.index])
                            /\ UNCHANGED status
                         \/ /\ RunsUndefined(funcs[export.index])
                            /\ status' = "undefined" /\ UNCHANGED memories
      /\ UNCHANGED <<modules, funcs, tables, globals, bindingVars, ctx,
                     historyVars>>

\* The script may end after any command, and an assertion ends the process.
Ended == (ctx = Idle \/ status # "running") /\ UNCHANGED vars

-----------------------------------------------------------------------------
\* init_environment
Init ==
  /\ modules = <<[name |-> SPECTEST, is_host |-> TRUE, table_index |-> 0,
                  memory_index |-> 0, exports |-> <<>>, start |-> 0,
                  load |-> 0, table_limits |-> NoLimits,
                  page_limits |-> NoLimits]>>
  /\ funcs = <<>>
  /\ tables = <<>>
  /\ memories = <<>>
  /\ globals = <<>>
  /\ module_bindings = <<>>
  /\ registered_module_bindings = <<<<SPECTEST, 1>>>>
  /\ ctx = Idle
  /\ loads = 0
  /\ failed = {}
  /\ status = "running"

ReadModule ==
  \/ \E as \in RegisteredNames \cup {SPECTEST}, field \in Fields \cup HostFields :
       \/ \E sig \in Sigs : OnImportFunc(as, field, sig)
       \/ \E limits \in TableLimits : OnImportTable(as, field, limits)
       \/ \E limits \in PageLimits : OnImportMemory(as, field, limits)
       \/ OnImportGlobal(as, field)
  \/ \E n \in 1 .. MaxItems : \E sigs \in [1 .. n -> Sigs] : OnFunctions(sigs)
  \/ \E limits \in TableLimits : OnTable(limits)
  \/ \E limits \in PageLimits : OnMemory(limits)
  \/ \E count \in 1 .. MaxItems : OnGlobals(count)
  \/ \E name \in Fields, kind \in Kinds, i \in 1 .. MaxItems :
       OnExport(name, kind, i)
  \/ \E i \in 1 .. MaxItems : OnStartFunction(i)
  \/ \E offset \in 1 .. MaxItems, i \in 1 .. MaxItems : OnElem(offset, i)
  \/ RejectModule
  \/ EndModule
  \/ RunStartFunction

Next ==
  \/ \E name \in Names \cup {NO_NAME} : BeginModule("module", name)
  \/ \E command \in {"assert_unlinkable", "assert_uninstantiable"} :
       BeginModule(command, NO_NAME)
  \/ ReadModule
  \/ \E name \in Names \cup {NO_NAME}, as \in RegisteredNames :
       OnRegister(name, as)
  \/ \E name \in Names \cup {NO_NAME}, field \in Fields \cup HostFields :
       OnAction(name, field)
  \/ Ended

Spec == Init /\ [][Next]_vars

-----------------------------------------------------------------------------
(* Properties.                                                             *)

Indexes == 0 .. MaxItems

ExportType == [name : Fields \cup HostFields, kind : Kinds, index : Indexes,
               load : 0 .. MaxLoads]

TypeOK ==
  /\ \A m \in DOMAIN modules :
       /\ modules[m].name \in Names \cup {NO_NAME, SPECTEST}
       /\ modules[m].table_index \in Indexes
       /\ modules[m].memory_index \in Indexes
       /\ modules[m].start \in Indexes
       /\ modules[m].exports \in Seq(ExportType)
  /\ funcs \in Seq([sig : Sigs, is_host : BOOLEAN, load : 0 .. MaxLoads])
  /\ \A t \in DOMAIN tables :
       tables[t].func_indexes \in Seq([func : Indexes, load : 0 .. MaxLoads])
  /\ \A i \in DOMAIN memories :
       /\ memories[i].limits \in LimitsType
       /\ memories[i].limits.initial <= Maximum(memories[i].limits)
       /\ memories[i].wrapped \in 0 .. MaxLoads
  /\ loads \in 0 .. MaxLoads
  /\ failed \subseteq 1 .. loads
  /\ status \in {"running", "undefined", "assert_index",
                 "assert_start_results"}

\* An index of the environment still names the item of a kind that a load
\* put there, and not one appended after a reset.
NamesItem(kind, index, load) ==
  index \in DOMAIN Items(kind) /\ Items(kind)[index].load = load

\* While a module is read, its index spaces lead to items that exist, and its
\* own functions and globals to those it appended itself, whatever the order
\* in which its imports appended items for the host module.
IndexSpaces ==
  ctx # Idle =>
    /\ \A i \in DOMAIN ctx.func_index_mapping :
         LET f == ctx.func_index_mapping[i]
         IN  /\ f \in DOMAIN funcs
             /\ i > ctx.num_func_imports => funcs[f].load = loads
    /\ \A i \in DOMAIN ctx.global_index_mapping :
         LET g == ctx.global_index_mapping[i]
         IN  /\ g \in DOMAIN globals
             /\ i > ctx.num_global_imports => globals[g].load = loads

\* Every export of every module that was read names the very item it was made
\* for, however many modules were undone since: resets never take an item
\* that an older module exports.  The host module's exports may outlive the
\* load that made them (ExportIndexAssertion).
ExportsLive ==
  \A m \in DOMAIN modules : \A e \in DOMAIN modules[m].exports :
    LET export == modules[m].exports[e]
    IN  \/ NamesItem(export.kind, export.index, export.load)
        \/ modules[m].is_host /\ export.load \in failed

\* Every table entry names the function it was written for, unless a module
\* that was undone wrote one of its own functions there: reset truncates the
\* functions and leaves such entries in the tables of other modules.
TablesLive ==
  \A t \in DOMAIN tables : \A i \in DOMAIN tables[t].func_indexes :
    LET entry == tables[t].func_indexes[i]
    IN  \/ entry.func = 0
        \/ entry.load \in failed
        \/ NamesItem("func", entry.func, entry.load)

\* No name leads to a module that may still be undone, so that the loops of
\* reset that remove bindings never find one.
BindingsBelowMark ==
  LET kept == IF ctx = Idle THEN Len(modules) ELSE ctx.mark.modules
  IN  /\ \A b \in DOMAIN module_bindings : module_bindings[b][2] \in 1 .. kept
      /\ \A b \in DOMAIN registered_module_bindings :
           registered_module_bindings[b][2] \in 1 .. kept
      /\ \A m \in kept + 1 .. Len(modules) : modules[m].name = NO_NAME

\* The two ways a command finds a module by its name, the hash that run_action
\* asks and the list that on_register_command searches, agree on every name
\* that one module at most has had, whatever modules were undone.  (Of several
\* modules of a name the list gives the first, the hash any.)
NamesAgree ==
  \A name \in Names :
    Cardinality({b \in DOMAIN module_bindings :
                   module_bindings[b][1] = name}) <= 1
      => ModuleOfName(name) = ModuleOfAction(name)

\* The memory and the table of a module satisfy the limits it imported them
\* with for as long as the module exists, also when they have grown since or
\* came through the exports of several modules: only a memory whose page count
\* wrapped since may be smaller than declared, and it keeps its maximum.
ImportsSatisfied ==
  LET AtMost(actual, declared) ==
        declared.has_max => actual.has_max /\ actual.max <= declared.max
  IN  \A m \in DOMAIN modules :
        LET declared == modules[m].page_limits
            table == tables[modules[m].table_index]
            memory == memories[modules[m].memory_index]
        IN  /\ modules[m].table_index # 0 =>
                 /\ modules[m].table_limits.initial <= table.limits.initial
                 /\ AtMost(table.limits, modules[m].table_limits)
            /\ modules[m].memory_index # 0 =>
                 /\ \/ declared.initial <= memory.limits.initial
                    \/ modules[m].load <= memory.wrapped
                 /\ AtMost(memory.limits, declared)

\* What a step may not change of the modules below the mark.
Older(i) == [modules[i] EXCEPT !.exports = IF modules[i].is_host THEN <<>> ELSE @]

OlderStep ==
  ctx # Idle =>
    LET mark == ctx.mark
    IN  /\ SubSeq(funcs', 1, mark.funcs) = SubSeq(funcs, 1, mark.funcs)
        /\ SubSeq(globals', 1, mark.globals) = SubSeq(globals, 1, mark.globals)
        /\ \A i \in 1 .. mark.modules : Older(i)' = Older(i)
        /\ \A i \in 1 .. mark.tables :
             /\ tables'[i].limits = tables[i].limits
             /\ Len(tables'[i].func_indexes) = Len(tables[i].func_indexes)
        /\ loads \in failed' => wasm_mark_interpreter_environment' = mark

\* Older modules are out of a module's reach: reading, starting or undoing it
\* changes nothing below the mark but the entries of tables, the size of
\* memories and the exports of the host module, and undoing it removes all
\* that is above.
OlderKept == [][OlderStep]_vars

\* The assertion of run_function and get_global_export_by_name that an export
\* names an item of the environment.
ExportIndexAssertion == status # "assert_index"

=============================================================================
