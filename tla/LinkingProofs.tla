----------------------------- MODULE LinkingProofs -----------------------------
(***************************************************************************)
(* Modules share the vectors of the environment and undo truncates them:   *)
(* no name is ever bound to a module that may still be undone, and every   *)
(* index that a module, an export, a table or the reader keeps still names *)
(* the item it was made for, for every instance of Environment.            *)
(***************************************************************************)
EXTENDS Environment, SequenceTheorems, WellFoundedInduction, FiniteSetTheorems, TLAPS

(* The bindings.                                                           *)

IsSequence(s) == \E S : s \in Seq(S)

\* Every module has a name, be it NO_NAME.
Named(ms) ==
  /\ IsSequence(ms)
  /\ \A m \in 1 .. Len(ms) : "name" \in DOMAIN ms[m]

\* The modules of ms have the names they had in old.
SameNames(old, ms) ==
  /\ Named(ms)
  /\ Len(ms) = Len(old)
  /\ \A m \in 1 .. Len(old) : ms[m].name = old[m].name

\* A module that is read or started is the last one, and has no name yet.
LastUnnamed ==
  ctx # Idle =>
    /\ {"mark", "name"} \subseteq DOMAIN ctx
    /\ ctx.mark.modules \in Nat
    /\ Len(modules) = ctx.mark.modules + 1
    /\ modules[Len(modules)].name = NO_NAME

\* Every binding leads to one of the first n modules.
LeadsBelow(bindings, n) ==
  /\ IsSequence(bindings)
  /\ \A b \in 1 .. Len(bindings) : bindings[b][2] \in 1 .. n

Kept == IF ctx = Idle THEN Len(modules) ELSE ctx.mark.modules

\* BindingsBelowMark is inductive together with what the context says of the
\* modules behind the mark.
IInv ==
  /\ Named(modules)
  /\ LastUnnamed
  /\ LeadsBelow(module_bindings, Kept)
  /\ LeadsBelow(registered_module_bindings, Kept)

-----------------------------------------------------------------------------
(* Sequences.                                                              *)

\* The length of a sequence is a number.
LEMMA LenNat == ASSUME NEW s, IsSequence(s)
                PROVE  Len(s) \in Nat /\ DOMAIN s = 1 .. Len(s)
BY DEF IsSequence

\* Append adds one element at the end.
LEMMA AppendSequence ==
  ASSUME NEW s, IsSequence(s), NEW x
  PROVE  /\ IsSequence(Append(s, x))
         /\ Len(Append(s, x)) = Len(s) + 1
         /\ Append(s, x)[Len(s) + 1] = x
         /\ \A i \in 1 .. Len(s) : Append(s, x)[i] = s[i]
<1>1. PICK S : s \in Seq(S)
  BY DEF IsSequence
<1>2. s \in Seq(S \cup {x})
  BY <1>1
<1>3. Append(s, x) \in Seq(S \cup {x})
  BY <1>2
<1>4. QED
  BY <1>2, <1>3 DEF IsSequence

\* A prefix of a sequence keeps its elements.
LEMMA SubSequence ==
  ASSUME NEW s, IsSequence(s), NEW n \in 0 .. Len(s)
  PROVE  /\ IsSequence(SubSeq(s, 1, n))
         /\ Len(SubSeq(s, 1, n)) = n
         /\ \A i \in 1 .. n : SubSeq(s, 1, n)[i] = s[i]
<1>1. PICK S : s \in Seq(S)
  BY DEF IsSequence
<1>2. n \in Nat
  BY <1>1
<1>3. SubSeq(s, 1, n) \in Seq(S)
  BY <1>1, <1>2
<1>4. QED
  BY <1>1, <1>2, <1>3 DEF IsSequence

\* A function with one argument's value replaced.
Updated(s, i, x) == [s EXCEPT ![i] = x]

\* Replacing one element leaves the others.
LEMMA ReplaceSequence ==
  ASSUME NEW s, IsSequence(s), NEW i, NEW x
  PROVE  /\ IsSequence(Updated(s, i, x))
         /\ Len(Updated(s, i, x)) = Len(s)
         /\ \A j \in 1 .. Len(s) :
              Updated(s, i, x)[j] = IF j = i THEN x ELSE s[j]
<1>1. PICK S : s \in Seq(S)
  BY DEF IsSequence
<1>2. s \in Seq(S \cup {x})
  BY <1>1
<1>3. CASE i \in 1 .. Len(s)
  <2>1. /\ [s EXCEPT ![i] = x] \in Seq(S \cup {x})
        /\ Len([s EXCEPT ![i] = x]) = Len(s)
        /\ \A j \in 1 .. Len(s) :
             [s EXCEPT ![i] = x][j] = IF j = i THEN x ELSE s[j]
    BY <1>2, <1>3, ExceptSeq
  <2>2. QED
    BY <2>1 DEF IsSequence, Updated
<1>4. CASE i \notin 1 .. Len(s)
  <2>1. Updated(s, i, x) = s
    BY <1>1, <1>4 DEF Updated
  <2>2. QED
    BY <2>1, <1>4
<1>5. QED
  BY <1>3, <1>4

-----------------------------------------------------------------------------
(* Modules keep their names.                                               *)

\* A list of modules has the names it has.
LEMMA SameNamesRefl == ASSUME NEW ms, Named(ms) PROVE SameNames(ms, ms)
BY DEF SameNames, Named

\* Having the same names is transitive.
LEMMA SameNamesTrans ==
  ASSUME NEW a, NEW b, NEW c, SameNames(a, b), SameNames(b, c)
  PROVE  SameNames(a, c)
BY DEF SameNames

\* A module is replaced by one of its name.
LEMMA ReplaceNamed ==
  ASSUME NEW ms, Named(ms), NEW m, NEW r,
         m \in 1 .. Len(ms) => "name" \in DOMAIN r /\ r.name = ms[m].name
  PROVE  SameNames(ms, Updated(ms, m, r))
<1>1. IsSequence(ms)
  BY DEF Named
<1>2. /\ IsSequence(Updated(ms, m, r))
      /\ Len(Updated(ms, m, r)) = Len(ms)
      /\ \A j \in 1 .. Len(ms) :
           Updated(ms, m, r)[j] = IF j = m THEN r ELSE ms[j]
  BY <1>1, ReplaceSequence
<1>3. QED
  BY <1>2 DEF SameNames, Named

\* A field other than the name is assigned.
Assigned(ms, m, f, v) == Updated(ms, m, Updated(ms[m], f, v))

\* Changing a field of a module other than its name keeps the names.
LEMMA AssignNamed ==
  ASSUME NEW ms, Named(ms), NEW m, NEW f, f # "name", NEW v
  PROVE  SameNames(ms, Assigned(ms, m, f, v))
<1> DEFINE r == Updated(ms[m], f, v)
<1>1. m \in 1 .. Len(ms) => "name" \in DOMAIN r /\ r.name = ms[m].name
  BY DEF Named, Updated
<1> HIDE DEF r
<1>2. SameNames(ms, Updated(ms, m, r))
  BY <1>1, ReplaceNamed
<1>3. QED
  BY <1>2 DEF r, Assigned

\* Adding an export keeps the names.
LEMMA ExportNamed ==
  ASSUME NEW ms, Named(ms), NEW m, NEW e
  PROVE  SameNames(ms, append_export(ms, m, e))
<1>1. append_export(ms, m, e) =
        Assigned(ms, m, "exports", Append(ms[m].exports, e))
  BY DEF append_export, Assigned, Updated
<1>2. QED
  BY <1>1, AssignNamed

\* An export the host module creates on demand keeps the names.
LEMMA HostExportNamed ==
  ASSUME Named(modules), NEW import, NEW field, NEW kind
  PROVE  SameNames(modules, HostExported(import, field, kind))
BY ExportNamed, SameNamesRefl DEF HostExported

-----------------------------------------------------------------------------
(* The ways a step can end.                                                *)

\* The context goes on with its mark.
CtxKept ==
  /\ DOMAIN ctx' = DOMAIN ctx
  /\ ctx'.mark = ctx.mark

\* A module being read is one of the list.
LEMMA ContextIn ==
  ASSUME {"mark", "name"} \subseteq DOMAIN ctx, NEW section, NEW count,
         NEW c, c = In(ctx, section, count)
  PROVE  DOMAIN c = DOMAIN ctx /\ c.mark = ctx.mark
BY DEF In

\* A callback that goes on reading keeps the invariant.
LEMMA ReadingOn ==
  ASSUME IInv, ctx # Idle, SameNames(modules, modules'), CtxKept,
         UNCHANGED bindingVars
  PROVE  IInv'
<1>1. ctx' # Idle
  <2>1. "mark" \in DOMAIN ctx'
    BY DEF IInv, LastUnnamed, CtxKept
  <2>2. "mark" \notin DOMAIN Idle
    BY DEF Idle
  <2>3. QED
    BY <2>1, <2>2
<1>2. Kept' = Kept
  BY <1>1 DEF Kept, CtxKept
<1>3. Named(modules)'
  BY DEF SameNames
<1>4. LastUnnamed'
  <2>1. /\ {"mark", "name"} \subseteq DOMAIN ctx
        /\ ctx.mark.modules \in Nat
        /\ Len(modules) = ctx.mark.modules + 1
        /\ modules[Len(modules)].name = NO_NAME
    BY DEF IInv, LastUnnamed
  <2>2. Len(modules) \in 1 .. Len(modules)
    BY <2>1
  <2>3. QED
    BY <2>1, <2>2 DEF LastUnnamed, CtxKept, SameNames
<1>5. QED
  BY <1>2, <1>3, <1>4 DEF IInv, bindingVars, LeadsBelow

\* Undoing the module being read removes it and nothing a name leads to.
LEMMA UndoKeeps ==
  ASSUME IInv, ctx # Idle, NEW mems, UndoAfter(mems)
  PROVE  IInv'
<1> DEFINE n == ctx.mark.modules
<1>1. n \in Nat /\ Len(modules) = n + 1 /\ IsSequence(modules)
  BY DEF IInv, LastUnnamed, Named
<1>2. modules' = SubSeq(modules, 1, n) /\ ctx' = Idle /\ UNCHANGED bindingVars
  BY DEF UndoAfter, Reset
<1>3. n \in 0 .. Len(modules)
  BY <1>1
<1>4. /\ IsSequence(modules')
      /\ Len(modules') = n
      /\ \A i \in 1 .. n : modules'[i] = modules[i]
  BY <1>1, <1>2, <1>3, SubSequence
<1>5. Named(modules)'
  BY <1>1, <1>4 DEF Named, IInv
<1>6. Kept = n /\ Kept' = n
  BY <1>2, <1>4 DEF Kept
<1>7. QED
  BY <1>2, <1>5, <1>6 DEF IInv, LastUnnamed, LeadsBelow, bindingVars

\* A module that is kept is bound under its index, which is below the end of
\* the list from now on.
LEMMA KeepKeeps ==
  ASSUME IInv, ctx # Idle, NEW mems, Keep(mems)
  PROVE  IInv'
<1> DEFINE n == ctx.mark.modules
<1>1. n \in Nat /\ Len(modules) = n + 1 /\ Named(modules) /\ Kept = n
  BY DEF IInv, LastUnnamed, Kept
<1>2. /\ modules' = [modules EXCEPT ![Len(modules)] =
                       [modules[Len(modules)] EXCEPT !["name"] = ctx.name]]
      /\ ctx' = Idle
      /\ registered_module_bindings' = registered_module_bindings
  BY DEF Keep, BindName, Module
<1>3. module_bindings' = module_bindings
      \/ module_bindings' = Append(module_bindings, <<ctx.name, n + 1>>)
  BY <1>1 DEF Keep, BindName, Module
<1> DEFINE r == [modules[Len(modules)] EXCEPT !["name"] = ctx.name]
<1>4. Len(modules) \in 1 .. Len(modules) /\ "name" \in DOMAIN r
  BY <1>1 DEF Named
<1> HIDE DEF r
<1>5. /\ IsSequence(modules')
      /\ Len(modules') = n + 1
      /\ \A j \in 1 .. Len(modules) :
           modules'[j] = IF j = Len(modules) THEN r ELSE modules[j]
  <2>1. IsSequence(modules) /\ modules' = Updated(modules, Len(modules), r)
    BY <1>1, <1>2 DEF r, Named, Updated
  <2>2. /\ IsSequence(modules')
        /\ Len(modules') = Len(modules)
        /\ \A j \in 1 .. Len(modules) :
             modules'[j] = IF j = Len(modules) THEN r ELSE modules[j]
    BY <2>1, ReplaceSequence
  <2>3. QED
    BY <1>1, <2>2
<1>6. Named(modules)'
  BY <1>1, <1>4, <1>5 DEF Named
<1>7. Kept' = n + 1
  BY <1>2, <1>5 DEF Kept
<1>8. LeadsBelow(module_bindings, n)
  BY <1>1 DEF IInv
<1>9. LeadsBelow(module_bindings', n + 1)
  <2>1. CASE module_bindings' = module_bindings
    BY <1>1, <1>8, <2>1 DEF LeadsBelow
  <2>2. CASE module_bindings' = Append(module_bindings, <<ctx.name, n + 1>>)
    <3>1. /\ IsSequence(module_bindings')
          /\ Len(module_bindings') = Len(module_bindings) + 1
          /\ module_bindings'[Len(module_bindings) + 1] = <<ctx.name, n + 1>>
          /\ \A b \in 1 .. Len(module_bindings) :
               module_bindings'[b] = module_bindings[b]
      BY <1>8, <2>2, AppendSequence DEF LeadsBelow
    <3>2. Len(module_bindings) \in Nat
      BY <1>8, LenNat DEF LeadsBelow
    <3>3. QED
      BY SMTT(30), <1>1, <1>8, <3>1, <3>2 DEF LeadsBelow
  <2>3. QED
    BY <1>3, <2>1, <2>2
<1>10. LeadsBelow(registered_module_bindings', n + 1)
  BY <1>1, <1>2 DEF IInv, LeadsBelow
<1>11. QED
  BY <1>2, <1>6, <1>7, <1>9, <1>10 DEF IInv, LastUnnamed

\* The context of a module that is read has its mark.
LEMMA ReadingContext ==
  ASSUME IInv, ctx # Idle
  PROVE  {"mark", "name"} \subseteq DOMAIN ctx /\ Named(modules)
BY DEF IInv, LastUnnamed

-----------------------------------------------------------------------------
(* The actions.                                                            *)

\* A module starts to be read at the mark.
LEMMA BeginModuleKeeps ==
  ASSUME IInv, NEW command, NEW name, BeginModule(command, name)
  PROVE  IInv'
<1> DEFINE n == Len(modules)
<1>1. /\ ctx = Idle /\ Kept = n /\ n \in Nat
      /\ Named(modules) /\ IsSequence(modules)
  BY LenNat DEF BeginModule, IInv, Kept, Named
<1>2. PICK r : /\ modules' = Append(modules, r)
               /\ "name" \in DOMAIN r /\ r.name = NO_NAME
  BY DEF BeginModule
<1>3. /\ DOMAIN ctx' = {"command", "name", "mark", "section", "entries",
                        "func_index_mapping", "global_index_mapping",
                        "num_func_imports", "num_global_imports"}
      /\ ctx'.mark.modules = n
      /\ UNCHANGED bindingVars
  BY DEF BeginModule, wasm_mark_interpreter_environment
<1>4. ctx' # Idle
  <2>1. "mark" \in DOMAIN ctx' /\ "mark" \notin DOMAIN Idle
    BY <1>3 DEF Idle
  <2>2. QED
    BY <2>1
<1>5. /\ IsSequence(modules') /\ Len(modules') = n + 1
      /\ modules'[n + 1] = r
      /\ \A i \in 1 .. n : modules'[i] = modules[i]
  BY <1>1, <1>2, AppendSequence
<1>6. Named(modules)'
  BY <1>1, <1>2, <1>5 DEF Named
<1>7. LastUnnamed'
  BY <1>1, <1>2, <1>3, <1>5 DEF LastUnnamed
<1>8. Kept' = n
  BY <1>3, <1>4 DEF Kept
<1>9. QED
  BY <1>1, <1>3, <1>6, <1>7, <1>8 DEF IInv, LeadsBelow, bindingVars

\* An imported function is found or the module is undone.
LEMMA OnImportFuncKeeps ==
  ASSUME IInv, NEW as, NEW field, NEW sig, OnImportFunc(as, field, sig)
  PROVE  IInv'
<1>1. ctx # Idle
  BY DEF OnImportFunc, CanImport, At, Reading
<1> DEFINE import == Import(as, field, "func")
<1>2. CASE Undo
  BY <1>1, <1>2, UndoKeeps DEF Undo
<1>3. CASE /\ modules' = HostExported(import, field, "func")
           /\ ctx' = [In(ctx, "import", 1) EXCEPT
                !.func_index_mapping = Append(@, import.index),
                !.num_func_imports = @ + 1]
           /\ UNCHANGED bindingVars
  <2>1. SameNames(modules, modules')
    BY <1>1, <1>3, ReadingContext, HostExportNamed
  <2>2. CtxKept
    BY <1>1, <1>3, ReadingContext DEF CtxKept, In
  <2>3. QED
    BY <1>1, <1>3, <2>1, <2>2, ReadingOn
<1>4. QED
  BY <1>2, <1>3 DEF OnImportFunc

\* An imported table is found or the module is undone.
LEMMA OnImportTableKeeps ==
  ASSUME IInv, NEW as, NEW field, NEW limits, OnImportTable(as, field, limits)
  PROVE  IInv'
<1>1. ctx # Idle
  BY DEF OnImportTable, CanImport, At, Reading
<1> DEFINE import == Import(as, field, "table")
           hosted == HostExported(import, field, "table")
           indexed == Assigned(hosted, Module, "table_index", import.index)
           limited == Assigned(indexed, Module, "table_limits", limits)
<1>2. CASE Undo
  BY <1>1, <1>2, UndoKeeps DEF Undo
<1>3. CASE /\ modules' = [hosted EXCEPT ![Module].table_index = import.index,
                                        ![Module].table_limits = limits]
           /\ ctx' = In(ctx, "import", 1)
           /\ UNCHANGED bindingVars
  <2>1. SameNames(modules, hosted)
    BY <1>1, ReadingContext, HostExportNamed
  <2> HIDE DEF hosted
  <2>2. modules' = limited
    BY <1>3 DEF Assigned, Updated
  <2>3. SameNames(hosted, indexed)
    <3>1. Named(hosted) /\ "table_index" # "name"
      BY <2>1 DEF SameNames
    <3>2. QED
      BY <3>1, AssignNamed
  <2> HIDE DEF indexed
  <2>4. SameNames(indexed, limited)
    <3>1. Named(indexed) /\ "table_limits" # "name"
      BY <2>3 DEF SameNames
    <3>2. QED
      BY <3>1, AssignNamed
  <2> HIDE DEF limited
  <2>5. SameNames(modules, modules')
    <3>1. SameNames(modules, indexed)
      BY <2>1, <2>3, SameNamesTrans
    <3>2. QED
      BY <2>2, <2>4, <3>1, SameNamesTrans
  <2>6. CtxKept
    BY <1>1, <1>3, ReadingContext DEF CtxKept, In
  <2>7. QED
    BY <1>1, <1>3, <2>5, <2>6, ReadingOn
<1>4. QED
  BY <1>2, <1>3 DEF OnImportTable

\* An imported memory is found or the module is undone.
LEMMA OnImportMemoryKeeps ==
  ASSUME IInv, NEW as, NEW field, NEW limits, OnImportMemory(as, field, limits)
  PROVE  IInv'
<1>1. ctx # Idle
  BY DEF OnImportMemory, CanImport, At, Reading
<1> DEFINE import == Import(as, field, "memory")
           hosted == HostExported(import, field, "memory")
           indexed == Assigned(hosted, Module, "memory_index", import.index)
           limited == Assigned(indexed, Module, "page_limits", limits)
<1>2. CASE Undo
  BY <1>1, <1>2, UndoKeeps DEF Undo
<1>3. CASE /\ modules' = [hosted EXCEPT ![Module].memory_index = import.index,
                                        ![Module].page_limits = limits]
           /\ ctx' = In(ctx, "import", 1)
           /\ UNCHANGED bindingVars
  <2>1. SameNames(modules, hosted)
    BY <1>1, ReadingContext, HostExportNamed
  <2> HIDE DEF hosted
  <2>2. modules' = limited
    BY <1>3 DEF Assigned, Updated
  <2>3. SameNames(hosted, indexed)
    <3>1. Named(hosted) /\ "memory_index" # "name"
      BY <2>1 DEF SameNames
    <3>2. QED
      BY <3>1, AssignNamed
  <2> HIDE DEF indexed
  <2>4. SameNames(indexed, limited)
    <3>1. Named(indexed) /\ "page_limits" # "name"
      BY <2>3 DEF SameNames
    <3>2. QED
      BY <3>1, AssignNamed
  <2> HIDE DEF limited
  <2>5. SameNames(modules, modules')
    <3>1. SameNames(modules, indexed)
      BY <2>1, <2>3, SameNamesTrans
    <3>2. QED
      BY <2>2, <2>4, <3>1, SameNamesTrans
  <2>6. CtxKept
    BY <1>1, <1>3, ReadingContext DEF CtxKept, In
  <2>7. QED
    BY <1>1, <1>3, <2>5, <2>6, ReadingOn
<1>4. QED
  BY <1>2, <1>3 DEF OnImportMemory

\* An imported global is found or the module is undone.
LEMMA OnImportGlobalKeeps ==
  ASSUME IInv, NEW as, NEW field, OnImportGlobal(as, field)
  PROVE  IInv'
<1>1. ctx # Idle
  BY DEF OnImportGlobal, CanImport, At, Reading
<1> DEFINE import == Import(as, field, "global")
<1>2. CASE Undo
  BY <1>1, <1>2, UndoKeeps DEF Undo
<1>3. CASE /\ modules' = HostExported(import, field, "global")
           /\ ctx' = [In(ctx, "import", 1) EXCEPT
                !.global_index_mapping = Append(@, import.index),
                !.num_global_imports = @ + 1]
           /\ UNCHANGED bindingVars
  <2>1. SameNames(modules, modules')
    BY <1>1, <1>3, ReadingContext, HostExportNamed
  <2>2. CtxKept
    BY <1>1, <1>3, ReadingContext DEF CtxKept, In
  <2>3. QED
    BY <1>1, <1>3, <2>1, <2>2, ReadingOn
<1>4. QED
  BY <1>2, <1>3 DEF OnImportGlobal

\* Functions are appended to the environment.
LEMMA OnFunctionsKeeps ==
  ASSUME IInv, NEW sigs, OnFunctions(sigs)
  PROVE  IInv'
<1>1. ctx # Idle
  BY DEF OnFunctions, At, Reading
<1>2. SameNames(modules, modules')
  BY <1>1, ReadingContext, SameNamesRefl DEF OnFunctions
<1>3. CtxKept
  BY <1>1, ReadingContext DEF OnFunctions, CtxKept, In
<1>4. QED
  BY <1>1, <1>2, <1>3, ReadingOn DEF OnFunctions, bindingVars

\* Globals are appended to the environment.
LEMMA OnGlobalsKeeps ==
  ASSUME IInv, NEW count, OnGlobals(count)
  PROVE  IInv'
<1>1. ctx # Idle
  BY DEF OnGlobals, At, Reading
<1>2. SameNames(modules, modules')
  BY <1>1, ReadingContext, SameNamesRefl DEF OnGlobals
<1>3. CtxKept
  BY <1>1, ReadingContext DEF OnGlobals, CtxKept, In
<1>4. QED
  BY <1>1, <1>2, <1>3, ReadingOn DEF OnGlobals, bindingVars

\* A table is appended, or a second one undoes the module.
LEMMA OnTableKeeps ==
  ASSUME IInv, NEW limits, OnTable(limits)
  PROVE  IInv'
<1>1. ctx # Idle
  BY DEF OnTable, At, Reading
<1>2. CASE Undo
  BY <1>1, <1>2, UndoKeeps DEF Undo
<1>3. CASE /\ modules' = [modules EXCEPT ![Module].table_index = Len(tables')]
           /\ ctx' = In(ctx, "table", 1)
           /\ UNCHANGED bindingVars
  <2>1. modules' = Assigned(modules, Module, "table_index", Len(tables'))
    BY <1>3 DEF Assigned, Updated
  <2>2. Named(modules) /\ "table_index" # "name"
    BY <1>1, ReadingContext
  <2>3. SameNames(modules, modules')
    BY <2>1, <2>2, AssignNamed
  <2>4. CtxKept
    BY <1>1, <1>3, ReadingContext DEF CtxKept, In
  <2>5. QED
    BY <1>1, <1>3, <2>3, <2>4, ReadingOn
<1>4. QED
  BY <1>2, <1>3 DEF OnTable

\* A memory is appended, or a second one undoes the module.
LEMMA OnMemoryKeeps ==
  ASSUME IInv, NEW limits, OnMemory(limits)
  PROVE  IInv'
<1>1. ctx # Idle
  BY DEF OnMemory, At, Reading
<1>2. CASE Undo
  BY <1>1, <1>2, UndoKeeps DEF Undo
<1>3. CASE /\ modules' = [modules EXCEPT ![Module].memory_index = Len(memories')]
           /\ ctx' = In(ctx, "memory", 1)
           /\ UNCHANGED bindingVars
  <2>1. modules' = Assigned(modules, Module, "memory_index", Len(memories'))
    BY <1>3 DEF Assigned, Updated
  <2>2. Named(modules) /\ "memory_index" # "name"
    BY <1>1, ReadingContext
  <2>3. SameNames(modules, modules')
    BY <2>1, <2>2, AssignNamed
  <2>4. CtxKept
    BY <1>1, <1>3, ReadingContext DEF CtxKept, In
  <2>5. QED
    BY <1>1, <1>3, <2>3, <2>4, ReadingOn
<1>4. QED
  BY <1>2, <1>3 DEF OnMemory

\* An export is added to the module being read.
LEMMA OnExportKeeps ==
  ASSUME IInv, NEW name, NEW kind, NEW item_index, OnExport(name, kind, item_index)
  PROVE  IInv'
<1>1. ctx # Idle
  BY DEF OnExport, At, Reading
<1>2. SameNames(modules, modules')
  BY <1>1, ReadingContext, ExportNamed DEF OnExport
<1>3. CtxKept
  BY <1>1, ReadingContext DEF OnExport, CtxKept, In
<1>4. QED
  BY <1>1, <1>2, <1>3, ReadingOn DEF OnExport, bindingVars

\* The start function is noted, or the module undone.
LEMMA OnStartFunctionKeeps ==
  ASSUME IInv, NEW func_index, OnStartFunction(func_index)
  PROVE  IInv'
<1>1. ctx # Idle
  BY DEF OnStartFunction, At, Reading
<1> DEFINE f == EnvIndex("func", func_index)
<1>2. modules' = Assigned(modules, Module, "start", f)
  BY DEF OnStartFunction, Assigned, Updated
<1> HIDE DEF f
<1>3. Named(modules) /\ "start" # "name"
  BY <1>1, ReadingContext
<1>4. SameNames(modules, modules')
  BY <1>2, <1>3, AssignNamed
<1>5. CtxKept
  BY <1>1, ReadingContext DEF OnStartFunction, CtxKept, In
<1>6. QED
  BY <1>1, <1>4, <1>5, ReadingOn DEF OnStartFunction, bindingVars

\* A segment is put in place, or the module undone.
LEMMA OnElemKeeps ==
  ASSUME IInv, NEW offset, NEW func_index, OnElem(offset, func_index)
  PROVE  IInv'
<1>1. ctx # Idle
  BY DEF OnElem, At, Reading
<1>2. CASE Undo
  BY <1>1, <1>2, UndoKeeps DEF Undo
<1>3. CASE /\ modules' = modules
           /\ ctx' = In(ctx, "elem", 1)
           /\ UNCHANGED bindingVars
  <2>1. SameNames(modules, modules')
    BY <1>1, <1>3, ReadingContext, SameNamesRefl
  <2>2. CtxKept
    BY <1>1, <1>3, ReadingContext DEF CtxKept, In
  <2>3. QED
    BY <1>1, <1>3, <2>1, <2>2, ReadingOn
<1>4. QED
  BY <1>2, <1>3 DEF OnElem

\* A malformed module is undone.
LEMMA RejectModuleKeeps == ASSUME IInv, RejectModule PROVE IInv'
BY UndoKeeps DEF RejectModule, Reading, Undo

\* A module that ends is kept, or started first.
LEMMA EndModuleKeeps == ASSUME IInv, EndModule PROVE IInv'
<1>1. ctx # Idle /\ (Keep(memories) \/ Undo)
  BY DEF EndModule, Reading
<1>2. QED
  BY <1>1, UndoKeeps, KeepKeeps DEF Undo

\* A step that changes neither the modules nor the bindings nor the context.
LEMMA OtherKeeps ==
  ASSUME IInv, UNCHANGED <<modules, bindingVars, ctx>>
  PROVE  IInv'
BY DEF IInv, LastUnnamed, Kept, LeadsBelow, Named, bindingVars

\* A start function returns and the module is kept, or traps.
LEMMA RunStartFunctionKeeps == ASSUME IInv, RunStartFunction PROVE IInv'
<1>1. ctx # Idle
  BY DEF RunStartFunction, Reading
<1>2. \/ \E mems : UndoAfter(mems) \/ Keep(mems)
      \/ UNCHANGED <<modules, bindingVars, ctx>>
  BY DEF RunStartFunction, Undo, envVars
<1>3. QED
  BY <1>1, <1>2, UndoKeeps, KeepKeeps, OtherKeeps

\* on_register_command finds the first of the modules of a name.
LEMMA LeastElement ==
  ASSUME NEW n \in Nat, NEW S, S \subseteq 1 .. n, S # {}
  PROVE  Min(S) \in S /\ \A y \in S : Min(S) <= y
<1> DEFINE R == {ss \in Nat \X Nat : ss[1] < ss[2]}
<1>1. IsWellFoundedOn(R, Nat)
  BY NatLessThanWellFounded DEF OpToRel
<1>2. S \subseteq Nat /\ \A x, y \in Nat : y < x => <<y, x>> \in R
  OBVIOUS
<1> HIDE DEF R
<1>3. PICK x \in S : \A y \in S : ~(<<y, x>> \in R)
  BY <1>1, <1>2, WFMin
<1>4. ASSUME NEW y \in S PROVE x <= y
  <2>1. x \in Nat /\ y \in Nat
    BY <1>2
  <2>2. ~(<<y, x>> \in R)
    BY <1>3
  <2>3. ~(y < x)
    BY <1>2, <2>1, <2>2
  <2>4. QED
    BY <2>1, <2>3
<1>5. QED
  BY <1>4 DEF Min

\* Registering a name binds it to a module of the list.
LEMMA OnRegisterKeeps ==
  ASSUME IInv, NEW name, NEW as, OnRegister(name, as)
  PROVE  IInv'
<1> DEFINE m == ModuleOfName(name)
<1>1. /\ ctx = Idle /\ ctx' = ctx /\ modules' = modules
      /\ module_bindings' = module_bindings
      /\ registered_module_bindings' =
           Append(registered_module_bindings, <<as, m>>)
      /\ m # 0
  BY DEF OnRegister, Ready, envVars
<1>2. Kept = Len(modules) /\ Kept' = Len(modules) /\ Named(modules)
  BY <1>1 DEF Kept, IInv
<1>3. Len(modules) \in Nat /\ DOMAIN modules = 1 .. Len(modules)
  BY <1>2, LenNat DEF Named
<1>4. LeadsBelow(registered_module_bindings, Len(modules))
  BY <1>2 DEF IInv
<1>5. m \in 1 .. Len(modules)
  <2>1. CASE name = NO_NAME
    <3>1. m = Len(modules)
      BY <2>1 DEF ModuleOfName
    <3>2. QED
      BY <1>1, <1>3, <3>1
  <2>2. CASE name # NO_NAME
    <3> DEFINE named == {i \in DOMAIN modules : modules[i].name = name}
    <3>1. m = Min(named) /\ named # {}
      BY <1>1, <2>2 DEF ModuleOfName
    <3>2. named \subseteq 1 .. Len(modules)
      BY <1>3
    <3> HIDE DEF named
    <3>3. Min(named) \in named
      BY <1>3, <3>1, <3>2, LeastElement
    <3>4. QED
      BY <3>1, <3>2, <3>3
  <2>3. QED
    BY <2>1, <2>2
<1> HIDE DEF m
<1>6. LeadsBelow(registered_module_bindings', Len(modules))
  <2> DEFINE old == registered_module_bindings
  <2>1. IsSequence(old)
    BY <1>4 DEF LeadsBelow
  <2>2. /\ IsSequence(old') /\ Len(old') = Len(old) + 1
        /\ old'[Len(old) + 1] = <<as, m>>
        /\ \A b \in 1 .. Len(old) : old'[b] = old[b]
    BY <1>1, <2>1, AppendSequence
  <2>3. Len(old) \in Nat
    BY <2>1, LenNat
  <2>4. QED
    BY <1>4, <1>5, <2>2, <2>3 DEF LeadsBelow
<1>7. QED
  BY <1>1, <1>2, <1>6 DEF IInv, LastUnnamed, LeadsBelow, Named

\* An action command changes neither the modules nor the bindings.
LEMMA OnActionKeeps ==
  ASSUME IInv, NEW name, NEW field, OnAction(name, field)
  PROVE  IInv'
BY OtherKeeps DEF OnAction

-----------------------------------------------------------------------------
\* The environment starts with the host module.
LEMMA InitIInv == Init => IInv
<1> SUFFICES ASSUME Init PROVE IInv
  OBVIOUS
<1>1. Named(modules) /\ Len(modules) = 1 /\ Kept = 1
  <2>1. PICK r : modules = <<r>> /\ "name" \in DOMAIN r
    BY DEF Init
  <2>2. modules \in Seq({r}) /\ Len(modules) = 1 /\ modules[1] = r
    BY <2>1
  <2>3. IsSequence(modules) /\ Kept = 1
    BY <2>2, Zenon DEF IsSequence, Kept, Init
  <2>4. QED
    BY <2>1, <2>2, <2>3 DEF Named
<1>2. LeadsBelow(module_bindings, 1)
  <2>1. module_bindings \in Seq({}) /\ Len(module_bindings) = 0
    BY DEF Init
  <2>2. QED
    BY <2>1 DEF LeadsBelow, IsSequence
<1>3. LeadsBelow(registered_module_bindings, 1)
  <2>1. /\ registered_module_bindings \in Seq({<<SPECTEST, 1>>})
        /\ Len(registered_module_bindings) = 1
        /\ registered_module_bindings[1][2] = 1
    BY DEF Init
  <2>2. QED
    BY <2>1 DEF LeadsBelow, IsSequence
<1>4. QED
  BY <1>1, <1>2, <1>3 DEF IInv, LastUnnamed, Init

\* Every step preserves the invariant.
LEMMA NextIInv == IInv /\ [Next]_vars => IInv'
<1> SUFFICES ASSUME IInv, [Next]_vars PROVE IInv'
  OBVIOUS
<1>1. CASE UNCHANGED vars
  BY <1>1, OtherKeeps DEF vars, envVars
<1>2. CASE ReadModule
  BY <1>2, OnImportFuncKeeps, OnImportTableKeeps, OnImportMemoryKeeps,
     OnImportGlobalKeeps, OnFunctionsKeeps, OnTableKeeps, OnMemoryKeeps,
     OnGlobalsKeeps, OnExportKeeps, OnStartFunctionKeeps, OnElemKeeps,
     RejectModuleKeeps, EndModuleKeeps, RunStartFunctionKeeps
     DEF ReadModule
<1>3. CASE Next /\ ~ReadModule
  BY <1>1, <1>3, BeginModuleKeeps, OnRegisterKeeps, OnActionKeeps
     DEF Next, Ended
<1>4. QED
  BY <1>1, <1>2, <1>3

\* The invariant implies the property.
LEMMA IInvBelow == IInv => BindingsBelowMark
<1> SUFFICES ASSUME IInv PROVE BindingsBelowMark
  OBVIOUS
<1>1. /\ DOMAIN module_bindings = 1 .. Len(module_bindings)
      /\ DOMAIN registered_module_bindings
           = 1 .. Len(registered_module_bindings)
      /\ Len(modules) \in Nat
  BY LenNat DEF IInv, LeadsBelow, Named
<1>2. \A m \in Kept + 1 .. Len(modules) : modules[m].name = NO_NAME
  BY <1>1 DEF IInv, LastUnnamed, Kept
<1>3. QED
  BY <1>1, <1>2 DEF BindingsBelowMark, IInv, LeadsBelow, Kept

\* No module name and no registered name ever leads to a module that is still
\* read or started, and may be undone: wasm_reset_interpreter_environment_to_
\* mark never has a binding to remove, so its calls of wasm_remove_binding are
\* never reached, for any names, limits and bounds.
THEOREM BindingsBelowMarkAlways == Spec => []BindingsBelowMark
<1>1. IInv /\ [Next]_vars => IInv'
  BY NextIInv
<1>2. QED
  BY InitIInv, <1>1, IInvBelow, PTL DEF Spec

-----------------------------------------------------------------------------
(* The vectors.                                                            *)

\* The records of the vectors.
FuncType == [sig : Sigs, is_host : BOOLEAN, load : 0 .. MaxLoads]
EntryType == [func : Indexes, load : 0 .. MaxLoads]
TableType == [limits : LimitsType, func_indexes : Seq(EntryType),
              load : 0 .. MaxLoads]
MemoryType ==
  {r \in [limits : LimitsType, load : 0 .. MaxLoads, wrapped : 0 .. MaxLoads] :
     r.limits.initial <= Maximum(r.limits) /\ r.limits.max <= MaxPages}
GlobalType == [load : 0 .. MaxLoads]

\* The record of a module; without a table or a memory, it has no limits
\* either.
IsModule(r) ==
  /\ DOMAIN r = {"name", "is_host", "table_index", "memory_index", "exports",
                 "start", "load", "table_limits", "page_limits"}
  /\ r.name \in Names \cup {NO_NAME, SPECTEST}
  /\ r.is_host \in BOOLEAN
  /\ r.table_index \in Indexes
  /\ r.memory_index \in Indexes
  /\ r.start \in Indexes
  /\ r.exports \in Seq(ExportType)
  /\ r.table_limits \in LimitsType
  /\ r.page_limits \in LimitsType
  /\ r.table_index = 0 => r.table_limits = NoLimits
  /\ r.memory_index = 0 => r.page_limits = NoLimits

ModulesTyped == \A m \in 1 .. Len(modules) : IsModule(modules[m])

VectorsTyped ==
  /\ funcs \in Seq(FuncType) /\ Len(funcs) <= MaxItems
  /\ tables \in Seq(TableType) /\ Len(tables) <= MaxItems
  /\ memories \in Seq(MemoryType) /\ Len(memories) <= MaxItems
  /\ globals \in Seq(GlobalType) /\ Len(globals) <= MaxItems

\* The loads so far, those that were undone, and how the run stands.
HistoryTyped ==
  /\ loads \in 0 .. MaxLoads
  /\ failed \subseteq 1 .. loads
  /\ status \in {"running", "undefined", "assert_index",
                 "assert_start_results"}

\* What wasm_mark_interpreter_environment returns.
MarkType == [modules : Nat, funcs : Nat, tables : Nat, memories : Nat,
             globals : Nat]

\* The context of a module that is read.  Until its functions are declared,
\* and until its globals are, the index spaces hold the imports only.
IsContext(c) ==
  /\ DOMAIN c = {"command", "name", "mark", "section", "entries",
                 "func_index_mapping", "global_index_mapping",
                 "num_func_imports", "num_global_imports"}
  /\ c.name \in Names \cup {NO_NAME}
  /\ c.mark \in MarkType
  /\ c.section \in Nat
  /\ c.func_index_mapping \in Seq(Nat)
  /\ c.global_index_mapping \in Seq(Nat)
  /\ c.num_func_imports \in Nat
  /\ c.num_global_imports \in Nat
  /\ c.section <= 1 => Len(c.func_index_mapping) = c.num_func_imports
  /\ c.section < 5 => Len(c.global_index_mapping) = c.num_global_imports

\* How much of a vector the mark keeps.
MarkOf(kind) == CASE kind = "func" -> ctx.mark.funcs
                  [] kind = "table" -> ctx.mark.tables
                  [] kind = "memory" -> ctx.mark.memories
                  [] kind = "global" -> ctx.mark.globals

\* How much of a vector stays if the module being read, if any, is undone.
Floor(kind) == IF ctx = Idle THEN Len(Items(kind)) ELSE MarkOf(kind)

\* What is above the mark was appended by the module being read.
Marked(kind) ==
  /\ MarkOf(kind) \in 0 .. Len(Items(kind))
  /\ \A i \in MarkOf(kind) + 1 .. Len(Items(kind)) :
       Items(kind)[i].load = loads

\* The module being read has not been undone, and is not a host module.
Context ==
  ctx # Idle =>
    /\ IsContext(ctx)
    /\ loads >= 1 /\ loads \notin failed
    /\ ~modules[Len(modules)].is_host
    /\ \A kind \in Kinds : Marked(kind)

\* How far into a vector a module may refer.
Room(m, kind) == IF m <= Kept THEN Floor(kind) ELSE Len(Items(kind))

\* The limits of an item are within those an import declared.
Within(actual, declared) ==
  /\ declared.initial <= actual.initial
  /\ declared.has_max => actual.has_max /\ actual.max <= declared.max

\* The table of a module, its memory and an export are in its room, and what
\* they were when the module got them.
HoldsTable(m) ==
  modules[m].table_index # 0 =>
    /\ modules[m].table_index <= Room(m, "table")
    /\ Within(tables[modules[m].table_index].limits, modules[m].table_limits)

\* So is a memory, but for the minimum once its page count wrapped.
Serves(memory, module) ==
  /\ \/ module.page_limits.initial <= memory.limits.initial
     \/ module.load <= memory.wrapped
  /\ module.page_limits.has_max =>
       memory.limits.has_max /\ memory.limits.max <= module.page_limits.max

HoldsMemory(m) ==
  modules[m].memory_index # 0 =>
    /\ modules[m].memory_index <= Room(m, "memory")
    /\ Serves(memories[modules[m].memory_index], modules[m])

HoldsExport(m, x) ==
  \/ /\ NamesItem(x.kind, x.index, x.load)
     /\ modules[m].is_host \/ x.index <= Room(m, x.kind)
  \/ modules[m].is_host /\ x.load \in failed

\* What a module refers to stays as long as the module does.
Linked ==
  \A m \in 1 .. Len(modules) :
    /\ HoldsTable(m)
    /\ HoldsMemory(m)
    /\ \A e \in 1 .. Len(modules[m].exports) :
         HoldsExport(m, modules[m].exports[e])

\* A module was read in one of the loads so far.
LoadsPast == \A m \in 1 .. Len(modules) : modules[m].load \in 0 .. loads

\* The inductive invariant.
LInv ==
  /\ IInv
  /\ ModulesTyped
  /\ LoadsPast
  /\ VectorsTyped
  /\ HistoryTyped
  /\ Context
  /\ IndexSpaces
  /\ Linked
  /\ TablesLive

-----------------------------------------------------------------------------
(* Facts about the definitions.                                            *)

\* The kinds of items.
LEMMA KindsAre == Kinds = {"func", "table", "memory", "global"}
BY DEF Kinds, HostField

\* The sections are numbered in the order they are read in.
LEMMA SectionCodes ==
  /\ SectionCode("import") = 1 /\ SectionCode("function") = 2
  /\ SectionCode("table") = 3 /\ SectionCode("memory") = 4
  /\ SectionCode("global") = 5 /\ SectionCode("export") = 6
  /\ SectionCode("start") = 7 /\ SectionCode("elem") = 8
  /\ SectionCode("code") = 9
<1>1. DOMAIN Sections = 1 .. 9
  BY DEF Sections
<1>2. /\ Sections[1] = "import" /\ Sections[2] = "function"
      /\ Sections[3] = "table" /\ Sections[4] = "memory"
      /\ Sections[5] = "global" /\ Sections[6] = "export"
      /\ Sections[7] = "start" /\ Sections[8] = "elem"
      /\ Sections[9] = "code"
  BY DEF Sections
<1>3. ASSUME NEW i \in 1 .. 9, NEW j \in 1 .. 9, Sections[i] = Sections[j]
      PROVE  i = j
  BY <1>2, <1>3
<1>4. ASSUME NEW i \in 1 .. 9 PROVE SectionCode(Sections[i]) = i
  BY <1>1, <1>3, <1>4 DEF SectionCode
<1>5. QED
  BY <1>2, <1>4

\* A nonempty set of positions has a last one.
LEMMA GreatestElement ==
  ASSUME NEW n \in Nat, NEW S, S \subseteq 1 .. n, S # {}
  PROVE  Max(S) \in S /\ \A y \in S : Max(S) >= y
<1> DEFINE T == {i \in 1 .. n : n + 1 - i \in S}
<1>1. T \subseteq 1 .. n
  OBVIOUS
<1>2. T # {}
  <2>1. PICK x \in S : TRUE
    OBVIOUS
  <2>2. x \in 1 .. n
    BY <2>1
  <2>3. n + 1 - x \in 1 .. n /\ n + 1 - (n + 1 - x) = x
    BY <2>2
  <2>4. QED
    BY <2>1, <2>3
<1>3. Min(T) \in T /\ \A y \in T : Min(T) <= y
  <2> HIDE DEF T
  <2>1. QED
    BY <1>1, <1>2, LeastElement
<1>4. PICK t \in T : \A y \in T : t <= y
  BY <1>3
<1> DEFINE x == n + 1 - t
<1>5. x \in S /\ t \in 1 .. n
  OBVIOUS
<1>6. ASSUME NEW y \in S PROVE x >= y
  <2>1. y \in 1 .. n
    OBVIOUS
  <2>2. n + 1 - y \in 1 .. n /\ n + 1 - (n + 1 - y) = y
    BY <2>1
  <2>3. n + 1 - y \in T
    BY <2>2
  <2>4. t <= n + 1 - y
    BY <1>4, <2>3
  <2>5. QED
    BY <1>5, <2>1, <2>4
<1>7. QED
  BY <1>5, <1>6 DEF Max

\* A hash that finds a name gives the position of a binding of that name.
LEMMA FoundIn ==
  ASSUME NEW n \in Nat, NEW names, DOMAIN names = 1 .. n, NEW name,
         Found(names, name) # 0
  PROVE  Found(names, name) \in 1 .. n /\ names[Found(names, name)] = name
<1> DEFINE chain == {i \in DOMAIN names : MainSlot[names[i]] = MainSlot[name]}
           same == {i \in chain : names[i] = name}
<1>1. chain \subseteq 1 .. n /\ same \subseteq 1 .. n /\ same \subseteq chain
  OBVIOUS
<1>2. same # {}
  BY DEF Found
<1>3. Found(names, name) \in same
  <2> HIDE DEF chain, same
  <2>1. Max(same) \in same
    BY <1>1, <1>2, GreatestElement
  <2>2. PICK first : Found(names, name) = IF first \in same THEN first ELSE Max(same)
    BY <1>2 DEF Found, chain, same
  <2>3. QED
    BY <2>1, <2>2
<1>4. QED
  BY <1>1, <1>3

\* A hash finds every name that is bound.
LEMMA FoundSome ==
  ASSUME NEW n \in Nat, NEW names, DOMAIN names = 1 .. n, NEW name,
         NEW i \in 1 .. n, names[i] = name
  PROVE  Found(names, name) # 0
<1> DEFINE chain == {k \in DOMAIN names : MainSlot[names[k]] = MainSlot[name]}
           same == {k \in chain : names[k] = name}
<1>1. chain \subseteq 1 .. n /\ same \subseteq 1 .. n /\ i \in same /\ i \in chain
  OBVIOUS
<1>2. same # {}
  BY <1>1
<1> HIDE DEF chain, same
<1>3. Max(same) \in same
  BY <1>1, <1>2, GreatestElement
<1>4. PICK first : Found(names, name) = IF first \in same THEN first ELSE Max(same)
  BY <1>2 DEF Found, chain, same
<1>5. Found(names, name) \in 1 .. n
  BY <1>1, <1>3, <1>4
<1>6. QED
  BY <1>5

-----------------------------------------------------------------------------
(* What a step of the reader does to the environment.                      *)

\* A vector is added to, with items of the module being read.
VectorOn(old, new, T) ==
  /\ new \in Seq(T) /\ Len(new) <= MaxItems
  /\ Len(old) <= Len(new)
  /\ \A i \in 1 .. Len(old) : new[i] = old[i]
  /\ \A i \in Len(old) + 1 .. Len(new) : new[i].load = loads

\* The tables are added to, or the entries of one change.
TablesOn(new) ==
  /\ new \in Seq(TableType) /\ Len(new) <= MaxItems
  /\ Len(tables) <= Len(new)
  /\ \A i \in 1 .. Len(tables) :
       /\ new[i].limits = tables[i].limits
       /\ new[i].load = tables[i].load
       /\ Len(new[i].func_indexes) = Len(tables[i].func_indexes)
  /\ \A i \in Len(tables) + 1 .. Len(new) : new[i].load = loads

\* A module below the mark changes at most by the exports of a host module.
KeptOn(old, new) ==
  \/ new = old
  \/ old.is_host /\ \E x \in Seq(ExportType) : new = Updated(old, "exports", x)

\* Of the module being read anything may change but its name and its load.
ModulesOn(ms) ==
  /\ IsSequence(ms) /\ Len(ms) = Len(modules)
  /\ \A m \in 1 .. Kept : KeptOn(modules[m], ms[m])
  /\ IsModule(ms[Len(modules)])
  /\ ~ms[Len(modules)].is_host
  /\ ms[Len(modules)].name = modules[Len(modules)].name
  /\ ms[Len(modules)].load = modules[Len(modules)].load

\* A callback that goes on reading.
ReadOn ==
  /\ ctx # Idle
  /\ IsContext(ctx') /\ ctx'.mark = ctx.mark
  /\ VectorOn(funcs, funcs', FuncType)
  /\ TablesOn(tables')
  /\ VectorOn(memories, memories', MemoryType)
  /\ VectorOn(globals, globals', GlobalType)
  /\ ModulesOn(modules')
  /\ UNCHANGED <<bindingVars, historyVars, status>>

\* An export is an old one, or names an item and is the host's or that of the
\* module being read.
ExportsOn(ms) ==
  \A m \in 1 .. Len(modules) : \A e \in 1 .. Len(ms[m].exports) :
    \/ /\ e \in 1 .. Len(modules[m].exports)
       /\ ms[m].exports[e] = modules[m].exports[e]
    \/ /\ modules[m].is_host \/ m = Len(modules)
       /\ \E x \in ExportType : /\ x = ms[m].exports[e]
                                /\ NamesItem(x.kind, x.index, x.load)'

\* The module being read has the table it had, or one that satisfies its
\* limits.
TableOn(ms) ==
  LET r == ms[Len(modules)]
  IN  \/ /\ r.table_index = modules[Len(modules)].table_index
         /\ r.table_limits = modules[Len(modules)].table_limits
      \/ /\ r.table_index \in 1 .. Len(tables')
         /\ Within(tables'[r.table_index].limits, r.table_limits)

MemoryOn(ms) ==
  LET r == ms[Len(modules)]
  IN  \/ /\ r.memory_index = modules[Len(modules)].memory_index
         /\ r.page_limits = modules[Len(modules)].page_limits
      \/ /\ r.memory_index \in 1 .. Len(memories')
         /\ Within(memories'[r.memory_index].limits, r.page_limits)

LinksOn(ms) == ExportsOn(ms) /\ TableOn(ms) /\ MemoryOn(ms)

-----------------------------------------------------------------------------
(* Vectors.                                                                *)

\* A vector that is left alone.
LEMMA VectorSame ==
  ASSUME NEW T, NEW s \in Seq(T), Len(s) <= MaxItems
  PROVE  VectorOn(s, s, T)
BY DEF VectorOn

\* An item is appended.
LEMMA VectorAppend ==
  ASSUME NEW T, NEW s \in Seq(T), Len(s) < MaxItems,
         NEW x \in T, x.load = loads
  PROVE  VectorOn(s, Append(s, x), T) /\ Append(s, x)[Len(s) + 1] = x
<1>1. /\ Append(s, x) \in Seq(T) /\ Len(Append(s, x)) = Len(s) + 1
      /\ Append(s, x)[Len(s) + 1] = x
      /\ \A i \in 1 .. Len(s) : Append(s, x)[i] = s[i]
  OBVIOUS
<1>2. Len(s) \in Nat /\ MaxItems \in Nat
  BY EnvironmentAssumption
<1>3. QED
  BY <1>1, <1>2 DEF VectorOn

\* Several items are appended.
LEMMA VectorConcat ==
  ASSUME NEW T, NEW s \in Seq(T), NEW t \in Seq(T), Len(s) + Len(t) <= MaxItems,
         \A i \in 1 .. Len(t) : t[i].load = loads
  PROVE  VectorOn(s, s \o t, T) /\ Len(s \o t) = Len(s) + Len(t)
<1>1. /\ s \o t \in Seq(T) /\ Len(s \o t) = Len(s) + Len(t)
      /\ \A i \in 1 .. Len(s) + Len(t) :
           (s \o t)[i] = IF i <= Len(s) THEN s[i] ELSE t[i - Len(s)]
  BY ConcatProperties
<1>2. Len(s) \in Nat /\ Len(t) \in Nat
  OBVIOUS
<1>3. \A i \in 1 .. Len(s) : (s \o t)[i] = s[i]
  BY <1>1, <1>2
<1>4. ASSUME NEW i \in Len(s) + 1 .. Len(s \o t) PROVE (s \o t)[i].load = loads
  <2>1. i - Len(s) \in 1 .. Len(t) /\ ~(i <= Len(s)) /\ i \in 1 .. Len(s) + Len(t)
    BY <1>1, <1>2
  <2>2. QED
    BY <1>1, <2>1
<1>5. QED
  BY <1>1, <1>2, <1>3, <1>4 DEF VectorOn

\* The tables are added to.
LEMMA TablesAppended ==
  ASSUME NEW new, VectorOn(tables, new, TableType)
  PROVE  TablesOn(new)
BY DEF VectorOn, TablesOn

\* What the vectors of the environment hold.
LEMMA VectorTypes ==
  ASSUME LInv
  PROVE  /\ funcs \in Seq(FuncType) /\ Len(funcs) \in 0 .. MaxItems
         /\ tables \in Seq(TableType) /\ Len(tables) \in 0 .. MaxItems
         /\ memories \in Seq(MemoryType) /\ Len(memories) \in 0 .. MaxItems
         /\ globals \in Seq(GlobalType) /\ Len(globals) \in 0 .. MaxItems
         /\ MaxItems \in Nat /\ MaxLoads \in Nat
         /\ loads \in 0 .. MaxLoads
BY EnvironmentAssumption DEF LInv, VectorsTyped, HistoryTyped

\* An index is a number.
LEMMA IndexNat == ASSUME NEW i \in Indexes PROVE i \in Nat
BY EnvironmentAssumption DEF Indexes

\* A sequence of items with loads.
LEMMA VectorFacts ==
  ASSUME NEW T, NEW s \in Seq(T), Len(s) \in 0 .. MaxItems,
         \A x \in T : x.load \in 0 .. MaxLoads
  PROVE  /\ IsSequence(s)
         /\ Len(s) \in 0 .. MaxItems
         /\ DOMAIN s = 1 .. Len(s)
         /\ \A i \in 1 .. Len(s) : s[i].load \in 0 .. MaxLoads
BY DEF IsSequence

\* Whatever the kind, the vector is a sequence.
LEMMA ItemsTyped ==
  ASSUME LInv, NEW kind \in Kinds
  PROVE  /\ IsSequence(Items(kind))
         /\ Len(Items(kind)) \in 0 .. MaxItems
         /\ DOMAIN Items(kind) = 1 .. Len(Items(kind))
         /\ \A i \in 1 .. Len(Items(kind)) : Items(kind)[i].load \in 0 .. MaxLoads
<1>1. CASE kind = "func"
  <2>1. Items(kind) = funcs /\ \A x \in FuncType : x.load \in 0 .. MaxLoads
    BY <1>1 DEF Items, FuncType
  <2>2. QED
    BY <2>1, VectorTypes, VectorFacts
<1>2. CASE kind = "table"
  <2>1. Items(kind) = tables /\ \A x \in TableType : x.load \in 0 .. MaxLoads
    BY <1>2 DEF Items, TableType
  <2>2. QED
    BY <2>1, VectorTypes, VectorFacts
<1>3. CASE kind = "memory"
  <2>1. Items(kind) = memories /\ \A x \in MemoryType : x.load \in 0 .. MaxLoads
    BY <1>3 DEF Items, MemoryType
  <2>2. QED
    BY <2>1, VectorTypes, VectorFacts
<1>4. CASE kind = "global"
  <2>1. Items(kind) = globals /\ \A x \in GlobalType : x.load \in 0 .. MaxLoads
    BY <1>4 DEF Items, GlobalType
  <2>2. QED
    BY <2>1, VectorTypes, VectorFacts
<1>5. QED
  BY <1>1, <1>2, <1>3, <1>4, KindsAre

\* The modules and the mark.
LEMMA ModuleTypes ==
  ASSUME LInv
  PROVE  /\ IsSequence(modules)
         /\ Len(modules) \in Nat /\ Kept \in Nat
         /\ DOMAIN modules = 1 .. Len(modules)
         /\ ctx = Idle => Kept = Len(modules)
         /\ ctx # Idle => Len(modules) = Kept + 1
         /\ Kept <= Len(modules)
         /\ \A m \in 1 .. Len(modules) : IsModule(modules[m])
<1>1. IsSequence(modules) /\ \A m \in 1 .. Len(modules) : IsModule(modules[m])
  BY DEF LInv, IInv, Named, ModulesTyped
<1>2. Len(modules) \in Nat /\ DOMAIN modules = 1 .. Len(modules)
  BY <1>1, LenNat
<1>3. ctx # Idle => ctx.mark.modules \in Nat /\ Len(modules) = ctx.mark.modules + 1
  BY DEF LInv, IInv, LastUnnamed
<1>4. /\ Kept \in Nat
      /\ ctx = Idle => Kept = Len(modules)
      /\ ctx # Idle => Len(modules) = Kept + 1
  <2>1. CASE ctx = Idle
    BY <1>2, <2>1 DEF Kept
  <2>2. CASE ctx # Idle
    <3>1. Kept = ctx.mark.modules
      BY <2>2 DEF Kept
    <3>2. QED
      BY <1>3, <2>2, <3>1
  <2>3. QED
    BY <2>1, <2>2
<1>5. Kept <= Len(modules)
  <2>1. CASE ctx = Idle
    BY <1>2, <1>4, <2>1
  <2>2. CASE ctx # Idle
    <3>1. PICK k \in Nat : k = Kept
      BY <1>4
    <3>2. Len(modules) = k + 1
      BY <1>4, <2>2, <3>1
    <3>3. QED
      BY <3>1, <3>2
  <2>3. QED
    BY <2>1, <2>2
<1>6. QED
  BY <1>1, <1>2, <1>4, <1>5

\* A step of the reader leaves the items of a kind where they are, with the
\* load that made them.
LEMMA ItemsOn ==
  ASSUME LInv, ReadOn, NEW kind \in Kinds
  PROVE  /\ IsSequence(Items(kind)')
         /\ Len(Items(kind)') \in 0 .. MaxItems
         /\ Len(Items(kind)) <= Len(Items(kind)')
         /\ \A i \in 1 .. Len(Items(kind)) :
              Items(kind)'[i].load = Items(kind)[i].load
         /\ \A i \in Len(Items(kind)) + 1 .. Len(Items(kind)') :
              Items(kind)'[i].load = loads
<1>0. MaxItems \in Nat
  BY VectorTypes
<1>1. CASE kind = "func"
  BY <1>0, <1>1 DEF Items, IsSequence, ReadOn, VectorOn
<1>2. CASE kind = "table"
  BY <1>0, <1>2 DEF Items, IsSequence, ReadOn, TablesOn
<1>3. CASE kind = "memory"
  BY <1>0, <1>3 DEF Items, IsSequence, ReadOn, VectorOn
<1>4. CASE kind = "global"
  BY <1>0, <1>4 DEF Items, IsSequence, ReadOn, VectorOn
<1>5. QED
  BY <1>1, <1>2, <1>3, <1>4, KindsAre

\* An index names what it named.
LEMMA NamesOn ==
  ASSUME LInv, ReadOn, NEW kind \in Kinds, NEW index, NEW load,
         NamesItem(kind, index, load)
  PROVE  NamesItem(kind, index, load)'
<1>1. index \in 1 .. Len(Items(kind)) /\ Items(kind)[index].load = load
  BY ItemsTyped DEF NamesItem
<1>2. DOMAIN Items(kind)' = 1 .. Len(Items(kind)')
  BY ItemsOn, LenNat
<1>3. index \in 1 .. Len(Items(kind)') /\ Items(kind)'[index].load = load
  BY <1>1, ItemsOn, ItemsTyped
<1>4. QED
  BY <1>2, <1>3 DEF NamesItem

-----------------------------------------------------------------------------
(* A step of the reader keeps the invariant.                               *)

\* A context with a mark is not the idle one.
LEMMA ContextNotIdle == ASSUME NEW c, "mark" \in DOMAIN c PROVE c # Idle
BY DEF Idle

\* The mark stays.
LEMMA ReadMark ==
  ASSUME LInv, ReadOn
  PROVE  /\ ctx' # Idle
         /\ Kept' = Kept
         /\ \A kind \in Kinds : /\ MarkOf(kind)' = MarkOf(kind)
                                /\ Floor(kind) = MarkOf(kind)
                                /\ Floor(kind)' = MarkOf(kind)
<1>1. ctx' # Idle
  <2>1. "mark" \in DOMAIN ctx'
    BY DEF ReadOn, IsContext
  <2>2. QED
    BY <2>1, ContextNotIdle
<1>2. Kept' = Kept
  BY <1>1 DEF Kept, ReadOn
<1>3. ASSUME NEW kind \in Kinds
      PROVE  MarkOf(kind)' = MarkOf(kind)
  BY KindsAre DEF MarkOf, ReadOn
<1>4. QED
  BY <1>1, <1>2, <1>3 DEF Floor, ReadOn

\* A module below the mark keeps all but the exports.
LEMMA KeptFields ==
  ASSUME NEW old, NEW new, IsModule(old), KeptOn(old, new)
  PROVE  /\ IsModule(new) /\ new.load = old.load
         /\ new.is_host = old.is_host /\ new.name = old.name
         /\ new.table_index = old.table_index
         /\ new.memory_index = old.memory_index
         /\ new.table_limits = old.table_limits
         /\ new.page_limits = old.page_limits
<1>1. CASE new = old
  BY <1>1
<1>2. CASE \E x \in Seq(ExportType) : new = Updated(old, "exports", x)
  <2>1. PICK x \in Seq(ExportType) : new = Updated(old, "exports", x)
    BY <1>2
  <2>2. /\ DOMAIN new = DOMAIN old
        /\ new["exports"] = x
        /\ \A f \in DOMAIN old : f # "exports" => new[f] = old[f]
    BY <2>1 DEF Updated, IsModule
  <2>3. /\ new.is_host = old.is_host /\ new.name = old.name
        /\ new.table_index = old.table_index
        /\ new.memory_index = old.memory_index
        /\ new.table_limits = old.table_limits
        /\ new.page_limits = old.page_limits
        /\ new.start = old.start /\ new.exports = x
        /\ new.load = old.load
    BY <2>2 DEF IsModule
  <2>4. QED
    BY <2>1, <2>2, <2>3 DEF IsModule
<1>3. QED
  BY <1>1, <1>2 DEF KeptOn

\* The modules keep their types and their hosts.
LEMMA ReadModules ==
  ASSUME LInv, ReadOn
  PROVE  /\ Len(modules') = Len(modules)
         /\ Len(modules) = Kept + 1 /\ Kept \in Nat
         /\ ModulesTyped'
         /\ \A m \in 1 .. Len(modules) :
              /\ modules'[m].is_host = modules[m].is_host
              /\ modules'[m].load = modules[m].load
         /\ \A m \in 1 .. Kept :
              /\ modules'[m].table_index = modules[m].table_index
              /\ modules'[m].memory_index = modules[m].memory_index
              /\ modules'[m].table_limits = modules[m].table_limits
              /\ modules'[m].page_limits = modules[m].page_limits
<1>1. /\ Len(modules') = Len(modules) /\ Len(modules) = Kept + 1 /\ Kept \in Nat
      /\ \A m \in 1 .. Len(modules) : IsModule(modules[m])
  BY ModuleTypes DEF ReadOn, ModulesOn
<1>2. ASSUME NEW m \in 1 .. Kept
      PROVE  /\ IsModule(modules'[m])
             /\ modules'[m].is_host = modules[m].is_host
             /\ modules'[m].load = modules[m].load
             /\ modules'[m].table_index = modules[m].table_index
             /\ modules'[m].memory_index = modules[m].memory_index
             /\ modules'[m].table_limits = modules[m].table_limits
             /\ modules'[m].page_limits = modules[m].page_limits
  <2>1. IsModule(modules[m]) /\ KeptOn(modules[m], modules'[m])
    BY <1>1 DEF ReadOn, ModulesOn
  <2>2. QED
    BY <2>1, KeptFields
<1>3. /\ IsModule(modules'[Kept + 1]) /\ modules'[Kept + 1].is_host = FALSE
      /\ modules'[Kept + 1].load = modules[Kept + 1].load
  BY <1>1 DEF ReadOn, ModulesOn, IsModule
<1>4. modules[Kept + 1].is_host = FALSE
  BY <1>1 DEF LInv, Context, ReadOn, IsModule
<1>5. \A m \in 1 .. Len(modules) : m \in 1 .. Kept \/ m = Kept + 1
  BY <1>1
<1>6. ModulesTyped'
  BY <1>1, <1>2, <1>3, <1>5 DEF ModulesTyped
<1>7. QED
  BY <1>1, <1>2, <1>3, <1>4, <1>5, <1>6

\* What is appended is above the mark.
LEMMA ReadContext == ASSUME LInv, ReadOn PROVE Context'
<1>1. ASSUME NEW kind \in Kinds PROVE Marked(kind)'
  <2> DEFINE n == MarkOf(kind)
             old == Items(kind)
             new == Items(kind)'
  <2>1. /\ n \in 0 .. Len(old)
        /\ \A i \in n + 1 .. Len(old) : old[i].load = loads
    BY DEF LInv, Context, ReadOn, Marked
  <2>2. /\ Len(old) \in Nat /\ Len(new) \in Nat /\ Len(old) <= Len(new)
        /\ \A i \in 1 .. Len(old) : new[i].load = old[i].load
        /\ \A i \in Len(old) + 1 .. Len(new) : new[i].load = loads
    BY ItemsOn, ItemsTyped, VectorTypes
  <2>3. MarkOf(kind)' = n /\ loads' = loads
    BY ReadMark DEF ReadOn, historyVars
  <2> HIDE DEF n, old, new
  <2>4. n \in 0 .. Len(new)
    BY <2>1, <2>2
  <2>5. \A i \in n + 1 .. Len(new) : new[i].load = loads
    BY <2>1, <2>2
  <2>6. QED
    BY <2>3, <2>4, <2>5 DEF Marked, new
<1>2. /\ loads >= 1 /\ loads \notin failed
      /\ loads' = loads /\ failed' = failed /\ IsContext(ctx)'
      /\ Len(modules') = Len(modules)
      /\ ~modules'[Len(modules)].is_host
  BY DEF LInv, Context, ReadOn, historyVars, ModulesOn
<1>3. QED
  BY <1>1, <1>2 DEF Context

\* What the modules refer to stays where it is.
LEMMA ReadLinked ==
  ASSUME LInv, ReadOn, LinksOn(modules')
  PROVE  Linked'
<1>0. /\ Len(modules') = Len(modules) /\ Len(modules) = Kept + 1 /\ Kept \in Nat
      /\ Kept' = Kept
      /\ \A m \in 1 .. Len(modules) :
           /\ IsModule(modules[m]) /\ IsModule(modules'[m])
           /\ modules'[m].is_host = modules[m].is_host
           /\ modules'[m].load = modules[m].load
           /\ m \in 1 .. Kept \/ m = Len(modules)
      /\ failed' = failed
  BY ReadModules, ReadMark, ModuleTypes DEF ModulesTyped, ReadOn, historyVars
<1>1. ASSUME NEW kind \in Kinds, NEW m \in 1 .. Len(modules)
      PROVE  /\ Room(m, kind) \in Nat /\ Room(m, kind)' \in Nat
             /\ Room(m, kind) <= Len(Items(kind))
             /\ Room(m, kind) <= Room(m, kind)'
  <2>1. /\ MarkOf(kind) \in 0 .. Len(Items(kind))
        /\ Len(Items(kind)) \in Nat /\ Len(Items(kind)') \in Nat
        /\ Len(Items(kind)) <= Len(Items(kind)')
    BY ItemsOn, ItemsTyped, VectorTypes DEF LInv, Context, ReadOn, Marked
  <2>2. Floor(kind) = MarkOf(kind) /\ Floor(kind)' = MarkOf(kind)
    BY ReadMark
  <2>3. CASE m <= Kept
    BY <1>0, <2>1, <2>2, <2>3 DEF Room
  <2>4. CASE ~(m <= Kept)
    BY <1>0, <2>1, <2>2, <2>4 DEF Room
  <2>5. QED
    BY <2>3, <2>4
<1>2. ASSUME NEW m, m = Len(modules)
      PROVE  Room(m, "table")' = Len(tables') /\ Room(m, "memory")' = Len(memories')
  BY <1>0, <1>2 DEF Room, Items
<1>3. ASSUME NEW m \in 1 .. Len(modules) PROVE HoldsTable(m)'
  <2>1. CASE /\ modules'[m].table_index = modules[m].table_index
             /\ modules'[m].table_limits = modules[m].table_limits
    <3> DEFINE t == modules[m].table_index
    <3>1. SUFFICES ASSUME t # 0
                   PROVE  /\ t <= Room(m, "table")'
                          /\ Within(tables'[t].limits, modules[m].table_limits)
      BY <2>1 DEF HoldsTable
    <3>2. t <= Room(m, "table") /\ Within(tables[t].limits, modules[m].table_limits)
      BY <3>1 DEF LInv, Linked, HoldsTable
    <3>3. t \in Nat
      BY <1>0, IndexNat DEF IsModule
    <3>4. "table" \in Kinds /\ Items("table") = tables
      BY KindsAre DEF Items
    <3>5. t <= Room(m, "table")' /\ t \in 1 .. Len(tables)
      BY SMTT(30), <1>1, <3>1, <3>2, <3>3, <3>4, VectorTypes
    <3>6. tables'[t].limits = tables[t].limits
      BY <3>5 DEF ReadOn, TablesOn
    <3>7. QED
      BY <3>2, <3>5, <3>6
  <2>2. CASE /\ m = Len(modules)
             /\ modules'[m].table_index \in 1 .. Len(tables')
             /\ Within(tables'[modules'[m].table_index].limits,
                       modules'[m].table_limits)
    <3>1. modules'[m].table_index <= Len(tables')
      BY <2>2
    <3>2. QED
      BY <1>2, <2>2, <3>1 DEF HoldsTable
  <2>3. QED
    BY <1>0, <2>1, <2>2, ReadModules DEF LinksOn, TableOn
<1>4. ASSUME NEW m \in 1 .. Len(modules) PROVE HoldsMemory(m)'
  <2>1. CASE /\ modules'[m].memory_index = modules[m].memory_index
             /\ modules'[m].page_limits = modules[m].page_limits
    <3> DEFINE t == modules[m].memory_index
    <3>1. SUFFICES ASSUME t # 0
                   PROVE  /\ t <= Room(m, "memory")'
                          /\ Serves(memories[t], modules[m])'
      BY <1>0, <2>1 DEF HoldsMemory, Serves
    <3>2. t <= Room(m, "memory") /\ Serves(memories[t], modules[m])
      BY <3>1 DEF LInv, Linked, HoldsMemory
    <3>3. t \in Nat
      BY <1>0, IndexNat DEF IsModule
    <3>4. "memory" \in Kinds /\ Items("memory") = memories
      BY KindsAre DEF Items
    <3>5. t <= Room(m, "memory")' /\ t \in 1 .. Len(memories)
      BY SMTT(30), <1>1, <3>1, <3>2, <3>3, <3>4, VectorTypes
    <3>6. memories'[t] = memories[t]
      BY <3>5 DEF ReadOn, VectorOn
    <3>7. QED
      BY <1>0, <2>1, <3>2, <3>5, <3>6 DEF Serves
  <2>2. CASE /\ m = Len(modules)
             /\ modules'[m].memory_index \in 1 .. Len(memories')
             /\ Within(memories'[modules'[m].memory_index].limits,
                       modules'[m].page_limits)
    <3>1. modules'[m].memory_index <= Len(memories')
      BY <2>2
    <3>2. QED
      BY <1>2, <2>2, <3>1 DEF HoldsMemory, Serves, Within
  <2>3. QED
    BY <1>0, <2>1, <2>2, ReadModules DEF LinksOn, MemoryOn
<1>5. ASSUME NEW m \in 1 .. Len(modules), NEW e \in 1 .. Len(modules'[m].exports)
      PROVE  HoldsExport(m, modules[m].exports[e])'
  <2>0. modules'[m].exports[e] \in ExportType
    BY <1>0 DEF IsModule
  <2>1. PICK x \in ExportType : x = modules'[m].exports[e]
    BY <2>0
  <2>2. x.kind \in Kinds /\ x.index \in Nat
    <3>1. x.kind \in Kinds /\ x.index \in Indexes
      BY DEF ExportType
    <3>2. QED
      BY <3>1, IndexNat
  <2>3. CASE e \in 1 .. Len(modules[m].exports) /\ x = modules[m].exports[e]
    <3>1. HoldsExport(m, x)
      BY <2>3 DEF LInv, Linked
    <3>2. CASE NamesItem(x.kind, x.index, x.load)
               /\ (modules[m].is_host \/ x.index <= Room(m, x.kind))
      <4>1. NamesItem(x.kind, x.index, x.load)'
        BY <2>2, <3>2, NamesOn
      <4>2. modules'[m].is_host \/ x.index <= Room(m, x.kind)'
        BY <1>0, <1>1, <2>2, <3>2
      <4>3. HoldsExport(m, x)'
        BY <4>1, <4>2 DEF HoldsExport
      <4>4. QED
        BY <2>1, <4>3 DEF HoldsExport, NamesItem
    <3>3. CASE modules[m].is_host /\ x.load \in failed
      BY <1>0, <2>1, <3>3 DEF HoldsExport
    <3>4. QED
      BY <3>1, <3>2, <3>3 DEF HoldsExport
  <2>4. CASE /\ NamesItem(x.kind, x.index, x.load)'
             /\ modules[m].is_host \/ m = Len(modules)
    <3>1. CASE modules[m].is_host
      <4>1. HoldsExport(m, x)'
        BY <1>0, <2>4, <3>1 DEF HoldsExport
      <4>2. QED
        BY <2>1, <4>1 DEF HoldsExport, NamesItem
    <3>2. CASE m = Len(modules)
      <4>1. Room(m, x.kind)' = Len(Items(x.kind)')
        BY <1>0, <3>2 DEF Room
      <4>2. DOMAIN Items(x.kind)' = 1 .. Len(Items(x.kind)')
        BY <2>2, ItemsOn, LenNat
      <4>3. x.index \in 1 .. Len(Items(x.kind)')
        BY <2>4, <4>2 DEF NamesItem
      <4>4. x.index <= Room(m, x.kind)'
        BY <4>1, <4>3
      <4>5. HoldsExport(m, x)'
        BY <2>4, <4>4 DEF HoldsExport
      <4>6. QED
        BY <2>1, <4>5 DEF HoldsExport, NamesItem
    <3>3. QED
      BY <2>4, <3>1, <3>2
  <2>5. QED
    BY <2>1, <2>3, <2>4 DEF LinksOn, ExportsOn
<1>6. QED
  BY <1>0, <1>3, <1>4, <1>5 DEF Linked

\* A step of the reader whose new links, index spaces and table entries are
\* right keeps the invariant.
LEMMA ReadKeeps ==
  ASSUME LInv, IInv', ReadOn, LinksOn(modules'), IndexSpaces', TablesLive'
  PROVE  LInv'
<1>1. VectorsTyped'
  BY DEF ReadOn, VectorOn, TablesOn, VectorsTyped
<1>2. HistoryTyped'
  BY DEF ReadOn, LInv, HistoryTyped, historyVars
<1>3. LoadsPast'
  BY ReadModules DEF ReadOn, LInv, LoadsPast, historyVars
<1>4. QED
  BY <1>1, <1>2, <1>3, ReadModules, ReadContext, ReadLinked DEF LInv

-----------------------------------------------------------------------------
(* Running a function, and the end of a module.                            *)

\* Memories that have grown, or whose page counts wrapped in this load.
MemoriesOn(mems) ==
  /\ mems \in Seq(MemoryType) /\ Len(mems) = Len(memories)
  /\ \A i \in 1 .. Len(memories) :
       /\ mems[i].load = memories[i].load
       /\ mems[i].limits.has_max = memories[i].limits.has_max
       /\ mems[i].limits.max = memories[i].limits.max
       /\ \/ mems[i].wrapped = loads
          \/ /\ mems[i].wrapped = memories[i].wrapped
             /\ memories[i].limits.initial <= mems[i].limits.initial

\* Memories that were left alone.
LEMMA MemoriesSame == ASSUME LInv PROVE MemoriesOn(memories)
<1>1. ASSUME NEW i \in 1 .. Len(memories)
      PROVE  memories[i].limits.initial \in Nat
  BY SMTT(30), VectorTypes DEF MemoryType, LimitsType
<1>2. QED
  BY <1>1, VectorTypes DEF MemoriesOn

\* A page count that GROW_MEMORY leaves is at most the maximum, and smaller
\* than before only if it wrapped.
LEMMA ResizedMemory ==
  ASSUME LInv, NEW r \in MemoryType, NEW n \in PagesAfter(r.limits)
  PROVE  /\ Resized(r, n) \in MemoryType
         /\ Resized(r, n).load = r.load
         /\ Resized(r, n).limits.has_max = r.limits.has_max
         /\ Resized(r, n).limits.max = r.limits.max
         /\ \/ Resized(r, n).wrapped = loads
            \/ /\ Resized(r, n).wrapped = r.wrapped
               /\ r.limits.initial <= Resized(r, n).limits.initial
<1> DEFINE l == [initial |-> n, has_max |-> r.limits.has_max,
                 max |-> r.limits.max]
           w == IF n < r.limits.initial THEN loads ELSE r.wrapped
           new == [limits |-> l, load |-> r.load, wrapped |-> w]
<1>1. /\ r \in [limits : LimitsType, load : 0 .. MaxLoads,
                wrapped : 0 .. MaxLoads]
      /\ r.limits \in LimitsType
      /\ r.limits.initial \in Nat /\ r.limits.max \in Nat
      /\ r.limits.has_max \in BOOLEAN
      /\ r.limits.initial <= Maximum(r.limits) /\ r.limits.max <= MaxPages
  BY DEF MemoryType, LimitsType
<1>2. n \in Nat /\ n <= Maximum(r.limits)
  BY <1>1, EnvironmentAssumption DEF PagesAfter
<1>3. l \in LimitsType /\ Maximum(l) = Maximum(r.limits)
  BY <1>1, <1>2 DEF LimitsType, Maximum
<1>4. w \in 0 .. MaxLoads
  BY <1>1, VectorTypes
<1>5. Resized(r, n) = new
  <2>1. [r.limits EXCEPT !.initial = n] = l
    BY <1>1 DEF LimitsType
  <2>2. Resized(r, n) = [r EXCEPT !.limits = [r.limits EXCEPT !.initial = n],
                                  !.wrapped = w]
    BY DEF Resized
  <2> HIDE DEF l, w
  <2>3. QED
    BY <1>1, <2>1, <2>2
<1>6. /\ l.initial = n /\ l.has_max = r.limits.has_max
      /\ l.max = r.limits.max
  OBVIOUS
<1>7. w = loads \/ (w = r.wrapped /\ r.limits.initial <= n)
  BY <1>1, <1>2
<1> HIDE DEF l, w
<1>8. /\ new \in [limits : LimitsType, load : 0 .. MaxLoads,
                  wrapped : 0 .. MaxLoads]
      /\ new.limits = l /\ new.load = r.load /\ new.wrapped = w
  BY <1>1, <1>3, <1>4
<1> HIDE DEF new
<1>9. new \in MemoryType
  BY <1>1, <1>2, <1>3, <1>6, <1>8 DEF MemoryType
<1>10. QED
  BY <1>5, <1>6, <1>7, <1>8, <1>9

\* A function that runs resizes memories as GROW_MEMORY does.
LEMMA RunEffectsResize ==
  ASSUME LInv, NEW func, NEW mems \in RunEffects(func)
  PROVE  MemoriesOn(mems)
<1>1. CASE mems = memories
  BY <1>1, MemoriesSame
<1>2. CASE mems # memories
  <2>1. PICK pages \in [DOMAIN memories -> 0 .. MaxPages] :
          /\ \A i \in DOMAIN memories : pages[i] \in PagesAfter(memories[i].limits)
          /\ mems = [i \in DOMAIN memories |-> Resized(memories[i], pages[i])]
    BY <1>2 DEF RunEffects
  <2>2. /\ DOMAIN memories = 1 .. Len(memories) /\ Len(memories) \in Nat
        /\ \A i \in 1 .. Len(memories) : memories[i] \in MemoryType
    BY VectorTypes
  <2>3. ASSUME NEW i \in 1 .. Len(memories)
        PROVE  /\ mems[i] \in MemoryType
               /\ mems[i].load = memories[i].load
               /\ mems[i].limits.has_max = memories[i].limits.has_max
               /\ mems[i].limits.max = memories[i].limits.max
               /\ \/ mems[i].wrapped = loads
                  \/ /\ mems[i].wrapped = memories[i].wrapped
                     /\ memories[i].limits.initial <= mems[i].limits.initial
    <3>1. PICK r \in MemoryType : r = memories[i]
      BY <2>2
    <3>2. PICK n : n = pages[i]
      OBVIOUS
    <3>3. n \in PagesAfter(r.limits)
      BY <2>1, <2>2, <3>1, <3>2
    <3>4. mems[i] = Resized(r, n)
      BY <2>1, <2>2, <3>1, <3>2
    <3>5. QED
      BY <3>1, <3>3, <3>4, ResizedMemory
  <2>4. mems \in Seq(MemoryType) /\ Len(mems) = Len(memories)
    <3>1. DOMAIN mems = 1 .. Len(memories)
      BY <2>1, <2>2
    <3>2. mems = [i \in 1 .. Len(memories) |-> mems[i]]
      BY <2>1, <2>2
    <3>3. mems \in [1 .. Len(memories) -> MemoryType]
      BY <2>3, <3>2
    <3>4. QED
      BY <2>2, <3>3
  <2>5. QED
    BY <2>3, <2>4 DEF MemoriesOn
<1>3. QED
  BY <1>1, <1>2

\* A memory that served a module does so after it was resized.
LEMMA StillServes ==
  ASSUME LInv, NEW mems, MemoriesOn(mems), NEW i \in 1 .. Len(memories),
         NEW m \in 1 .. Len(modules), Serves(memories[i], modules[m])
  PROVE  Serves(mems[i], modules[m])
<1>1. PICK r : r = modules[m]
  OBVIOUS
<1>2. /\ r.page_limits \in LimitsType /\ r.load \in 0 .. loads
      /\ loads \in Nat
  BY <1>1, ModuleTypes, VectorTypes DEF IsModule, LInv, LoadsPast
<1>3. PICK old \in MemoryType : old = memories[i]
  BY VectorTypes
<1>4. PICK new \in MemoryType : new = mems[i]
  BY VectorTypes DEF MemoriesOn
<1>5. /\ new.limits.has_max = old.limits.has_max
      /\ new.limits.max = old.limits.max
      /\ \/ new.wrapped = loads
         \/ /\ new.wrapped = old.wrapped
            /\ old.limits.initial <= new.limits.initial
  BY <1>3, <1>4 DEF MemoriesOn
<1>6. Serves(old, r)
  BY <1>1, <1>3
<1>7. /\ old.limits.initial \in Nat /\ new.limits.initial \in Nat
      /\ r.page_limits.initial \in Nat
  BY <1>2 DEF MemoryType, LimitsType
<1>8. Serves(new, r)
  BY <1>2, <1>5, <1>6, <1>7 DEF Serves
<1>9. QED
  BY <1>1, <1>4, <1>8

\* All stays but the names of modules and the size of memories, and the module
\* being read may be done.
Stays ==
  /\ UNCHANGED <<funcs, tables, globals, historyVars>>
  /\ MemoriesOn(memories')
  /\ Len(modules') = Len(modules)
  /\ \A m \in 1 .. Len(modules) :
       /\ IsModule(modules'[m])
       /\ modules'[m].is_host = modules[m].is_host
       /\ modules'[m].load = modules[m].load
       /\ modules'[m].table_index = modules[m].table_index
       /\ modules'[m].memory_index = modules[m].memory_index
       /\ modules'[m].table_limits = modules[m].table_limits
       /\ modules'[m].page_limits = modules[m].page_limits
       /\ modules'[m].exports = modules[m].exports
  /\ ctx' = ctx \/ ctx' = Idle
  /\ status' \in {"running", "undefined", "assert_index",
                  "assert_start_results"}

\* The items of a kind stay.
LEMMA StaysItems ==
  ASSUME LInv, Stays, NEW kind \in Kinds
  PROVE  /\ IsSequence(Items(kind)')
         /\ Len(Items(kind)') = Len(Items(kind))
         /\ \A i \in 1 .. Len(Items(kind)) :
              Items(kind)'[i].load = Items(kind)[i].load
<1>1. CASE kind = "func"
  BY <1>1, VectorTypes DEF Items, IsSequence, Stays
<1>2. CASE kind = "table"
  BY <1>2, VectorTypes DEF Items, IsSequence, Stays
<1>3. CASE kind = "memory"
  BY <1>3 DEF Items, IsSequence, Stays, MemoriesOn
<1>4. CASE kind = "global"
  BY <1>4, VectorTypes DEF Items, IsSequence, Stays
<1>5. QED
  BY <1>1, <1>2, <1>3, <1>4, KindsAre

\* An index names what it named.
LEMMA StaysNames ==
  ASSUME LInv, Stays, NEW kind \in Kinds, NEW index, NEW load,
         NamesItem(kind, index, load)
  PROVE  NamesItem(kind, index, load)'
<1>1. index \in 1 .. Len(Items(kind)) /\ Items(kind)[index].load = load
  BY ItemsTyped DEF NamesItem
<1>2. DOMAIN Items(kind)' = 1 .. Len(Items(kind)')
  BY StaysItems, LenNat
<1>3. QED
  BY <1>1, <1>2, StaysItems DEF NamesItem

\* A module can refer as far as before.
LEMMA StaysRoom ==
  ASSUME LInv, Stays, NEW kind \in Kinds, NEW m \in 1 .. Len(modules)
  PROVE  /\ Room(m, kind) \in Nat /\ Room(m, kind)' \in Nat
         /\ Room(m, kind) <= Len(Items(kind))
         /\ Room(m, kind) <= Room(m, kind)'
<1>1. /\ ctx # Idle => MarkOf(kind) \in 0 .. Len(Items(kind))
      /\ Len(Items(kind)) \in Nat /\ Len(Items(kind)') = Len(Items(kind))
  BY StaysItems, ItemsTyped, VectorTypes DEF LInv, Context, Marked
<1>2. Floor(kind) \in 0 .. Len(Items(kind))
  <2>1. CASE ctx = Idle
    BY <1>1, <2>1 DEF Floor
  <2>2. CASE ctx # Idle
    BY <1>1, <2>2 DEF Floor
  <2>3. QED
    BY <2>1, <2>2
<1>3. Room(m, kind) \in 0 .. Len(Items(kind))
  BY <1>1, <1>2 DEF Room
<1>4. CASE ctx' = Idle
  <2>1. Room(m, kind)' = Len(Items(kind)')
    BY <1>4 DEF Room, Floor
  <2>2. QED
    BY <1>1, <1>3, <2>1
<1>5. CASE ctx' = ctx
  <2>1. Kept' = Kept /\ MarkOf(kind)' = MarkOf(kind)
    BY <1>5, KindsAre DEF Kept, MarkOf, Stays
  <2>2. Room(m, kind)' = Room(m, kind)
    BY <1>1, <1>5, <2>1 DEF Room, Floor
  <2>3. QED
    BY <1>3, <2>2
<1>6. QED
  BY <1>4, <1>5 DEF Stays

\* Such a step keeps the invariant.
LEMMA StaysKeeps == ASSUME LInv, IInv', Stays PROVE LInv'
<1>0. /\ Len(modules') = Len(modules) /\ failed' = failed /\ loads' = loads
      /\ tables' = tables /\ funcs' = funcs /\ globals' = globals
  BY DEF Stays, historyVars
<1>1. ModulesTyped'
  BY DEF Stays, ModulesTyped
<1>2. VectorsTyped'
  BY <1>0 DEF LInv, VectorsTyped, Stays, MemoriesOn
<1>3. HistoryTyped'
  BY <1>0 DEF LInv, HistoryTyped, Stays
<1>4. Context'
  <2>1. SUFFICES ASSUME ctx' = ctx, ctx # Idle PROVE Context'
    BY DEF Stays, Context
  <2>2. /\ IsContext(ctx) /\ loads >= 1 /\ loads \notin failed
        /\ ~modules[Len(modules)].is_host
        /\ \A kind \in Kinds : Marked(kind)
    BY <2>1 DEF LInv, Context
  <2>3. ASSUME NEW kind \in Kinds PROVE Marked(kind)'
    <3>1. MarkOf(kind)' = MarkOf(kind)
      BY <2>1, KindsAre DEF MarkOf
    <3>2. Marked(kind) /\ Len(Items(kind)) \in Nat
      BY <2>2, ItemsTyped, VectorTypes
    <3>3. QED
      BY <1>0, <3>1, <3>2, StaysItems DEF Marked
  <2>4. Len(modules) \in 1 .. Len(modules)
    BY <2>1, ModuleTypes
  <2>5. QED
    BY <1>0, <2>1, <2>2, <2>3, <2>4 DEF Context, Stays
<1>5. IndexSpaces'
  BY <1>0 DEF LInv, IndexSpaces, Stays
<1>6. TablesLive'
  <2>1. "func" \in Kinds
    BY KindsAre
  <2>2. QED
    BY <1>0, <2>1, StaysNames DEF LInv, TablesLive
<1>7. Linked'
  <2>1. ASSUME NEW m \in 1 .. Len(modules) PROVE HoldsTable(m)'
    <3>1. PICK t \in Nat : t = modules[m].table_index
      BY ModuleTypes, IndexNat DEF IsModule
    <3>2. t = modules'[m].table_index
          /\ modules'[m].table_limits = modules[m].table_limits
      BY <3>1 DEF Stays
    <3>3. t # 0 => /\ t <= Room(m, "table")
                   /\ Within(tables[t].limits, modules[m].table_limits)
      BY <3>1 DEF LInv, Linked, HoldsTable
    <3>4. t # 0 => t <= Room(m, "table")'
      BY SMTT(30), <3>1, <3>3, StaysRoom, KindsAre
    <3>5. QED
      BY <1>0, <3>2, <3>3, <3>4 DEF HoldsTable
  <2>2. ASSUME NEW m \in 1 .. Len(modules) PROVE HoldsMemory(m)'
    <3>1. PICK t \in Nat : t = modules[m].memory_index
      BY ModuleTypes, IndexNat DEF IsModule
    <3>2. t = modules'[m].memory_index
          /\ modules'[m].page_limits = modules[m].page_limits
      BY <3>1 DEF Stays
    <3>3. t # 0 => /\ t <= Room(m, "memory")
                   /\ Serves(memories[t], modules[m])
      BY <3>1 DEF LInv, Linked, HoldsMemory
    <3>4. t # 0 => t <= Room(m, "memory")' /\ t \in 1 .. Len(memories)
      <4>1. "memory" \in Kinds /\ Items("memory") = memories
        BY KindsAre DEF Items
      <4>2. QED
        BY SMTT(30), <3>1, <3>3, <4>1, StaysRoom, VectorTypes
    <3>5. ASSUME t # 0 PROVE Serves(memories[t], modules[m])'
      <4>1. PICK mems : mems = memories' /\ MemoriesOn(mems)
        BY DEF Stays
      <4>2. Serves(mems[t], modules[m])
        BY <3>3, <3>4, <3>5, <4>1, StillServes
      <4>3. QED
        BY <3>2, <4>1, <4>2 DEF Serves, Stays
    <3>6. QED
      BY <3>2, <3>4, <3>5 DEF HoldsMemory
  <2>3. ASSUME NEW m \in 1 .. Len(modules), NEW e \in 1 .. Len(modules'[m].exports)
        PROVE  HoldsExport(m, modules[m].exports[e])'
    <3>1. /\ modules'[m].exports = modules[m].exports
          /\ modules'[m].is_host = modules[m].is_host
      BY DEF Stays
    <3>2. modules[m].exports[e] \in ExportType
      BY <3>1, ModuleTypes DEF IsModule
    <3>3. PICK x \in ExportType : x = modules[m].exports[e]
      BY <3>2
    <3>4. x.kind \in Kinds /\ x.index \in Nat
      BY VectorTypes DEF ExportType, Indexes
    <3>5. HoldsExport(m, x)
      BY <3>1, <3>3 DEF LInv, Linked
    <3>6. NamesItem(x.kind, x.index, x.load) => NamesItem(x.kind, x.index, x.load)'
      BY <3>4, StaysNames
    <3>7. x.index <= Room(m, x.kind) => x.index <= Room(m, x.kind)'
      BY <3>4, StaysRoom
    <3>8. HoldsExport(m, x)'
      BY <1>0, <3>1, <3>5, <3>6, <3>7 DEF HoldsExport
    <3>9. x = modules'[m].exports[e]
      BY <3>1, <3>3
    <3>10. QED
      BY <3>8, <3>9 DEF HoldsExport, NamesItem
  <2>4. QED
    BY <1>0, <2>1, <2>2, <2>3 DEF Linked
<1>8. LoadsPast'
  BY <1>0 DEF LInv, LoadsPast, Stays
<1>9. QED
  BY <1>1, <1>2, <1>3, <1>4, <1>5, <1>6, <1>7, <1>8 DEF LInv

\* A module that is kept has its name from now on.
LEMMA KeepStays ==
  ASSUME LInv, ctx # Idle, NEW mems, MemoriesOn(mems), Keep(mems)
  PROVE  Stays
<1> DEFINE r == Updated(modules[Len(modules)], "name", ctx.name)
<1>1. /\ modules' = Updated(modules, Len(modules), r)
      /\ memories' = mems /\ ctx' = Idle
      /\ UNCHANGED <<funcs, tables, globals, historyVars, status>>
  BY DEF Keep, BindName, Module, Updated
<1>2. /\ Len(modules) \in 1 .. Len(modules) /\ IsModule(modules[Len(modules)])
      /\ IsSequence(modules)
  BY ModuleTypes
<1>3. ctx.name \in Names \cup {NO_NAME}
  BY DEF LInv, Context, IsContext
<1>4. /\ DOMAIN r = DOMAIN modules[Len(modules)]
      /\ r["name"] = ctx.name
      /\ \A f \in DOMAIN modules[Len(modules)] :
           f # "name" => r[f] = modules[Len(modules)][f]
  BY <1>2 DEF Updated, IsModule
<1> HIDE DEF r
<1>5. /\ r.is_host = modules[Len(modules)].is_host
      /\ r.load = modules[Len(modules)].load
      /\ r.table_index = modules[Len(modules)].table_index
      /\ r.memory_index = modules[Len(modules)].memory_index
      /\ r.table_limits = modules[Len(modules)].table_limits
      /\ r.page_limits = modules[Len(modules)].page_limits
      /\ r.exports = modules[Len(modules)].exports
      /\ r.start = modules[Len(modules)].start
      /\ r.name = ctx.name
  BY <1>2, <1>4 DEF IsModule
<1>6. IsModule(r)
  BY <1>2, <1>3, <1>4, <1>5 DEF IsModule
<1>7. /\ Len(modules') = Len(modules)
      /\ \A j \in 1 .. Len(modules) :
           modules'[j] = IF j = Len(modules) THEN r ELSE modules[j]
  BY <1>1, <1>2, ReplaceSequence
<1>8. ASSUME NEW m \in 1 .. Len(modules)
      PROVE  /\ IsModule(modules'[m])
             /\ modules'[m].is_host = modules[m].is_host
             /\ modules'[m].load = modules[m].load
             /\ modules'[m].table_index = modules[m].table_index
             /\ modules'[m].memory_index = modules[m].memory_index
             /\ modules'[m].table_limits = modules[m].table_limits
             /\ modules'[m].page_limits = modules[m].page_limits
             /\ modules'[m].exports = modules[m].exports
  BY <1>5, <1>6, <1>7, ModuleTypes
<1>9. QED
  BY <1>1, <1>7, <1>8 DEF Stays, LInv, HistoryTyped

\* Undoing truncates every vector to the mark.
LEMMA UndoItems ==
  ASSUME LInv, ctx # Idle, NEW mems, MemoriesOn(mems), UndoAfter(mems)
  PROVE  /\ VectorsTyped'
         /\ \A i \in 1 .. MarkOf("table") : tables'[i] = tables[i]
         /\ \A i \in 1 .. MarkOf("memory") : memories'[i] = mems[i]
         /\ \A kind \in Kinds :
              /\ Len(Items(kind)') = MarkOf(kind)
              /\ DOMAIN Items(kind)' = 1 .. MarkOf(kind)
              /\ \A i \in 1 .. MarkOf(kind) :
                   Items(kind)'[i].load = Items(kind)[i].load
<1>1. /\ MarkOf("func") \in 0 .. Len(funcs)
      /\ MarkOf("table") \in 0 .. Len(tables)
      /\ MarkOf("memory") \in 0 .. Len(memories)
      /\ MarkOf("global") \in 0 .. Len(globals)
  BY KindsAre DEF LInv, Context, Marked, Items
<1>2. /\ funcs' = SubSeq(funcs, 1, MarkOf("func"))
      /\ tables' = SubSeq(tables, 1, MarkOf("table"))
      /\ memories' = SubSeq(mems, 1, MarkOf("memory"))
      /\ globals' = SubSeq(globals, 1, MarkOf("global"))
  BY DEF UndoAfter, Reset, MarkOf
<1>3. ASSUME NEW T, NEW s \in Seq(T), NEW n \in 0 .. Len(s), Len(s) <= MaxItems
      PROVE  /\ SubSeq(s, 1, n) \in Seq(T) /\ Len(SubSeq(s, 1, n)) = n
             /\ DOMAIN SubSeq(s, 1, n) = 1 .. n
             /\ n <= MaxItems
             /\ \A i \in 1 .. n : SubSeq(s, 1, n)[i] = s[i]
  <2>1. n \in Nat /\ Len(s) \in Nat /\ MaxItems \in Nat
    BY VectorTypes
  <2>2. QED
    BY <1>3, <2>1
<1>4. /\ funcs' \in Seq(FuncType) /\ Len(funcs') = MarkOf("func")
      /\ DOMAIN funcs' = 1 .. MarkOf("func") /\ MarkOf("func") <= MaxItems
      /\ \A i \in 1 .. MarkOf("func") : funcs'[i] = funcs[i]
  <2>1. /\ funcs \in Seq(FuncType) /\ Len(funcs) <= MaxItems
        /\ MarkOf("func") \in 0 .. Len(funcs)
    BY <1>1, VectorTypes
  <2>2. QED
    BY <1>2, <1>3, <2>1
<1>5. /\ tables' \in Seq(TableType) /\ Len(tables') = MarkOf("table")
      /\ DOMAIN tables' = 1 .. MarkOf("table") /\ MarkOf("table") <= MaxItems
      /\ \A i \in 1 .. MarkOf("table") : tables'[i] = tables[i]
  <2>1. /\ tables \in Seq(TableType) /\ Len(tables) <= MaxItems
        /\ MarkOf("table") \in 0 .. Len(tables)
    BY <1>1, VectorTypes
  <2>2. QED
    BY <1>2, <1>3, <2>1
<1>6. /\ memories' \in Seq(MemoryType) /\ Len(memories') = MarkOf("memory")
      /\ DOMAIN memories' = 1 .. MarkOf("memory") /\ MarkOf("memory") <= MaxItems
      /\ \A i \in 1 .. MarkOf("memory") : memories'[i] = mems[i]
  <2>1. /\ mems \in Seq(MemoryType) /\ Len(mems) = Len(memories)
        /\ Len(mems) <= MaxItems /\ MarkOf("memory") \in 0 .. Len(mems)
    BY <1>1, VectorTypes DEF MemoriesOn
  <2>2. QED
    BY <1>2, <1>3, <2>1
<1>7. /\ globals' \in Seq(GlobalType) /\ Len(globals') = MarkOf("global")
      /\ DOMAIN globals' = 1 .. MarkOf("global") /\ MarkOf("global") <= MaxItems
      /\ \A i \in 1 .. MarkOf("global") : globals'[i] = globals[i]
  <2>1. /\ globals \in Seq(GlobalType) /\ Len(globals) <= MaxItems
        /\ MarkOf("global") \in 0 .. Len(globals)
    BY <1>1, VectorTypes
  <2>2. QED
    BY <1>2, <1>3, <2>1
<1>8. VectorsTyped'
  BY <1>4, <1>5, <1>6, <1>7 DEF VectorsTyped
<1>9. \A i \in 1 .. MarkOf("memory") : memories'[i].load = memories[i].load
  BY SMTT(30), <1>1, <1>6, VectorTypes DEF MemoriesOn
<1>10. ASSUME NEW kind \in Kinds
       PROVE  /\ Len(Items(kind)') = MarkOf(kind)
              /\ DOMAIN Items(kind)' = 1 .. MarkOf(kind)
              /\ \A i \in 1 .. MarkOf(kind) :
                   Items(kind)'[i].load = Items(kind)[i].load
  <2>1. CASE kind = "func"
    BY <1>4, <2>1 DEF Items
  <2>2. CASE kind = "table"
    BY <1>5, <2>2 DEF Items
  <2>3. CASE kind = "memory"
    BY <1>6, <1>9, <2>3 DEF Items
  <2>4. CASE kind = "global"
    BY <1>7, <2>4 DEF Items
  <2>5. QED
    BY <2>1, <2>2, <2>3, <2>4, KindsAre
<1>11. QED
  BY <1>5, <1>6, <1>8, <1>10

\* An index names what it named, or an item that the module appended.
LEMMA UndoNames ==
  ASSUME LInv, ctx # Idle, NEW mems, MemoriesOn(mems), UndoAfter(mems),
         NEW kind \in Kinds, NEW index, NEW load, NamesItem(kind, index, load)
  PROVE  /\ index \in 1 .. MarkOf(kind) => NamesItem(kind, index, load)'
         /\ NamesItem(kind, index, load)' \/ load = loads
<1>1. /\ index \in 1 .. Len(Items(kind)) /\ Items(kind)[index].load = load
      /\ Len(Items(kind)) \in Nat
  BY ItemsTyped, VectorTypes DEF NamesItem
<1>2. /\ MarkOf(kind) \in 0 .. Len(Items(kind))
      /\ \A i \in MarkOf(kind) + 1 .. Len(Items(kind)) :
           Items(kind)[i].load = loads
  BY DEF LInv, Context, Marked
<1>3. CASE index \in 1 .. MarkOf(kind)
  BY <1>1, <1>3, UndoItems DEF NamesItem
<1>4. CASE index \notin 1 .. MarkOf(kind)
  <2>1. index \in MarkOf(kind) + 1 .. Len(Items(kind))
    BY <1>1, <1>2, <1>4
  <2>2. QED
    BY <1>1, <1>2, <1>4, <2>1
<1>5. QED
  BY <1>3, <1>4

\* Undoing a module keeps the invariant.
LEMMA UndoLinked ==
  ASSUME LInv, IInv', ctx # Idle, NEW mems, MemoriesOn(mems), UndoAfter(mems)
  PROVE  LInv'
<1>0. /\ ctx' = Idle /\ loads' = loads /\ status' = status
      /\ failed' = failed \cup {loads}
      /\ loads \in 1 .. MaxLoads
  BY VectorTypes DEF UndoAfter, LInv, Context
<1>1. /\ Kept \in Nat /\ Len(modules) = Kept + 1 /\ IsSequence(modules)
      /\ modules' = SubSeq(modules, 1, Kept)
  BY ModuleTypes DEF UndoAfter, Reset, Kept
<1>2. /\ Len(modules') = Kept
      /\ \A m \in 1 .. Kept : /\ modules'[m] = modules[m]
                              /\ m \in 1 .. Len(modules)
                              /\ IsModule(modules[m])
  <2>1. Kept \in 0 .. Len(modules)
    BY <1>1
  <2>2. QED
    BY <1>1, <2>1, SubSequence, ModuleTypes
<1>3. ModulesTyped'
  BY <1>2 DEF ModulesTyped
<1>4. VectorsTyped'
  BY UndoItems
<1>5. HistoryTyped'
  BY <1>0 DEF LInv, HistoryTyped
<1>6. Context' /\ IndexSpaces'
  BY <1>0 DEF Context, IndexSpaces
<1>7. TablesLive'
  <2>1. "func" \in Kinds /\ "table" \in Kinds
    BY KindsAre
  <2>2. SUFFICES ASSUME NEW t \in DOMAIN tables',
                        NEW i \in DOMAIN tables'[t].func_indexes
                 PROVE  LET entry == tables'[t].func_indexes[i]
                        IN  \/ entry.func = 0
                            \/ entry.load \in failed'
                            \/ /\ entry.func \in DOMAIN funcs'
                               /\ funcs'[entry.func].load = entry.load
    BY DEF TablesLive, NamesItem, Items
  <2>3. DOMAIN tables' = 1 .. MarkOf("table")
        /\ MarkOf("table") \in 0 .. Len(tables)
    <3>1. Items("table")' = tables' /\ Items("table") = tables
      BY DEF Items
    <3>2. QED
      BY <2>1, <3>1, UndoItems DEF LInv, Context, Marked
  <2>4. t \in DOMAIN tables /\ tables'[t] = tables[t]
    BY <2>2, <2>3, UndoItems, VectorTypes
  <2>5. PICK entry : entry = tables[t].func_indexes[i]
    OBVIOUS
  <2>6. \/ entry.func = 0
        \/ entry.load \in failed
        \/ NamesItem("func", entry.func, entry.load)
    BY <2>2, <2>4, <2>5 DEF LInv, TablesLive
  <2>7. NamesItem("func", entry.func, entry.load) =>
          \/ NamesItem("func", entry.func, entry.load)'
          \/ entry.load = loads
    BY <2>1, UndoNames
  <2>8. NamesItem("func", entry.func, entry.load)' =>
          entry.func \in DOMAIN funcs' /\ funcs'[entry.func].load = entry.load
    BY DEF NamesItem, Items
  <2>9. QED
    BY <1>0, <2>4, <2>5, <2>6, <2>7, <2>8
<1>8. ASSUME NEW kind \in Kinds, NEW m \in 1 .. Kept
      PROVE  /\ Room(m, kind) = MarkOf(kind) /\ Room(m, kind)' = MarkOf(kind)
             /\ MarkOf(kind) \in 0 .. Len(Items(kind))
  <2>1. m <= Kept
    BY <1>1
  <2>2. Kept' = Kept
    BY <1>0, <1>2 DEF Kept
  <2>3. Room(m, kind) = MarkOf(kind)
    BY <2>1 DEF Room, Floor
  <2>4. Room(m, kind)' = MarkOf(kind)
    BY <1>0, <2>1, <2>2, UndoItems DEF Room, Floor
  <2>5. QED
    BY <2>3, <2>4 DEF LInv, Context, Marked
<1>9. ASSUME NEW m \in 1 .. Kept PROVE HoldsTable(m)'
  <2>1. PICK t \in Nat : t = modules[m].table_index
    BY <1>2, IndexNat DEF IsModule
  <2>2. t # 0 => /\ t <= MarkOf("table")
                 /\ Within(tables[t].limits, modules[m].table_limits)
    BY <1>2, <1>8, <2>1, KindsAre DEF LInv, Linked, HoldsTable
  <2>3. t # 0 => tables'[t] = tables[t]
    <3>1. MarkOf("table") \in Nat
      BY <1>8, ItemsTyped, KindsAre
    <3>2. QED
      BY <2>1, <2>2, <3>1, UndoItems
  <2>4. Room(m, "table")' = MarkOf("table")
    BY <1>8, KindsAre
  <2>5. QED
    BY <1>2, <2>1, <2>2, <2>3, <2>4 DEF HoldsTable
<1>10. ASSUME NEW m \in 1 .. Kept PROVE HoldsMemory(m)'
  <2>1. PICK t \in Nat : t = modules[m].memory_index
    BY <1>2, IndexNat DEF IsModule
  <2>2. t # 0 => /\ t <= MarkOf("memory")
                 /\ Serves(memories[t], modules[m])
    BY <1>2, <1>8, <2>1, KindsAre DEF LInv, Linked, HoldsMemory
  <2>3. t # 0 => memories'[t] = mems[t] /\ t \in 1 .. Len(memories)
    <3>1. MarkOf("memory") \in 0 .. Len(memories)
      BY <1>8, KindsAre DEF Items
    <3>2. QED
      BY SMTT(30), <2>1, <2>2, <3>1, UndoItems, VectorTypes
  <2>4. Room(m, "memory")' = MarkOf("memory")
    BY <1>8, KindsAre
  <2>5. t # 0 => Serves(mems[t], modules[m])
    BY <1>2, <2>2, <2>3, StillServes
  <2>6. QED
    BY <1>2, <2>1, <2>2, <2>3, <2>4, <2>5 DEF HoldsMemory, Serves
<1>11. ASSUME NEW m \in 1 .. Kept, NEW e \in 1 .. Len(modules[m].exports)
       PROVE  HoldsExport(m, modules[m].exports[e])'
  <2>1. modules[m].exports[e] \in ExportType
    BY <1>2 DEF IsModule
  <2>2. PICK x \in ExportType : x = modules[m].exports[e]
    BY <2>1
  <2>3. x.kind \in Kinds /\ x.index \in Nat
    BY VectorTypes DEF ExportType, Indexes
  <2>4. HoldsExport(m, x)
    BY <1>2, <2>2 DEF LInv, Linked
  <2>5. NamesItem(x.kind, x.index, x.load) =>
          /\ x.index \in 1 .. MarkOf(x.kind) => NamesItem(x.kind, x.index, x.load)'
          /\ NamesItem(x.kind, x.index, x.load)' \/ x.load = loads
    BY <2>3, UndoNames
  <2>6. NamesItem(x.kind, x.index, x.load) => x.index \in 1 .. Len(Items(x.kind))
    BY <2>3, ItemsTyped DEF NamesItem
  <2>7. HoldsExport(m, x)'
    <3>1. CASE modules[m].is_host
      BY <1>0, <1>2, <2>4, <2>5, <3>1 DEF HoldsExport
    <3>2. CASE ~modules[m].is_host
      <4>1. NamesItem(x.kind, x.index, x.load) /\ x.index <= Room(m, x.kind)
        BY <2>4, <3>2 DEF HoldsExport
      <4>2. Room(m, x.kind) = MarkOf(x.kind) /\ Room(m, x.kind)' = MarkOf(x.kind)
            /\ MarkOf(x.kind) \in Nat
        BY <1>8, <2>3, ItemsTyped
      <4>3. x.index \in 1 .. MarkOf(x.kind)
        BY <2>3, <2>6, <4>1, <4>2
      <4>4. QED
        BY <2>5, <4>1, <4>2, <4>3 DEF HoldsExport
    <3>3. QED
      BY <3>1, <3>2
  <2>8. x = modules'[m].exports[e]
    BY <1>2, <2>2
  <2>9. QED
    BY <2>7, <2>8 DEF HoldsExport, NamesItem
<1>12. Linked'
  BY <1>2, <1>9, <1>10, <1>11 DEF Linked
<1>13. LoadsPast'
  BY <1>0, <1>2 DEF LInv, LoadsPast
<1>14. QED
  BY <1>3, <1>4, <1>5, <1>6, <1>7, <1>12, <1>13 DEF LInv

\* A module that begins has nothing yet, and the mark keeps everything.
LEMMA BeginLinked ==
  ASSUME LInv, IInv', NEW command, NEW name \in Names \cup {NO_NAME},
         BeginModule(command, name)
  PROVE  LInv'
<1>0. /\ ctx = Idle /\ loads < MaxLoads /\ loads' = loads + 1
      /\ funcs' = funcs /\ tables' = tables /\ memories' = memories
      /\ globals' = globals /\ failed' = failed /\ status' = status
      /\ loads \in Nat /\ failed \subseteq 1 .. loads
  BY VectorTypes DEF BeginModule, LInv, HistoryTyped
<1>1. PICK r : /\ modules' = Append(modules, r)
               /\ DOMAIN r = {"name", "is_host", "table_index", "memory_index",
                              "exports", "start", "load", "table_limits",
                              "page_limits"}
               /\ r.name = NO_NAME /\ r.is_host = FALSE
               /\ r.table_index = 0 /\ r.memory_index = 0 /\ r.start = 0
               /\ r.exports = <<>> /\ r.table_limits = NoLimits
               /\ r.page_limits = NoLimits /\ r.load = loads'
  BY DEF BeginModule
<1>2. IsModule(r)
  <2>1. 0 \in Indexes /\ NoLimits \in LimitsType
    BY VectorTypes DEF Indexes, NoLimits, LimitsType
  <2>2. r.exports \in Seq(ExportType) /\ r.is_host \in BOOLEAN
    <3>1. <<>> \in Seq(ExportType)
      OBVIOUS
    <3>2. QED
      BY <1>1, <3>1
  <2>3. QED
    BY <1>1, <2>1, <2>2 DEF IsModule
<1>3. /\ Len(modules) \in Nat /\ Len(modules') = Len(modules) + 1
      /\ modules'[Len(modules) + 1] = r
      /\ \A m \in 1 .. Len(modules) : modules'[m] = modules[m] /\ IsModule(modules[m])
      /\ Kept = Len(modules)
  BY <1>0, <1>1, ModuleTypes, AppendSequence
<1>4. /\ DOMAIN ctx' = {"command", "name", "mark", "section", "entries",
                        "func_index_mapping", "global_index_mapping",
                        "num_func_imports", "num_global_imports"}
      /\ ctx'.name = name /\ ctx'.section = 1
      /\ ctx'.mark = wasm_mark_interpreter_environment
      /\ ctx'.func_index_mapping = <<>> /\ ctx'.global_index_mapping = <<>>
      /\ ctx'.num_func_imports = 0 /\ ctx'.num_global_imports = 0
  BY DEF BeginModule
<1>5. IsContext(ctx)' /\ ctx' # Idle
  <2>1. "mark" \in DOMAIN ctx' /\ <<>> \in Seq(Nat) /\ Len(<<>>) = 0
    BY <1>4
  <2>2. ctx' # Idle
    BY <2>1, ContextNotIdle
  <2>3. ctx'.mark \in MarkType
    <3>1. /\ Len(modules) \in Nat /\ Len(funcs) \in Nat /\ Len(tables) \in Nat
          /\ Len(memories) \in Nat /\ Len(globals) \in Nat
      BY <1>3, VectorTypes
    <3>2. QED
      BY <1>4, <3>1 DEF wasm_mark_interpreter_environment, MarkType
  <2>4. QED
    BY <1>4, <2>1, <2>2, <2>3 DEF IsContext
<1>6. Kept' = Kept
  BY <1>3, <1>4, <1>5 DEF Kept, wasm_mark_interpreter_environment
<1>7. ASSUME NEW kind \in Kinds
      PROVE  /\ MarkOf(kind)' = Len(Items(kind)) /\ Items(kind)' = Items(kind)
             /\ Floor(kind) = Len(Items(kind)) /\ Floor(kind)' = Len(Items(kind))
             /\ Len(Items(kind)) \in Nat
  <2>1. MarkOf(kind)' = Len(Items(kind))
    BY <1>4, KindsAre DEF MarkOf, Items, wasm_mark_interpreter_environment
  <2>2. Items(kind)' = Items(kind)
    BY <1>0, KindsAre DEF Items
  <2>3. QED
    BY <1>0, <1>5, <2>1, <2>2, ItemsTyped, VectorTypes DEF Floor
<1>8. ModulesTyped'
  <2>1. \A m \in 1 .. Len(modules) + 1 : m \in 1 .. Len(modules) \/ m = Len(modules) + 1
    BY <1>3
  <2>2. QED
    BY <1>2, <1>3, <2>1 DEF ModulesTyped
<1>9. VectorsTyped' /\ TablesLive'
  BY <1>0 DEF LInv, VectorsTyped, TablesLive, NamesItem, Items
<1>10. HistoryTyped'
  <2>1. loads' \in 0 .. MaxLoads
    BY <1>0, VectorTypes
  <2>2. failed \subseteq 1 .. loads + 1
    BY <1>0
  <2>3. QED
    BY <1>0, <2>1, <2>2 DEF HistoryTyped, LInv
<1>11. Context'
  <2>1. loads' >= 1 /\ loads' \notin failed'
    BY <1>0
  <2>2. ~modules'[Len(modules')].is_host
    BY <1>1, <1>3
  <2>3. ASSUME NEW kind \in Kinds PROVE Marked(kind)'
    BY <1>7 DEF Marked
  <2>4. QED
    BY <1>5, <2>1, <2>2, <2>3 DEF Context
<1>12. IndexSpaces'
  <2>1. DOMAIN ctx'.func_index_mapping = {} /\ DOMAIN ctx'.global_index_mapping = {}
    BY <1>4
  <2>2. QED
    BY <2>1 DEF IndexSpaces
<1>13. Linked'
  <2>1. ASSUME NEW m \in 1 .. Len(modules)
        PROVE  /\ HoldsTable(m)' /\ HoldsMemory(m)'
               /\ \A e \in 1 .. Len(modules'[m].exports) :
                    HoldsExport(m, modules[m].exports[e])'
    <3>1. /\ HoldsTable(m) /\ HoldsMemory(m)
          /\ \A e \in 1 .. Len(modules[m].exports) :
               HoldsExport(m, modules[m].exports[e])
          /\ modules'[m] = modules[m]
      BY <1>3 DEF LInv, Linked
    <3>2. ASSUME NEW kind \in Kinds PROVE Room(m, kind)' = Room(m, kind)
      BY <1>3, <1>6, <1>7 DEF Room
    <3>3. HoldsTable(m)' /\ HoldsMemory(m)'
      BY <1>0, <3>1, <3>2, KindsAre DEF HoldsTable, HoldsMemory, Serves
    <3>4. ASSUME NEW e \in 1 .. Len(modules'[m].exports)
          PROVE  HoldsExport(m, modules[m].exports[e])'
      <4>1. modules[m].exports[e] \in ExportType
        BY <1>3, <3>1 DEF IsModule
      <4>2. PICK x \in ExportType : x = modules[m].exports[e]
        BY <4>1
      <4>3. x.kind \in Kinds
        BY DEF ExportType
      <4>4. HoldsExport(m, x)
        BY <3>1, <4>2
      <4>5. Items(x.kind)' = Items(x.kind) /\ Room(m, x.kind)' = Room(m, x.kind)
        BY <1>7, <3>2, <4>3
      <4>6. HoldsExport(m, x)'
        BY <1>0, <3>1, <4>4, <4>5 DEF HoldsExport, NamesItem
      <4>7. x = modules'[m].exports[e]
        BY <3>1, <4>2
      <4>8. QED
        BY <4>6, <4>7 DEF HoldsExport, NamesItem
    <3>5. QED
      BY <3>3, <3>4
  <2>2. ASSUME NEW m, m = Len(modules) + 1
        PROVE  /\ HoldsTable(m)' /\ HoldsMemory(m)'
               /\ \A e \in 1 .. Len(modules'[m].exports) :
                    HoldsExport(m, modules[m].exports[e])'
    <3>1. modules'[m] = r /\ Len(r.exports) = 0
      BY <1>1, <1>3, <2>2
    <3>2. QED
      BY <1>1, <3>1 DEF HoldsTable, HoldsMemory
  <2>3. \A m \in 1 .. Len(modules') : m \in 1 .. Len(modules) \/ m = Len(modules) + 1
    BY <1>3
  <2>4. QED
    BY <2>1, <2>2, <2>3 DEF Linked
<1>14. LoadsPast'
  <2>1. \A m \in 1 .. Len(modules) : modules[m].load \in 0 .. loads
    BY DEF LInv, LoadsPast
  <2>2. \A m \in 1 .. Len(modules) + 1 : m \in 1 .. Len(modules) \/ m = Len(modules) + 1
    BY <1>3
  <2>3. r.load \in 0 .. loads + 1
    BY <1>0, <1>1
  <2>4. QED
    BY <1>0, <1>3, <2>1, <2>2, <2>3 DEF LoadsPast
<1>15. QED
  BY <1>8, <1>9, <1>10, <1>11, <1>12, <1>13, <1>14 DEF LInv

-----------------------------------------------------------------------------
(* What is below the mark is out of reach.                                 *)

\* A step keeps the invariant and what is below the mark.
Good == LInv' /\ OlderStep

\* The mark of the module being read.
LEMMA MarkIs ==
  ASSUME LInv, ctx # Idle
  PROVE  /\ ctx.mark.modules = Kept
         /\ ctx.mark.funcs = MarkOf("func") /\ ctx.mark.tables = MarkOf("table")
         /\ ctx.mark.memories = MarkOf("memory")
         /\ ctx.mark.globals = MarkOf("global")
         /\ MarkOf("func") \in 0 .. Len(funcs)
         /\ MarkOf("table") \in 0 .. Len(tables)
         /\ MarkOf("memory") \in 0 .. Len(memories)
         /\ MarkOf("global") \in 0 .. Len(globals)
         /\ ctx.mark \in MarkType
<1>1. /\ MarkOf("func") \in 0 .. Len(funcs)
      /\ MarkOf("table") \in 0 .. Len(tables)
      /\ MarkOf("memory") \in 0 .. Len(memories)
      /\ MarkOf("global") \in 0 .. Len(globals)
  BY KindsAre DEF LInv, Context, Marked, Items
<1>2. ctx.mark \in MarkType
  BY DEF LInv, Context, IsContext
<1>3. QED
  BY <1>1, <1>2 DEF Kept, MarkOf

\* Sequences that agree up to a position have the same prefix.
LEMMA SamePrefix ==
  ASSUME NEW T, NEW s \in Seq(T), NEW t \in Seq(T), NEW n \in Nat,
         n <= Len(s), n <= Len(t), \A i \in 1 .. n : t[i] = s[i]
  PROVE  SubSeq(t, 1, n) = SubSeq(s, 1, n)
<1>1. /\ SubSeq(s, 1, n) \in Seq(T) /\ Len(SubSeq(s, 1, n)) = n
      /\ \A i \in 1 .. n : SubSeq(s, 1, n)[i] = s[i]
  OBVIOUS
<1>2. /\ SubSeq(t, 1, n) \in Seq(T) /\ Len(SubSeq(t, 1, n)) = n
      /\ \A i \in 1 .. n : SubSeq(t, 1, n)[i] = t[i]
  OBVIOUS
<1>3. QED
  BY <1>1, <1>2, SeqEqual

\* A module below the mark looks the same, its exports aside if it is a host.
LEMMA KeptOlder ==
  ASSUME NEW i, IsModule(modules[i]), KeptOn(modules[i], modules'[i])
  PROVE  Older(i)' = Older(i)
<1>1. CASE modules'[i] = modules[i]
  BY <1>1 DEF Older
<1>2. CASE /\ modules[i].is_host
           /\ \E x \in Seq(ExportType) : modules'[i] = Updated(modules[i], "exports", x)
  <2> DEFINE old == modules[i]
             new == modules'[i]
             wiped == [old EXCEPT !.exports = <<>>]
             wiped2 == [new EXCEPT !.exports = <<>>]
  <2>1. PICK x \in Seq(ExportType) : new = Updated(old, "exports", x)
    BY <1>2
  <2>2. new.is_host
    BY <1>2, <2>1 DEF Updated, IsModule
  <2>3. Older(i) = wiped /\ Older(i)' = wiped2
    BY <1>2, <2>2 DEF Older
  <2>4. wiped2 = wiped
    <3>1. /\ DOMAIN new = DOMAIN old
          /\ \A f \in DOMAIN old : f # "exports" => new[f] = old[f]
      BY <2>1 DEF Updated
    <3>2. /\ wiped = [f \in DOMAIN old |-> IF f = "exports" THEN <<>> ELSE old[f]]
          /\ wiped2 = [f \in DOMAIN new |-> IF f = "exports" THEN <<>> ELSE new[f]]
      OBVIOUS
    <3> HIDE DEF wiped, wiped2, old, new
    <3>3. QED
      BY <3>1, <3>2
  <2>5. QED
    BY <2>3, <2>4
<1>3. QED
  BY <1>1, <1>2 DEF KeptOn

\* What a step must leave, given what it leaves of each vector.
LEMMA OlderFrom ==
  ASSUME LInv, ctx # Idle,
         funcs' \in Seq(FuncType), globals' \in Seq(GlobalType),
         MarkOf("func") <= Len(funcs'), MarkOf("global") <= Len(globals'),
         \A i \in 1 .. MarkOf("func") : funcs'[i] = funcs[i],
         \A i \in 1 .. MarkOf("global") : globals'[i] = globals[i],
         \A i \in 1 .. MarkOf("table") :
           /\ tables'[i].limits = tables[i].limits
           /\ Len(tables'[i].func_indexes) = Len(tables[i].func_indexes),
         \A i \in 1 .. Kept : KeptOn(modules[i], modules'[i]),
         loads \in failed' => wasm_mark_interpreter_environment' = ctx.mark
  PROVE  OlderStep
<1>1. /\ MarkOf("func") \in Nat /\ MarkOf("func") <= Len(funcs)
      /\ MarkOf("global") \in Nat /\ MarkOf("global") <= Len(globals)
      /\ funcs \in Seq(FuncType) /\ globals \in Seq(GlobalType)
  BY MarkIs, VectorTypes
<1>2. SubSeq(funcs', 1, MarkOf("func")) = SubSeq(funcs, 1, MarkOf("func"))
  BY <1>1, SamePrefix
<1>3. SubSeq(globals', 1, MarkOf("global")) = SubSeq(globals, 1, MarkOf("global"))
  BY <1>1, SamePrefix
<1>4. ASSUME NEW i \in 1 .. Kept PROVE Older(i)' = Older(i)
  BY SMTT(30), KeptOlder, ModuleTypes
<1>5. QED
  BY <1>2, <1>3, <1>4, MarkIs DEF OlderStep

\* Reading leaves what is below the mark.
LEMMA ReadOlder == ASSUME LInv, ReadOn PROVE OlderStep
<1>1. ctx # Idle /\ loads \notin failed' /\ failed' = failed
  BY DEF ReadOn, LInv, Context, historyVars
<1>2. /\ funcs' \in Seq(FuncType) /\ Len(funcs) <= Len(funcs')
      /\ Len(funcs) \in Nat /\ Len(funcs') \in Nat
      /\ \A i \in 1 .. Len(funcs) : funcs'[i] = funcs[i]
  BY VectorTypes DEF ReadOn, VectorOn
<1>3. /\ globals' \in Seq(GlobalType) /\ Len(globals) <= Len(globals')
      /\ Len(globals) \in Nat /\ Len(globals') \in Nat
      /\ \A i \in 1 .. Len(globals) : globals'[i] = globals[i]
  BY VectorTypes DEF ReadOn, VectorOn
<1>4. /\ \A i \in 1 .. Len(tables) :
           /\ tables'[i].limits = tables[i].limits
           /\ Len(tables'[i].func_indexes) = Len(tables[i].func_indexes)
      /\ Len(tables) \in Nat
  BY VectorTypes DEF ReadOn, TablesOn
<1>5. \A i \in 1 .. Kept : KeptOn(modules[i], modules'[i])
  BY DEF ReadOn, ModulesOn
<1>6. /\ MarkOf("func") \in 0 .. Len(funcs)
      /\ MarkOf("table") \in 0 .. Len(tables)
      /\ MarkOf("global") \in 0 .. Len(globals)
  BY <1>1, MarkIs
<1>7. /\ MarkOf("func") <= Len(funcs') /\ MarkOf("global") <= Len(globals')
      /\ \A i \in 1 .. MarkOf("func") : funcs'[i] = funcs[i]
      /\ \A i \in 1 .. MarkOf("global") : globals'[i] = globals[i]
      /\ \A i \in 1 .. MarkOf("table") :
           /\ tables'[i].limits = tables[i].limits
           /\ Len(tables'[i].func_indexes) = Len(tables[i].func_indexes)
  BY SMTT(30), <1>2, <1>3, <1>4, <1>6
<1>8. QED
  BY <1>1, <1>2, <1>3, <1>5, <1>7, OlderFrom

\* A callback that goes on reading is good.
LEMMA ReadGood ==
  ASSUME LInv, IInv', ReadOn, LinksOn(modules'), IndexSpaces', TablesLive'
  PROVE  Good
BY ReadKeeps, ReadOlder DEF Good

\* Undoing leaves what is below the mark, and nothing else.
LEMMA UndoOlder ==
  ASSUME LInv, ctx # Idle, NEW mems, MemoriesOn(mems), UndoAfter(mems)
  PROVE  OlderStep
<1>1. /\ funcs' = SubSeq(funcs, 1, MarkOf("func"))
      /\ tables' = SubSeq(tables, 1, MarkOf("table"))
      /\ globals' = SubSeq(globals, 1, MarkOf("global"))
      /\ modules' = SubSeq(modules, 1, Kept)
  BY DEF UndoAfter, Reset, MarkOf, Kept
<1>2. /\ VectorsTyped'
      /\ \A i \in 1 .. MarkOf("table") : tables'[i] = tables[i]
      /\ Len(funcs') = MarkOf("func") /\ Len(tables') = MarkOf("table")
      /\ Len(memories') = MarkOf("memory") /\ Len(globals') = MarkOf("global")
  <2>1. \A kind \in Kinds : Len(Items(kind)') = MarkOf(kind)
    BY UndoItems
  <2>2. QED
    BY <2>1, UndoItems, KindsAre DEF Items
<1>3. /\ MarkOf("func") \in Nat /\ MarkOf("func") \in 0 .. Len(funcs)
      /\ MarkOf("global") \in Nat /\ MarkOf("global") \in 0 .. Len(globals)
      /\ funcs \in Seq(FuncType) /\ globals \in Seq(GlobalType)
  BY MarkIs, VectorTypes
<1>4. \A i \in 1 .. MarkOf("func") : funcs'[i] = funcs[i]
  BY <1>1, <1>3
<1>5. \A i \in 1 .. MarkOf("global") : globals'[i] = globals[i]
  BY <1>1, <1>3
<1>6. /\ Len(modules') = Kept
      /\ \A m \in 1 .. Kept : modules'[m] = modules[m]
  <2>1. Kept \in 0 .. Len(modules) /\ IsSequence(modules)
    BY ModuleTypes
  <2>2. QED
    BY <1>1, <2>1, SubSequence
<1>7. wasm_mark_interpreter_environment' = ctx.mark
  <2>1. wasm_mark_interpreter_environment' =
          [modules |-> ctx.mark.modules, funcs |-> ctx.mark.funcs,
           tables |-> ctx.mark.tables, memories |-> ctx.mark.memories,
           globals |-> ctx.mark.globals]
    BY <1>2, <1>6, MarkIs DEF wasm_mark_interpreter_environment
  <2>2. ctx.mark \in MarkType
    BY MarkIs
  <2>3. QED
    BY <2>1, <2>2 DEF MarkType
<1>8. funcs' \in Seq(FuncType) /\ globals' \in Seq(GlobalType)
  BY <1>2 DEF VectorsTyped
<1>9. /\ MarkOf("func") <= Len(funcs') /\ MarkOf("global") <= Len(globals')
  BY <1>2, <1>3
<1>10. \A i \in 1 .. Kept : KeptOn(modules[i], modules'[i])
  BY <1>6 DEF KeptOn
<1>11. QED
  BY <1>2, <1>4, <1>5, <1>7, <1>8, <1>9, <1>10, OlderFrom

\* Undoing a module is good.
LEMMA UndoGood ==
  ASSUME LInv, IInv', ctx # Idle, NEW mems, MemoriesOn(mems), UndoAfter(mems)
  PROVE  Good
BY UndoLinked, UndoOlder DEF Good

\* Keeping a module leaves what was below the mark.
LEMMA KeepGood ==
  ASSUME LInv, IInv', ctx # Idle, NEW mems, MemoriesOn(mems), Keep(mems)
  PROVE  Good
<1>1. LInv'
  BY KeepStays, StaysKeeps
<1>2. /\ funcs' = funcs /\ tables' = tables /\ globals' = globals
      /\ failed' = failed /\ loads \notin failed
      /\ funcs \in Seq(FuncType) /\ globals \in Seq(GlobalType)
  BY VectorTypes DEF Keep, LInv, Context, historyVars
<1>3. MarkOf("func") <= Len(funcs) /\ MarkOf("global") <= Len(globals)
  BY MarkIs, VectorTypes
<1>4. ASSUME NEW m \in 1 .. Kept PROVE KeptOn(modules[m], modules'[m])
  <2> DEFINE r == Updated(modules[Len(modules)], "name", ctx.name)
  <2>1. modules' = Updated(modules, Len(modules), r)
    BY DEF Keep, BindName, Module, Updated
  <2>2. IsSequence(modules) /\ m \in 1 .. Len(modules) /\ m # Len(modules)
    <3>1. IsSequence(modules) /\ Len(modules) = Kept + 1 /\ Kept \in Nat
      BY ModuleTypes
    <3>2. QED
      BY <1>4, <3>1
  <2> HIDE DEF r
  <2>3. modules'[m] = modules[m]
    BY <2>1, <2>2, ReplaceSequence
  <2>4. QED
    BY <2>3 DEF KeptOn
<1>5. OlderStep
  BY <1>2, <1>3, <1>4, OlderFrom
<1>6. QED
  BY <1>1, <1>5 DEF Good

-----------------------------------------------------------------------------
(* What the callbacks do to the modules.                                   *)

\* The modules are left alone.
LEMMA ModulesSame ==
  ASSUME LInv, ctx # Idle
  PROVE  ModulesOn(modules) /\ LinksOn(modules)
<1>1. ModulesOn(modules)
  BY ModuleTypes DEF ModulesOn, KeptOn, LInv, Context
<1>2. QED
  BY <1>1 DEF LinksOn, ExportsOn, TableOn, MemoryOn

\* The host module or the module being read gets an export of an item.
LEMMA ExportAppended ==
  ASSUME LInv, ctx # Idle, NEW m \in 1 .. Len(modules),
         modules[m].is_host \/ m = Len(modules),
         NEW x \in ExportType, NamesItem(x.kind, x.index, x.load)'
  PROVE  /\ ModulesOn(append_export(modules, m, x))
         /\ LinksOn(append_export(modules, m, x))
         /\ \A j \in 1 .. Len(modules) :
              j # m => append_export(modules, m, x)[j] = modules[j]
<1> DEFINE old == modules[m]
           exports == Append(old.exports, x)
           r == Updated(old, "exports", exports)
           new == append_export(modules, m, x)
<1>0. /\ IsSequence(modules) /\ Len(modules) = Kept + 1 /\ Kept \in Nat
      /\ \A j \in 1 .. Len(modules) : IsModule(modules[j])
      /\ Len(modules) \in 1 .. Len(modules)
  <2>1. Len(modules) = Kept + 1 /\ Kept \in Nat
    BY ModuleTypes
  <2>2. Len(modules) \in 1 .. Len(modules)
    BY <2>1
  <2>3. QED
    BY <2>1, <2>2, ModuleTypes
<1>1. /\ IsModule(old) /\ old.exports \in Seq(ExportType)
  BY <1>0 DEF IsModule
<1>2. new = Updated(modules, m, r)
  BY DEF append_export, Updated
<1>3. /\ exports \in Seq(ExportType) /\ Len(exports) = Len(old.exports) + 1
      /\ exports[Len(old.exports) + 1] = x
      /\ \A e \in 1 .. Len(old.exports) : exports[e] = old.exports[e]
      /\ Len(old.exports) \in Nat
  BY <1>1
<1>4. /\ DOMAIN r = DOMAIN old /\ r["exports"] = exports
      /\ \A f \in DOMAIN old : f # "exports" => r[f] = old[f]
  BY <1>1 DEF Updated, IsModule
<1>5. /\ r.exports = exports /\ r.is_host = old.is_host /\ r.name = old.name
      /\ r.table_index = old.table_index /\ r.memory_index = old.memory_index
      /\ r.table_limits = old.table_limits /\ r.page_limits = old.page_limits
      /\ r.start = old.start /\ r.load = old.load
  BY <1>1, <1>4 DEF IsModule
<1>6. /\ IsSequence(new) /\ Len(new) = Len(modules)
      /\ \A j \in 1 .. Len(modules) : new[j] = IF j = m THEN r ELSE modules[j]
  <2> HIDE DEF r, new
  <2>1. QED
    BY <1>0, <1>2, ReplaceSequence
<1>7. KeptOn(old, r) \/ m = Len(modules)
  BY <1>3 DEF KeptOn
<1> HIDE DEF r, new, exports
<1>8. IsModule(r)
  BY <1>1, <1>3, <1>4, <1>5 DEF IsModule
<1>9. ModulesOn(new)
  <2>1. ASSUME NEW j \in 1 .. Kept PROVE KeptOn(modules[j], new[j])
    <3>1. j \in 1 .. Len(modules) /\ j # Len(modules)
      BY <1>0
    <3>2. CASE j = m
      BY <1>6, <1>7, <3>1, <3>2
    <3>3. CASE j # m
      BY <1>6, <3>1, <3>3 DEF KeptOn
    <3>4. QED
      BY <3>2, <3>3
  <2>2. /\ IsModule(new[Len(modules)]) /\ ~new[Len(modules)].is_host
        /\ new[Len(modules)].name = modules[Len(modules)].name
        /\ new[Len(modules)].load = modules[Len(modules)].load
    <3>1. ~modules[Len(modules)].is_host
      BY DEF LInv, Context
    <3>2. CASE Len(modules) = m
      BY <1>0, <1>5, <1>6, <1>8, <3>1, <3>2
    <3>3. CASE Len(modules) # m
      BY <1>0, <1>6, <3>1, <3>3
    <3>4. QED
      BY <3>2, <3>3
  <2>3. QED
    BY <1>6, <2>1, <2>2 DEF ModulesOn
<1>10. ExportsOn(new)
  <2>1. SUFFICES ASSUME NEW j \in 1 .. Len(modules),
                        NEW e \in 1 .. Len(new[j].exports)
                 PROVE  \/ /\ e \in 1 .. Len(modules[j].exports)
                           /\ new[j].exports[e] = modules[j].exports[e]
                        \/ /\ modules[j].is_host \/ j = Len(modules)
                           /\ \E y \in ExportType :
                                /\ y = new[j].exports[e]
                                /\ NamesItem(y.kind, y.index, y.load)'
    BY DEF ExportsOn
  <2>2. CASE j # m
    BY <1>6, <2>1, <2>2
  <2>3. CASE j = m
    <3>1. new[j].exports = exports /\ modules[j].exports = old.exports
      BY <1>5, <1>6, <2>3
    <3>2. e \in 1 .. Len(old.exports) \/ e = Len(old.exports) + 1
      BY <1>3, <2>1, <3>1
    <3>3. CASE e \in 1 .. Len(old.exports)
      BY <1>3, <3>1, <3>3
    <3>4. CASE e = Len(old.exports) + 1
      <4>1. x = new[j].exports[e]
        BY <1>3, <3>1, <3>4
      <4>2. QED
        BY <2>3, <4>1
    <3>5. QED
      BY <3>2, <3>3, <3>4
  <2>4. QED
    BY <2>2, <2>3
<1>11. TableOn(new) /\ MemoryOn(new)
  BY <1>0, <1>5, <1>6 DEF TableOn, MemoryOn
<1>12. QED
  BY <1>6, <1>9, <1>10, <1>11 DEF LinksOn, new

\* The module being read is changed in other fields than its exports.
LEMMA CurrentChanged ==
  ASSUME LInv, ctx # Idle, NEW ms, ModulesOn(ms), ExportsOn(ms),
         NEW r, IsModule(r), ~r.is_host, r.name = modules[Len(modules)].name,
         r.load = modules[Len(modules)].load,
         r.exports = ms[Len(modules)].exports
  PROVE  /\ ModulesOn(Updated(ms, Len(modules), r))
         /\ ExportsOn(Updated(ms, Len(modules), r))
         /\ Updated(ms, Len(modules), r)[Len(modules)] = r
<1> DEFINE n == Len(modules)
           new == Updated(ms, n, r)
<1>0. /\ n = Kept + 1 /\ Kept \in Nat /\ n \in 1 .. n
      /\ IsSequence(ms) /\ Len(ms) = n
  BY ModuleTypes DEF ModulesOn
<1>1. /\ IsSequence(new) /\ Len(new) = n
      /\ \A j \in 1 .. n : new[j] = IF j = n THEN r ELSE ms[j]
  <2> HIDE DEF n
  <2>1. QED
    BY <1>0, ReplaceSequence
<1> HIDE DEF new
<1>2. ModulesOn(new)
  BY <1>0, <1>1 DEF ModulesOn
<1>3. \A j \in 1 .. n : new[j].exports = ms[j].exports
  BY <1>0, <1>1
<1>4. ExportsOn(new)
  BY <1>3 DEF ExportsOn
<1>5. QED
  BY <1>0, <1>1, <1>2, <1>4 DEF new

\* What an import that resolves gives: an item of a module that stays, or a
\* new one of the host module.
Resolved(import, field, kind) ==
  /\ import.module \in 1 .. Kept
  /\ import.is_host \in BOOLEAN
  /\ import.is_host => /\ modules[import.module].is_host
                       /\ field \in HostFields
                       /\ import.index = Len(Items(kind)) + 1
  /\ ~import.is_host => import.index \in 1 .. Len(Items(kind))

\* An import that resolves does so to an item.
LEMMA ImportFound ==
  ASSUME LInv, ctx # Idle, NEW as, NEW field, NEW kind \in Kinds,
         NEW import, import = Import(as, field, kind), import.ok
  PROVE  Resolved(import, field, kind)
<1> USE DEF Resolved
<1> DEFINE names == [i \in DOMAIN registered_module_bindings |->
                       registered_module_bindings[i][1]]
           b == Found(names, as)
           m == wasm_find_binding_index_by_name(registered_module_bindings, as)
           fields == [i \in DOMAIN modules[m].exports |-> modules[m].exports[i].name]
           e == wasm_get_interpreter_export_by_name(modules[m], field)
<1>1. m # 0
  BY DEF Import
<1>2. m \in 1 .. Kept
  <2>1. b # 0 /\ m = registered_module_bindings[b][2]
    BY <1>1 DEF wasm_find_binding_index_by_name
  <2>2. /\ IsSequence(registered_module_bindings)
        /\ \A i \in 1 .. Len(registered_module_bindings) :
             registered_module_bindings[i][2] \in 1 .. Kept
    BY DEF LInv, IInv, LeadsBelow
  <2>3. /\ Len(registered_module_bindings) \in Nat
        /\ DOMAIN names = 1 .. Len(registered_module_bindings)
    BY <2>2, LenNat
  <2> HIDE DEF names
  <2>4. b \in 1 .. Len(registered_module_bindings)
    BY <2>1, <2>3, FoundIn
  <2>5. QED
    BY <2>1, <2>2, <2>4
<1> HIDE DEF m
<1>3. m \in 1 .. Len(modules) /\ IsModule(modules[m]) /\ m <= Kept
  BY <1>2, ModuleTypes
<1>4. CASE modules[m].is_host
  <2>1. import = [ok |-> field = HostField[kind], is_host |-> TRUE, module |-> m,
                  index |-> Len(Items(kind)) + 1]
    BY <1>1, <1>4 DEF Import, m
  <2>2. field \in HostFields
    <3> DEFINE resolves == (field = HostField[kind])
    <3>1. import = [ok |-> resolves, is_host |-> TRUE, module |-> m,
                    index |-> Len(Items(kind)) + 1]
      BY <2>1
    <3> HIDE DEF resolves
    <3>2. import.ok = resolves
      BY <3>1
    <3>3. resolves
      BY <3>2
    <3>4. field = HostField[kind]
      BY <3>3 DEF resolves
    <3>5. QED
      BY <3>4 DEF HostFields
  <2>3. QED
    BY <1>2, <1>4, <2>1, <2>2
<1>5. CASE ~modules[m].is_host
  <2>1. /\ e # 0
        /\ import = [ok |-> modules[m].exports[e].kind = kind, is_host |-> FALSE,
                     module |-> m, index |-> modules[m].exports[e].index]
    BY <1>1, <1>5 DEF Import, m
  <2>2. modules[m].exports \in Seq(ExportType)
    BY <1>3 DEF IsModule
  <2>3. e \in 1 .. Len(modules[m].exports)
    <3>1. e = Found(fields, field)
      BY DEF wasm_get_interpreter_export_by_name
    <3>2. Len(modules[m].exports) \in Nat
          /\ DOMAIN fields = 1 .. Len(modules[m].exports)
      BY <2>2
    <3> HIDE DEF fields, e
    <3>3. QED
      BY <2>1, <3>1, <3>2, FoundIn
  <2> HIDE DEF e
  <2>4. HoldsExport(m, modules[m].exports[e])
    BY <1>3, <2>3 DEF LInv, Linked
  <2>5. modules[m].exports[e].kind = kind
    <3> DEFINE resolves == (modules[m].exports[e].kind = kind)
    <3>1. import = [ok |-> resolves, is_host |-> FALSE, module |-> m,
                    index |-> modules[m].exports[e].index]
      BY <2>1
    <3> HIDE DEF resolves
    <3>2. import.ok = resolves
      BY <3>1
    <3>3. resolves
      BY <3>2
    <3>4. QED
      BY <3>3 DEF resolves
  <2>6. NamesItem(kind, modules[m].exports[e].index, modules[m].exports[e].load)
    BY <1>5, <2>4, <2>5 DEF HoldsExport
  <2>7. modules[m].exports[e].index \in 1 .. Len(Items(kind))
    BY <2>6, ItemsTyped DEF NamesItem
  <2>8. QED
    BY <1>2, <2>1, <2>7
<1>6. QED
  BY <1>4, <1>5

\* The host module's export of the item it makes on demand.
LEMMA HostExportOn ==
  ASSUME LInv, ctx # Idle, loads' = loads, NEW field, NEW kind \in Kinds,
         NEW import, import.module \in 1 .. Kept, import.is_host \in BOOLEAN,
         import.is_host => /\ modules[import.module].is_host
                           /\ field \in HostFields
                           /\ import.index \in Indexes
                           /\ NamesItem(kind, import.index, loads)'
  PROVE  /\ ModulesOn(HostExported(import, field, kind))
         /\ LinksOn(HostExported(import, field, kind))
         /\ HostExported(import, field, kind)[Len(modules)] = modules[Len(modules)]
<1>1. CASE import.is_host
  <2> DEFINE x == Export(field, kind, import.index, loads)
             m == import.module
  <2>1. /\ x \in ExportType /\ x.kind = kind /\ x.index = import.index
        /\ x.load = loads
    BY <1>1, VectorTypes DEF Export, ExportType
  <2>2. m \in 1 .. Len(modules) /\ Len(modules) \in 1 .. Len(modules)
        /\ m # Len(modules)
    BY ModuleTypes
  <2>3. HostExported(import, field, kind) = append_export(modules, m, x)
    BY <1>1 DEF HostExported
  <2>4. PICK y \in ExportType : y = x
    BY <2>1
  <2>5. NamesItem(y.kind, y.index, y.load)'
    <3>1. NamesItem(kind, import.index, loads)'
      BY <1>1
    <3>2. QED
      BY <2>1, <2>4, <3>1 DEF NamesItem
  <2>6. HostExported(import, field, kind) = append_export(modules, m, y)
    BY <2>3, <2>4
  <2> HIDE DEF x, m
  <2>7. modules[m].is_host
    BY <1>1 DEF m
  <2>8. QED
    BY <2>2, <2>5, <2>6, <2>7, ExportAppended
<1>2. CASE ~import.is_host
  BY <1>2, ModulesSame DEF HostExported
<1>3. QED
  BY <1>1, <1>2

-----------------------------------------------------------------------------
(* What the callbacks do to the context.                                   *)

\* The reader enters a section.
LEMMA ContextSection ==
  ASSUME NEW c, IsContext(c), NEW section, NEW count, NEW code \in Nat,
         code = SectionCode(section), c.section <= code,
         NEW d, d = In(c, section, count)
  PROVE  /\ IsContext(d) /\ d.mark = c.mark /\ d.section = code
         /\ d.func_index_mapping = c.func_index_mapping
         /\ d.num_func_imports = c.num_func_imports
         /\ d.global_index_mapping = c.global_index_mapping
         /\ d.num_global_imports = c.num_global_imports
<1>1. /\ DOMAIN d = DOMAIN c /\ d.section = code
      /\ \A f \in DOMAIN c : f \notin {"section", "entries"} => d[f] = c[f]
  BY DEF In, IsContext
<1>2. /\ d.mark = c.mark /\ d.name = c.name
      /\ d.func_index_mapping = c.func_index_mapping
      /\ d.num_func_imports = c.num_func_imports
      /\ d.global_index_mapping = c.global_index_mapping
      /\ d.num_global_imports = c.num_global_imports
  BY <1>1 DEF IsContext
<1>3. /\ code <= 1 => c.section <= 1
      /\ code < 5 => c.section < 5
  BY DEF IsContext
<1>4. QED
  BY <1>1, <1>2, <1>3 DEF IsContext

\* A field of the context is assigned.
LEMMA ContextFields ==
  ASSUME NEW c, IsContext(c), NEW f \in DOMAIN c, NEW v
  PROVE  /\ DOMAIN Updated(c, f, v) = DOMAIN c
         /\ Updated(c, f, v)[f] = v
         /\ \A g \in DOMAIN c : g # f => Updated(c, f, v)[g] = c[g]
BY DEF Updated, IsContext

\* The space of function indexes is assigned.
FuncsAssigned(c, d, f, n) ==
  \/ d = [c EXCEPT !.func_index_mapping = f, !.num_func_imports = n]
  \/ d = [c EXCEPT !.func_index_mapping = f] /\ n = c.num_func_imports

\* The rest of the context stays.
FuncsContext(c, d, f, n) ==
  /\ IsContext(d) /\ d.mark = c.mark
  /\ d.func_index_mapping = f /\ d.num_func_imports = n
  /\ d.global_index_mapping = c.global_index_mapping
  /\ d.num_global_imports = c.num_global_imports

\* The context stays one.
LEMMA ContextFuncs ==
  ASSUME NEW c, IsContext(c), NEW f \in Seq(Nat), NEW n \in Nat,
         c.section <= 1 => Len(f) = n, NEW d, FuncsAssigned(c, d, f, n)
  PROVE  FuncsContext(c, d, f, n)
<1> USE DEF FuncsAssigned, FuncsContext
<1>1. /\ DOMAIN d = DOMAIN c
      /\ d["func_index_mapping"] = f /\ d["num_func_imports"] = n
      /\ \A g \in DOMAIN c : g \notin {"func_index_mapping", "num_func_imports"}
                               => d[g] = c[g]
  BY DEF IsContext
<1>2. /\ d.mark = c.mark /\ d.name = c.name /\ d.section = c.section
      /\ d.func_index_mapping = f /\ d.num_func_imports = n
      /\ d.global_index_mapping = c.global_index_mapping
      /\ d.num_global_imports = c.num_global_imports
  BY <1>1 DEF IsContext
<1>3. QED
  BY <1>1, <1>2 DEF IsContext

\* The space of global indexes is assigned.
GlobalsAssigned(c, d, f, n) ==
  \/ d = [c EXCEPT !.global_index_mapping = f, !.num_global_imports = n]
  \/ d = [c EXCEPT !.global_index_mapping = f] /\ n = c.num_global_imports

\* The rest of the context stays.
GlobalsContext(c, d, f, n) ==
  /\ IsContext(d) /\ d.mark = c.mark
  /\ d.global_index_mapping = f /\ d.num_global_imports = n
  /\ d.func_index_mapping = c.func_index_mapping
  /\ d.num_func_imports = c.num_func_imports

\* The context stays one.
LEMMA ContextGlobals ==
  ASSUME NEW c, IsContext(c), NEW f \in Seq(Nat), NEW n \in Nat,
         c.section < 5 => Len(f) = n, NEW d, GlobalsAssigned(c, d, f, n)
  PROVE  GlobalsContext(c, d, f, n)
<1> USE DEF GlobalsAssigned, GlobalsContext
<1>1. /\ DOMAIN d = DOMAIN c
      /\ d["global_index_mapping"] = f /\ d["num_global_imports"] = n
      /\ \A g \in DOMAIN c : g \notin {"global_index_mapping", "num_global_imports"}
                               => d[g] = c[g]
  BY DEF IsContext
<1>2. /\ d.mark = c.mark /\ d.name = c.name /\ d.section = c.section
      /\ d.global_index_mapping = f /\ d.num_global_imports = n
      /\ d.func_index_mapping = c.func_index_mapping
      /\ d.num_func_imports = c.num_func_imports
  BY <1>1 DEF IsContext
<1>3. QED
  BY <1>1, <1>2 DEF IsContext

\* An index space leads to items, past its imports to those of the module.
Space(mapping, num, items) ==
  \A i \in DOMAIN mapping :
    /\ mapping[i] \in DOMAIN items
    /\ i > num => items[mapping[i]].load = loads

\* Items are appended.
LEMMA SpaceSame ==
  ASSUME NEW mapping, NEW num, NEW T, NEW s \in Seq(T), NEW new,
         Space(mapping, num, s), VectorOn(s, new, T)
  PROVE  Space(mapping, num, new)
<1>1. /\ DOMAIN s = 1 .. Len(s) /\ DOMAIN new = 1 .. Len(new)
      /\ Len(s) \in Nat /\ Len(new) \in Nat /\ Len(s) <= Len(new)
      /\ \A i \in 1 .. Len(s) : new[i] = s[i]
  BY DEF VectorOn
<1>2. ASSUME NEW i \in 1 .. Len(s) PROVE i \in 1 .. Len(new)
  BY <1>1
<1>3. QED
  BY <1>1, <1>2 DEF Space

\* An import is added to a space of imports.
LEMMA SpaceImport ==
  ASSUME NEW mapping \in Seq(Nat), NEW num \in Nat, Len(mapping) = num,
         NEW T, NEW s \in Seq(T), NEW new, Space(mapping, num, s),
         VectorOn(s, new, T), NEW index \in 1 .. Len(new)
  PROVE  /\ Space(Append(mapping, index), num + 1, new)
         /\ Append(mapping, index) \in Seq(Nat)
         /\ Len(Append(mapping, index)) = num + 1
<1>1. Space(mapping, num, new)
  BY SpaceSame
<1>2. Len(new) \in Nat /\ DOMAIN new = 1 .. Len(new)
  BY DEF VectorOn
<1>3. index \in Nat
  BY <1>2
<1> DEFINE ext == Append(mapping, index)
<1>4. /\ ext \in Seq(Nat) /\ Len(ext) = num + 1 /\ DOMAIN ext = 1 .. num + 1
      /\ ext[num + 1] = index
      /\ \A i \in 1 .. num : ext[i] = mapping[i]
      /\ DOMAIN mapping = 1 .. num
  BY <1>3
<1> HIDE DEF ext
<1>5. ASSUME NEW i \in 1 .. num + 1
      PROVE  ext[i] \in DOMAIN new /\ ~(i > num + 1)
  <2>1. CASE i \in 1 .. num
    BY <1>1, <1>4, <2>1 DEF Space
  <2>2. CASE i = num + 1
    BY <1>2, <1>4, <2>2
  <2>3. QED
    BY <2>1, <2>2
<1>6. Space(ext, num + 1, new)
  BY <1>4, <1>5 DEF Space
<1>7. QED
  BY <1>4, <1>6 DEF ext

\* The module's own items are added to a space of imports: they are numbered
\* as they are appended, whatever the imports appended before.
LEMMA SpaceDefined ==
  ASSUME NEW mapping \in Seq(Nat), NEW num \in Nat, Len(mapping) = num,
         NEW T, NEW s \in Seq(T), NEW new, Space(mapping, num, s),
         VectorOn(s, new, T), NEW count \in Nat, Len(new) = Len(s) + count
  PROVE  /\ Space(DefinedMapping(mapping, num, Len(s), count), num, new)
         /\ DefinedMapping(mapping, num, Len(s), count) \in Seq(Nat)
<1>1. Space(mapping, num, new)
  BY SpaceSame
<1>2. /\ Len(s) \in Nat /\ DOMAIN new = 1 .. Len(s) + count
      /\ DOMAIN mapping = 1 .. num
      /\ \A i \in Len(s) + 1 .. Len(s) + count : new[i].load = loads
  BY DEF VectorOn
<1> DEFINE ext == DefinedMapping(mapping, num, Len(s), count)
           size == Len(s)
<1>3. ext = [i \in 1 .. num + count |->
               IF i <= num THEN mapping[i] ELSE size + i - num]
  BY DEF DefinedMapping
<1> HIDE DEF ext, size
<1>4. size \in Nat
  BY <1>2 DEF size
<1>5. ASSUME NEW i \in 1 .. num + count
      PROVE  /\ ext[i] \in Nat /\ ext[i] \in DOMAIN new
             /\ i > num => new[ext[i]].load = loads
  <2>1. CASE i <= num
    <3>1. i \in 1 .. num /\ ext[i] = mapping[i]
      BY <1>3, <2>1
    <3>2. mapping[i] \in DOMAIN new
      BY <1>1, <1>2, <3>1 DEF Space
    <3>3. ~(i > num)
      BY <2>1
    <3>4. QED
      BY <1>2, <3>1, <3>2, <3>3
  <2>2. CASE ~(i <= num)
    <3>1. ext[i] = size + i - num
      BY <1>3, <2>2
    <3>2. size + i - num \in size + 1 .. size + count
      BY <1>4, <2>2
    <3>3. size + i - num \in 1 .. size + count /\ size + i - num \in Nat
      BY <1>4, <3>2
    <3>4. QED
      BY <1>2, <3>1, <3>2, <3>3 DEF size
  <2>3. QED
    BY <2>1, <2>2
<1>6. DOMAIN ext = 1 .. num + count
  BY <1>3
<1>7. ext \in Seq(Nat)
  <2>1. ext \in [1 .. num + count -> Nat]
    BY <1>3, <1>5
  <2>2. PICK n \in Nat : n = num + count
    OBVIOUS
  <2>3. ext \in [1 .. n -> Nat]
    BY <2>1, <2>2
  <2>4. QED
    BY <2>3, SeqDef
<1>8. Space(ext, num, new)
  BY <1>5, <1>6 DEF Space
<1>9. QED
  BY <1>7, <1>8 DEF ext, size

\* The index spaces while a module is read.
LEMMA SpacesAre ==
  ASSUME LInv, ctx # Idle
  PROVE  /\ IsContext(ctx)
         /\ Space(ctx.func_index_mapping, ctx.num_func_imports, funcs)
         /\ Space(ctx.global_index_mapping, ctx.num_global_imports, globals)
BY DEF LInv, Context, IndexSpaces, Space

\* The index spaces after a step.
LEMMA SpacesNext ==
  ASSUME loads' = loads,
         Space(ctx'.func_index_mapping, ctx'.num_func_imports, funcs'),
         Space(ctx'.global_index_mapping, ctx'.num_global_imports, globals')
  PROVE  IndexSpaces'
BY DEF IndexSpaces, Space

\* The index spaces stay.
LEMMA SpacesSame ==
  ASSUME LInv, ReadOn,
         ctx'.func_index_mapping = ctx.func_index_mapping,
         ctx'.num_func_imports = ctx.num_func_imports,
         ctx'.global_index_mapping = ctx.global_index_mapping,
         ctx'.num_global_imports = ctx.num_global_imports
  PROVE  IndexSpaces'
<1>1. /\ Space(ctx'.func_index_mapping, ctx'.num_func_imports, funcs)
      /\ Space(ctx'.global_index_mapping, ctx'.num_global_imports, globals)
      /\ loads' = loads
      /\ VectorOn(funcs, funcs', FuncType)
      /\ VectorOn(globals, globals', GlobalType)
  BY SpacesAre DEF ReadOn, historyVars
<1>2. funcs \in Seq(FuncType) /\ globals \in Seq(GlobalType)
  BY VectorTypes
<1>3. /\ Space(ctx'.func_index_mapping, ctx'.num_func_imports, funcs')
      /\ Space(ctx'.global_index_mapping, ctx'.num_global_imports, globals')
  BY <1>1, <1>2, SpaceSame
<1>4. QED
  BY <1>1, <1>3, SpacesNext

\* The entries of the tables stay, and those of a new table are empty.
LEMMA EntriesSame ==
  ASSUME LInv, ReadOn,
         \A t \in 1 .. Len(tables') :
           \/ t \in 1 .. Len(tables) /\ tables'[t] = tables[t]
           \/ \A i \in DOMAIN tables'[t].func_indexes :
                tables'[t].func_indexes[i].func = 0
  PROVE  TablesLive'
<1>1. "func" \in Kinds /\ failed' = failed
  BY KindsAre DEF ReadOn, historyVars
<1>2. DOMAIN tables' = 1 .. Len(tables') /\ DOMAIN tables = 1 .. Len(tables)
  BY VectorTypes DEF ReadOn, TablesOn
<1>3. ASSUME NEW f, NEW l, NamesItem("func", f, l)
      PROVE  NamesItem("func", f, l)'
  BY <1>1, <1>3, NamesOn
<1>4. ASSUME NEW t \in 1 .. Len(tables'), NEW i \in DOMAIN tables'[t].func_indexes
      PROVE  LET entry == tables'[t].func_indexes[i]
             IN  \/ entry.func = 0
                 \/ entry.load \in failed'
                 \/ entry.func \in DOMAIN funcs' /\ funcs'[entry.func].load = entry.load
  <2>1. CASE t \in 1 .. Len(tables) /\ tables'[t] = tables[t]
    <3>1. PICK entry : entry = tables[t].func_indexes[i]
      OBVIOUS
    <3>2. \/ entry.func = 0
          \/ entry.load \in failed
          \/ NamesItem("func", entry.func, entry.load)
      BY <1>2, <1>4, <2>1, <3>1 DEF LInv, TablesLive
    <3>3. NamesItem("func", entry.func, entry.load) =>
            entry.func \in DOMAIN funcs' /\ funcs'[entry.func].load = entry.load
      BY <1>3 DEF NamesItem, Items
    <3>4. QED
      BY <1>1, <2>1, <3>1, <3>2, <3>3
  <2>2. CASE \A j \in DOMAIN tables'[t].func_indexes :
                tables'[t].func_indexes[j].func = 0
    BY <1>4, <2>2
  <2>3. QED
    BY <2>1, <2>2
<1>5. QED
  BY <1>2, <1>4 DEF TablesLive, NamesItem, Items

\* The vectors that a callback leaves alone.
LEMMA VectorsSame ==
  ASSUME LInv
  PROVE  /\ VectorOn(funcs, funcs, FuncType)
         /\ VectorOn(tables, tables, TableType) /\ TablesOn(tables)
         /\ VectorOn(memories, memories, MemoryType)
         /\ VectorOn(globals, globals, GlobalType)
BY VectorTypes, VectorSame, TablesAppended

\* A field of a module is assigned.
LEMMA ModuleFields ==
  ASSUME NEW r, IsModule(r), NEW f \in DOMAIN r, NEW v
  PROVE  /\ DOMAIN Updated(r, f, v) = DOMAIN r
         /\ Updated(r, f, v)[f] = v
         /\ \A g \in DOMAIN r : g # f => Updated(r, f, v)[g] = r[g]
BY DEF Updated, IsModule

\* A field of the module being read is assigned.
LEMMA FieldAssigned ==
  ASSUME LInv, ctx # Idle, NEW ms, ModulesOn(ms), ExportsOn(ms),
         NEW f \in {"table_index", "table_limits", "memory_index",
                    "page_limits", "start"},
         NEW v, IsModule(Updated(ms[Len(modules)], f, v))
  PROVE  /\ ModulesOn(Assigned(ms, Len(modules), f, v))
         /\ ExportsOn(Assigned(ms, Len(modules), f, v))
         /\ Assigned(ms, Len(modules), f, v)[Len(modules)]
              = Updated(ms[Len(modules)], f, v)
<1> DEFINE old == ms[Len(modules)]
           r == Updated(old, f, v)
<1>1. /\ IsModule(old) /\ ~old.is_host
      /\ old.name = modules[Len(modules)].name
      /\ old.load = modules[Len(modules)].load
  BY DEF ModulesOn
<1>2. f \in DOMAIN old /\ f \notin {"is_host", "name", "exports", "load"}
  BY <1>1 DEF IsModule
<1>3. /\ r.is_host = old.is_host /\ r.name = old.name
      /\ r.exports = old.exports /\ r.load = old.load
  <2>1. \A g \in DOMAIN old : g # f => r[g] = old[g]
    BY <1>1, <1>2, ModuleFields
  <2> HIDE DEF r, old
  <2>2. QED
    BY <1>1, <1>2, <2>1 DEF IsModule
<1>4. IsModule(r)
  OBVIOUS
<1>5. Assigned(ms, Len(modules), f, v) = Updated(ms, Len(modules), r)
  BY DEF Assigned
<1> HIDE DEF r
<1>6. QED
  BY <1>1, <1>3, <1>4, <1>5, CurrentChanged DEF r

\* An imported item is in the vector, where the host module just put it or
\* where it was.
Imported(s, new, is_host, index, x) ==
  /\ index \in 1 .. Len(new) /\ index \in Indexes /\ index # 0
  /\ is_host => new[index] = x
  /\ ~is_host => new = s
  /\ Len(new) \in Nat /\ DOMAIN new = 1 .. Len(new)

\* The host module appends, other modules do not.
LEMMA ImportedItem ==
  ASSUME NEW T, NEW s \in Seq(T), Len(s) < MaxItems, NEW x \in T, x.load = loads,
         NEW is_host \in BOOLEAN, NEW index,
         is_host => index = Len(s) + 1, ~is_host => index \in 1 .. Len(s),
         NEW new, new = IF is_host THEN Append(s, x) ELSE s
  PROVE  VectorOn(s, new, T) /\ Imported(s, new, is_host, index, x)
<1> USE DEF Imported
<1>0. MaxItems \in Nat /\ Len(s) \in Nat
  BY EnvironmentAssumption
<1>1. CASE is_host
  <2>1. new = Append(s, x) /\ index = Len(s) + 1
    BY <1>1
  <2>2. VectorOn(s, new, T) /\ new[Len(s) + 1] = x /\ Len(new) = Len(s) + 1
    BY <2>1, VectorAppend
  <2>3. Len(new) \in Nat /\ DOMAIN new = 1 .. Len(new)
    BY <2>2 DEF VectorOn
  <2>4. QED
    BY <1>0, <1>1, <2>1, <2>2, <2>3 DEF Indexes
<1>2. CASE ~is_host
  <2>1. new = s /\ index \in 1 .. Len(s)
    BY <1>2
  <2>2. VectorOn(s, s, T)
    BY <1>0, VectorSame
  <2>3. QED
    BY <1>0, <1>2, <2>1, <2>2 DEF Indexes
<1>3. QED
  BY <1>1, <1>2

\* An imported function is found, or the module is undone.
LEMMA OnImportFuncGood ==
  ASSUME LInv, IInv', NEW as, NEW field, NEW sig \in Sigs,
         OnImportFunc(as, field, sig)
  PROVE  Good
<1>1. ctx # Idle /\ ctx.section = 1 /\ Len(funcs) < MaxItems /\ "func" \in Kinds
  BY KindsAre DEF OnImportFunc, CanImport, At, Reading, Items
<1>2. CASE Undo
  BY <1>1, <1>2, MemoriesSame, UndoGood DEF Undo
<1>3. PICK import : import = Import(as, field, "func")
  OBVIOUS
<1>4. CASE /\ import.ok
           /\ funcs' = IF import.is_host THEN Append(funcs, Func(sig, TRUE))
                       ELSE funcs
           /\ modules' = HostExported(import, field, "func")
           /\ ctx' = [In(ctx, "import", 1) EXCEPT
                !.func_index_mapping = Append(@, import.index),
                !.num_func_imports = @ + 1]
           /\ UNCHANGED <<tables, memories, globals, bindingVars,
                          historyVars, status>>
  <2>1. /\ import.module \in 1 .. Kept /\ import.is_host \in BOOLEAN
        /\ import.is_host => /\ modules[import.module].is_host
                             /\ field \in HostFields
                             /\ import.index = Len(funcs) + 1
        /\ ~import.is_host => import.index \in 1 .. Len(funcs)
    <3>1. Items("func") = funcs /\ import.ok
      BY <1>4 DEF Items
    <3>2. Resolved(import, field, "func")
      BY <1>1, <1>3, <3>1, ImportFound
    <3>3. QED
      BY <3>1, <3>2 DEF Resolved
  <2>2. Func(sig, TRUE) \in FuncType /\ Func(sig, TRUE).load = loads
    BY VectorTypes DEF Func, FuncType
  <2>3. /\ VectorOn(funcs, funcs', FuncType)
        /\ import.index \in 1 .. Len(funcs') /\ import.index \in Indexes
        /\ import.is_host => funcs'[import.index] = Func(sig, TRUE)
        /\ DOMAIN funcs' = 1 .. Len(funcs')
    <3>1. funcs \in Seq(FuncType) /\ Len(funcs) < MaxItems
      BY <1>1, VectorTypes
    <3>2. PICK y \in FuncType : y = Func(sig, TRUE) /\ y.load = loads
      BY <2>2
    <3>3. PICK h \in BOOLEAN : h = import.is_host
      BY <2>1
    <3>4. PICK index : index = import.index
      OBVIOUS
    <3>5. /\ funcs' = IF h THEN Append(funcs, y) ELSE funcs
          /\ h => index = Len(funcs) + 1
          /\ ~h => index \in 1 .. Len(funcs)
      BY <1>4, <2>1, <2>2, <3>2, <3>3, <3>4
    <3>6. /\ VectorOn(funcs, funcs', FuncType)
          /\ Imported(funcs, funcs', h, index, y)
      BY <3>1, <3>2, <3>5, ImportedItem
    <3>7. QED
      BY <3>2, <3>3, <3>4, <3>6 DEF Imported
  <2>4. loads' = loads /\ (import.is_host => NamesItem("func", import.index, loads)')
    BY <1>4, <2>2, <2>3 DEF NamesItem, Items, historyVars
  <2>5. ModulesOn(modules') /\ LinksOn(modules')
    BY <1>1, <1>4, <2>1, <2>3, <2>4, HostExportOn
  <2>6. PICK c : c = In(ctx, "import", 1)
    OBVIOUS
  <2>7. /\ IsContext(c) /\ c.mark = ctx.mark
        /\ c.func_index_mapping = ctx.func_index_mapping
        /\ c.num_func_imports = ctx.num_func_imports
        /\ c.global_index_mapping = ctx.global_index_mapping
        /\ c.num_global_imports = ctx.num_global_imports
    <3>1. IsContext(ctx) /\ 1 \in Nat /\ 1 = SectionCode("import") /\ ctx.section <= 1
      BY <1>1, SpacesAre, SectionCodes
    <3>2. QED
      BY <2>6, <3>1, ContextSection
  <2> DEFINE mapping == ctx.func_index_mapping
             num == ctx.num_func_imports
  <2>8. /\ mapping \in Seq(Nat) /\ num \in Nat /\ Len(mapping) = num
        /\ Space(mapping, num, funcs)
    BY <1>1, SpacesAre DEF IsContext
  <2>9. /\ Space(Append(mapping, import.index), num + 1, funcs')
        /\ Append(mapping, import.index) \in Seq(Nat)
        /\ Len(Append(mapping, import.index)) = num + 1
    <3> HIDE DEF mapping, num
    <3>1. funcs \in Seq(FuncType)
      BY VectorTypes
    <3>2. QED
      BY <2>3, <2>8, <3>1, SpaceImport
  <2>10. /\ IsContext(ctx') /\ ctx'.mark = ctx.mark
         /\ ctx'.func_index_mapping = Append(mapping, import.index)
         /\ ctx'.num_func_imports = num + 1
         /\ ctx'.global_index_mapping = ctx.global_index_mapping
         /\ ctx'.num_global_imports = ctx.num_global_imports
    <3>1. ctx' = [c EXCEPT !.func_index_mapping = Append(mapping, import.index),
                           !.num_func_imports = num + 1]
      BY <1>4, <2>6, <2>7
    <3>2. num + 1 \in Nat
      BY <2>8
    <3>3. PICK f \in Seq(Nat) : f = Append(mapping, import.index)
      BY <2>9
    <3>4. PICK n \in Nat : n = num + 1
      BY <3>2
    <3>5. ctx' = [c EXCEPT !.func_index_mapping = f, !.num_func_imports = n]
      BY <3>1, <3>3, <3>4
    <3>6. Len(f) = n
      BY <2>9, <3>3, <3>4
    <3>7. FuncsAssigned(c, ctx', f, n)
      BY <3>5 DEF FuncsAssigned
    <3>8. FuncsContext(c, ctx', f, n)
      BY <2>7, <3>6, <3>7, ContextFuncs
    <3>9. QED
      BY <2>7, <3>3, <3>4, <3>8 DEF FuncsContext
  <2>11. ReadOn
    BY <1>1, <1>4, <2>3, <2>5, <2>10, VectorsSame DEF ReadOn
  <2>12. IndexSpaces'
    BY <1>1, <1>4, <2>4, <2>9, <2>10, SpacesAre, SpacesNext
  <2>13. TablesLive'
    BY <1>4, <2>11, EntriesSame
  <2>14. QED
    BY <2>5, <2>11, <2>12, <2>13, ReadGood
<1>5. QED
  BY <1>2, <1>3, <1>4 DEF OnImportFunc

\* An imported global is found, or the module is undone.
LEMMA OnImportGlobalGood ==
  ASSUME LInv, IInv', NEW as, NEW field, OnImportGlobal(as, field)
  PROVE  Good
<1>1. ctx # Idle /\ ctx.section = 1 /\ Len(globals) < MaxItems /\ "global" \in Kinds
  BY KindsAre DEF OnImportGlobal, CanImport, At, Reading, Items
<1>2. CASE Undo
  BY <1>1, <1>2, MemoriesSame, UndoGood DEF Undo
<1>3. PICK import : import = Import(as, field, "global")
  OBVIOUS
<1>4. CASE /\ import.ok
           /\ globals' = IF import.is_host THEN Append(globals, [load |-> loads])
                         ELSE globals
           /\ modules' = HostExported(import, field, "global")
           /\ ctx' = [In(ctx, "import", 1) EXCEPT
                !.global_index_mapping = Append(@, import.index),
                !.num_global_imports = @ + 1]
           /\ UNCHANGED <<funcs, tables, memories, bindingVars,
                          historyVars, status>>
  <2>1. /\ import.module \in 1 .. Kept /\ import.is_host \in BOOLEAN
        /\ import.is_host => /\ modules[import.module].is_host
                             /\ field \in HostFields
                             /\ import.index = Len(globals) + 1
        /\ ~import.is_host => import.index \in 1 .. Len(globals)
    <3>1. Items("global") = globals /\ import.ok
      BY <1>4 DEF Items
    <3>2. Resolved(import, field, "global")
      BY <1>1, <1>3, <3>1, ImportFound
    <3>3. QED
      BY <3>1, <3>2 DEF Resolved
  <2>2. PICK x \in GlobalType : x = [load |-> loads] /\ x.load = loads
    <3>1. [load |-> loads] \in GlobalType /\ [load |-> loads].load = loads
      BY VectorTypes DEF GlobalType
    <3>2. QED
      BY <3>1
  <2>3. /\ VectorOn(globals, globals', GlobalType)
        /\ import.index \in 1 .. Len(globals') /\ import.index \in Indexes
        /\ import.is_host => globals'[import.index] = x
        /\ DOMAIN globals' = 1 .. Len(globals')
    <3>1. globals \in Seq(GlobalType) /\ Len(globals) < MaxItems
      BY <1>1, VectorTypes
    <3>2. PICK y \in GlobalType : y = x /\ y.load = loads
      BY <2>2
    <3>3. PICK h \in BOOLEAN : h = import.is_host
      BY <2>1
    <3>4. PICK index : index = import.index
      OBVIOUS
    <3>5. /\ globals' = IF h THEN Append(globals, y) ELSE globals
          /\ h => index = Len(globals) + 1
          /\ ~h => index \in 1 .. Len(globals)
      BY <1>4, <2>1, <2>2, <3>2, <3>3, <3>4
    <3>6. /\ VectorOn(globals, globals', GlobalType)
          /\ Imported(globals, globals', h, index, y)
      BY <3>1, <3>2, <3>5, ImportedItem
    <3>7. QED
      BY <3>2, <3>3, <3>4, <3>6 DEF Imported
  <2>4. loads' = loads /\ (import.is_host => NamesItem("global", import.index, loads)')
    BY <1>4, <2>2, <2>3 DEF NamesItem, Items, historyVars
  <2>5. ModulesOn(modules') /\ LinksOn(modules')
    BY <1>1, <1>4, <2>1, <2>3, <2>4, HostExportOn
  <2>6. PICK c : c = In(ctx, "import", 1)
    OBVIOUS
  <2>7. /\ IsContext(c) /\ c.mark = ctx.mark
        /\ c.func_index_mapping = ctx.func_index_mapping
        /\ c.num_func_imports = ctx.num_func_imports
        /\ c.global_index_mapping = ctx.global_index_mapping
        /\ c.num_global_imports = ctx.num_global_imports
    <3>1. IsContext(ctx) /\ 1 \in Nat /\ 1 = SectionCode("import") /\ ctx.section <= 1
      BY <1>1, SpacesAre, SectionCodes
    <3>2. QED
      BY <2>6, <3>1, ContextSection
  <2> DEFINE mapping == ctx.global_index_mapping
             num == ctx.num_global_imports
  <2>8. /\ mapping \in Seq(Nat) /\ num \in Nat /\ Len(mapping) = num
        /\ Space(mapping, num, globals)
    BY <1>1, SpacesAre DEF IsContext
  <2>9. /\ Space(Append(mapping, import.index), num + 1, globals')
        /\ Append(mapping, import.index) \in Seq(Nat)
        /\ Len(Append(mapping, import.index)) = num + 1
    <3> HIDE DEF mapping, num
    <3>1. globals \in Seq(GlobalType)
      BY VectorTypes
    <3>2. QED
      BY <2>3, <2>8, <3>1, SpaceImport
  <2>10. /\ IsContext(ctx') /\ ctx'.mark = ctx.mark
         /\ ctx'.global_index_mapping = Append(mapping, import.index)
         /\ ctx'.num_global_imports = num + 1
         /\ ctx'.func_index_mapping = ctx.func_index_mapping
         /\ ctx'.num_func_imports = ctx.num_func_imports
    <3>1. ctx' = [c EXCEPT !.global_index_mapping = Append(mapping, import.index),
                           !.num_global_imports = num + 1]
      BY <1>4, <2>6, <2>7
    <3>2. num + 1 \in Nat
      BY <2>8
    <3>3. PICK f \in Seq(Nat) : f = Append(mapping, import.index)
      BY <2>9
    <3>4. PICK n \in Nat : n = num + 1
      BY <3>2
    <3>5. ctx' = [c EXCEPT !.global_index_mapping = f, !.num_global_imports = n]
      BY <3>1, <3>3, <3>4
    <3>6. Len(f) = n
      BY <2>9, <3>3, <3>4
    <3>7. GlobalsAssigned(c, ctx', f, n)
      BY <3>5 DEF GlobalsAssigned
    <3>8. GlobalsContext(c, ctx', f, n)
      BY <2>7, <3>6, <3>7, ContextGlobals
    <3>9. QED
      BY <2>7, <3>3, <3>4, <3>8 DEF GlobalsContext
  <2>11. ReadOn
    BY <1>1, <1>4, <2>3, <2>5, <2>10, VectorsSame DEF ReadOn
  <2>12. IndexSpaces'
    BY <1>1, <1>4, <2>4, <2>9, <2>10, SpacesAre, SpacesNext
  <2>13. TablesLive'
    BY <1>4, <2>11, EntriesSame
  <2>14. QED
    BY <2>5, <2>11, <2>12, <2>13, ReadGood
<1>5. QED
  BY <1>2, <1>3, <1>4 DEF OnImportGlobal

\* The reader enters a section, and the index spaces stay.
LEMMA SectionEntered ==
  ASSUME LInv, ctx # Idle, NEW section, NEW count, NEW code \in Nat,
         code = SectionCode(section), ctx.section <= code,
         ctx' = In(ctx, section, count)
  PROVE  /\ IsContext(ctx') /\ ctx'.mark = ctx.mark
         /\ ctx'.func_index_mapping = ctx.func_index_mapping
         /\ ctx'.num_func_imports = ctx.num_func_imports
         /\ ctx'.global_index_mapping = ctx.global_index_mapping
         /\ ctx'.num_global_imports = ctx.num_global_imports
<1>1. IsContext(ctx)
  BY SpacesAre
<1>2. PICK d : d = ctx'
  OBVIOUS
<1>3. /\ IsContext(d) /\ d.mark = ctx.mark
      /\ d.func_index_mapping = ctx.func_index_mapping
      /\ d.num_func_imports = ctx.num_func_imports
      /\ d.global_index_mapping = ctx.global_index_mapping
      /\ d.num_global_imports = ctx.num_global_imports
  BY <1>1, <1>2, ContextSection
<1>4. QED
  BY <1>2, <1>3

\* The module being read gets a table, imported or its own.
LEMMA TableAssigned ==
  ASSUME LInv, ctx # Idle, NEW ms, ModulesOn(ms), LinksOn(ms),
         ms[Len(modules)] = modules[Len(modules)],
         NEW t \in Indexes, t # 0, t \in 1 .. Len(tables')
  PROVE  /\ Within(tables'[t].limits, modules[Len(modules)].table_limits) =>
              /\ ModulesOn(Assigned(ms, Len(modules), "table_index", t))
              /\ LinksOn(Assigned(ms, Len(modules), "table_index", t))
         /\ \A l \in LimitsType : Within(tables'[t].limits, l) =>
              /\ ModulesOn(Assigned(Assigned(ms, Len(modules), "table_index", t),
                                    Len(modules), "table_limits", l))
              /\ LinksOn(Assigned(Assigned(ms, Len(modules), "table_index", t),
                                  Len(modules), "table_limits", l))
<1> DEFINE n == Len(modules)
           old == ms[n]
           r == Updated(old, "table_index", t)
           indexed == Assigned(ms, n, "table_index", t)
<1>1. IsModule(old) /\ {"table_index", "table_limits"} \subseteq DOMAIN old
  BY DEF ModulesOn, IsModule
<1>2. /\ DOMAIN r = DOMAIN old /\ r["table_index"] = t
      /\ \A g \in DOMAIN old : g # "table_index" => r[g] = old[g]
  BY <1>1, ModuleFields
<1> HIDE DEF r, old
<1>3. /\ r.table_index = t /\ r.is_host = old.is_host /\ r.name = old.name
      /\ r.memory_index = old.memory_index /\ r.exports = old.exports
      /\ r.table_limits = old.table_limits /\ r.page_limits = old.page_limits
      /\ r.start = old.start
  BY <1>1, <1>2 DEF IsModule
<1>4. IsModule(r)
  BY <1>1, <1>2, <1>3 DEF IsModule
<1>5. ModulesOn(indexed) /\ ExportsOn(indexed) /\ indexed[n] = r
  <2>1. IsModule(Updated(ms[n], "table_index", t)) /\ ExportsOn(ms)
    BY <1>4 DEF r, old, LinksOn
  <2>2. QED
    BY <2>1, FieldAssigned DEF r, old
<1>6. MemoryOn(indexed)
  BY <1>3, <1>5 DEF MemoryOn, old
<1>7. ASSUME Within(tables'[t].limits, modules[n].table_limits)
      PROVE  TableOn(indexed)
  BY <1>3, <1>5, <1>7 DEF TableOn, old
<1> HIDE DEF indexed
<1>8. ASSUME NEW l \in LimitsType, Within(tables'[t].limits, l)
      PROVE  /\ ModulesOn(Assigned(indexed, n, "table_limits", l))
             /\ LinksOn(Assigned(indexed, n, "table_limits", l))
  <2> DEFINE q == Updated(r, "table_limits", l)
             new == Assigned(indexed, n, "table_limits", l)
  <2>1. "table_limits" \in DOMAIN r
    BY <1>1, <1>2
  <2>2. /\ DOMAIN q = DOMAIN r /\ q["table_limits"] = l
        /\ \A g \in DOMAIN r : g # "table_limits" => q[g] = r[g]
    BY <1>4, <2>1, ModuleFields
  <2> HIDE DEF q
  <2>3. /\ q.table_limits = l /\ q.table_index = t
        /\ q.is_host = r.is_host /\ q.name = r.name
        /\ q.memory_index = r.memory_index /\ q.exports = r.exports
        /\ q.page_limits = r.page_limits /\ q.start = r.start
    BY <1>3, <1>4, <2>2 DEF IsModule
  <2>4. IsModule(q)
    BY <1>4, <2>2, <2>3 DEF IsModule
  <2>5. ModulesOn(new) /\ ExportsOn(new) /\ new[n] = q
    <3>1. IsModule(Updated(indexed[n], "table_limits", l))
      BY <1>5, <2>4 DEF q
    <3>2. QED
      BY <1>5, <3>1, FieldAssigned DEF q
  <2>6. MemoryOn(new)
    BY <1>3, <2>3, <2>5 DEF MemoryOn, old
  <2>7. TableOn(new)
    BY <1>8, <2>3, <2>5 DEF TableOn
  <2>8. QED
    BY <2>5, <2>6, <2>7 DEF LinksOn
<1>9. QED
  BY <1>5, <1>6, <1>7, <1>8 DEF LinksOn, indexed

\* The module being read gets a memory, imported or its own.
LEMMA MemoryAssigned ==
  ASSUME LInv, ctx # Idle, NEW ms, ModulesOn(ms), LinksOn(ms),
         ms[Len(modules)] = modules[Len(modules)],
         NEW t \in Indexes, t # 0, t \in 1 .. Len(memories')
  PROVE  /\ Within(memories'[t].limits, modules[Len(modules)].page_limits) =>
              /\ ModulesOn(Assigned(ms, Len(modules), "memory_index", t))
              /\ LinksOn(Assigned(ms, Len(modules), "memory_index", t))
         /\ \A l \in LimitsType : Within(memories'[t].limits, l) =>
              /\ ModulesOn(Assigned(Assigned(ms, Len(modules), "memory_index", t),
                                    Len(modules), "page_limits", l))
              /\ LinksOn(Assigned(Assigned(ms, Len(modules), "memory_index", t),
                                  Len(modules), "page_limits", l))
<1> DEFINE n == Len(modules)
           old == ms[n]
           r == Updated(old, "memory_index", t)
           indexed == Assigned(ms, n, "memory_index", t)
<1>1. IsModule(old) /\ {"memory_index", "page_limits"} \subseteq DOMAIN old
  BY DEF ModulesOn, IsModule
<1>2. /\ DOMAIN r = DOMAIN old /\ r["memory_index"] = t
      /\ \A g \in DOMAIN old : g # "memory_index" => r[g] = old[g]
  BY <1>1, ModuleFields
<1> HIDE DEF r, old
<1>3. /\ r.memory_index = t /\ r.is_host = old.is_host /\ r.name = old.name
      /\ r.table_index = old.table_index /\ r.exports = old.exports
      /\ r.page_limits = old.page_limits /\ r.table_limits = old.table_limits
      /\ r.start = old.start
  BY <1>1, <1>2 DEF IsModule
<1>4. IsModule(r)
  BY <1>1, <1>2, <1>3 DEF IsModule
<1>5. ModulesOn(indexed) /\ ExportsOn(indexed) /\ indexed[n] = r
  <2>1. IsModule(Updated(ms[n], "memory_index", t)) /\ ExportsOn(ms)
    BY <1>4 DEF r, old, LinksOn
  <2>2. QED
    BY <2>1, FieldAssigned DEF r, old
<1>6. TableOn(indexed)
  BY <1>3, <1>5 DEF TableOn, old
<1>7. ASSUME Within(memories'[t].limits, modules[n].page_limits)
      PROVE  MemoryOn(indexed)
  BY <1>3, <1>5, <1>7 DEF MemoryOn, old
<1> HIDE DEF indexed
<1>8. ASSUME NEW l \in LimitsType, Within(memories'[t].limits, l)
      PROVE  /\ ModulesOn(Assigned(indexed, n, "page_limits", l))
             /\ LinksOn(Assigned(indexed, n, "page_limits", l))
  <2> DEFINE q == Updated(r, "page_limits", l)
             new == Assigned(indexed, n, "page_limits", l)
  <2>1. "page_limits" \in DOMAIN r
    BY <1>1, <1>2
  <2>2. /\ DOMAIN q = DOMAIN r /\ q["page_limits"] = l
        /\ \A g \in DOMAIN r : g # "page_limits" => q[g] = r[g]
    BY <1>4, <2>1, ModuleFields
  <2> HIDE DEF q
  <2>3. /\ q.page_limits = l /\ q.memory_index = t
        /\ q.is_host = r.is_host /\ q.name = r.name
        /\ q.table_index = r.table_index /\ q.exports = r.exports
        /\ q.table_limits = r.table_limits /\ q.start = r.start
    BY <1>3, <1>4, <2>2 DEF IsModule
  <2>4. IsModule(q)
    BY <1>4, <2>2, <2>3 DEF IsModule
  <2>5. ModulesOn(new) /\ ExportsOn(new) /\ new[n] = q
    <3>1. IsModule(Updated(indexed[n], "page_limits", l))
      BY <1>5, <2>4 DEF q
    <3>2. QED
      BY <1>5, <3>1, FieldAssigned DEF q
  <2>6. TableOn(new)
    BY <1>3, <2>3, <2>5 DEF TableOn, old
  <2>7. MemoryOn(new)
    BY <1>8, <2>3, <2>5 DEF MemoryOn
  <2>8. QED
    BY <2>5, <2>6, <2>7 DEF LinksOn
<1>9. QED
  BY <1>5, <1>6, <1>7, <1>8 DEF LinksOn, indexed

\* The entries of a new table are empty.
LEMMA NewTableType ==
  ASSUME LInv, NEW limits \in LimitsType, NEW size \in Nat
  PROVE  /\ NewTable(limits, size) \in TableType
         /\ NewTable(limits, size).load = loads
         /\ NewTable(limits, size).limits = limits
         /\ \A i \in DOMAIN NewTable(limits, size).func_indexes :
              NewTable(limits, size).func_indexes[i].func = 0
<1> DEFINE entries == [i \in 1 .. size |-> NoEntry]
<1>1. NoEntry \in EntryType /\ NoEntry.func = 0
  BY VectorTypes DEF NoEntry, EntryType, Indexes
<1>2. entries \in Seq(EntryType)
  <2>1. entries \in [1 .. size -> EntryType]
    BY <1>1
  <2> HIDE DEF entries
  <2>2. QED
    BY <2>1, SeqDef
<1>3. \A i \in DOMAIN entries : entries[i].func = 0
  BY <1>1
<1> HIDE DEF entries
<1>4. NewTable(limits, size) =
        [limits |-> limits, func_indexes |-> entries, load |-> loads]
  BY DEF NewTable, entries
<1>5. QED
  BY <1>2, <1>3, <1>4, VectorTypes DEF TableType

\* The limits that modules declare.
LEMMA DeclaredLimits ==
  /\ TableLimits \subseteq LimitsType /\ PageLimits \subseteq LimitsType
  /\ HostTableLimits \in LimitsType /\ HostPageLimits \in LimitsType
  /\ \A l \in PageLimits \cup {HostPageLimits} :
       l.initial <= MaxPages /\ l.max <= MaxPages
  /\ \A l \in LimitsType : l.initial \in Nat /\ Within(l, NoLimits)
<1>1. HostTableLimits \in LimitsType /\ HostPageLimits \in LimitsType
  BY DEF HostTableLimits, HostPageLimits, LimitsType
<1>2. \A l \in LimitsType : l.initial \in Nat /\ Within(l, NoLimits)
  BY DEF LimitsType, NoLimits, Within
<1>3. QED
  BY <1>1, <1>2, EnvironmentAssumption

\* An imported table is found and large enough, or the module is undone.
LEMMA OnImportTableGood ==
  ASSUME LInv, IInv', NEW as, NEW field, NEW limits \in TableLimits,
         OnImportTable(as, field, limits)
  PROVE  Good
<1>1. ctx # Idle /\ ctx.section = 1 /\ Len(tables) < MaxItems /\ "table" \in Kinds
  BY KindsAre DEF OnImportTable, CanImport, At, Reading, Items
<1>2. CASE Undo
  BY <1>1, <1>2, MemoriesSame, UndoGood DEF Undo
<1>3. PICK import : import = Import(as, field, "table")
  OBVIOUS
<1> DEFINE actual == IF import.is_host THEN HostTableLimits
                     ELSE tables[import.index].limits
           hosted == HostExported(import, field, "table")
<1>4. CASE /\ import.ok
           /\ check_import_limits(limits, actual)
           /\ tables' = IF import.is_host
                        THEN Append(tables, NewTable(actual, limits.initial))
                        ELSE tables
           /\ modules' = [hosted EXCEPT ![Module].table_index = import.index,
                                        ![Module].table_limits = limits]
           /\ ctx' = In(ctx, "import", 1)
           /\ UNCHANGED <<funcs, memories, globals, bindingVars,
                          historyVars, status>>
  <2>1. /\ import.module \in 1 .. Kept /\ import.is_host \in BOOLEAN
        /\ import.is_host => /\ modules[import.module].is_host
                             /\ field \in HostFields
                             /\ import.index = Len(tables) + 1
        /\ ~import.is_host => import.index \in 1 .. Len(tables)
    <3>1. Items("table") = tables /\ import.ok
      BY <1>4 DEF Items
    <3>2. Resolved(import, field, "table")
      BY <1>1, <1>3, <3>1, ImportFound
    <3>3. QED
      BY <3>1, <3>2 DEF Resolved
  <2>2. PICK x \in TableType :
          /\ x = NewTable(HostTableLimits, limits.initial)
          /\ x.load = loads /\ x.limits = HostTableLimits
          /\ \A i \in DOMAIN x.func_indexes : x.func_indexes[i].func = 0
    <3>1. HostTableLimits \in LimitsType /\ limits \in LimitsType
          /\ limits.initial \in Nat
      BY DeclaredLimits
    <3>2. QED
      BY <3>1, NewTableType
  <2>3. PICK h \in BOOLEAN : h = import.is_host
    BY <2>1
  <2>4. PICK t : t = import.index
    OBVIOUS
  <2>5. VectorOn(tables, tables', TableType) /\ Imported(tables, tables', h, t, x)
    <3>1. tables \in Seq(TableType) /\ Len(tables) < MaxItems
      BY <1>1, VectorTypes
    <3>2. /\ tables' = IF h THEN Append(tables, x) ELSE tables
          /\ h => t = Len(tables) + 1
          /\ ~h => t \in 1 .. Len(tables)
      BY <1>4, <2>1, <2>2, <2>3, <2>4
    <3>3. QED
      BY <2>2, <3>1, <3>2, ImportedItem
  <2>6. /\ t \in 1 .. Len(tables') /\ t \in Indexes /\ t # 0
        /\ h => tables'[t] = x
        /\ ~h => tables' = tables
        /\ DOMAIN tables' = 1 .. Len(tables')
    BY <2>5 DEF Imported
  <2>7. loads' = loads /\ (h => NamesItem("table", t, loads)')
    BY <1>4, <2>2, <2>6 DEF NamesItem, Items, historyVars
  <2>8. /\ ModulesOn(hosted) /\ LinksOn(hosted)
        /\ hosted[Len(modules)] = modules[Len(modules)]
    <3>1. import.is_host => NamesItem("table", import.index, loads)'
      BY <2>3, <2>4, <2>7 DEF NamesItem
    <3>2. QED
      BY <1>1, <2>1, <2>3, <2>4, <2>6, <2>7, <3>1, HostExportOn
  <2> HIDE DEF hosted
  <2>9. Within(tables'[t].limits, limits)
    <3>1. tables'[t].limits = actual
      <4>1. CASE h
        BY <2>2, <2>3, <2>6, <4>1
      <4>2. CASE ~h
        BY <2>3, <2>4, <2>6, <4>2
      <4>3. QED
        BY <4>1, <4>2
    <3>2. PICK a : a = actual
      OBVIOUS
    <3>3. check_import_limits(limits, a)
      BY <1>4, <3>2
    <3>4. tables'[t] \in TableType /\ a = tables'[t].limits
      BY <2>5, <2>6, <3>1, <3>2 DEF VectorOn
    <3>5. a \in LimitsType /\ limits \in LimitsType
      BY <3>4, DeclaredLimits DEF TableType
    <3> HIDE DEF actual
    <3>6. Within(a, limits)
      BY <3>3, <3>5 DEF check_import_limits, Within, LimitsType
    <3>7. QED
      BY <3>4, <3>6
  <2>10. modules' = Assigned(Assigned(hosted, Len(modules), "table_index", t),
                             Len(modules), "table_limits", limits)
    BY <1>4, <2>4 DEF Assigned, Updated, Module
  <2>11. ModulesOn(modules') /\ LinksOn(modules')
    <3>1. limits \in LimitsType
      BY DeclaredLimits
    <3>2. QED
      BY <1>1, <2>6, <2>8, <2>9, <2>10, <3>1, TableAssigned
  <2>12. /\ IsContext(ctx') /\ ctx'.mark = ctx.mark
         /\ ctx'.func_index_mapping = ctx.func_index_mapping
         /\ ctx'.num_func_imports = ctx.num_func_imports
         /\ ctx'.global_index_mapping = ctx.global_index_mapping
         /\ ctx'.num_global_imports = ctx.num_global_imports
    <3>1. 1 \in Nat /\ 1 = SectionCode("import") /\ ctx.section <= 1
          /\ ctx' = In(ctx, "import", 1)
      BY <1>1, <1>4, SectionCodes
    <3>2. QED
      BY <1>1, <3>1, SectionEntered
  <2>13. ReadOn
    <3>1. TablesOn(tables')
      BY <2>5, TablesAppended
    <3>2. UNCHANGED <<funcs, memories, globals, bindingVars, historyVars, status>>
      BY <1>4
    <3>3. QED
      BY <1>1, <2>11, <2>12, <3>1, <3>2, VectorsSame DEF ReadOn
  <2>14. IndexSpaces'
    BY <2>12, <2>13, SpacesSame
  <2>15. TablesLive'
    <3>1. ASSUME NEW j \in 1 .. Len(tables')
          PROVE  \/ j \in 1 .. Len(tables) /\ tables'[j] = tables[j]
                 \/ \A i \in DOMAIN tables'[j].func_indexes :
                      tables'[j].func_indexes[i].func = 0
      <4>1. CASE ~h
        BY <2>6, <4>1
      <4>2. CASE h
        <5>1. /\ t = Len(tables) + 1 /\ tables'[t] = x
              /\ \A i \in 1 .. Len(tables) : tables'[i] = tables[i]
              /\ Len(tables') = Len(tables) + 1
          <6>1. tables' = Append(tables, x) /\ tables \in Seq(TableType)
            BY <1>4, <2>2, <2>3, <4>2, VectorTypes
          <6>2. Len(tables') = Len(tables) + 1
            BY <6>1
          <6>3. QED
            BY <2>1, <2>3, <2>4, <2>5, <2>6, <4>2, <6>2 DEF VectorOn
        <5>2. j \in 1 .. Len(tables) \/ j = t
          BY <5>1, VectorTypes
        <5>3. QED
          BY <2>2, <5>1, <5>2
      <4>3. QED
        BY <4>1, <4>2
    <3>2. QED
      BY <2>13, <3>1, EntriesSame
  <2>16. QED
    BY <2>11, <2>13, <2>14, <2>15, ReadGood
<1>5. QED
  BY <1>2, <1>3, <1>4 DEF OnImportTable

\* A new memory has the limits of the declaration, or those of the host module.
LEMMA NewMemoryType ==
  ASSUME LInv, NEW limits \in PageLimits \cup {HostPageLimits}
  PROVE  /\ NewMemory(limits) \in MemoryType
         /\ NewMemory(limits).load = loads
         /\ NewMemory(limits).limits = limits
<1>1. /\ limits \in LimitsType
      /\ limits.initial <= Maximum(limits) /\ limits.max <= MaxPages
  <2>1. limits.has_max => limits.initial <= limits.max
    BY EnvironmentAssumption DEF HostPageLimits
  <2>2. QED
    BY <2>1, DeclaredLimits DEF Maximum
<1>2. 0 \in 0 .. MaxLoads /\ loads \in 0 .. MaxLoads
  BY VectorTypes
<1>3. QED
  BY <1>1, <1>2 DEF NewMemory, MemoryType

\* An imported memory is found and large enough, or the module is undone.
LEMMA OnImportMemoryGood ==
  ASSUME LInv, IInv', NEW as, NEW field, NEW limits \in PageLimits,
         OnImportMemory(as, field, limits)
  PROVE  Good
<1>1. ctx # Idle /\ ctx.section = 1 /\ Len(memories) < MaxItems /\ "memory" \in Kinds
  BY KindsAre DEF OnImportMemory, CanImport, At, Reading, Items
<1>2. CASE Undo
  BY <1>1, <1>2, MemoriesSame, UndoGood DEF Undo
<1>3. PICK import : import = Import(as, field, "memory")
  OBVIOUS
<1> DEFINE actual == IF import.is_host THEN HostPageLimits
                     ELSE memories[import.index].limits
           hosted == HostExported(import, field, "memory")
<1>4. CASE /\ import.ok
           /\ check_import_limits(limits, actual)
           /\ memories' = IF import.is_host
                        THEN Append(memories, NewMemory(actual))
                        ELSE memories
           /\ modules' = [hosted EXCEPT ![Module].memory_index = import.index,
                                        ![Module].page_limits = limits]
           /\ ctx' = In(ctx, "import", 1)
           /\ UNCHANGED <<funcs, tables, globals, bindingVars,
                          historyVars, status>>
  <2>1. /\ import.module \in 1 .. Kept /\ import.is_host \in BOOLEAN
        /\ import.is_host => /\ modules[import.module].is_host
                             /\ field \in HostFields
                             /\ import.index = Len(memories) + 1
        /\ ~import.is_host => import.index \in 1 .. Len(memories)
    <3>1. Items("memory") = memories /\ import.ok
      BY <1>4 DEF Items
    <3>2. Resolved(import, field, "memory")
      BY <1>1, <1>3, <3>1, ImportFound
    <3>3. QED
      BY <3>1, <3>2 DEF Resolved
  <2>2. PICK x \in MemoryType :
          /\ x = NewMemory(HostPageLimits)
          /\ x.load = loads /\ x.limits = HostPageLimits
    BY NewMemoryType
  <2>3. PICK h \in BOOLEAN : h = import.is_host
    BY <2>1
  <2>4. PICK t : t = import.index
    OBVIOUS
  <2>5. VectorOn(memories, memories', MemoryType) /\ Imported(memories, memories', h, t, x)
    <3>1. memories \in Seq(MemoryType) /\ Len(memories) < MaxItems
      BY <1>1, VectorTypes
    <3>2. /\ memories' = IF h THEN Append(memories, x) ELSE memories
          /\ h => t = Len(memories) + 1
          /\ ~h => t \in 1 .. Len(memories)
      BY <1>4, <2>1, <2>2, <2>3, <2>4
    <3>3. QED
      BY <2>2, <3>1, <3>2, ImportedItem
  <2>6. /\ t \in 1 .. Len(memories') /\ t \in Indexes /\ t # 0
        /\ h => memories'[t] = x
        /\ ~h => memories' = memories
        /\ DOMAIN memories' = 1 .. Len(memories')
    BY <2>5 DEF Imported
  <2>7. loads' = loads /\ (h => NamesItem("memory", t, loads)')
    BY <1>4, <2>2, <2>6 DEF NamesItem, Items, historyVars
  <2>8. /\ ModulesOn(hosted) /\ LinksOn(hosted)
        /\ hosted[Len(modules)] = modules[Len(modules)]
    <3>1. import.is_host => NamesItem("memory", import.index, loads)'
      BY <2>3, <2>4, <2>7 DEF NamesItem
    <3>2. QED
      BY <1>1, <2>1, <2>3, <2>4, <2>6, <2>7, <3>1, HostExportOn
  <2> HIDE DEF hosted
  <2>9. Within(memories'[t].limits, limits)
    <3>1. memories'[t].limits = actual
      <4>1. CASE h
        BY <2>2, <2>3, <2>6, <4>1
      <4>2. CASE ~h
        BY <2>3, <2>4, <2>6, <4>2
      <4>3. QED
        BY <4>1, <4>2
    <3>2. PICK a : a = actual
      OBVIOUS
    <3>3. check_import_limits(limits, a)
      BY <1>4, <3>2
    <3>4. memories'[t] \in MemoryType /\ a = memories'[t].limits
      BY <2>5, <2>6, <3>1, <3>2 DEF VectorOn
    <3>5. a \in LimitsType /\ limits \in LimitsType
      BY <3>4, DeclaredLimits DEF MemoryType
    <3> HIDE DEF actual
    <3>6. Within(a, limits)
      BY <3>3, <3>5 DEF check_import_limits, Within, LimitsType
    <3>7. QED
      BY <3>4, <3>6
  <2>10. modules' = Assigned(Assigned(hosted, Len(modules), "memory_index", t),
                             Len(modules), "page_limits", limits)
    BY <1>4, <2>4 DEF Assigned, Updated, Module
  <2>11. ModulesOn(modules') /\ LinksOn(modules')
    <3>1. limits \in LimitsType
      BY DeclaredLimits
    <3>2. QED
      BY <1>1, <2>6, <2>8, <2>9, <2>10, <3>1, MemoryAssigned
  <2>12. /\ IsContext(ctx') /\ ctx'.mark = ctx.mark
         /\ ctx'.func_index_mapping = ctx.func_index_mapping
         /\ ctx'.num_func_imports = ctx.num_func_imports
         /\ ctx'.global_index_mapping = ctx.global_index_mapping
         /\ ctx'.num_global_imports = ctx.num_global_imports
    <3>1. 1 \in Nat /\ 1 = SectionCode("import") /\ ctx.section <= 1
          /\ ctx' = In(ctx, "import", 1)
      BY <1>1, <1>4, SectionCodes
    <3>2. QED
      BY <1>1, <3>1, SectionEntered
  <2>13. ReadOn
    <3>1. VectorOn(memories, memories', MemoryType)
      BY <2>5
    <3>2. UNCHANGED <<funcs, tables, globals, bindingVars, historyVars, status>>
      BY <1>4
    <3>3. QED
      BY <1>1, <2>11, <2>12, <3>1, <3>2, VectorsSame DEF ReadOn
  <2>14. IndexSpaces'
    BY <2>12, <2>13, SpacesSame
  <2>15. TablesLive'
    BY <1>4, <2>13, EntriesSame
  <2>16. QED
    BY <2>11, <2>13, <2>14, <2>15, ReadGood
<1>5. QED
  BY <1>2, <1>3, <1>4 DEF OnImportMemory

\* A module declares a table, or a second one and is undone.
LEMMA OnTableGood ==
  ASSUME LInv, IInv', NEW limits \in TableLimits, OnTable(limits)
  PROVE  Good
<1>1. ctx # Idle /\ ctx.section <= 3 /\ Len(tables) < MaxItems
  BY SectionCodes DEF OnTable, At, Reading
<1>2. CASE Undo
  BY <1>1, <1>2, MemoriesSame, UndoGood DEF Undo
<1>3. CASE /\ modules[Module].table_index = 0
           /\ tables' = Append(tables, NewTable(limits, limits.initial))
           /\ modules' = [modules EXCEPT ![Module].table_index = Len(tables')]
           /\ ctx' = In(ctx, "table", 1)
           /\ UNCHANGED <<funcs, memories, globals, bindingVars,
                          historyVars, status>>
  <2>1. limits \in LimitsType /\ limits.initial \in Nat
    BY DeclaredLimits
  <2>2. PICK x \in TableType :
          /\ x = NewTable(limits, limits.initial)
          /\ x.load = loads /\ x.limits = limits
          /\ \A i \in DOMAIN x.func_indexes : x.func_indexes[i].func = 0
    BY <2>1, NewTableType
  <2>3. /\ VectorOn(tables, tables', TableType)
        /\ tables'[Len(tables) + 1] = x /\ Len(tables') = Len(tables) + 1
    <3>1. tables' = Append(tables, x) /\ tables \in Seq(TableType)
      BY <1>3, <2>2, VectorTypes
    <3>2. QED
      BY <1>1, <2>2, <3>1, VectorAppend
  <2>4. PICK t : t = Len(tables')
    OBVIOUS
  <2>5. t \in Indexes /\ t # 0 /\ t \in 1 .. Len(tables') /\ t = Len(tables) + 1
    BY <1>1, <2>3, <2>4, VectorTypes DEF Indexes
  <2>6. Within(tables'[t].limits, modules[Len(modules)].table_limits)
    <3>1. modules[Len(modules)].table_limits = NoLimits
      BY <1>1, <1>3, ModuleTypes DEF IsModule, Module
    <3>2. tables'[t].limits = limits
      BY <2>2, <2>3, <2>5
    <3>3. QED
      BY <2>1, <3>1, <3>2, DeclaredLimits
  <2>7. modules' = Assigned(modules, Len(modules), "table_index", t)
    BY <1>3, <2>4 DEF Assigned, Updated, Module
  <2>8. ModulesOn(modules') /\ LinksOn(modules')
    <3>1. ModulesOn(modules) /\ LinksOn(modules)
      BY <1>1, ModulesSame
    <3>2. QED
      BY <1>1, <2>5, <2>6, <2>7, <3>1, TableAssigned
  <2>9. /\ IsContext(ctx') /\ ctx'.mark = ctx.mark
        /\ ctx'.func_index_mapping = ctx.func_index_mapping
        /\ ctx'.num_func_imports = ctx.num_func_imports
        /\ ctx'.global_index_mapping = ctx.global_index_mapping
        /\ ctx'.num_global_imports = ctx.num_global_imports
    <3>1. 3 \in Nat /\ 3 = SectionCode("table") /\ ctx' = In(ctx, "table", 1)
      BY <1>3, SectionCodes
    <3>2. QED
      BY <1>1, <3>1, SectionEntered
  <2>10. ReadOn
    <3>1. TablesOn(tables')
      BY <2>3, TablesAppended
    <3>2. UNCHANGED <<funcs, memories, globals, bindingVars, historyVars, status>>
      BY <1>3
    <3>3. QED
      BY <1>1, <2>8, <2>9, <3>1, <3>2, VectorsSame DEF ReadOn
  <2>11. IndexSpaces'
    BY <2>9, <2>10, SpacesSame
  <2>12. TablesLive'
    <3>1. ASSUME NEW j \in 1 .. Len(tables')
          PROVE  \/ j \in 1 .. Len(tables) /\ tables'[j] = tables[j]
                 \/ \A i \in DOMAIN tables'[j].func_indexes :
                      tables'[j].func_indexes[i].func = 0
      <4>1. j \in 1 .. Len(tables) \/ j = Len(tables) + 1
        BY <2>3, VectorTypes
      <4>2. QED
        BY <2>2, <2>3, <4>1 DEF VectorOn
    <3>2. QED
      BY <2>10, <3>1, EntriesSame
  <2>13. QED
    BY <2>8, <2>10, <2>11, <2>12, ReadGood
<1>4. QED
  BY <1>2, <1>3 DEF OnTable

\* A module declares a memory, or a second one and is undone.
LEMMA OnMemoryGood ==
  ASSUME LInv, IInv', NEW limits \in PageLimits, OnMemory(limits)
  PROVE  Good
<1>1. ctx # Idle /\ ctx.section <= 4 /\ Len(memories) < MaxItems
  BY SectionCodes DEF OnMemory, At, Reading
<1>2. CASE Undo
  BY <1>1, <1>2, MemoriesSame, UndoGood DEF Undo
<1>3. CASE /\ modules[Module].memory_index = 0
           /\ memories' = Append(memories, NewMemory(limits))
           /\ modules' = [modules EXCEPT ![Module].memory_index = Len(memories')]
           /\ ctx' = In(ctx, "memory", 1)
           /\ UNCHANGED <<funcs, tables, globals, bindingVars,
                          historyVars, status>>
  <2>1. limits \in LimitsType
    BY DeclaredLimits
  <2>2. PICK x \in MemoryType : /\ x = NewMemory(limits)
                                /\ x.load = loads /\ x.limits = limits
    BY NewMemoryType
  <2>3. /\ VectorOn(memories, memories', MemoryType)
        /\ memories'[Len(memories) + 1] = x
        /\ Len(memories') = Len(memories) + 1
    <3>1. memories' = Append(memories, x) /\ memories \in Seq(MemoryType)
      BY <1>3, <2>2, VectorTypes
    <3>2. QED
      BY <1>1, <2>2, <3>1, VectorAppend
  <2>4. PICK t : t = Len(memories')
    OBVIOUS
  <2>5. t \in Indexes /\ t # 0 /\ t \in 1 .. Len(memories') /\ t = Len(memories) + 1
    BY <1>1, <2>3, <2>4, VectorTypes DEF Indexes
  <2>6. Within(memories'[t].limits, modules[Len(modules)].page_limits)
    <3>1. modules[Len(modules)].page_limits = NoLimits
      BY <1>1, <1>3, ModuleTypes DEF IsModule, Module
    <3>2. memories'[t].limits = limits
      BY <2>2, <2>3, <2>5
    <3>3. QED
      BY <2>1, <3>1, <3>2, DeclaredLimits
  <2>7. modules' = Assigned(modules, Len(modules), "memory_index", t)
    BY <1>3, <2>4 DEF Assigned, Updated, Module
  <2>8. ModulesOn(modules') /\ LinksOn(modules')
    <3>1. ModulesOn(modules) /\ LinksOn(modules)
      BY <1>1, ModulesSame
    <3>2. QED
      BY <1>1, <2>5, <2>6, <2>7, <3>1, MemoryAssigned
  <2>9. /\ IsContext(ctx') /\ ctx'.mark = ctx.mark
        /\ ctx'.func_index_mapping = ctx.func_index_mapping
        /\ ctx'.num_func_imports = ctx.num_func_imports
        /\ ctx'.global_index_mapping = ctx.global_index_mapping
        /\ ctx'.num_global_imports = ctx.num_global_imports
    <3>1. 4 \in Nat /\ 4 = SectionCode("memory") /\ ctx' = In(ctx, "memory", 1)
      BY <1>3, SectionCodes
    <3>2. QED
      BY <1>1, <3>1, SectionEntered
  <2>10. ReadOn
    <3>1. UNCHANGED <<funcs, tables, globals, bindingVars, historyVars, status>>
      BY <1>3
    <3>2. QED
      BY <1>1, <2>3, <2>8, <2>9, <3>1, VectorsSame DEF ReadOn
  <2>11. IndexSpaces'
    BY <2>9, <2>10, SpacesSame
  <2>12. TablesLive'
    BY <1>3, <2>10, EntriesSame
  <2>13. QED
    BY <2>8, <2>10, <2>11, <2>12, ReadGood
<1>4. QED
  BY <1>2, <1>3 DEF OnMemory

\* A module declares its functions: they come after the imports in its index
\* space, and after whatever the imports appended in the environment.
LEMMA OnFunctionsGood ==
  ASSUME LInv, IInv', NEW n \in Nat, NEW sigs \in [1 .. n -> Sigs],
         OnFunctions(sigs)
  PROVE  Good
<1>1. /\ sigs \in Seq(Sigs) /\ Len(sigs) = n /\ DOMAIN sigs = 1 .. n
  OBVIOUS
<1>2. /\ ctx # Idle /\ ctx.section = 1 /\ Len(funcs) + n <= MaxItems
      /\ UNCHANGED <<modules, tables, memories, globals, bindingVars,
                     historyVars, status>>
  BY <1>1 DEF OnFunctions, At, Reading
<1>3. PICK added : added = [i \in 1 .. n |-> Func(sigs[i], FALSE)]
  OBVIOUS
<1>4. /\ added \in Seq(FuncType) /\ Len(added) = n
      /\ \A i \in 1 .. Len(added) : added[i].load = loads
  <2>1. ASSUME NEW i \in 1 .. n
        PROVE  Func(sigs[i], FALSE) \in FuncType /\ Func(sigs[i], FALSE).load = loads
    BY VectorTypes DEF Func, FuncType
  <2>2. added \in [1 .. n -> FuncType] /\ \A i \in 1 .. n : added[i].load = loads
    BY <1>3, <2>1
  <2>3. added \in Seq(FuncType)
    BY <2>2, SeqDef
  <2>4. Len(added) = n
    BY <2>2, <2>3
  <2>5. QED
    BY <2>2, <2>3, <2>4
<1>5. VectorOn(funcs, funcs', FuncType) /\ Len(funcs') = Len(funcs) + n
  <2>1. funcs' = funcs \o added
    BY <1>1, <1>3 DEF OnFunctions
  <2>2. funcs \in Seq(FuncType) /\ Len(funcs) + Len(added) <= MaxItems
    BY <1>2, <1>4, VectorTypes
  <2>3. QED
    BY <1>4, <2>1, <2>2, VectorConcat
<1>6. PICK c : c = In(ctx, "function", Len(sigs))
  OBVIOUS
<1>7. /\ IsContext(c) /\ c.mark = ctx.mark /\ c.section = 2
      /\ c.func_index_mapping = ctx.func_index_mapping
      /\ c.num_func_imports = ctx.num_func_imports
      /\ c.global_index_mapping = ctx.global_index_mapping
      /\ c.num_global_imports = ctx.num_global_imports
  <2>1. /\ IsContext(ctx) /\ 2 \in Nat /\ 2 = SectionCode("function")
        /\ ctx.section <= 2
    BY <1>2, SpacesAre, SectionCodes
  <2>2. QED
    BY <1>6, <2>1, ContextSection
<1> DEFINE mapping == ctx.func_index_mapping
           num == ctx.num_func_imports
<1>8. /\ mapping \in Seq(Nat) /\ num \in Nat /\ Len(mapping) = num
      /\ Space(mapping, num, funcs)
  BY <1>2, SpacesAre DEF IsContext
<1>9. PICK f : f = DefinedMapping(mapping, num, Len(funcs), n)
  OBVIOUS
<1>10. Space(f, num, funcs') /\ f \in Seq(Nat)
  <2> HIDE DEF mapping, num
  <2>1. funcs \in Seq(FuncType)
    BY VectorTypes
  <2>2. QED
    BY <1>5, <1>8, <1>9, <2>1, SpaceDefined
<1>11. /\ IsContext(ctx') /\ ctx'.mark = ctx.mark
       /\ ctx'.func_index_mapping = f /\ ctx'.num_func_imports = num
       /\ ctx'.global_index_mapping = ctx.global_index_mapping
       /\ ctx'.num_global_imports = ctx.num_global_imports
  <2>1. ctx' = [c EXCEPT !.func_index_mapping = f]
    BY <1>1, <1>6, <1>7, <1>9 DEF OnFunctions
  <2>2. FuncsAssigned(c, ctx', f, num)
    BY <1>7, <2>1 DEF FuncsAssigned
  <2>3. ~(c.section <= 1) /\ num \in Nat /\ f \in Seq(Nat)
    BY <1>7, <1>8, <1>10
  <2> HIDE DEF num
  <2>4. FuncsContext(c, ctx', f, num)
    BY <1>7, <2>2, <2>3, ContextFuncs
  <2>5. QED
    BY <1>7, <2>4 DEF FuncsContext
<1>12. ModulesOn(modules') /\ LinksOn(modules')
  BY <1>2, ModulesSame
<1>13. ReadOn
  BY <1>2, <1>5, <1>11, <1>12, VectorsSame DEF ReadOn
<1>14. IndexSpaces'
  <2>1. loads' = loads /\ globals' = globals
    BY <1>2 DEF historyVars
  <2>2. QED
    BY <1>2, <1>10, <1>11, <2>1, SpacesAre, SpacesNext
<1>15. TablesLive'
  BY <1>2, <1>13, EntriesSame
<1>16. QED
  BY <1>12, <1>13, <1>14, <1>15, ReadGood

\* A module declares its globals, likewise.
LEMMA OnGlobalsGood ==
  ASSUME LInv, IInv', NEW n \in Nat, OnGlobals(n)
  PROVE  Good
<1>2. /\ ctx # Idle /\ ctx.section < 5 /\ Len(globals) + n <= MaxItems
      /\ UNCHANGED <<modules, funcs, tables, memories, bindingVars,
                     historyVars, status>>
  BY SectionCodes DEF OnGlobals, At, Reading
<1>3. PICK added : added = [i \in 1 .. n |-> [load |-> loads]]
  OBVIOUS
<1>4. /\ added \in Seq(GlobalType) /\ Len(added) = n
      /\ \A i \in 1 .. Len(added) : added[i].load = loads
  <2>1. [load |-> loads] \in GlobalType
    BY VectorTypes DEF GlobalType
  <2>2. added \in [1 .. n -> GlobalType] /\ \A i \in 1 .. n : added[i].load = loads
    BY <1>3, <2>1
  <2>3. added \in Seq(GlobalType)
    BY <2>2, SeqDef
  <2>4. Len(added) = n
    BY <2>2, <2>3
  <2>5. QED
    BY <2>2, <2>3, <2>4
<1>5. VectorOn(globals, globals', GlobalType) /\ Len(globals') = Len(globals) + n
  <2>1. globals' = globals \o added
    BY <1>3 DEF OnGlobals
  <2>2. globals \in Seq(GlobalType) /\ Len(globals) + Len(added) <= MaxItems
    BY <1>2, <1>4, VectorTypes
  <2>3. QED
    BY <1>4, <2>1, <2>2, VectorConcat
<1>6. PICK c : c = In(ctx, "global", n)
  OBVIOUS
<1>7. /\ IsContext(c) /\ c.mark = ctx.mark /\ c.section = 5
      /\ c.func_index_mapping = ctx.func_index_mapping
      /\ c.num_func_imports = ctx.num_func_imports
      /\ c.global_index_mapping = ctx.global_index_mapping
      /\ c.num_global_imports = ctx.num_global_imports
  <2>1. /\ IsContext(ctx) /\ 5 \in Nat /\ 5 = SectionCode("global")
        /\ ctx.section \in Nat
    BY <1>2, SpacesAre, SectionCodes DEF IsContext
  <2>2. ctx.section <= 5
    BY <1>2, <2>1
  <2>3. QED
    BY <1>6, <2>1, <2>2, ContextSection
<1> DEFINE mapping == ctx.global_index_mapping
           num == ctx.num_global_imports
<1>8. /\ mapping \in Seq(Nat) /\ num \in Nat /\ Len(mapping) = num
      /\ Space(mapping, num, globals)
  BY <1>2, SpacesAre DEF IsContext
<1>9. PICK f : f = DefinedMapping(mapping, num, Len(globals), n)
  OBVIOUS
<1>10. Space(f, num, globals') /\ f \in Seq(Nat)
  <2> HIDE DEF mapping, num
  <2>1. globals \in Seq(GlobalType)
    BY VectorTypes
  <2>2. QED
    BY <1>5, <1>8, <1>9, <2>1, SpaceDefined
<1>11. /\ IsContext(ctx') /\ ctx'.mark = ctx.mark
       /\ ctx'.global_index_mapping = f /\ ctx'.num_global_imports = num
       /\ ctx'.func_index_mapping = ctx.func_index_mapping
       /\ ctx'.num_func_imports = ctx.num_func_imports
  <2>1. ctx' = [c EXCEPT !.global_index_mapping = f]
    BY <1>6, <1>7, <1>9 DEF OnGlobals
  <2>2. GlobalsAssigned(c, ctx', f, num)
    BY <1>7, <2>1 DEF GlobalsAssigned
  <2>3. ~(c.section < 5) /\ num \in Nat /\ f \in Seq(Nat)
    BY <1>7, <1>8, <1>10
  <2> HIDE DEF num
  <2>4. GlobalsContext(c, ctx', f, num)
    BY <1>7, <2>2, <2>3, ContextGlobals
  <2>5. QED
    BY <1>7, <2>4 DEF GlobalsContext
<1>12. ModulesOn(modules') /\ LinksOn(modules')
  BY <1>2, ModulesSame
<1>13. ReadOn
  BY <1>2, <1>5, <1>11, <1>12, VectorsSame DEF ReadOn
<1>14. IndexSpaces'
  <2>1. loads' = loads /\ funcs' = funcs
    BY <1>2 DEF historyVars
  <2>2. QED
    BY <1>2, <1>10, <1>11, <2>1, SpacesAre, SpacesNext
<1>15. TablesLive'
  BY <1>2, <1>13, EntriesSame
<1>16. QED
  BY <1>12, <1>13, <1>14, <1>15, ReadGood

\* The index of an item of the module leads to an item of the environment.
LEMMA EnvIndexFound ==
  ASSUME LInv, ctx # Idle, NEW kind \in Kinds, NEW i \in ItemIndexes(kind)
  PROVE  EnvIndex(kind, i) \in 1 .. Len(Items(kind))
<1>0. /\ Len(modules) \in 1 .. Len(modules) /\ IsModule(modules[Len(modules)])
      /\ ~(Len(modules) <= Kept)
  <2>1. /\ Len(modules) = Kept + 1 /\ Kept \in Nat
        /\ \A m \in 1 .. Len(modules) : IsModule(modules[m])
    BY ModuleTypes
  <2>2. Len(modules) \in 1 .. Len(modules) /\ ~(Len(modules) <= Kept)
    BY <2>1
  <2>3. QED
    BY <2>1, <2>2
<1>1. CASE kind = "func"
  <2>1. /\ EnvIndex(kind, i) = ctx.func_index_mapping[i] /\ Items(kind) = funcs
        /\ i \in DOMAIN ctx.func_index_mapping
    BY <1>1 DEF EnvIndex, ItemIndexes, Items
  <2>2. DOMAIN funcs = 1 .. Len(funcs)
    BY VectorTypes
  <2>3. QED
    BY <2>1, <2>2, SpacesAre DEF Space
<1>2. CASE kind = "global"
  <2>1. /\ EnvIndex(kind, i) = ctx.global_index_mapping[i] /\ Items(kind) = globals
        /\ i \in DOMAIN ctx.global_index_mapping
    BY <1>2 DEF EnvIndex, ItemIndexes, Items
  <2>2. DOMAIN globals = 1 .. Len(globals)
    BY VectorTypes
  <2>3. QED
    BY <2>1, <2>2, SpacesAre DEF Space
<1>3. CASE kind = "table"
  <2>1. /\ EnvIndex(kind, i) = modules[Len(modules)].table_index
        /\ Items(kind) = tables /\ modules[Len(modules)].table_index # 0
    BY <1>3 DEF EnvIndex, ItemIndexes, Items, Module
  <2>2. /\ modules[Len(modules)].table_index \in Nat
        /\ modules[Len(modules)].table_index <= Len(tables)
    <3>1. modules[Len(modules)].table_index \in Indexes
      BY <1>0 DEF IsModule
    <3>2. modules[Len(modules)].table_index <= Room(Len(modules), "table")
      BY <1>0, <2>1 DEF LInv, Linked, HoldsTable
    <3>3. Room(Len(modules), "table") = Len(tables)
      BY <1>0 DEF Room, Items
    <3>4. QED
      BY <3>1, <3>2, <3>3, IndexNat
  <2>3. QED
    BY <2>1, <2>2, VectorTypes
<1>4. CASE kind = "memory"
  <2>1. /\ EnvIndex(kind, i) = modules[Len(modules)].memory_index
        /\ Items(kind) = memories /\ modules[Len(modules)].memory_index # 0
    BY <1>4 DEF EnvIndex, ItemIndexes, Items, Module
  <2>2. /\ modules[Len(modules)].memory_index \in Nat
        /\ modules[Len(modules)].memory_index <= Len(memories)
    <3>1. modules[Len(modules)].memory_index \in Indexes
      BY <1>0 DEF IsModule
    <3>2. modules[Len(modules)].memory_index <= Room(Len(modules), "memory")
      BY <1>0, <2>1 DEF LInv, Linked, HoldsMemory
    <3>3. Room(Len(modules), "memory") = Len(memories)
      BY <1>0 DEF Room, Items
    <3>4. QED
      BY <3>1, <3>2, <3>3, IndexNat
  <2>3. QED
    BY <2>1, <2>2, VectorTypes
<1>5. QED
  BY <1>1, <1>2, <1>3, <1>4, KindsAre

\* An export names the item that its index leads to.
LEMMA OnExportGood ==
  ASSUME LInv, IInv', NEW name \in Fields, NEW kind \in Kinds, NEW i,
         OnExport(name, kind, i)
  PROVE  Good
<1>1. /\ ctx # Idle /\ ctx.section <= 6 /\ i \in ItemIndexes(kind)
      /\ ctx' = In(ctx, "export", 1)
      /\ UNCHANGED <<funcs, tables, memories, globals, bindingVars,
                     historyVars, status>>
  BY SectionCodes DEF OnExport, At, Reading
<1>2. PICK index \in 1 .. Len(Items(kind)) : index = EnvIndex(kind, i)
  BY <1>1, EnvIndexFound
<1>3. PICK x : x = Export(name, kind, index, Items(kind)[index].load)
  OBVIOUS
<1>4. x \in ExportType
  <2>1. Items(kind)[index].load \in 0 .. MaxLoads /\ Len(Items(kind)) \in 0 .. MaxItems
    BY ItemsTyped
  <2>2. index \in Indexes
    BY <2>1, VectorTypes DEF Indexes
  <2>3. QED
    BY <1>3, <2>1, <2>2 DEF Export, ExportType
<1>5. NamesItem(x.kind, x.index, x.load)'
  <2>1. x.kind = kind /\ x.index = index /\ x.load = Items(kind)[index].load
    BY <1>3 DEF Export
  <2>2. Items(kind)' = Items(kind) /\ DOMAIN Items(kind) = 1 .. Len(Items(kind))
    BY <1>1, ItemsTyped DEF Items
  <2>3. QED
    BY <2>1, <2>2 DEF NamesItem
<1>6. modules' = append_export(modules, Len(modules), x)
  BY <1>2, <1>3 DEF OnExport, Module
<1>7. ModulesOn(modules') /\ LinksOn(modules')
  <2>1. Len(modules) = Kept + 1 /\ Kept \in Nat
    BY <1>1, ModuleTypes
  <2>2. PICK m \in 1 .. Len(modules) : m = Len(modules)
    BY <2>1
  <2>3. modules' = append_export(modules, m, x)
    BY <1>6, <2>2
  <2>4. QED
    BY <1>1, <1>4, <1>5, <2>2, <2>3, ExportAppended
<1>8. /\ IsContext(ctx') /\ ctx'.mark = ctx.mark
      /\ ctx'.func_index_mapping = ctx.func_index_mapping
      /\ ctx'.num_func_imports = ctx.num_func_imports
      /\ ctx'.global_index_mapping = ctx.global_index_mapping
      /\ ctx'.num_global_imports = ctx.num_global_imports
  <2>1. 6 \in Nat /\ 6 = SectionCode("export")
    BY SectionCodes
  <2>2. QED
    BY <1>1, <2>1, SectionEntered
<1>9. ReadOn
  BY <1>1, <1>7, <1>8, VectorsSame DEF ReadOn
<1>10. IndexSpaces'
  BY <1>8, <1>9, SpacesSame
<1>11. TablesLive'
  BY <1>1, <1>9, EntriesSame
<1>12. QED
  BY <1>7, <1>9, <1>10, <1>11, ReadGood

\* The start function is one of the module's index space.
LEMMA OnStartFunctionGood ==
  ASSUME LInv, IInv', NEW i, OnStartFunction(i)
  PROVE  Good
<1>1. /\ ctx # Idle /\ ctx.section <= 7 /\ i \in ItemIndexes("func")
      /\ ctx' = In(ctx, "start", 1)
      /\ UNCHANGED <<funcs, tables, memories, globals, bindingVars,
                     historyVars, status>>
  BY SectionCodes DEF OnStartFunction, At, Reading, ItemIndexes
<1>2. PICK index \in 1 .. Len(funcs) : index = EnvIndex("func", i)
  <2>1. EnvIndex("func", i) \in 1 .. Len(Items("func")) /\ Items("func") = funcs
    BY <1>1, EnvIndexFound, KindsAre DEF Items
  <2>2. QED
    BY <2>1
<1>3. index \in Indexes
  BY <1>2, VectorTypes DEF Indexes
<1> DEFINE n == Len(modules)
           old == modules[n]
           r == Updated(old, "start", index)
<1>4. ModulesOn(modules) /\ LinksOn(modules)
  BY <1>1, ModulesSame
<1>5. IsModule(old) /\ "start" \in DOMAIN old
  BY <1>4 DEF ModulesOn, IsModule
<1>6. /\ DOMAIN r = DOMAIN old /\ r["start"] = index
      /\ \A g \in DOMAIN old : g # "start" => r[g] = old[g]
  BY <1>5, ModuleFields
<1> HIDE DEF r, old
<1>7. /\ r.start = index /\ r.is_host = old.is_host /\ r.name = old.name
      /\ r.table_index = old.table_index /\ r.exports = old.exports
      /\ r.memory_index = old.memory_index
      /\ r.table_limits = old.table_limits /\ r.page_limits = old.page_limits
  BY <1>5, <1>6 DEF IsModule
<1>8. IsModule(r)
  BY <1>3, <1>5, <1>6, <1>7 DEF IsModule
<1>9. modules' = Assigned(modules, n, "start", index)
  BY <1>2 DEF OnStartFunction, Assigned, Updated, Module
<1>10. ModulesOn(modules') /\ ExportsOn(modules') /\ modules'[n] = r
  <2>1. IsModule(Updated(modules[n], "start", index)) /\ ExportsOn(modules)
    BY <1>4, <1>8 DEF r, old, LinksOn
  <2>2. QED
    BY <1>1, <1>4, <1>9, <2>1, FieldAssigned DEF r, old
<1>11. TableOn(modules') /\ MemoryOn(modules')
  BY <1>7, <1>10 DEF TableOn, MemoryOn, old
<1>12. LinksOn(modules')
  BY <1>10, <1>11 DEF LinksOn
<1>13. /\ IsContext(ctx') /\ ctx'.mark = ctx.mark
       /\ ctx'.func_index_mapping = ctx.func_index_mapping
       /\ ctx'.num_func_imports = ctx.num_func_imports
       /\ ctx'.global_index_mapping = ctx.global_index_mapping
       /\ ctx'.num_global_imports = ctx.num_global_imports
  <2>1. 7 \in Nat /\ 7 = SectionCode("start")
    BY SectionCodes
  <2>2. QED
    BY <1>1, <2>1, SectionEntered
<1>14. ReadOn
  BY <1>1, <1>10, <1>13, VectorsSame DEF ReadOn
<1>15. IndexSpaces'
  BY <1>13, <1>14, SpacesSame
<1>16. TablesLive'
  BY <1>1, <1>14, EntriesSame
<1>17. QED
  BY <1>12, <1>14, <1>15, <1>16, ReadGood

\* An entry of a table is written: the tables stay, and so do their entries.
EntryWritten(new, t, offset, entry) ==
  /\ Len(new) = Len(tables)
  /\ \A j \in 1 .. Len(tables) : j # t => new[j] = tables[j]
  /\ new[t].limits = tables[t].limits /\ new[t].load = tables[t].load
  /\ DOMAIN new[t].func_indexes = DOMAIN tables[t].func_indexes
  /\ \A i \in DOMAIN tables[t].func_indexes :
       new[t].func_indexes[i] = IF i = offset THEN entry
                                ELSE tables[t].func_indexes[i]

\* An entry of a table is written.
LEMMA EntryAssigned ==
  ASSUME LInv, NEW t \in 1 .. Len(tables),
         NEW offset \in DOMAIN tables[t].func_indexes, NEW entry \in EntryType,
         NEW new, new = [tables EXCEPT ![t].func_indexes[offset] = entry]
  PROVE  TablesOn(new) /\ EntryWritten(new, t, offset, entry)
<1> DEFINE old == tables[t]
           entries == old.func_indexes
           written == Updated(entries, offset, entry)
           r == Updated(old, "func_indexes", written)
<1>1. /\ tables \in Seq(TableType) /\ Len(tables) \in 0 .. MaxItems
      /\ old \in TableType /\ MaxItems \in Nat
  BY VectorTypes
<1>2. /\ DOMAIN old = {"limits", "func_indexes", "load"}
      /\ old.limits \in LimitsType /\ entries \in Seq(EntryType)
      /\ old.load \in 0 .. MaxLoads
  BY <1>1 DEF TableType
<1>3. new = Updated(tables, t, r)
  BY DEF Updated
<1>4. /\ written \in Seq(EntryType) /\ Len(written) = Len(entries)
      /\ DOMAIN written = DOMAIN entries
      /\ \A i \in DOMAIN entries :
           written[i] = IF i = offset THEN entry ELSE entries[i]
  <2>1. offset \in 1 .. Len(entries) /\ DOMAIN entries = 1 .. Len(entries)
    BY <1>2
  <2> HIDE DEF entries
  <2>2. QED
    BY <1>2, <2>1, ExceptSeq DEF Updated
<1>5. /\ r \in TableType /\ r.limits = old.limits /\ r.load = old.load
      /\ r.func_indexes = written
  <2> HIDE DEF written, old
  <2>1. QED
    BY <1>1, <1>4 DEF TableType, Updated
<1> HIDE DEF r, written
<1>6. /\ new \in Seq(TableType) /\ Len(new) = Len(tables)
      /\ \A j \in 1 .. Len(tables) : new[j] = IF j = t THEN r ELSE tables[j]
  BY SMTT(30), <1>1, <1>3, <1>5, ExceptSeq DEF Updated
<1>7. new[t] = r
  BY <1>6
<1>8. EntryWritten(new, t, offset, entry)
  BY <1>4, <1>5, <1>6, <1>7 DEF EntryWritten
<1>9. \A j \in 1 .. Len(tables) :
        /\ new[j].limits = tables[j].limits
        /\ new[j].load = tables[j].load
        /\ Len(new[j].func_indexes) = Len(tables[j].func_indexes)
  BY <1>4, <1>5, <1>6
<1>10. TablesOn(new)
  <2>1. \A i \in Len(tables) + 1 .. Len(new) : FALSE
    BY <1>1, <1>6
  <2>2. QED
    BY <1>1, <1>6, <1>9, <2>1 DEF TablesOn
<1>11. QED
  BY <1>8, <1>10

\* An elem segment writes the function that its index leads to, or the module
\* is undone.
LEMMA OnElemGood ==
  ASSUME LInv, IInv', NEW offset, NEW i, OnElem(offset, i)
  PROVE  Good
<1> DEFINE t == modules[Len(modules)].table_index
<1>1. /\ ctx # Idle /\ ctx.section <= 8 /\ i \in ItemIndexes("func") /\ t # 0
  BY SectionCodes DEF OnElem, At, Reading, ItemIndexes, Module
<1>2. CASE Undo
  BY <1>1, <1>2, MemoriesSame, UndoGood DEF Undo
<1>3. PICK f \in 1 .. Len(funcs) : f = EnvIndex("func", i)
  <2>1. EnvIndex("func", i) \in 1 .. Len(Items("func")) /\ Items("func") = funcs
    BY <1>1, EnvIndexFound, KindsAre DEF Items
  <2>2. QED
    BY <2>1
<1>4. CASE /\ offset \in DOMAIN tables[t].func_indexes
           /\ tables' = [tables EXCEPT ![t].func_indexes[offset] =
                           [func |-> f, load |-> funcs[f].load]]
           /\ ctx' = In(ctx, "elem", 1)
           /\ UNCHANGED <<modules, funcs, memories, globals, bindingVars,
                          historyVars, status>>
  <2>1. t \in 1 .. Len(tables)
    <3>1. 1 \in ItemIndexes("table") /\ "table" \in Kinds
      BY <1>1, KindsAre DEF ItemIndexes, Module
    <3>2. EnvIndex("table", 1) = t /\ Items("table") = tables
      BY DEF EnvIndex, Items, Module
    <3>3. EnvIndex("table", 1) \in 1 .. Len(Items("table"))
      BY <1>1, <3>1, EnvIndexFound
    <3>4. QED
      BY <3>2, <3>3
  <2> HIDE DEF t
  <2>2. PICK entry \in EntryType : entry = [func |-> f, load |-> funcs[f].load]
    <3>1. funcs \in Seq(FuncType) /\ Len(funcs) \in 0 .. MaxItems /\ MaxItems \in Nat
      BY VectorTypes
    <3>2. f \in Indexes
      BY <3>1 DEF Indexes
    <3>3. funcs[f] \in FuncType
      BY <3>1
    <3>4. funcs[f].load \in 0 .. MaxLoads
      BY <3>3 DEF FuncType
    <3>5. QED
      BY <3>2, <3>4 DEF EntryType
  <2>3. TablesOn(tables') /\ EntryWritten(tables', t, offset, entry)
    <3>1. PICK new : new = tables'
      OBVIOUS
    <3>2. new = [tables EXCEPT ![t].func_indexes[offset] = entry]
      BY <1>4, <2>2, <3>1
    <3>3. offset \in DOMAIN tables[t].func_indexes
      BY <1>4
    <3>4. QED
      BY <2>1, <3>1, <3>2, <3>3, EntryAssigned
  <2>4. ModulesOn(modules') /\ LinksOn(modules')
    <3>1. modules' = modules
      BY <1>4
    <3>2. QED
      BY <1>1, <3>1, ModulesSame
  <2>5. /\ IsContext(ctx') /\ ctx'.mark = ctx.mark
        /\ ctx'.func_index_mapping = ctx.func_index_mapping
        /\ ctx'.num_func_imports = ctx.num_func_imports
        /\ ctx'.global_index_mapping = ctx.global_index_mapping
        /\ ctx'.num_global_imports = ctx.num_global_imports
    <3>1. 8 \in Nat /\ 8 = SectionCode("elem") /\ ctx' = In(ctx, "elem", 1)
      BY <1>4, SectionCodes
    <3>2. QED
      BY <1>1, <3>1, SectionEntered
  <2>6. UNCHANGED <<funcs, memories, globals, bindingVars, historyVars, status>>
    BY <1>4
  <2>7. ReadOn
    BY <1>1, <2>3, <2>4, <2>5, <2>6, VectorsSame DEF ReadOn
  <2>8. IndexSpaces'
    BY <2>5, <2>7, SpacesSame
  <2>9. ASSUME NEW j \in 1 .. Len(tables), NEW k \in DOMAIN tables'[j].func_indexes
        PROVE  LET e == tables'[j].func_indexes[k]
               IN  \/ e.func = 0
                   \/ e.load \in failed
                   \/ NamesItem("func", e.func, e.load)
    <3>1. \/ k \in DOMAIN tables[j].func_indexes
             /\ tables'[j].func_indexes[k] = tables[j].func_indexes[k]
          \/ tables'[j].func_indexes[k] = entry
      <4>1. CASE j # t
        BY <2>3, <2>9, <4>1 DEF EntryWritten
      <4>2. CASE j = t
        BY <2>3, <2>9, <4>2 DEF EntryWritten
      <4>3. QED
        BY <4>1, <4>2
    <3>2. CASE /\ k \in DOMAIN tables[j].func_indexes
               /\ tables'[j].func_indexes[k] = tables[j].func_indexes[k]
      <4>1. DOMAIN tables = 1 .. Len(tables)
        BY VectorTypes
      <4>2. QED
        BY <3>2, <4>1 DEF LInv, TablesLive
    <3>3. CASE tables'[j].func_indexes[k] = entry
      <4>1. NamesItem("func", entry.func, entry.load)
        BY <2>2, VectorTypes DEF NamesItem, Items
      <4>2. QED
        BY <3>3, <4>1
    <3>4. QED
      BY <3>1, <3>2, <3>3
  <2>10. TablesLive'
    <3>1. DOMAIN tables' = 1 .. Len(tables)
      BY <2>3 DEF TablesOn, EntryWritten
    <3>2. failed' = failed /\ funcs' = funcs
      BY <2>6 DEF historyVars
    <3>3. QED
      BY <2>9, <3>1, <3>2 DEF TablesLive, NamesItem, Items
  <2>11. QED
    BY <2>4, <2>7, <2>8, <2>10, ReadGood
<1>5. QED
  BY <1>2, <1>3, <1>4 DEF OnElem, Module

-----------------------------------------------------------------------------
(* The other steps.                                                        *)

\* A malformed module is undone.
LEMMA RejectModuleGood == ASSUME LInv, IInv', RejectModule PROVE Good
BY MemoriesSame, UndoGood DEF RejectModule, Reading, Undo

\* A module that ends is kept or undone.
LEMMA EndModuleGood == ASSUME LInv, IInv', EndModule PROVE Good
<1>1. ctx # Idle /\ (Keep(memories) \/ Undo)
  BY DEF EndModule, Reading
<1>2. QED
  BY <1>1, MemoriesSame, UndoGood, KeepGood DEF Undo

\* The environment stays, but for the size of memories.
EnvStays ==
  /\ UNCHANGED <<modules, funcs, tables, globals, ctx, historyVars>>
  /\ MemoriesOn(memories')
  /\ status' \in {"running", "undefined", "assert_index",
                  "assert_start_results"}

\* Such a step is good.
LEMMA EnvStaysGood == ASSUME LInv, IInv', EnvStays PROVE Good
<1>1. Stays
  BY ModuleTypes DEF EnvStays, Stays
<1>2. LInv'
  BY <1>1, StaysKeeps
<1>3. CASE ctx = Idle
  BY <1>2, <1>3 DEF Good, OlderStep
<1>4. CASE ctx # Idle
  <2>1. /\ funcs' = funcs /\ tables' = tables /\ globals' = globals
        /\ modules' = modules /\ failed' = failed /\ loads \notin failed
    BY <1>4 DEF EnvStays, historyVars, LInv, Context
  <2>2. OlderStep
    BY <1>4, <2>1, MarkIs, VectorTypes, OlderFrom DEF KeptOn
  <2>3. QED
    BY <1>2, <2>2 DEF Good
<1>5. QED
  BY <1>3, <1>4

\* A start function returns and the module is kept, or it traps.
LEMMA RunStartFunctionGood == ASSUME LInv, IInv', RunStartFunction PROVE Good
<1>1. ctx # Idle
  BY DEF RunStartFunction, Reading
<1>2. \/ Undo
      \/ \E func : \E mems \in RunEffects(func) : UndoAfter(mems) \/ Keep(mems)
      \/ /\ UNCHANGED <<modules, funcs, tables, globals, ctx, historyVars>>
         /\ memories' = memories
         /\ status' \in {"undefined", "assert_start_results"}
  BY DEF RunStartFunction, envVars
<1>3. CASE Undo
  BY <1>1, <1>3, MemoriesSame, UndoGood DEF Undo
<1>4. CASE \E func : \E mems \in RunEffects(func) : UndoAfter(mems) \/ Keep(mems)
  <2>1. PICK func : \E mems \in RunEffects(func) : UndoAfter(mems) \/ Keep(mems)
    BY <1>4
  <2>2. PICK mems \in RunEffects(func) : UndoAfter(mems) \/ Keep(mems)
    BY <2>1
  <2>3. MemoriesOn(mems)
    BY RunEffectsResize
  <2>4. QED
    BY <1>1, <2>2, <2>3, UndoGood, KeepGood
<1>5. CASE /\ UNCHANGED <<modules, funcs, tables, globals, ctx, historyVars>>
           /\ memories' = memories
           /\ status' \in {"undefined", "assert_start_results"}
  BY <1>5, MemoriesSame, EnvStaysGood DEF EnvStays
<1>6. QED
  BY <1>2, <1>3, <1>4, <1>5

\* A command begins a module.
LEMMA BeginModuleGood ==
  ASSUME LInv, IInv', NEW command, NEW name \in Names \cup {NO_NAME},
         BeginModule(command, name)
  PROVE  Good
<1>1. ctx = Idle
  BY DEF BeginModule
<1>2. QED
  BY <1>1, BeginLinked DEF Good, OlderStep

\* Registering a module and acting on one leave the environment.
LEMMA CommandGood ==
  ASSUME LInv, IInv', NEW name, NEW as,
         OnRegister(name, as) \/ OnAction(name, as)
  PROVE  Good
<1>0. status \in {"running", "undefined", "assert_index", "assert_start_results"}
  BY DEF LInv, HistoryTyped
<1>1. CASE OnRegister(name, as)
  <2>1. UNCHANGED <<modules, funcs, tables, memories, globals, ctx, historyVars,
                    status>>
    BY <1>1 DEF OnRegister, envVars
  <2>2. QED
    BY <1>0, <2>1, MemoriesSame, EnvStaysGood DEF EnvStays
<1>2. CASE OnAction(name, as)
  <2>1. /\ UNCHANGED <<modules, funcs, tables, globals, ctx, historyVars>>
        /\ \/ memories' = memories
           \/ \E func : memories' \in RunEffects(func)
        /\ status' \in {status, "undefined", "assert_index"}
    BY <1>2 DEF OnAction
  <2>2. MemoriesOn(memories')
    <3>1. PICK mems : mems = memories'
      OBVIOUS
    <3>2. mems = memories \/ \E func : mems \in RunEffects(func)
      BY <2>1, <3>1
    <3>3. MemoriesOn(mems)
      BY <3>2, MemoriesSame, RunEffectsResize
    <3>4. QED
      BY <3>1, <3>3
  <2>3. QED
    BY <1>0, <2>1, <2>2, EnvStaysGood DEF EnvStays
<1>3. QED
  BY <1>1, <1>2

\* A step that changes nothing.
LEMMA StutterGood == ASSUME LInv, IInv', UNCHANGED vars PROVE Good
<1>1. /\ UNCHANGED <<modules, funcs, tables, globals, ctx, historyVars>>
      /\ memories' = memories /\ status' = status
  BY DEF vars, envVars
<1>2. QED
  BY <1>1, MemoriesSame, EnvStaysGood DEF EnvStays, LInv, HistoryTyped

-----------------------------------------------------------------------------
\* The environment starts empty, but for the host module.
LEMMA InitLInv == Init => LInv
<1> SUFFICES ASSUME Init PROVE LInv
  OBVIOUS
<1>1. IInv
  BY InitIInv
<1>2. PICK r : /\ modules = <<r>>
               /\ r = [name |-> SPECTEST, is_host |-> TRUE, table_index |-> 0,
                       memory_index |-> 0, exports |-> <<>>, start |-> 0,
                       load |-> 0, table_limits |-> NoLimits,
                       page_limits |-> NoLimits]
  BY DEF Init
<1>3. Len(modules) = 1 /\ modules[1] = r
  BY <1>2
<1>4. IsModule(r)
  <2>1. NoLimits \in LimitsType /\ 0 \in Indexes
    BY EnvironmentAssumption DEF NoLimits, LimitsType, Indexes
  <2>2. QED
    BY <1>2, <2>1 DEF IsModule
<1>5. ModulesTyped
  BY <1>3, <1>4 DEF ModulesTyped
<1>6. VectorsTyped
  BY EnvironmentAssumption DEF VectorsTyped, Init
<1>7. HistoryTyped
  BY EnvironmentAssumption DEF HistoryTyped, Init
<1>8. Context /\ IndexSpaces /\ TablesLive
  BY DEF Context, IndexSpaces, TablesLive, Init
<1>9. Linked
  BY <1>2, <1>3 DEF Linked, HoldsTable, HoldsMemory
<1>10. LoadsPast
  <2>1. r.load = 0 /\ loads = 0
    BY <1>2 DEF Init
  <2>2. QED
    BY <1>3, <2>1 DEF LoadsPast
<1>11. QED
  BY <1>1, <1>5, <1>6, <1>7, <1>8, <1>9, <1>10 DEF LInv

\* Every step preserves the invariant and what is below the mark.
LEMMA NextGood == LInv /\ [Next]_vars => Good
<1> SUFFICES ASSUME LInv, [Next]_vars PROVE Good
  OBVIOUS
<1>0. IInv'
  BY NextIInv DEF LInv
<1>1. CASE UNCHANGED vars
  BY <1>0, <1>1, StutterGood
<1>2. CASE ReadModule
  <2>0. MaxItems \in Nat /\ \A n \in 1 .. MaxItems : n \in Nat
    BY VectorTypes
  <2>1. CASE \E as \in RegisteredNames \cup {SPECTEST},
                field \in Fields \cup HostFields :
               \/ \E sig \in Sigs : OnImportFunc(as, field, sig)
               \/ \E limits \in TableLimits : OnImportTable(as, field, limits)
               \/ \E limits \in PageLimits : OnImportMemory(as, field, limits)
               \/ OnImportGlobal(as, field)
    BY <1>0, <2>1, OnImportFuncGood, OnImportTableGood, OnImportMemoryGood,
       OnImportGlobalGood
  <2>2. CASE \E n \in 1 .. MaxItems : \E sigs \in [1 .. n -> Sigs] : OnFunctions(sigs)
    BY <1>0, <2>0, <2>2, OnFunctionsGood
  <2>3. CASE \E count \in 1 .. MaxItems : OnGlobals(count)
    BY <1>0, <2>0, <2>3, OnGlobalsGood
  <2>4. CASE \E name \in Fields, kind \in Kinds, i \in 1 .. MaxItems :
               OnExport(name, kind, i)
    BY <1>0, <2>4, OnExportGood
  <2>5. QED
    BY <1>0, <1>2, <2>1, <2>2, <2>3, <2>4, OnTableGood, OnMemoryGood,
       OnStartFunctionGood, OnElemGood, RejectModuleGood, EndModuleGood,
       RunStartFunctionGood DEF ReadModule
<1>3. CASE Next /\ ~ReadModule
  BY <1>0, <1>1, <1>3, BeginModuleGood, CommandGood DEF Next, Ended
<1>4. QED
  BY <1>1, <1>2, <1>3

-----------------------------------------------------------------------------
(* The theorems.                                                           *)

\* While a module is read, every entry of its function and global index spaces
\* leads to an item of the environment, and past the imports to one that the
\* module appended itself, for any order of imports and any reset before
\* (on_import_*, on_function_signatures_count, on_global_count).
THEOREM IndexSpacesAlways == Spec => []IndexSpaces
<1>1. LInv /\ [Next]_vars => LInv'
  BY NextGood DEF Good
<1>2. LInv => IndexSpaces
  BY DEF LInv
<1>3. QED
  BY InitLInv, <1>1, <1>2, PTL DEF Spec

\* Every table entry names the function it was written for, or was written by
\* a module that was undone: wasm_reset_interpreter_environment_to_mark never
\* takes away a function that a kept module wrote into a table.
THEOREM TablesLiveAlways == Spec => []TablesLive
<1>1. LInv /\ [Next]_vars => LInv'
  BY NextGood DEF Good
<1>2. LInv => TablesLive
  BY DEF LInv
<1>3. QED
  BY InitLInv, <1>1, <1>2, PTL DEF Spec

\* What a module refers to exists.
LEMMA LInvExports == LInv => ExportsLive
<1> SUFFICES ASSUME LInv, NEW m \in DOMAIN modules,
                    NEW e \in DOMAIN modules[m].exports
             PROVE  LET export == modules[m].exports[e]
                    IN  \/ NamesItem(export.kind, export.index, export.load)
                        \/ modules[m].is_host /\ export.load \in failed
  BY DEF ExportsLive
<1>1. m \in 1 .. Len(modules) /\ IsModule(modules[m])
  BY ModuleTypes
<1>2. e \in 1 .. Len(modules[m].exports)
  BY <1>1 DEF IsModule
<1>3. HoldsExport(m, modules[m].exports[e])
  BY <1>1, <1>2 DEF LInv, Linked
<1>4. QED
  BY <1>3 DEF HoldsExport

\* Every export of a module names the item it was made for, however many
\* modules were undone since; only the host module keeps exports of items that
\* a reset took (append_export on the host module is not undone).
THEOREM ExportsLiveAlways == Spec => []ExportsLive
<1>1. LInv /\ [Next]_vars => LInv'
  BY NextGood DEF Good
<1>2. QED
  BY InitLInv, <1>1, LInvExports, PTL DEF Spec

\* The limits of what a module has satisfy those it declared.
LEMMA LInvImports == LInv => ImportsSatisfied
<1> SUFFICES ASSUME LInv, NEW m \in DOMAIN modules
             PROVE  /\ modules[m].table_index # 0 =>
                         Within(tables[modules[m].table_index].limits,
                                modules[m].table_limits)
                    /\ modules[m].memory_index # 0 =>
                         Serves(memories[modules[m].memory_index], modules[m])
  BY DEF ImportsSatisfied, Within, Serves
<1>1. m \in 1 .. Len(modules)
  BY ModuleTypes
<1>2. QED
  BY <1>1 DEF LInv, Linked, HoldsTable, HoldsMemory

\* The table and the memory of a module satisfy the limits that it imported
\* them with (check_import_limits) for as long as the module exists, also
\* after grow_memory and through the exports of other modules.  Only a memory
\* whose page count wrapped since (GROW_MEMORY adds in 32 bits) may be smaller
\* than the module declared, and it still has the maximum.
THEOREM ImportsSatisfiedAlways == Spec => []ImportsSatisfied
<1>1. LInv /\ [Next]_vars => LInv'
  BY NextGood DEF Good
<1>2. QED
  BY InitLInv, <1>1, LInvImports, PTL DEF Spec

\* The types of the modules and the vectors.
LEMMA LInvTypes == LInv => TypeOK
<1> SUFFICES ASSUME LInv PROVE TypeOK
  OBVIOUS
<1>1. \A m \in DOMAIN modules :
        /\ modules[m].name \in Names \cup {NO_NAME, SPECTEST}
        /\ modules[m].table_index \in Indexes
        /\ modules[m].memory_index \in Indexes
        /\ modules[m].start \in Indexes
        /\ modules[m].exports \in Seq(ExportType)
  BY ModuleTypes DEF IsModule
<1>2. funcs \in Seq([sig : Sigs, is_host : BOOLEAN, load : 0 .. MaxLoads])
  BY VectorTypes DEF FuncType
<1>3. ASSUME NEW t \in DOMAIN tables
      PROVE  tables[t].func_indexes \in Seq([func : Indexes, load : 0 .. MaxLoads])
  <2>1. tables[t] \in TableType
    BY VectorTypes
  <2>2. QED
    BY <2>1 DEF TableType, EntryType
<1>4. ASSUME NEW i \in DOMAIN memories
      PROVE  /\ memories[i].limits \in LimitsType
             /\ memories[i].limits.initial <= Maximum(memories[i].limits)
             /\ memories[i].wrapped \in 0 .. MaxLoads
  <2>1. memories[i] \in MemoryType
    BY VectorTypes
  <2>2. QED
    BY <2>1 DEF MemoryType
<1>5. QED
  BY <1>1, <1>2, <1>3, <1>4 DEF TypeOK, LInv, HistoryTyped

\* The vectors, the modules and their exports keep their types, no memory
\* passes WASM_MAX_PAGES, and only loads that began are ever undone.
THEOREM EnvironmentTypeOK == Spec => []TypeOK
<1>1. LInv /\ [Next]_vars => LInv'
  BY NextGood DEF Good
<1>2. QED
  BY InitLInv, <1>1, LInvTypes, PTL DEF Spec

\* Reading, starting or undoing a module changes nothing below the mark but
\* table entries, memory sizes and the exports of the host module, and undoing
\* it brings every vector back to the mark that the command handler took.
THEOREM OlderKeptAlways == Spec => OlderKept
<1>1. LInv /\ [Next]_vars => LInv'
  BY NextGood DEF Good
<1>2. LInv /\ [Next]_vars => [OlderStep]_vars
  BY NextGood DEF Good
<1>3. QED
  BY InitLInv, <1>1, <1>2, PTL DEF Spec, OlderKept

-----------------------------------------------------------------------------
(* Names.                                                                  *)

\* Each binding leads to a module of that name, and each module that has a
\* name has a binding.
NamesBound ==
  /\ \A b \in 1 .. Len(module_bindings) :
       modules[module_bindings[b][2]].name = module_bindings[b][1]
  /\ \A m \in 1 .. Kept : modules[m].name \in Names =>
       \E b \in 1 .. Len(module_bindings) :
         /\ module_bindings[b][1] = modules[m].name
         /\ module_bindings[b][2] = m

\* No module that stays gets another name.
NamesStay ==
  /\ Kept' = Kept /\ module_bindings' = module_bindings
  /\ \A m \in 1 .. Kept : modules'[m].name = modules[m].name

\* What a step does to the context and the bindings.
Reads == CtxKept /\ module_bindings' = module_bindings

\* A callback goes on reading, or the module is undone or kept.
LEMMA ReadingEnds ==
  ASSUME LInv, ctx # Idle, [Next]_vars
  PROVE  Reads \/ \E mems : UndoAfter(mems) \/ Keep(mems)
<1>0. {"mark", "name"} \subseteq DOMAIN ctx
  BY ReadingContext DEF LInv
<1>1. CASE UNCHANGED vars
  BY <1>1 DEF vars, bindingVars, Reads, CtxKept
<1>2. CASE ReadModule
  <2> USE <1>0 DEF Reads, CtxKept, In, bindingVars
  <2>1. ASSUME NEW as, NEW field, NEW x,
               \/ OnImportFunc(as, field, x) \/ OnImportTable(as, field, x)
               \/ OnImportMemory(as, field, x) \/ OnImportGlobal(as, field)
        PROVE  Reads \/ Undo
    BY <2>1 DEF OnImportFunc, OnImportTable, OnImportMemory, OnImportGlobal
  <2>2. ASSUME NEW x, OnFunctions(x) \/ OnGlobals(x)
        PROVE  Reads
    BY <2>2 DEF OnFunctions, OnGlobals
  <2>3. ASSUME NEW x, OnTable(x) \/ OnMemory(x) \/ OnStartFunction(x)
        PROVE  Reads \/ Undo
    BY <2>3 DEF OnTable, OnMemory, OnStartFunction
  <2>4. ASSUME NEW x, NEW y, NEW z, OnExport(x, y, z) \/ OnElem(x, y)
        PROVE  Reads \/ Undo
    BY <2>4 DEF OnExport, OnElem
  <2>5. ASSUME RejectModule \/ EndModule \/ RunStartFunction
        PROVE  Reads \/ \E mems : UndoAfter(mems) \/ Keep(mems)
    BY <2>5 DEF RejectModule, EndModule, RunStartFunction, Undo
  <2> HIDE DEF Reads
  <2>6. ReadModule => \/ Reads \/ Undo
                      \/ RejectModule \/ EndModule \/ RunStartFunction
    BY <2>1, <2>2, <2>3, <2>4 DEF ReadModule
  <2>7. QED
    BY <1>2, <2>5, <2>6 DEF Undo
<1>3. CASE Next /\ ~ReadModule
  BY <1>1, <1>3 DEF Next, BeginModule, OnRegister, OnAction, Ready, Ended
<1>4. QED
  BY <1>1, <1>2, <1>3

\* A module that looks the same has the same name.
LEMMA OlderName ==
  ASSUME NEW i, IsModule(modules[i]), IsModule(modules'[i]), Older(i)' = Older(i)
  PROVE  modules'[i].name = modules[i].name
<1>1. "name" \in DOMAIN modules[i] /\ "name" \in DOMAIN modules'[i]
  BY DEF IsModule
<1>2. Older(i).name = modules[i].name /\ (Older(i)').name = modules'[i].name
  BY <1>1 DEF Older
<1>3. QED
  BY <1>2

\* A step that does not keep a module leaves the names.
LEMMA NamesUnlessKept ==
  ASSUME LInv, [Next]_vars
  PROVE  NamesStay \/ (ctx # Idle /\ \E mems : Keep(mems))
<1>1. LInv' /\ OlderStep
  BY NextGood DEF Good
<1>2. CASE ctx # Idle /\ ~\E mems : Keep(mems)
  <2>1. Kept = ctx.mark.modules /\ Kept \in Nat /\ Kept <= Len(modules)
    BY <1>2, ModuleTypes DEF Kept
  <2>2. Kept' = Kept /\ module_bindings' = module_bindings /\ Kept <= Len(modules')
    <3>1. CASE Reads
      <4>1. ctx' # Idle
        <5>1. "mark" \in DOMAIN ctx' /\ "mark" \notin DOMAIN Idle
          BY <1>2, <3>1, ReadingContext DEF LInv, Reads, CtxKept, Idle
        <5>2. QED
          BY <5>1
      <4>2. Kept' = Kept
        BY <2>1, <3>1, <4>1 DEF Kept, Reads, CtxKept
      <4>3. Kept' <= Len(modules')
        <5>1. /\ ctx'.mark.modules \in Nat
              /\ Len(modules') = ctx'.mark.modules + 1
          BY <1>1, <4>1 DEF LInv, IInv, LastUnnamed
        <5>2. Kept' = ctx'.mark.modules
          BY <4>1 DEF Kept
        <5>3. QED
          BY <5>1, <5>2
      <4>4. QED
        BY <3>1, <4>2, <4>3 DEF Reads
    <3>2. CASE \E mems : UndoAfter(mems)
      <4>1. modules' = SubSeq(modules, 1, Kept) /\ ctx' = Idle
            /\ module_bindings' = module_bindings
        BY <2>1, <3>2 DEF UndoAfter, Reset, bindingVars
      <4>2. IsSequence(modules) /\ Kept \in 0 .. Len(modules)
        BY <2>1, ModuleTypes
      <4>3. Len(modules') = Kept
        BY <4>1, <4>2, SubSequence
      <4>4. QED
        BY <2>1, <4>1, <4>3 DEF Kept
    <3>3. QED
      BY <1>2, <3>1, <3>2, ReadingEnds
  <2>3. ASSUME NEW m \in 1 .. Kept PROVE modules'[m].name = modules[m].name
    <3>1. Older(m)' = Older(m)
      BY <1>1, <1>2, <2>1 DEF OlderStep
    <3>2. m \in 1 .. Len(modules) /\ m \in 1 .. Len(modules')
      <4>1. Len(modules) \in Nat /\ Len(modules') \in Nat
        <5>1. IsSequence(modules) /\ IsSequence(modules')
          BY <1>1 DEF LInv, IInv, Named
        <5>2. QED
          BY <5>1, LenNat
      <4>2. QED
        BY <2>1, <2>2, <4>1
    <3>3. IsModule(modules[m]) /\ IsModule(modules'[m])
      BY <1>1, <3>2 DEF LInv, ModulesTyped
    <3>4. QED
      BY <3>1, <3>3, OlderName
  <2>4. QED
    BY <2>2, <2>3 DEF NamesStay
<1>3. CASE ctx = Idle
  <2>0. IsSequence(modules) /\ Kept = Len(modules) /\ Len(modules) \in Nat
    BY <1>3, ModuleTypes
  <2>1. \/ UNCHANGED <<modules, module_bindings, ctx>>
        \/ \E command, name : BeginModule(command, name)
    <3>1. ~ReadModule
      BY <1>3 DEF ReadModule, OnImportFunc, OnImportTable, OnImportMemory,
         OnImportGlobal, CanImport, OnFunctions, OnGlobals, OnTable, OnMemory,
         OnExport, OnStartFunction, OnElem, RejectModule, EndModule,
         RunStartFunction, At, Reading
    <3>2. QED
      BY <3>1 DEF Next, OnRegister, OnAction, Ended, vars, envVars, bindingVars
  <2>2. CASE UNCHANGED <<modules, module_bindings, ctx>>
    BY <2>2 DEF NamesStay, Kept
  <2>3. CASE \E command, name : BeginModule(command, name)
    <3>1. PICK r : modules' = Append(modules, r)
      BY <2>3 DEF BeginModule
    <3>2. module_bindings' = module_bindings /\ ctx'.mark.modules = Len(modules)
          /\ "mark" \in DOMAIN ctx'
      BY <2>3 DEF BeginModule, bindingVars, wasm_mark_interpreter_environment
    <3>3. ctx' # Idle
      <4>1. "mark" \notin DOMAIN Idle
        BY DEF Idle
      <4>2. QED
        BY <3>2, <4>1
    <3>4. \A m \in 1 .. Len(modules) : modules'[m] = modules[m]
      BY <2>0, <3>1, AppendSequence
    <3>5. QED
      BY <2>0, <3>2, <3>3, <3>4 DEF NamesStay, Kept
  <2>4. QED
    BY <2>1, <2>2, <2>3
<1>4. QED
  BY <1>2, <1>3

\* Every step keeps the names bound.
LEMMA NamesBoundNext ==
  ASSUME LInv, NamesBound, [Next]_vars
  PROVE  NamesBound'
<1>1. CASE NamesStay
  <2>1. \A b \in 1 .. Len(module_bindings) : module_bindings[b][2] \in 1 .. Kept
    BY DEF LInv, IInv, LeadsBelow
  <2>2. QED
    BY <1>1, <2>1 DEF NamesStay, NamesBound
<1>2. CASE ctx # Idle /\ \E mems : Keep(mems)
  <2> DEFINE n == Len(modules)
             r == Updated(modules[n], "name", ctx.name)
             bs == module_bindings
  <2>1. /\ IsSequence(modules) /\ n = Kept + 1 /\ Kept \in Nat /\ n \in 1 .. n
        /\ IsModule(modules[n])
    <3>1. /\ IsSequence(modules) /\ n = Kept + 1 /\ Kept \in Nat
          /\ \A m \in 1 .. n : IsModule(modules[m])
      BY <1>2, ModuleTypes
    <3>2. n \in 1 .. n
      BY <3>1
    <3>3. QED
      BY <3>1, <3>2
  <2>2. /\ modules' = Updated(modules, n, r) /\ ctx' = Idle
        /\ bs' = IF ctx.name = NO_NAME THEN bs ELSE Append(bs, <<ctx.name, n>>)
    BY <1>2 DEF Keep, BindName, Module, Updated
  <2>3. r.name = ctx.name
    BY <2>1 DEF Updated, IsModule
  <2> HIDE DEF r
  <2>4. /\ Len(modules') = n
        /\ \A j \in 1 .. n : modules'[j] = IF j = n THEN r ELSE modules[j]
    BY <2>1, <2>2, ReplaceSequence
  <2>5. Kept' = n
    BY <2>2, <2>4 DEF Kept
  <2>6. /\ modules'[n].name = ctx.name
        /\ \A m \in 1 .. Kept : modules'[m].name = modules[m].name
    <3>1. ASSUME NEW m \in 1 .. Kept PROVE m \in 1 .. n /\ m # n
      BY <2>1
    <3>2. QED
      BY <2>1, <2>3, <2>4, <3>1
  <2>7. /\ IsSequence(bs) /\ Len(bs) \in Nat
        /\ \A b \in 1 .. Len(bs) : bs[b][2] \in 1 .. Kept
    BY LenNat DEF LInv, IInv, LeadsBelow
  <2>8. CASE ctx.name = NO_NAME
    <3>1. bs' = bs /\ ctx.name \notin Names
      BY <2>2, <2>8, EnvironmentAssumption
    <3>2. \A b \in 1 .. Len(bs') : modules'[bs'[b][2]].name = bs'[b][1]
      BY <2>6, <2>7, <3>1 DEF NamesBound
    <3>3. ASSUME NEW m \in 1 .. n, modules'[m].name \in Names
          PROVE  \E b \in 1 .. Len(bs') : bs'[b][1] = modules'[m].name /\ bs'[b][2] = m
      <4>1. m \in 1 .. Kept
        <5>1. m # n
          BY <2>6, <3>1, <3>3
        <5>2. QED
          BY <2>1, <5>1
      <4>2. QED
        BY SMTT(30), <2>6, <3>1, <3>3, <4>1 DEF NamesBound
    <3>4. QED
      BY <2>5, <3>2, <3>3 DEF NamesBound
  <2>9. CASE ctx.name # NO_NAME
    <3>1. /\ Len(bs') = Len(bs) + 1 /\ bs'[Len(bs) + 1] = <<ctx.name, n>>
          /\ \A b \in 1 .. Len(bs) : bs'[b] = bs[b]
      BY <2>2, <2>7, <2>9, AppendSequence
    <3>2. ASSUME NEW b \in 1 .. Len(bs') PROVE modules'[bs'[b][2]].name = bs'[b][1]
      <4>1. CASE b \in 1 .. Len(bs)
        BY <2>6, <2>7, <3>1, <4>1 DEF NamesBound
      <4>2. CASE b = Len(bs) + 1
        <5>1. bs'[b][1] = ctx.name /\ bs'[b][2] = n
          BY <3>1, <4>2
        <5>2. QED
          BY <2>6, <5>1
      <4>3. QED
        BY <2>7, <3>1, <4>1, <4>2
    <3>3. ASSUME NEW m \in 1 .. n, modules'[m].name \in Names
          PROVE  \E b \in 1 .. Len(bs') : bs'[b][1] = modules'[m].name /\ bs'[b][2] = m
      <4>1. CASE m = n
        <5>1. Len(bs) + 1 \in 1 .. Len(bs')
          BY <2>7, <3>1
        <5>2. bs'[Len(bs) + 1][1] = modules'[m].name /\ bs'[Len(bs) + 1][2] = m
          BY <2>6, <3>1, <4>1
        <5>3. QED
          BY <5>1, <5>2
      <4>2. CASE m # n
        <5>1. m \in 1 .. Kept
          BY <2>1, <4>2
        <5>2. PICK b \in 1 .. Len(bs) : bs[b][1] = modules[m].name /\ bs[b][2] = m
          BY <2>6, <3>3, <5>1 DEF NamesBound
        <5>3. b \in 1 .. Len(bs') /\ bs'[b] = bs[b]
          BY <2>7, <3>1
        <5>4. QED
          BY <2>6, <5>1, <5>2, <5>3
      <4>3. QED
        BY <4>1, <4>2
    <3>4. QED
      BY <2>5, <3>2, <3>3 DEF NamesBound
  <2>10. QED
    BY <2>8, <2>9
<1>3. QED
  BY <1>1, <1>2, NamesUnlessKept

\* The host module's name is not one of the commands.
LEMMA NamesBoundInit == Init => NamesBound
<1> SUFFICES ASSUME Init PROVE NamesBound
  OBVIOUS
<1>1. Len(module_bindings) = 0 /\ Kept = Len(modules)
  BY DEF Init, Kept
<1>2. PICK r : modules = <<r>> /\ r.name = SPECTEST
  BY DEF Init
<1>3. Len(modules) = 1 /\ modules[1].name = SPECTEST
  BY <1>2
<1>4. QED
  BY <1>1, <1>3, EnvironmentAssumption DEF NamesBound

\* Two members of a set of at most one are the same.
LEMMA AtMostOne ==
  ASSUME NEW n \in Nat, NEW S, S \subseteq 1 .. n, Cardinality(S) <= 1,
         NEW x \in S, NEW y \in S
  PROVE  x = y
<1>1. IsFiniteSet(1 .. n)
  BY FS_Interval
<1>2. IsFiniteSet(S)
  BY <1>1, FS_Subset
<1>3. Cardinality(S) \in Nat /\ Cardinality(S) # 0
  BY <1>2, FS_CardinalityType, FS_EmptySet
<1>4. Cardinality(S) = 1
  BY <1>3
<1>5. PICK z : S = {z}
  BY <1>2, <1>4, FS_Singleton
<1>6. QED
  BY <1>5

\* Where the names are bound, the list and the hash agree.
LEMMA NamesBoundAgree == LInv /\ NamesBound => NamesAgree
<1> DEFINE bs == module_bindings
           S(name) == {b \in DOMAIN bs : bs[b][1] = name}
<1> SUFFICES ASSUME LInv, NamesBound, NEW name \in Names, Cardinality(S(name)) <= 1
             PROVE  ModuleOfName(name) = ModuleOfAction(name)
  BY DEF NamesAgree
<1> DEFINE names == [i \in DOMAIN bs |-> bs[i][1]]
           b == Found(names, name)
           named == {i \in DOMAIN modules : modules[i].name = name}
<1>1. /\ DOMAIN bs = 1 .. Len(bs) /\ Len(bs) \in Nat
      /\ \A i \in 1 .. Len(bs) : bs[i][2] \in 1 .. Kept
  BY LenNat DEF LInv, IInv, LeadsBelow
<1>2. name # NO_NAME
  BY EnvironmentAssumption
<1>3. /\ DOMAIN modules = 1 .. Len(modules) /\ Len(modules) \in Nat
      /\ Kept \in Nat /\ Kept <= Len(modules)
  BY ModuleTypes
<1>4. ModuleOfAction(name) = IF b = 0 THEN 0 ELSE bs[b][2]
  BY <1>2 DEF ModuleOfAction, wasm_find_binding_index_by_name
<1>5. ModuleOfName(name) = IF named = {} THEN 0 ELSE Min(named)
  BY <1>2 DEF ModuleOfName
<1>6. ASSUME b # 0
      PROVE  b \in 1 .. Len(bs) /\ bs[b][1] = name
  <2>1. DOMAIN names = 1 .. Len(bs)
    BY <1>1
  <2>2. b \in 1 .. Len(bs) /\ names[b] = name
    <3> HIDE DEF names
    <3>1. QED
      BY <1>1, <1>6, <2>1, FoundIn
  <2>3. QED
    BY <1>1, <2>2
<1>7. ASSUME NEW i \in 1 .. Len(bs), bs[i][1] = name PROVE b # 0
  <2>1. names[i] = name /\ DOMAIN names = 1 .. Len(bs)
    BY <1>1, <1>7
  <2> HIDE DEF names
  <2>2. QED
    BY <1>1, <2>1, FoundSome
<1> HIDE DEF b, names
<1>8. CASE named = {}
  <2>1. b = 0
    <3>1. SUFFICES ASSUME b # 0 PROVE FALSE
      OBVIOUS
    <3>2. b \in 1 .. Len(bs) /\ bs[b][1] = name
      BY <1>6, <3>1
    <3>3. bs[b][2] \in 1 .. Len(modules) /\ modules[bs[b][2]].name = name
      BY <1>1, <1>3, <3>2 DEF NamesBound
    <3>4. QED
      BY <1>3, <1>8, <3>3
  <2>2. QED
    BY <1>4, <1>5, <1>8, <2>1
<1>9. CASE named # {}
  <2>1. named \subseteq 1 .. Len(modules)
    BY <1>3
  <2>2. Min(named) \in named
    <3> HIDE DEF named
    <3>1. QED
      BY <1>3, <1>9, <2>1, LeastElement
  <2>3. PICK m \in 1 .. Len(modules) : m = Min(named) /\ modules[m].name = name
    BY <1>3, <2>2
  <2>4. m \in 1 .. Kept
    <3>1. CASE ctx = Idle
      BY <1>3, <3>1, ModuleTypes
    <3>2. CASE ctx # Idle
      <4>1. modules[Len(modules)].name = NO_NAME
        BY <3>2 DEF LInv, IInv, LastUnnamed
      <4>2. m # Len(modules) /\ Len(modules) = Kept + 1
        BY <1>2, <2>3, <3>2, <4>1, ModuleTypes
      <4>3. QED
        BY <1>3, <4>2
    <3>3. QED
      BY <3>1, <3>2
  <2>5. PICK c \in 1 .. Len(bs) : bs[c][1] = name /\ bs[c][2] = m
    BY <2>3, <2>4 DEF NamesBound
  <2>6. b # 0
    BY <1>7, <2>5
  <2>7. b \in S(name) /\ c \in S(name)
    BY <1>1, <1>6, <2>5, <2>6
  <2>8. S(name) \subseteq 1 .. Len(bs)
    BY <1>1
  <2>9. b = c
    <3> HIDE DEF S
    <3>1. QED
      BY <1>1, <2>7, <2>8, AtMostOne
  <2>10. QED
    BY <1>4, <1>5, <1>9, <2>3, <2>5, <2>6, <2>9
<1>10. QED
  BY <1>8, <1>9

\* The hash that run_action asks and the list that on_register_command
\* searches agree on every name that was bound once at most, whatever modules
\* were undone between.
THEOREM NamesAgreeAlways == Spec => []NamesAgree
<1>1. LInv /\ NamesBound /\ [Next]_vars => LInv' /\ NamesBound'
  BY NextGood, NamesBoundNext DEF Good
<1>2. QED
  BY InitLInv, NamesBoundInit, <1>1, NamesBoundAgree, PTL DEF Spec

=============================================================================
