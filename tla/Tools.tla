--------------------------------- MODULE Tools ---------------------------------
(* The converters as they are used together: wast2wasm (parse, resolve names,
   validate, write), wasm2wast (read, generate names, apply names, write text)
   and wast2wasm again on the text that came out, which is what the repository's
   run-roundtrip.py does.  Each pass is a step; a pass that reports an error ends
   the conversion.  The file may be cut short between the two tools.  A module
   is typed field by field. *)
EXTENDS BinaryReader, AstWriter, ModuleValidator, Names

CONSTANTS Texts,      \* module texts to begin with
          Fields,     \* fields that may be added to a text
          MaxFields,  \* the longest text, in fields
          Options,    \* [canonicalize_lebs, debug_names, generate_names]
          Cuts        \* the texts whose file may be cut short

VARIABLES text, opts, phase, round, mod, files, cut
toolVars == <<text, opts, phase, round, mod, files, cut>>

WriteOptions == [canonicalize_lebs |-> opts.canonicalize_lebs, write_debug_names |-> opts.debug_names]

Init ==
  /\ text \in Texts /\ opts \in Options
  /\ phase = "text" /\ round = 1 /\ mod = EmptyModule /\ files = <<>> /\ cut = FALSE

Type ==
  /\ phase = "text" /\ round = 1 /\ Len(text) < MaxFields
  /\ \E t \in Fields : text' = Append(text, t)
  /\ UNCHANGED <<opts, phase, round, mod, files, cut>>

\* A pass turns mod into m and goes on to next, or ends the conversion.
Pass(from, m, ok, next, failed) ==
  /\ phase = from
  /\ mod' = m
  /\ phase' = IF ok THEN next ELSE failed
  /\ UNCHANGED <<text, opts, round, cut>>

wasm_parse_ast ==
  LET m == ParseModule(text)
  IN Pass("text", m, ~m.errors, "parsed", "rejected") /\ UNCHANGED files

wasm_resolve_names ==
  LET m == wasm_resolve_names_module(mod)
  IN Pass("parsed", m, ~m.errors, "resolved", "rejected") /\ UNCHANGED files

wasm_validate ==
  Pass("resolved", mod, check_module(mod), "valid", "rejected") /\ UNCHANGED files

wasm_write_binary ==
  LET ok == WriterAssertions(mod)
  IN /\ Pass("valid", mod, ok, IF round = 1 THEN "written" ELSE "done", "aborted")
     /\ files' = IF ok THEN Append(files, wasm_write_binary_module(mod, WriteOptions)) ELSE files

\* Not every byte of the file arrives.
Cut ==
  /\ text \in Cuts /\ phase = "written" /\ ~cut
  /\ \E n \in 0 .. Len(files[1]) - 1 : files' = <<SubSeq(files[1], 1, n)>>
  /\ cut' = TRUE
  /\ UNCHANGED <<text, opts, phase, round, mod>>

ReadResult(r) ==
  /\ Pass("written", r.m, r.ok /\ r.asserts, "read", IF r.asserts THEN "unreadable" ELSE "aborted")
  /\ UNCHANGED files

wasm_read_binary ==
  phase = "written" /\ ReadResult(wasm_read_binary_ast(files[1], opts.debug_names))

GenerateNames ==
  Pass("read", IF opts.generate_names THEN wasm_generate_names(mod) ELSE mod, TRUE, "named", "")
  /\ UNCHANGED files

nameless == ~opts.debug_names /\ ~opts.generate_names

(* wasm2wast ignores the result of the pass: one that fails has applied some of
   the names, none if there are none to apply; a text with names in one place and
   not in another is not followed further. *)
ApplyNames ==
  LET fails == ApplyFails(mod)
  IN Pass("named", IF fails THEN mod ELSE wasm_apply_names(mod), fails => nameless,
          "applied", "half applied")
     /\ UNCHANGED files

WriteText ==
  /\ phase = "applied"
  /\ text' = wasm_write_ast(mod) /\ phase' = "text" /\ round' = 2
  /\ UNCHANGED <<opts, mod, files, cut>>

Ended ==
  /\ phase \in {"rejected", "aborted", "unreadable", "half applied", "done"}
  /\ UNCHANGED toolVars

Next ==
  \/ Type \/ wasm_parse_ast \/ wasm_resolve_names \/ wasm_validate \/ wasm_write_binary
  \/ Cut \/ wasm_read_binary \/ GenerateNames \/ ApplyNames \/ WriteText \/ Ended

Spec == Init /\ [][Next]_toolVars

(* -------------------------------- properties ------------------------------- *)
\* What a module says apart from its names: every variable is an index.
RECURSIVE Nameless(_)
Nameless(es) ==
  [i \in DOMAIN es |->
     LET e == es[i]
     IN CASE e.op \in {"block", "loop"} -> [e EXCEPT !.label = NoName, !.body = Nameless(@)]
          [] e.op = "if" -> [e EXCEPT !.label = NoName, !.body = Nameless(@), !.false = Nameless(@)]
          [] e.op \in {"load", "store"} -> [e EXCEPT !.align = wasm_get_opcode_alignment(@)]
          [] OTHER -> e]

Meaning(m, k) ==
  LET Of(x) ==
        CASE k = "type" -> x.sig
          [] k = "func" -> [type |-> wasm_get_func_type_index_by_decl(m, x), sig |-> x.sig,
                            locals |-> x.local_types, body |-> Nameless(x.body)]
          [] k \in {"table", "memory"} -> x.limits
          [] k = "global" -> [type |-> x.type, mutable |-> x.mutable, init |-> Nameless(x.init)]
          [] OTHER -> x
      In(i) == m.fields[m.vec["import"][i]]
  IN IF k = "import"
     THEN [i \in DOMAIN m.vec["import"] |-> <<In(i).kind, In(i).module, In(i).field>>]
     ELSE [i \in DOMAIN m.vec[k] |-> Of(Items(m, k)[i])]

StartOf(m) == IF m.start = 0 THEN <<>> ELSE <<m.fields[m.start].item.var.index>>

(* The binary reader rebuilds, from the file of a module that was written, a
   module with the same types, imports, functions, tables, memories, globals,
   exports, segments and start function; no error is raised and no assertion of
   the builder fails (binary-reader.c, binary-reader-ast.c). *)
ReadsBack ==
  [][phase = "written" /\ ~cut /\ phase' # "written" =>
       /\ phase' = "read"
       /\ \A k \in VectorKinds : Meaning(mod', k) = Meaning(mod, k)
       /\ StartOf(mod') = StartOf(mod)]_toolVars

Bodies(m) == [i \in DOMAIN Defined(m, "func") |-> Nameless(Defined(m, "func")[i].body)]

(* A file that was cut short is refused, or what is read of it is whole sections:
   of every kind of item all or none, and of the functions' bodies all or none
   (wasm_read_binary checks that sections fit the file, but not that the bodies of
   the declared functions are there). *)
CutAtSection ==
  [][phase = "written" /\ cut /\ phase' = "read" =>
       /\ \A k \in VectorKinds \ {"func"} :
            Meaning(mod', k) = <<>> \/ Meaning(mod', k) = Meaning(mod, k)
       /\ Len(mod'.vec["func"]) \in {0, mod.num_imports["func"], Len(mod.vec["func"])}
       /\ Bodies(mod') = Bodies(mod) \/ \A i \in DOMAIN Bodies(mod') : Bodies(mod')[i] = <<>>]_toolVars

\* Two things of one kind that a text would call by one name.
Clashes(names) == \E i, j \in DOMAIN names : i # j /\ names[i] # NoName /\ names[i] = names[j]
NamesOf(b) == [i \in DOMAIN b |-> b[i].name]
Ambiguous(m) ==
  \/ \E x \in ToSet(Items(m, "export")) : x.kind # "func"
  \/ \E k \in ExternalKinds : Clashes(NamesOf(m.bind[k]))
  \/ \E f \in ToSet(Items(m, "func")) :
       Clashes(NamesOf(f.param_bindings) \o NamesOf(f.local_bindings))

\* A param or local with a name behind one without: the text has both in one field,
\* which the grammar does not accept.
NameBehind(types, b) ==
  LET names == wasm_make_type_binding_reverse_mapping(types, b)
  IN \E i, j \in DOMAIN names : i < j /\ names[i] = NoName /\ names[j] # NoName
SharesField(m) ==
  \E f \in ToSet(Items(m, "func")) :
    \/ NameBehind(f.sig.params, f.param_bindings)
    \/ NameBehind(f.local_types, f.local_bindings)

(* "making sure the .wasm results are identical" (README.md, run-roundtrip): the
   text wasm2wast writes is accepted by wast2wasm, unless a param or local without
   a name stands before one with a name, and what is accepted gives the same file,
   with or without names; not when the names are ambiguous, and generated names in
   the name section of the second file are new. *)
RoundTrip ==
  round = 2 /\ ~cut /\ (nameless \/ ~Ambiguous(mod)) =>
    /\ nameless \/ ~SharesField(mod) => phase \notin {"rejected", "aborted"}
    /\ phase = "done" /\ ~(opts.debug_names /\ opts.generate_names) => files[2] = files[1]

\* Some list of expressions goes on after one that diverts control.
RECURSIVE GoesOn(_)
GoesOn(es) ==
  \/ Checked(es) # es
  \/ \E i \in DOMAIN es : /\ es[i].op \in BlockOps
                          /\ GoesOn(es[i].body) \/ (es[i].op = "if" /\ GoesOn(es[i].false))

(* What the validator accepts can be written: the assertions on indexes of
   binary-writer.c hold, except for the indexes in code behind a branch, which
   check_block does not look at. *)
ValidWritten ==
  phase = "aborted" /\ Len(files) < round => \E f \in ToSet(Items(mod, "func")) : GoesOn(f.body)
================================================================================
