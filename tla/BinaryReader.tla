------------------------------ MODULE BinaryReader -----------------------------
(* binary-reader.c: reading a binary file with the callbacks of
   binary-reader-ast.c.  The state of a read is

     data, off, end   the bytes, the offset of the next one, and read_end
     ok               FALSE once an error has been raised (the longjmp)
     v                what the last read returned
     last             last_known_section_code, NoSection before the first
     read_debug_names  the option
     num              the counts of Context: what a section announced
     m, labels, func, asserts   the builder's (BinaryReaderAst)

   Every operator takes a state and gives the state after it; after an error
   nothing more is read: Then(r, F) goes on with F only while r is ok. *)
EXTENDS BinaryReaderAst, BinaryWriter

NoSection == 12

Then(r, F(_)) == IF r.ok THEN F(r) ELSE r
Returning(r, v) == [r EXCEPT !.v = v]

(* --------------------------------- primitives ------------------------------ *)
\* n bytes, when read_end is not before their end; the value is v
Take(r, n, v) == [r EXCEPT !.v = v, !.off = @ + n]

in_u8(r) == IF r.off + 1 > r.end THEN Raise(r) ELSE Take(r, 1, r.data[r.off + 1])

\* in_u32, and the bits of a float as their bytes
in_fixed(r, n) ==
  IF r.off + n > r.end THEN Raise(r) ELSE Take(r, n, SubSeq(r.data, r.off + 1, r.off + n))

in_leb128(r, res) == IF res.n = 0 THEN Raise(r) ELSE Take(r, res.n, res.v)
in_u32_leb128(r) == in_leb128(r, wasm_read_u32_leb128(r.data, r.off, r.end, WordBits))
in_i32_leb128(r) == in_leb128(r, wasm_read_i32_leb128(r.data, r.off, r.end, WordBits))
in_const_leb128(r) == in_leb128(r, wasm_read_i32_leb128(r.data, r.off, r.end, Width))

in_type(r) == Then(in_i32_leb128(r), LAMBDA x : RAISE_ERROR_UNLESS(x, x.v \in -128 .. 127))

\* in_str and in_bytes
in_str(r) == Then(in_u32_leb128(r), LAMBDA x : in_fixed(x, x.v))

ConcreteTypes == {I32, I64, F32, F64}
in_concrete_type(r) == Then(in_type(r), LAMBDA x : RAISE_ERROR_UNLESS(x, x.v \in ConcreteTypes))

\* The loop over n items; what each Read leaves in v is collected.
Times(r, n, Read(_, _)) ==
  LET Collect(acc, x) == IF acc.r.ok THEN [r |-> x, vs |-> Append(acc.vs, x.v)] ELSE acc
      Step(acc, i) == Collect(acc, Read(acc.r, i))
      Collected(all) == Returning(all.r, all.vs)
  IN Then(r, LAMBDA x : Collected(FoldLeft(Step, [r |-> x, vs |-> <<>>], [i \in 1 .. n |-> i])))

\* a count and that many items
Counted(r, Read(_, _)) == Then(in_u32_leb128(r), LAMBDA x : Times(x, x.v, Read))

num_total(r, k) == r.num.imports[k] + r.num[k]

(* -------------------------------- expressions ------------------------------ *)
\* The immediate of a constant, as an expression
ReadConst(r, type) ==
  LET Value(x) == IF type \in {I32, I64} THEN x.v % 2^Width ELSE x.v
  IN Then(IF type \in {I32, I64} THEN in_const_leb128(r)
          ELSE in_fixed(r, IF type = F32 THEN 4 ELSE 8),
          LAMBDA x : Returning(x, [op |-> "const", type |-> type, value |-> Value(x)]))

ReadGetGlobal(r) ==
  Then(in_u32_leb128(r), LAMBDA x : Returning(x, [op |-> "get_global", var |-> Idx(x.v)]))

\* An expression of one constant or global, or none, and END
read_init_expr(r) ==
  LET Expr(x) == CASE 64 - x.v \in ConcreteTypes -> ReadConst(x, 64 - x.v)
                   [] x.v = Opcode.get_global -> ReadGetGlobal(x)
                   [] OTHER -> Raise(x)
      End(x) == Then(in_u8(x), LAMBDA y : RAISE_ERROR_UNLESS(on_init_expr(y, x.v), y.v = Opcode.end))
  IN Then(in_u8(r), LAMBDA x : IF x.v = Opcode.end THEN Returning(x, <<>>) ELSE Then(Expr(x), End))

ReadBlock(r, op) ==
  Then(in_type(r), LAMBDA x :
    IF x.v \notin ConcreteTypes \cup {VOID} THEN Raise(x)
    ELSE on_block_expr(x, op, IF x.v = VOID THEN <<>> ELSE <<x.v>>))

ReadBr(r, op) == Then(in_u32_leb128(r), LAMBDA x : on_br_expr(x, op, x.v))

ReadBrTable(r) ==
  Then(Counted(r, LAMBDA x, i : in_u32_leb128(x)), LAMBDA targets :
    Then(in_u32_leb128(targets), LAMBDA x : on_br_table_expr(x, targets.v, x.v)))

\* current_memory, grow_memory and call_indirect end in a reserved value.
in_reserved(r) == Then(in_u32_leb128(r), LAMBDA x : RAISE_ERROR_UNLESS(x, x.v = 0))

ReadCall(r) ==
  Then(in_u32_leb128(r), LAMBDA x :
    Then(RAISE_ERROR_UNLESS(x, x.v < num_total(x, "func")), LAMBDA y : on_call_expr(y, "call", y.v)))

ReadCallIndirect(r) ==
  Then(in_u32_leb128(r), LAMBDA x :
    Then(RAISE_ERROR_UNLESS(x, x.v < x.num.type), LAMBDA y :
      Then(in_reserved(y), LAMBDA z : on_call_expr(z, "call_indirect", x.v))))

\* Neither locals nor globals are checked against their number.
VariableOps == {"get_local", "set_local", "tee_local", "get_global", "set_global"}
ReadVariable(r, op) == Then(in_u32_leb128(r), LAMBDA x : on_variable_expr(x, op, x.v))

ReadMemoryAccess(r, op) ==
  Then(in_u32_leb128(r), LAMBDA align :
    Then(in_u32_leb128(align), LAMBDA offset : on_memory_access_expr(offset, op, align.v, offset.v)))

OpcodeNames == DOMAIN Opcode
NameOf(code) == CHOOSE op \in OpcodeNames : Opcode[op] = code

(* END at the end of the body is not passed on; ReadOpcode is every other case
   of the switch. *)
ReadOpcode(r, code) ==
  LET known == \E o \in OpcodeNames : Opcode[o] = code
      op == IF known THEN NameOf(code) ELSE "const"
  IN CASE ~known /\ 64 - code \notin ConcreteTypes -> Raise(r)
       [] op = "const" -> Then(ReadConst(r, 64 - code), LAMBDA x : on_const_expr(x, x.v))
       [] op = "end" -> on_end_expr(r)
       [] op = "else" -> on_else_expr(r)
       [] op \in BlockOps -> ReadBlock(r, op)
       [] op \in {"br", "br_if"} -> ReadBr(r, op)
       [] op = "br_table" -> ReadBrTable(r)
       [] op = "call" -> ReadCall(r)
       [] op = "call_indirect" -> ReadCallIndirect(r)
       [] op \in VariableOps -> ReadVariable(r, op)
       [] op \in {"load", "store"} -> ReadMemoryAccess(r, op)
       [] op \in {"current_memory", "grow_memory"} ->
            Then(in_reserved(r), LAMBDA x : on_bare_expr(x, op))
       [] op \in {"add", "eqz"} -> on_opcode_expr(r, op)
       [] OTHER -> on_bare_expr(r, op)

RECURSIVE read_function_body(_, _, _)
read_function_body(r, end_offset, seen_end_opcode) ==
  LET Step(x) == IF x.v = Opcode.end /\ x.off = end_offset
                 THEN read_function_body(x, end_offset, TRUE)
                 ELSE read_function_body(ReadOpcode(x, x.v), end_offset, seen_end_opcode)
  IN CASE r.ok /\ r.off < end_offset -> Then(in_u8(r), Step)
       [] r.ok /\ r.off >= end_offset -> RAISE_ERROR_UNLESS(r, r.off = end_offset /\ seen_end_opcode)
       [] OTHER -> r

(* --------------------------------- sections -------------------------------- *)
\* read_table after the type of its elements, and read_memory with a bound
ReadLimits(r, bound) ==
  LET WithMax(initial, x) ==
        RAISE_ERROR_UNLESS(Returning(x, [initial |-> initial, max |-> <<x.v>>]),
                           x.v <= bound /\ initial <= x.v)
      Initial(has_max, x) ==
        Then(RAISE_ERROR_UNLESS(x, x.v <= bound), LAMBDA y :
          IF has_max THEN Then(in_u32_leb128(y), LAMBDA z : WithMax(y.v, z))
          ELSE Returning(y, [initial |-> y.v, max |-> <<>>]))
  IN Then(in_u32_leb128(r), LAMBDA flags :
       Then(in_u32_leb128(flags), LAMBDA x : Initial(flags.v % 2 = 1, x)))

read_table(r) ==
  Then(in_type(r), LAMBDA x :
    Then(RAISE_ERROR_UNLESS(x, x.v = ANYFUNC), LAMBDA y : ReadLimits(y, 2^WordBits)))
read_memory(r) == ReadLimits(r, MaxPages)

read_global_header(r) ==
  Then(in_concrete_type(r), LAMBDA type :
    Then(in_u8(type), LAMBDA x :
      RAISE_ERROR_UNLESS(Returning(x, [type |-> type.v, mutable |-> x.v = 1]), x.v <= 1)))

\* A section that is a list: its count is kept, and bounded where the code does.
Section(r, count, Bounded(_), Read(_, _)) ==
  Then(in_u32_leb128(r), LAMBDA x :
    Times(RAISE_ERROR_UNLESS([x EXCEPT !.num[count] = x.v], Bounded(x.v)), x.v, Read))

AnyCount(n) == TRUE
AtMostOne(n) == n <= 1

read_type_section(r) ==
  LET ReadType(x, j) == in_concrete_type(x)
      Params(x) == Counted(RAISE_ERROR_UNLESS(x, x.v = FUNC), ReadType)
      Results(x) == Times(RAISE_ERROR_UNLESS(x, x.v <= 1), x.v, ReadType)
      Sig(x, i) ==
        Then(in_type(x), LAMBDA form :
          Then(Params(form), LAMBDA params :
            Then(in_u32_leb128(params), LAMBDA n :
              Then(Results(n), LAMBDA results :
                on_signature(results, [params |-> params.v, results |-> results.v])))))
  IN Section(r, "type", AnyCount, Sig)

ReadImported(r, module, field) ==
  LET Count(x, kind) == [x EXCEPT !.num.imports[kind] = @ + 1]
      Limited(x, kind) == Count(on_import(x, kind, module, field, [name |-> NoName, limits |-> x.v]), kind)
      Func(x) == Then(RAISE_ERROR_UNLESS(x, x.v < x.num.type), LAMBDA y :
                   Count(on_import_func(y, module, field, y.v), "func"))
      Global(x) == Count(on_import(x, "global", module, field,
                                   [name |-> NoName, type |-> x.v.type, mutable |-> x.v.mutable,
                                    init |-> <<>>]), "global")
  IN CASE r.v = KindCode.func -> Then(in_u32_leb128(r), Func)
       [] r.v = KindCode.table -> Then(read_table(r), LAMBDA x : Limited(x, "table"))
       [] r.v = KindCode.memory -> Then(read_memory(r), LAMBDA x : Limited(x, "memory"))
       [] r.v = KindCode.global -> Then(read_global_header(r), Global)
       [] OTHER -> Raise(r)

read_import_section(r) ==
  LET Import(x, i) ==
        Then(in_str(x), LAMBDA module :
          Then(in_str(module), LAMBDA field :
            Then(in_u32_leb128(field), LAMBDA kind : ReadImported(kind, module.v, field.v))))
  IN Section(r, "import", AnyCount, Import)

read_function_section(r) ==
  LET Func(x, i) == Then(in_u32_leb128(x), LAMBDA sig :
                      Then(RAISE_ERROR_UNLESS(sig, sig.v < sig.num.type), LAMBDA y :
                        on_function_signature(y, y.v)))
  IN Section(r, "func", AnyCount, Func)

read_table_section(r) ==
  Section(r, "table", AtMostOne, LAMBDA x, i : Then(read_table(x), LAMBDA y : on_table(y, y.v)))

read_memory_section(r) ==
  Section(r, "memory", AtMostOne, LAMBDA x, i : Then(read_memory(x), LAMBDA y : on_memory(y, y.v)))

read_global_section(r) ==
  LET Global(x, i) == Then(read_global_header(x), LAMBDA header :
                        Then(read_init_expr(header), LAMBDA init : on_global(init, header.v, init.v)))
  IN Section(r, "global", AnyCount, Global)

read_export_section(r) ==
  LET KindOf(code) == CHOOSE k \in ExternalKinds : KindCode[k] = code
      Known(x) == RAISE_ERROR_UNLESS(x, x.v \in {KindCode[k] : k \in ExternalKinds})
      On(x, kind, name) == Then(RAISE_ERROR_UNLESS(x, x.v < num_total(x, kind)), LAMBDA y :
                             on_export(y, kind, y.v, name))
      Export(x, i) ==
        Then(in_str(x), LAMBDA name :
          Then(in_u8(name), LAMBDA byte :
            Then(Known(byte), LAMBDA kind :
              Then(in_u32_leb128(kind), LAMBDA index : On(index, KindOf(kind.v), name.v)))))
  IN Section(r, "export", AnyCount, Export)

read_start_section(r) ==
  Then(in_u32_leb128(r), LAMBDA x :
    Then(RAISE_ERROR_UNLESS(x, x.v < num_total(x, "func")), LAMBDA y : on_start_function(y, y.v)))

read_elem_section(r) ==
  LET Elem(x, i) ==
        Then(in_u32_leb128(x), LAMBDA table :
          Then(read_init_expr(table), LAMBDA offset :
            Then(Counted(offset, LAMBDA y, j : in_u32_leb128(y)), LAMBDA vars :
              on_elem_segment(vars, table.v, offset.v, vars.v))))
  IN Section(r, "elem", LAMBDA n : n = 0 \/ num_total(r, "table") > 0, Elem)

read_code_section(r) ==
  LET Decl(x, j) == Then(in_u32_leb128(x), LAMBDA n :
                      Then(in_concrete_type(n), LAMBDA t : on_local_decl(t, n.v, t.v)))
      Code(x) == Then(Counted(x, Decl), LAMBDA y : read_function_body(y, x.off + x.v, FALSE))
      Body(x, i) == Then(in_u32_leb128(begin_function_body(x, i)), LAMBDA size :
                      Then(Code(size), end_function_body))
      AllBodies(x) == Times(on_function_bodies_count(x, x.v), x.v, Body)
  IN Then(in_u32_leb128(r), LAMBDA x : Then(RAISE_ERROR_UNLESS(x, x.v = x.num.func), AllBodies))

read_data_section(r) ==
  LET Data(x, i) ==
        Then(in_u32_leb128(x), LAMBDA memory :
          Then(read_init_expr(memory), LAMBDA offset :
            Then(in_str(offset), LAMBDA bytes :
              on_data_segment(bytes, memory.v, offset.v, bytes.v))))
  IN Section(r, "data", LAMBDA n : n = 0 \/ num_total(r, "memory") > 0, Data)

ReadNames(r) ==
  LET Local(x, i, j) == Then(in_str(x), LAMBDA y : on_local_name(y, i - 1, j - 1, y.v))
      Locals(x, i) == Then(in_u32_leb128(x), LAMBDA n :
                        Times(on_local_names_count(n, i - 1, n.v), n.v, LAMBDA y, j : Local(y, i, j)))
      Func(x, i) == Then(in_str(x), LAMBDA y : Locals(on_function_name(y, i - 1, y.v), i))
      Funcs(x) == Times(on_function_names_count(x, x.v), x.v, Func)
  IN Then(in_u32_leb128(r), LAMBDA x :
       Then(RAISE_ERROR_UNLESS(x, x.v <= num_total(x, "func")), Funcs))

(* A custom section is the name section when its name is a prefix of "name" (the
   comparison stops after section_name.length characters) and an import section
   or a later one was read, or none at all (NoSection is the largest code). *)
read_custom_section(r) ==
  Then(in_str(r), LAMBDA x :
    IF x.read_debug_names /\ x.last >= SectionCode.import /\ IsPrefix(x.v, NameSection)
    THEN ReadNames(x) ELSE [x EXCEPT !.off = x.end])

ReadSection(r, code) ==
  CASE code = SectionCode.custom -> read_custom_section(r)
    [] code = SectionCode.type -> read_type_section(r)
    [] code = SectionCode.import -> read_import_section(r)
    [] code = SectionCode.function -> read_function_section(r)
    [] code = SectionCode.table -> read_table_section(r)
    [] code = SectionCode.memory -> read_memory_section(r)
    [] code = SectionCode.global -> read_global_section(r)
    [] code = SectionCode.export -> read_export_section(r)
    [] code = SectionCode.start -> read_start_section(r)
    [] code = SectionCode.elem -> read_elem_section(r)
    [] code = SectionCode.code -> read_code_section(r)
    [] code = SectionCode.data -> read_data_section(r)
    [] OTHER -> Raise(r)

InOrder(r, code) == r.last = NoSection \/ code = SectionCode.custom \/ code > r.last

\* mutant: a section that the file cuts short is read as far as it goes
SectionContentThere(r, size, code) ==
  LET x == ReadSection([r EXCEPT !.end = IF r.off + size <= Len(r.data) THEN r.off + size
                                         ELSE Len(r.data)], code)
  IN [x EXCEPT !.ok = TRUE, !.off = x.end]

SectionContent(r, size, code) ==
  Then(RAISE_ERROR_UNLESS([r EXCEPT !.end = r.off + size],
                          r.off + size <= Len(r.data) /\ InOrder(r, code)),
       LAMBDA x : ReadSection(x, code))

(* read_end is the end of the file for the header of a section, the end of the
   section for its content. *)
ReadOneSection(r) ==
  LET EndSection(x, code) ==
        RAISE_ERROR_UNLESS([x EXCEPT !.last = IF code = SectionCode.custom THEN @ ELSE code],
                           x.off = x.end)
  IN Then(in_u32_leb128([r EXCEPT !.end = Len(r.data)]), LAMBDA code :
       Then(in_u32_leb128(code), LAMBDA size :
         Then(SectionContent(size, size.v, code.v), LAMBDA x : EndSection(x, code.v))))

RECURSIVE read_sections(_)
read_sections(r) == IF ~r.ok \/ r.off >= Len(r.data) THEN r ELSE read_sections(ReadOneSection(r))

Reading(data, read_debug_names) ==
  [data |-> data, read_debug_names |-> read_debug_names, off |-> 0, end |-> Len(data), ok |-> TRUE,
   v |-> 0, last |-> NoSection,
   num |-> [imports |-> [k \in ExternalKinds |-> 0]] @@ [k \in VectorKinds |-> 0],
   m |-> EmptyModule, labels |-> <<>>, func |-> 0, asserts |-> TRUE]

(* wasm_read_binary and wasm_read_binary_ast: [ok, asserts, m], no module after
   an error.  A label that is still open destroys its expressions, which belong
   to the module. *)
wasm_read_binary_ast(data, read_debug_names) ==
  LET Is(x, bytes) == RAISE_ERROR_UNLESS(x, x.v = bytes)
      Header(x) == Then(in_fixed(x, 4), LAMBDA y : Is(y, Magic))
      Numbered(x) == Then(in_fixed(x, 4), LAMBDA y : Is(y, Version))
      Result(r) == [ok |-> r.ok, asserts |-> r.asserts /\ (r.ok => r.labels = <<>>),
                    m |-> IF r.ok THEN r.m ELSE EmptyModule]
  IN Result(Then(Then(Header(Reading(data, read_debug_names)), Numbered), read_sections))
================================================================================
