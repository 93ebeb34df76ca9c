------------------------------- MODULE AstWriter -------------------------------
(* ast-writer.c: a module as text, in the form ParseModule (Ast) reads.  The text
   is written from the list of fields, in its order, and always in the flat form.
   A name comes from the item or, for params and locals, from the reverse mapping
   of the bindings; an index without a name is written in a comment. *)
EXTENDS BinaryWriter

\* The table or memory of a segment is not written: the parser takes index 0.
DefaultVar == Idx(0)

write_block(e, body) ==
  [op |-> e.op, label |-> e.label, sig |-> e.sig, body |-> body, ends |-> <<>>]
write_const(e) == [e EXCEPT !.value = SignedValue(@)]

\* An offset of 0 and the natural alignment are left out.
AccessText(e) ==
  [op |-> e.op, offset |-> IF e.offset = 0 THEN <<>> ELSE <<e.offset>>,
   align |-> IF wasm_get_opcode_alignment(e.align) = NaturalAlignment THEN <<>> ELSE <<e.align>>]

RECURSIVE write_text(_)
write_text(es) ==
  [i \in DOMAIN es |->
     LET e == es[i]
     IN CASE e.op \in {"block", "loop"} -> write_block(e, write_text(e.body))
          [] e.op = "if" ->
               write_block(e, write_text(e.body)) @@ [false |-> write_text(e.false)]
          [] e.op = "const" -> write_const(e)
          [] e.op \in {"load", "store"} -> AccessText(e)
          [] OTHER -> e]

\* Only the first expression of an initialiser is written.
write_init_text(es) == write_text(SubSeq(es, 1, 1))

(* A field is closed after a type with a name and after the last type: a type with
   a name stands in the field of the types without one before it. *)
write_type_bindings(prefix, types, bindings) ==
  LET names == wasm_make_type_binding_reverse_mapping(types, bindings)
      closed == SetToSortSeq({i \in DOMAIN types : names[i] # NoName \/ i = Len(types)}, <)
      First(k) == IF k = 1 THEN 1 ELSE closed[k - 1] + 1
  IN [k \in DOMAIN closed |->
        [field |-> prefix, name |-> names[closed[k]], types |-> SubSeq(types, First(k), closed[k])]]

write_result_types(types) ==
  IF types = <<>> THEN <<>> ELSE <<[field |-> "result", name |-> NoName, types |-> types]>>

\* What s_is_char_escaped marks: all but the printable characters, and of those the
\* double quote and the backslash.
IsCharEscaped(c) == c < 32 \/ c > 126 \/ c \in {34, 92}
write_quoted_data(bytes) ==
  [i \in DOMAIN bytes |-> IF IsCharEscaped(bytes[i]) THEN Escape(bytes[i] \div 16, bytes[i] % 16)
                                                   ELSE Char(bytes[i])]

TypeUse(f) == IF f.has_type THEN <<f.type_var>> ELSE <<>>

FuncText(f) ==
  [k |-> "func", name |-> f.name, export |-> NoName, type_use |-> TypeUse(f),
   fields |-> write_type_bindings("param", f.sig.params, f.param_bindings)
              \o write_result_types(f.sig.results)
              \o write_type_bindings("local", f.local_types, f.local_bindings),
   body |-> write_text(f.body)]

GlobalText(g) ==
  [k |-> "global", name |-> g.name, export |-> NoName, type |-> g.type, mutable |-> g.mutable,
   init |-> write_init_text(g.init)]

ImportText(x) ==
  LET head == [k |-> "import", kind |-> x.kind, module |-> x.module, field |-> x.field,
               name |-> x.item.name]
  IN CASE x.kind = "func" ->
            head @@ [type_use |-> TypeUse(x.item),
                     sig |-> IF x.item.has_type THEN EmptySig ELSE x.item.sig]
       [] x.kind = "global" -> head @@ [type |-> x.item.type, mutable |-> x.item.mutable]
       [] OTHER -> head @@ [limits |-> x.item.limits]

TableText(x) ==
  [k |-> "table", name |-> x.name, export |-> NoName, inline |-> FALSE, limits |-> x.limits,
   elems |-> <<>>]
MemoryText(x) ==
  [k |-> "memory", name |-> x.name, export |-> NoName, inline |-> FALSE, limits |-> x.limits,
   data |-> <<>>]
ElemText(x) ==
  [k |-> "elem", var |-> DefaultVar, offset |-> write_init_text(x.offset), vars |-> x.vars]
DataText(x) ==
  [k |-> "data", var |-> DefaultVar, offset |-> write_init_text(x.offset),
   data |-> <<write_quoted_data(x.data)>>]
ExportText(x) == [k |-> "export", name |-> x.name, kind |-> x.kind, var |-> x.var]
TypeText(x) == [k |-> "type", name |-> x.name, sig |-> x.sig]
StartText(x) == [k |-> "start", var |-> x.var]

write_field(field) ==
  CASE field.k = "func" -> FuncText(field.item)
    [] field.k = "global" -> GlobalText(field.item)
    [] field.k = "import" -> ImportText(field)
    [] field.k = "export" -> ExportText(field.item)
    [] field.k = "table" -> TableText(field.item)
    [] field.k = "memory" -> MemoryText(field.item)
    [] field.k = "elem" -> ElemText(field.item)
    [] field.k = "data" -> DataText(field.item)
    [] field.k = "type" -> TypeText(field.item)
    [] field.k = "start" -> StartText(field.item)

wasm_write_ast(m) == [i \in DOMAIN m.fields |-> write_field(m.fields[i])]
================================================================================
