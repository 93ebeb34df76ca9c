---------------------------- MODULE BinaryReaderAst ----------------------------
(* binary-reader-ast.c: the callbacks with which the binary reader builds the
   syntax tree of a module.  r is the reader's state; the builder owns r.m, the
   module, r.labels, the stack of expression lists that are open, and r.func, the
   function whose body is read (from 1, 0 for none).  A label points to the list
   it appends to: the function and the path to the list from its body.  r.ok is
   cleared by an error; r.asserts is cleared where an assertion of the builder
   fails or a freed expression is used. *)
EXTENDS Ast

Raise(r) == [r EXCEPT !.ok = FALSE]
RAISE_ERROR_UNLESS(r, cond) == IF cond THEN r ELSE Raise(r)
Asserting(r, cond) == [r EXCEPT !.asserts = @ /\ cond]

(* ------------------------------- expression lists -------------------------- *)
RECURSIVE ListAt(_, _)
ListAt(es, path) ==
  IF path = <<>> THEN es ELSE ListAt(es[path[1].pos][path[1].arm], Tail(path))

RECURSIVE AppendAt(_, _, _)
AppendAt(es, path, e) ==
  IF path = <<>> THEN Append(es, e)
  ELSE [es EXCEPT ![path[1].pos] = [@ EXCEPT ![path[1].arm] = AppendAt(@, Tail(path), e)]]

BodyOf(r, f) == Item(r.m, "func", f - 1).body

push_label(r, type, func, path) ==
  [r EXCEPT !.labels = Append(@, [type |-> type, func |-> func, path |-> path])]

pop_label(r) == IF r.labels = <<>> THEN Raise(r) ELSE [r EXCEPT !.labels = Front(@)]

append_expr(r, e) ==
  LET label == Last(r.labels)
      f == Item(r.m, "func", label.func - 1)
  IN IF r.labels = <<>> THEN Raise(r)
     ELSE [r EXCEPT !.m = SetItem(@, "func", label.func - 1,
                                  [f EXCEPT !.body = AppendAt(@, label.path, e)])]

(* on_block_expr, on_loop_expr and on_if_expr: the result of append_expr is not
   looked at, so without an open list the label points into a freed block. *)
on_block_expr(r, op, sig) ==
  LET e == IF op = "if" THEN [op |-> op, label |-> NoName, sig |-> sig, body |-> <<>>, false |-> <<>>]
           ELSE [op |-> op, label |-> NoName, sig |-> sig, body |-> <<>>]
      top == Last(r.labels)
      pos == Len(ListAt(BodyOf(r, top.func), top.path)) + 1
  IN IF r.labels = <<>> THEN Asserting(r, FALSE)
     ELSE push_label(append_expr(r, e), op, top.func,
                     Append(top.path, [pos |-> pos, arm |-> "body"]))

\* mutant: the second arm goes on in the list of the first
on_else_exprSameList(r) ==
  IF r.labels = <<>> \/ Last(r.labels).type # "if" THEN Raise(r)
  ELSE [r EXCEPT !.labels[Len(r.labels)].type = "else"]

\* The label of the first arm becomes the label of the second.
on_else_expr(r) ==
  LET n == Len(r.labels)
      label == r.labels[n]
      parent == r.labels[n - 1]
      list == ListAt(BodyOf(r, parent.func), parent.path)
  IN IF n = 0 \/ label.type # "if" \/ n < 2 THEN Raise(r)
     ELSE Asserting([r EXCEPT !.labels[n] =
                    [type |-> "else", func |-> parent.func,
                     path |-> Append(parent.path, [pos |-> Len(list), arm |-> "false"])]],
                 list # <<>> /\ Last(list).op = "if")

on_end_expr(r) == pop_label(r)

\* The callbacks of the other instructions append one node.
on_br_expr(r, op, depth) == append_expr(r, [op |-> op, var |-> Idx(depth)])
on_br_table_expr(r, depths, default) ==
  append_expr(r, [op |-> "br_table", default |-> Idx(default),
                  targets |-> [i \in DOMAIN depths |-> Idx(depths[i])]])
on_call_expr(r, op, index) ==
  append_expr(Asserting(r, HasItem(r.m, IF op = "call" THEN "func" ELSE "type", index)),
              [op |-> op, var |-> Idx(index)])
on_variable_expr(r, op, index) == append_expr(r, [op |-> op, var |-> Idx(index)])
on_const_expr(r, e) == append_expr(r, e)
on_memory_access_expr(r, op, alignment_log2, offset) ==
  append_expr(r, [op |-> op, align |-> 2^alignment_log2, offset |-> offset])
on_opcode_expr(r, op) == append_expr(r, [op |-> op])
on_bare_expr(r, op) == append_expr(r, [op |-> op])

\* The expression of an initialiser becomes the only one of its list.
on_init_expr(r, e) == [r EXCEPT !.v = <<e>>]

begin_function_body(r, i) ==
  LET f == i + r.m.num_imports["func"]
  IN push_label([Asserting(r, i <= Len(r.m.vec["func"])) EXCEPT !.func = f], "func", f, <<>>)

end_function_body(r) == [pop_label(r) EXCEPT !.func = 0]

on_local_decl(r, count, type) ==
  LET f == Item(r.m, "func", r.func - 1)
  IN [r EXCEPT !.m = SetItem(@, "func", r.func - 1,
                             [f EXCEPT !.local_types = @ \o [i \in 1 .. count |-> type]])]

(* ---------------------------------- fields --------------------------------- *)
\* A field and the pointer to it: what the reader adds has no name yet.
Add(r, k, item) == [r EXCEPT !.m = AppendField(@, k, item, NoName)]

SharedSignature(m, sig_index) ==
  [NewFunc EXCEPT !.has_type = TRUE, !.type_var = Idx(sig_index),
                   !.sig = Item(m, "type", sig_index).sig]

on_signature(r, sig) == Add(r, "type", [name |-> NoName, sig |-> sig])

\* on_import and on_import_func, on_import_table, on_import_memory or on_import_global
on_import(r, kind, module, field, item) ==
  LET m1 == [r.m EXCEPT !.fields = Append(@, [k |-> "import", kind |-> kind, module |-> module,
                                              field |-> field, item |-> item]),
                        !.num_imports[kind] = @ + 1]
      p == Len(m1.fields)
  IN [r EXCEPT !.m = AppendToVector(AppendToVector(m1, "import", p), kind, p)]

on_import_func(r, module, field, sig_index) ==
  on_import(Asserting(r, HasItem(r.m, "type", sig_index)), "func", module, field,
            SharedSignature(r.m, sig_index))

on_function_signature(r, sig_index) ==
  Add(Asserting(r, HasItem(r.m, "type", sig_index)), "func", SharedSignature(r.m, sig_index))

on_table(r, limits) == Add(r, "table", [name |-> NoName, limits |-> limits])
on_memory(r, limits) == Add(r, "memory", [name |-> NoName, limits |-> limits])

\* begin_global to end_global, with the initialiser in between
on_global(r, header, init) ==
  Add(r, "global", [name |-> NoName, type |-> header.type, mutable |-> header.mutable, init |-> init])

on_export(r, kind, item_index, name) ==
  Add(Asserting(r, HasItem(r.m, kind, item_index)), "export",
      [name |-> name, kind |-> kind, var |-> Idx(item_index)])

on_start_function(r, func_index) ==
  LET m1 == wasm_append_module_field(r.m, "start", [var |-> Idx(func_index)])
  IN Asserting([r EXCEPT !.m = [m1 EXCEPT !.start = Len(m1.fields)]], HasItem(r.m, "func", func_index))

on_elem_segment(r, table_index, offset, indexes) ==
  Add(r, "elem", [var |-> Idx(table_index), offset |-> offset,
                  vars |-> [i \in DOMAIN indexes |-> Idx(indexes[i])]])

on_data_segment(r, memory_index, offset, data) ==
  Add(r, "data", [var |-> Idx(memory_index), offset |-> offset, data |-> data])

on_function_bodies_count(r, n) ==
  Asserting(r, r.m.num_imports["func"] + n = Len(r.m.vec["func"]))

(* ----------------------------------- names --------------------------------- *)
on_function_names_count(r, n) == RAISE_ERROR_UNLESS(r, n <= Len(r.m.vec["func"]))

\* A binding is inserted for the empty name too.
on_function_name(r, i, name) ==
  [r EXCEPT !.m = [SetItem(@, "func", i, [Item(@, "func", i) EXCEPT !.name = name])
                     EXCEPT !.bind["func"] = Append(@, [name |-> name, index |-> i])]]

on_local_names_count(r, i, n) ==
  RAISE_ERROR_UNLESS(r, n <= NumParamsAndLocals(Item(r.m, "func", i)))

on_local_name(r, i, j, name) ==
  LET f == Item(r.m, "func", i)
      np == Len(f.sig.params)
  IN [r EXCEPT !.m = SetItem(@, "func", i,
        IF j < np THEN [f EXCEPT !.param_bindings = Append(@, [name |-> name, index |-> j])]
        ELSE [f EXCEPT !.local_bindings = Append(@, [name |-> name, index |-> j - np])])]
================================================================================
