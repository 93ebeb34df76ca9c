---------------------------------- MODULE Ast ----------------------------------
(* The syntax tree of a module (ast.h, ast.c) and the actions of the text
   parser that build it (ast-parser.y, in its generated form
   prebuilt/ast-parser-gen.c).

   A module is the list of its fields plus vectors of pointers into that list:
   here m.fields is a sequence of field records and m.vec[k] a sequence of
   positions in it, so a pass that reaches an item through a vector changes the
   one copy every other user sees, as in the code.  A name is a sequence of
   character codes, without the "$" of the text; the empty sequence is no name.
   A binding hash is the sequence of its bindings in insertion order (BindingHash
   models the table itself).

   The text is the sequence of its fields in the form the grammar gives them:
   tokens, comments and layout are abstracted away, the alternatives of the
   grammar that build a tree differently are not. *)
EXTENDS Integers, Sequences, FiniteSets, SequencesExt

I32 == -1
I64 == -2
ANYFUNC == -16
FUNC == -32
VOID == -64

ExternalKinds == {"func", "table", "memory", "global"}
BindingKinds == ExternalKinds \cup {"export", "type"}
VectorKinds == BindingKinds \cup {"import", "elem", "data"}

(* ------------------------------ vars and names ----------------------------- *)
NoName == <<>>
Idx(i) == [index |-> i, name |-> NoName]
Named(n) == [index |-> -1, name |-> n]
IsName(v) == v.name # NoName

wasm_find_binding_index_by_name(b, n) ==
  LET hits == {i \in DOMAIN b : b[i].name = n}
  IN IF hits = {} THEN -1 ELSE b[CHOOSE i \in hits : \A j \in hits : i <= j].index

wasm_get_index_from_var(b, v) ==
  IF IsName(v) THEN wasm_find_binding_index_by_name(b, v.name) ELSE v.index

IndexByVar(m, k, v) == wasm_get_index_from_var(m.bind[k], v)

HasItem(m, k, i) == 0 <= i /\ i < Len(m.vec[k])
Item(m, k, i) == m.fields[m.vec[k][i + 1]].item
Items(m, k) == [i \in DOMAIN m.vec[k] |-> m.fields[m.vec[k][i]].item]
SetItem(m, k, i, item) == [m EXCEPT !.fields[m.vec[k][i + 1]].item = item]

wasm_get_local_index_by_var(f, v) ==
  LET p == wasm_find_binding_index_by_name(f.param_bindings, v.name)
      l == wasm_find_binding_index_by_name(f.local_bindings, v.name)
  IN CASE ~IsName(v) -> v.index
       [] IsName(v) /\ p # -1 -> p
       [] IsName(v) /\ p = -1 /\ l = -1 -> -1
       [] OTHER -> Len(f.sig.params) + l

NumParamsAndLocals(f) == Len(f.sig.params) + Len(f.local_types)

wasm_get_func_type_index_by_sig(m, sig) ==
  LET hits == {i \in DOMAIN m.vec["type"] : Items(m, "type")[i].sig = sig}
  IN IF hits = {} THEN -1 ELSE (CHOOSE i \in hits : \A j \in hits : i <= j) - 1

wasm_get_func_type_index_by_decl(m, f) ==
  IF f.has_type THEN IndexByVar(m, "type", f.type_var)
  ELSE wasm_get_func_type_index_by_sig(m, f.sig)

(* The name of every index of a type vector; with two bindings of one index the
   later slot of the hash wins, which the parser and the readers never make. *)
wasm_make_type_binding_reverse_mapping(types, b) ==
  [i \in DOMAIN types |->
     LET hits == {j \in DOMAIN b : b[j].index = i - 1 /\ b[j].name # NoName}
     IN IF hits = {} THEN NoName ELSE b[CHOOSE j \in hits : \A h \in hits : j >= h].name]

(* ----------------------------- building a module --------------------------- *)
EmptySig == [params |-> <<>>, results |-> <<>>]

EmptyModule ==
  [fields |-> <<>>, vec |-> [k \in VectorKinds |-> <<>>],
   bind |-> [k \in BindingKinds |-> <<>>],
   num_imports |-> [k \in ExternalKinds |-> 0], start |-> 0, errors |-> FALSE]

wasm_append_module_field(m, k, item) ==
  [m EXCEPT !.fields = Append(@, [k |-> k, item |-> item])]

\* APPEND_ITEM_TO_VECTOR of the field at position p
AppendToVector(m, k, p) == [m EXCEPT !.vec[k] = Append(@, p)]

INSERT_BINDING(m, k, name) ==
  IF name = NoName THEN m
  ELSE [m EXCEPT !.bind[k] = Append(@, [name |-> name, index |-> Len(m.vec[k]) - 1])]

\* a field, the pointer to it and its binding
AppendField(m, k, item, name) ==
  LET m1 == wasm_append_module_field(m, k, item)
  IN INSERT_BINDING(AppendToVector(m1, k, Len(m1.fields)), k, name)

APPEND_INLINE_EXPORT(m, k, export) ==
  IF export = NoName THEN m
  ELSE AppendField(m, "export",
                   [name |-> export, kind |-> k, var |-> Idx(Len(m.vec[k]) - 1)], export)

wasm_append_implicit_func_type(m, sig) ==
  LET m1 == wasm_append_module_field(m, "type", [name |-> NoName, sig |-> sig])
  IN AppendToVector(m1, "type", Len(m1.fields))

\* A declaration without a type use names the first equal signature or adds one.
append_implicit_func_declaration(m, f) ==
  IF f.has_type \/ wasm_get_func_type_index_by_decl(m, f) # -1 THEN m
  ELSE wasm_append_implicit_func_type(m, f.sig)

(* -------------------------------- expressions ------------------------------ *)
VarOps == {"br", "br_if", "call", "call_indirect", "get_local", "set_local",
           "tee_local", "get_global", "set_global"}
BlockOps == {"block", "loop", "if"}

\* Every use of a variable in an expression tree: the instruction and the variable.
RECURSIVE UsesOf(_)
UsesOf(es) ==
  UNION {LET e == es[i]
         IN CASE e.op \in VarOps -> {[op |-> e.op, var |-> e.var]}
              [] e.op = "br_table" ->
                   {[op |-> "br", var |-> v] : v \in ToSet(e.targets) \cup {e.default}}
              [] e.op \in {"block", "loop"} -> UsesOf(e.body)
              [] e.op = "if" -> UsesOf(e.body) \cup UsesOf(e.false)
              [] OTHER -> {} : i \in DOMAIN es}

(* A value of Width bits: the literal is read modulo 2^Width, the writers give
   the signed value back. *)
CONSTANT Width
ASSUME WidthAssumption == Width \in Nat \ {0}

parse_const(lit) == lit % 2^Width
SignedValue(v) == IF v >= 2^(Width - 1) THEN v - 2^Width ELSE v

USE_NATURAL_ALIGNMENT == -1

\* The optional parts of an access: a sequence of at most one number.
offset_opt(x) == IF x = <<>> THEN 0 ELSE x[1]
align_opt(x) == IF x = <<>> THEN USE_NATURAL_ALIGNMENT ELSE x[1]

\* An instruction without immediates, or with one or several variables, is its node.
PlainInstr(t) == t
MemoryInstr(t) == [op |-> t.op, offset |-> offset_opt(t.offset), align |-> align_opt(t.align)]
ConstInstr(t) == [t EXCEPT !.value = parse_const(@)]

\* The label after else or end must be the label of the block, if there is one.
CHECK_END_LABEL(label, end) == end # NoName => end = label

(* The nodes of block, loop and if: body and false are the lists of their arms.
   The flat and the folded forms differ only in what may follow a keyword. *)
Block(t, body) == [op |-> t.op, label |-> t.label, sig |-> t.sig, body |-> body]
If(t, body, false) ==
  [op |-> "if", label |-> t.label, sig |-> t.sig, body |-> body, false |-> false]

join_exprs1(e) == <<e>>
join_exprs2(es, e) == Append(es, e)

(* instr and expr: a folded instruction stands after its operands, a folded if
   after its condition. *)
RECURSIVE instr_list(_), instr(_)
instr(t) ==
  CASE t.op \in {"block", "loop"} -> join_exprs1(Block(t, instr_list(t.body)))
    [] t.op = "if" -> join_exprs1(If(t, instr_list(t.body), instr_list(t.false)))
    [] t.op \in {"load", "store"} -> join_exprs1(MemoryInstr(t))
    [] t.op = "const" -> join_exprs1(ConstInstr(t))
    [] t.op = "folded" -> join_exprs2(instr_list(t.operands), instr(t.instr)[1])
    [] t.op = "folded_if" ->
         join_exprs2(instr_list(t.cond), If(t, instr_list(t.body), instr_list(t.false)))
    [] OTHER -> join_exprs1(PlainInstr(t))
instr_list(ts) == FlattenSeq([i \in DOMAIN ts |-> instr(ts[i])])

RECURSIVE EndLabelsMatch(_)
EndLabelsMatch(ts) ==
  \A i \in DOMAIN ts :
    LET t == ts[i]
    IN CASE t.op \in {"block", "loop"} ->
              (\A n \in ToSet(t.ends) : CHECK_END_LABEL(t.label, n)) /\ EndLabelsMatch(t.body)
         [] t.op = "if" -> /\ \A n \in ToSet(t.ends) : CHECK_END_LABEL(t.label, n)
                           /\ EndLabelsMatch(t.body \o t.false)
         [] t.op = "folded_if" -> EndLabelsMatch(t.cond \o t.body \o t.false)
         [] t.op = "folded" -> EndLabelsMatch(t.operands)
         [] OTHER -> TRUE

(* ----------------------------------- texts --------------------------------- *)
(* A quoted text is a sequence of pieces: a character, or an escape of two
   hexadecimal digits.  A text list is the contents of its texts in a row. *)
Char(c) == <<c>>
Escape(hi, lo) == <<hi, lo>>
copy_string_contents(text) ==
  [i \in DOMAIN text |-> IF Len(text[i]) = 1 THEN text[i][1] ELSE 16 * text[i][1] + text[i][2]]
dup_text_list(texts) == FlattenSeq([i \in DOMAIN texts |-> copy_string_contents(texts[i])])

(* ------------------------------- module fields ----------------------------- *)
NewFunc == [name |-> NoName, has_type |-> FALSE, type_var |-> Idx(0), sig |-> EmptySig,
            local_types |-> <<>>, param_bindings |-> <<>>, local_bindings |-> <<>>, body |-> <<>>]

(* A field of a function adds its types behind those of the fields before it, and
   a binding to the last of them if it has a name; the results replace. *)
FuncField(f, x) ==
  LET Bind(b, types) == IF x.name = NoName THEN b
                        ELSE Append(b, [name |-> x.name, index |-> Len(types) + Len(x.types) - 1])
  IN CASE x.field = "param" -> [f EXCEPT !.sig.params = @ \o x.types,
                                         !.param_bindings = Bind(@, f.sig.params)]
       [] x.field = "local" -> [f EXCEPT !.local_types = @ \o x.types,
                                         !.local_bindings = Bind(@, f.local_types)]
       [] x.field = "result" -> [f EXCEPT !.sig.results = x.types]

\* The alternatives of func_fields and func_body: several types, or a name and a type
NameAlone(x) == x.name # NoName => Len(x.types) = 1

func_info(t) == [FoldLeft(FuncField, NewFunc, t.fields) EXCEPT !.body = instr_list(t.body)]

\* func: with or without a type use
FuncOf(t) ==
  [func_info(t) EXCEPT !.name = t.name, !.has_type = t.type_use # <<>>,
                       !.type_var = IF t.type_use = <<>> THEN Idx(0) ELSE t.type_use[1]]

func_field(m, t) ==
  LET p == Len(m.fields) + 1
      m1 == wasm_append_module_field(m, "func", FuncOf(t))
      m2 == append_implicit_func_declaration(m1, m1.fields[p].item)
      m3 == INSERT_BINDING(AppendToVector(m2, "func", p), "func", t.name)
  IN [APPEND_INLINE_EXPORT(m3, "func", t.export)
        EXCEPT !.errors = @ \/ ~EndLabelsMatch(t.body)
                            \/ \E x \in ToSet(t.fields) : ~NameAlone(x)]

type_def_field(m, t) == AppendField(m, "type", [name |-> t.name, sig |-> t.sig], t.name)

GlobalOf(t) == [name |-> t.name, type |-> t.type, mutable |-> t.mutable, init |-> instr_list(t.init)]
global_field(m, t) ==
  APPEND_INLINE_EXPORT(AppendField(m, "global", GlobalOf(t), t.name), "global", t.export)

elem_field(m, x) == AppendField(m, "elem", x, NoName)
data_field(m, x) == AppendField(m, "data", x, NoName)

ElemOf(t) == [var |-> t.var, offset |-> instr_list(t.offset), vars |-> t.vars]
DataOf(t) == [var |-> t.var, offset |-> instr_list(t.offset), data |-> dup_text_list(t.data)]

ConstZero == <<[op |-> "const", type |-> I32, value |-> 0]>>

(* table and memory: the inline forms size the item to the segment that follows
   it, whose variable is zeroed: it always means table or memory 0. *)
CONSTANTS PageSize, MaxPages   \* the bytes of a page, WASM_MAX_PAGES
ASSUME PageSizeAssumption == PageSize \in Nat \ {0} /\ MaxPages \in Nat
BytesToPages(n) == (n + PageSize - 1) \div PageSize

Exactly(n) == [initial |-> n, max |-> <<n>>]
TableOf(t) == [name |-> t.name, limits |-> IF t.inline THEN Exactly(Len(t.elems)) ELSE t.limits]
MemoryOf(t) ==
  [name |-> t.name,
   limits |-> IF t.inline THEN Exactly(BytesToPages(Len(dup_text_list(t.data)))) ELSE t.limits]

table_field(m, t) ==
  LET m1 == APPEND_INLINE_EXPORT(AppendField(m, "table", TableOf(t), t.name), "table", t.export)
  IN IF ~t.inline THEN m1
     ELSE elem_field(m1, [var |-> Idx(0), offset |-> ConstZero, vars |-> t.elems])

memory_field(m, t) ==
  LET m1 == APPEND_INLINE_EXPORT(AppendField(m, "memory", MemoryOf(t), t.name), "memory", t.export)
  IN IF ~t.inline THEN m1
     ELSE data_field(m1, [var |-> Idx(0), offset |-> ConstZero, data |-> dup_text_list(t.data)])

start_field(m, t) ==
  LET m1 == wasm_append_module_field(m, "start", [var |-> t.var])
  IN [m1 EXCEPT !.start = Len(m1.fields)]

\* CHECK_IMPORT_ORDERING for the four index spaces, whatever the import's kind
ImportsFirst(m) == \A k \in ExternalKinds : Len(m.vec[k]) = m.num_imports[k]

\* import_kind and the inline forms: what is imported has no body and no initialiser
ImportedFunc(t) ==
  [NewFunc EXCEPT !.name = t.name, !.sig = t.sig, !.has_type = t.type_use # <<>>,
                  !.type_var = IF t.type_use = <<>> THEN Idx(0) ELSE t.type_use[1]]
ImportedLimits(t) == [name |-> t.name, limits |-> t.limits]
ImportedGlobal(t) == [name |-> t.name, type |-> t.type, mutable |-> t.mutable, init |-> <<>>]
ImportedItem(t) ==
  CASE t.kind = "func" -> ImportedFunc(t)
    [] t.kind = "global" -> ImportedGlobal(t)
    [] OTHER -> ImportedLimits(t)

import_field(m, t) ==
  LET p == Len(m.fields) + 1
      m1 == [m EXCEPT !.fields = Append(@, [k |-> "import", kind |-> t.kind, module |-> t.module,
                                            field |-> t.field, item |-> ImportedItem(t)]),
                      !.errors = @ \/ ~ImportsFirst(m)]
      m2 == IF t.kind = "func" THEN append_implicit_func_declaration(m1, m1.fields[p].item) ELSE m1
      m3 == INSERT_BINDING(AppendToVector(m2, t.kind, p), t.kind, t.name)
  IN AppendToVector([m3 EXCEPT !.num_imports[t.kind] = @ + 1], "import", p)

(* The rule for an export calls wasm_append_module_field twice: the first call
   leaves a zeroed field, a function without a name, in the list. *)
export_field(m, t) ==
  AppendField(wasm_append_module_field(m, "func", NewFunc), "export",
              [name |-> t.name, kind |-> t.kind, var |-> t.var], t.name)

ParseField(m, t) ==
  CASE t.k = "type" -> type_def_field(m, t)
    [] t.k = "func" -> func_field(m, t)
    [] t.k = "global" -> global_field(m, t)
    [] t.k = "table" -> table_field(m, t)
    [] t.k = "memory" -> memory_field(m, t)
    [] t.k = "elem" -> elem_field(m, ElemOf(t))
    [] t.k = "data" -> data_field(m, DataOf(t))
    [] t.k = "start" -> start_field(m, t)
    [] t.k = "import" -> import_field(m, t)
    [] t.k = "export" -> export_field(m, t)

\* raw_module: a function with a type use and no signature takes the type's
raw_module(m) ==
  LET Signed(acc, i) ==
        LET f == Item(acc, "func", i - 1)
            ti == IndexByVar(acc, "type", f.type_var)
        IN IF f.has_type /\ f.sig = EmptySig /\ HasItem(acc, "type", ti)
           THEN SetItem(acc, "func", i - 1, [f EXCEPT !.sig = Item(acc, "type", ti).sig])
           ELSE acc
  IN FoldLeft(Signed, m, [i \in DOMAIN m.vec["func"] |-> i])

ParseModule(ts) == raw_module(FoldLeft(ParseField, EmptyModule, ts))
================================================================================
