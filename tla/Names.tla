--------------------------------- MODULE Names ---------------------------------
(* The passes over a module that change its names: resolve-names.c turns names
   into indexes, generate-names.c names what has no name, apply-names.c turns
   indexes back into names.  Each visits the expression trees through
   wasm_visit_expr_list (ast.c); the context of a visit is the function it is in
   and the labels of the blocks around it, innermost last. *)
EXTENDS Ast

(* --------------------------------- resolving ------------------------------- *)
check_duplicate_bindings(b) ==
  \E i, j \in DOMAIN b : i # j /\ b[i].name = b[j].name

resolve_var(b, v) ==
  LET i == wasm_get_index_from_var(b, v)
  IN IF IsName(v) /\ i # -1 THEN Idx(i) ELSE v

resolve_label_var(labels, v) ==
  LET hits == {i \in DOMAIN labels : labels[i] = v.name}
  IN IF IsName(v) /\ hits # {}
     THEN Idx(Len(labels) - (CHOOSE i \in hits : \A j \in hits : i >= j)) ELSE v

resolve_local_var(f, v) ==
  LET i == wasm_get_local_index_by_var(f, v)
  IN IF IsName(v) /\ i # -1 THEN Idx(i) ELSE v

ResolveVar(m, f, labels, op, v) ==
  CASE op \in {"br", "br_if"} -> resolve_label_var(labels, v)
    [] op = "call" -> resolve_var(m.bind["func"], v)
    [] op = "call_indirect" -> resolve_var(m.bind["type"], v)
    [] op \in {"get_global", "set_global"} -> resolve_var(m.bind["global"], v)
    [] OTHER -> resolve_local_var(f, v)

RECURSIVE ResolveExprs(_, _, _, _)
ResolveExprs(m, f, labels, es) ==
  [i \in DOMAIN es |->
     LET e == es[i]
     IN CASE e.op \in VarOps -> [e EXCEPT !.var = ResolveVar(m, f, labels, e.op, @)]
          [] e.op = "br_table" ->
               [e EXCEPT !.targets = [j \in DOMAIN e.targets |->
                                        resolve_label_var(labels, e.targets[j])],
                         !.default = resolve_label_var(labels, @)]
          [] e.op \in {"block", "loop"} ->
               [e EXCEPT !.body = ResolveExprs(m, f, Append(labels, e.label), @)]
          [] e.op = "if" ->
               [e EXCEPT !.body = ResolveExprs(m, f, Append(labels, e.label), @),
                         !.false = ResolveExprs(m, f, Append(labels, e.label), @)]
          [] OTHER -> e]

\* The variables an item mentions: one that stays a name is an undefined variable.
ItemVars(k, x) ==
  LET InExprs(es) == {u.var : u \in UsesOf(es)}
  IN CASE k = "func" -> InExprs(x.body) \cup (IF x.has_type THEN {x.type_var} ELSE {})
       [] k = "global" -> InExprs(x.init)
       [] k = "elem" -> {x.var} \cup InExprs(x.offset) \cup ToSet(x.vars)
       [] k = "data" -> {x.var} \cup InExprs(x.offset)
       [] k = "export" -> {x.var}

VisitedVars(m) ==
  UNION {UNION {ItemVars(k, Items(m, k)[i]) : i \in DOMAIN m.vec[k]} :
           k \in {"func", "export", "global", "elem", "data"}}
  \cup (IF m.start = 0 THEN {} ELSE {m.fields[m.start].item.var})

(* The initialisers are visited with no current function: a local variable in
   one is a NULL dereference in the code, and no instance has it. *)
ResolveItem(m, k, x) ==
  CASE k = "func" ->
         [x EXCEPT !.type_var = IF x.has_type THEN resolve_var(m.bind["type"], @) ELSE @,
                   !.body = ResolveExprs(m, x, <<>>, @)]
    [] k = "global" -> [x EXCEPT !.init = ResolveExprs(m, x, <<>>, @)]
    [] k = "export" -> [x EXCEPT !.var = resolve_var(m.bind[x.kind], @)]
    [] k = "elem" ->
         [x EXCEPT !.var = resolve_var(m.bind["table"], @),
                   !.offset = ResolveExprs(m, x, <<>>, @),
                   !.vars = [j \in DOMAIN x.vars |-> resolve_var(m.bind["func"], x.vars[j])]]
    [] k = "data" -> [x EXCEPT !.var = resolve_var(m.bind["memory"], @),
                               !.offset = ResolveExprs(m, x, <<>>, @)]
    [] OTHER -> x

DuplicateNames(m) ==
  \/ \E k \in BindingKinds : check_duplicate_bindings(m.bind[k])
  \/ \E i \in DOMAIN m.vec["func"] :
       LET f == Items(m, "func")[i]
       IN check_duplicate_bindings(f.param_bindings) \/ check_duplicate_bindings(f.local_bindings)

\* Visits an item of every vector; only the start variable pointed to counts.
EachItem(m, Visit(_, _, _), ks) ==
  LET InVector(acc, k) ==
        FoldLeft(LAMBDA a, i : SetItem(a, k, i - 1, Visit(a, k, Item(a, k, i - 1))),
                 acc, [i \in DOMAIN acc.vec[k] |-> i])
  IN FoldLeft(InVector, m, ks)

wasm_resolve_names_module(m) ==
  LET m1 == EachItem(m, ResolveItem, <<"func", "export", "global", "elem", "data">>)
      m2 == IF m1.start = 0 THEN m1
            ELSE [m1 EXCEPT !.fields[m1.start].item.var = resolve_var(m1.bind["func"], @)]
  IN [m2 EXCEPT !.errors = DuplicateNames(m) \/ \E v \in VisitedVars(m2) : IsName(v)]

(* -------------------------------- generating ------------------------------- *)
\* a letter and a number
generate_name(prefix, i) == <<prefix, 48 + i>>
PrefixOf == [func |-> 102, global |-> 103, type |-> 116, table |-> 84, memory |-> 77]
ParamPrefix == 112
LocalPrefix == 108
BlockPrefix == 66
LabelPrefix == 76

generate_and_bind_local_names(types, b, prefix) ==
  LET names == wasm_make_type_binding_reverse_mapping(types, b)
      Bind(acc, i) == IF names[i] # NoName THEN acc
                      ELSE Append(acc, [name |-> generate_name(prefix, i - 1), index |-> i - 1])
  IN FoldLeft(Bind, b, [i \in DOMAIN types |-> i])

(* The label counter of a function counts every block, named or not, in the
   order of the text: the result is the expressions and the counter after them. *)
RECURSIVE GenerateLabels(_, _)
GenerateLabels(es, n) ==
  FoldLeft(LAMBDA acc, e :
    IF e.op \notin BlockOps THEN [acc EXCEPT !.es = Append(@, e)]
    ELSE LET prefix == IF e.op = "block" THEN BlockPrefix ELSE LabelPrefix
             label == IF e.label # NoName THEN e.label ELSE generate_name(prefix, acc.n)
             body == GenerateLabels(e.body, acc.n + 1)
             false == GenerateLabels(IF e.op = "if" THEN e.false ELSE <<>>, body.n)
             e1 == [e EXCEPT !.label = label, !.body = body.es]
         IN [es |-> Append(acc.es, IF e.op = "if" THEN [e1 EXCEPT !.false = false.es] ELSE e1),
             n |-> false.n],
    [es |-> <<>>, n |-> n], es)

maybe_generate_and_bind_name(m, k, i) ==
  LET name == generate_name(PrefixOf[k], i)
  IN IF Item(m, k, i).name # NoName THEN m
     ELSE [SetItem(m, k, i, [Item(m, k, i) EXCEPT !.name = name])
             EXCEPT !.bind[k] = Append(@, [name |-> name, index |-> i])]

GenerateFunc(f) ==
  [f EXCEPT
     !.param_bindings = generate_and_bind_local_names(f.sig.params, @, ParamPrefix),
     !.local_bindings = generate_and_bind_local_names(f.local_types, @, LocalPrefix),
     !.body = GenerateLabels(@, 0).es]

wasm_generate_names(m) ==
  LET NameAll(acc, k) ==
        FoldLeft(LAMBDA a, i : maybe_generate_and_bind_name(a, k, i - 1),
                 acc, [i \in DOMAIN acc.vec[k] |-> i])
      Visit(a, k, x) == GenerateFunc(x)
      m1 == FoldLeft(NameAll, m, <<"global", "type", "func">>)
      m2 == EachItem(m1, Visit, <<"func">>)
  IN FoldLeft(NameAll, m2, <<"table", "memory">>)

(* --------------------------------- applying -------------------------------- *)
use_name_for_var(name, v) == IF name # NoName THEN Named(name) ELSE v

\* A variable that names nothing is left alone; ApplyFails says that the pass ends.
UseNameFor(m, k, v) ==
  LET i == IndexByVar(m, k, v)
  IN IF HasItem(m, k, i) THEN use_name_for_var(Item(m, k, i).name, v) ELSE v

\* mutant: the depth counts from the outermost label
find_label_by_varOutside(labels, v) ==
  IF IsName(v) \/ v.index \notin 0 .. Len(labels) - 1 THEN NoName ELSE labels[v.index + 1]

find_label_by_var(labels, v) ==
  LET hits == {i \in DOMAIN labels : labels[i] = v.name}
  IN IF IsName(v)
     THEN IF hits = {} THEN NoName ELSE v.name
     ELSE IF v.index \in 0 .. Len(labels) - 1 THEN labels[Len(labels) - v.index] ELSE NoName

use_name_for_param_and_local_var(f, v) ==
  LET i == wasm_get_local_index_by_var(f, v)
      np == Len(f.sig.params)
      params == wasm_make_type_binding_reverse_mapping(f.sig.params, f.param_bindings)
      locals == wasm_make_type_binding_reverse_mapping(f.local_types, f.local_bindings)
  IN IF IsName(v) THEN v
     ELSE use_name_for_var(IF i < np THEN params[i + 1] ELSE locals[i - np + 1], v)

ApplyVar(m, f, labels, op, v) ==
  CASE op \in {"br", "br_if"} -> use_name_for_var(find_label_by_var(labels, v), v)
    [] op = "call" -> UseNameFor(m, "func", v)
    [] op = "call_indirect" -> UseNameFor(m, "type", v)
    [] op \in {"get_global", "set_global"} -> UseNameFor(m, "global", v)
    [] OTHER -> use_name_for_param_and_local_var(f, v)

RECURSIVE ApplyExprs(_, _, _, _)
ApplyExprs(m, f, labels, es) ==
  [i \in DOMAIN es |->
     LET e == es[i]
         Label(v) == use_name_for_var(find_label_by_var(labels, v), v)
     IN CASE e.op \in VarOps -> [e EXCEPT !.var = ApplyVar(m, f, labels, e.op, @)]
          [] e.op = "br_table" ->
               [e EXCEPT !.targets = [j \in DOMAIN e.targets |-> Label(e.targets[j])],
                         !.default = Label(@)]
          [] e.op \in {"block", "loop"} ->
               [e EXCEPT !.body = ApplyExprs(m, f, Append(labels, e.label), @)]
          [] e.op = "if" ->
               [e EXCEPT !.body = ApplyExprs(m, f, Append(labels, e.label), @),
                         !.false = ApplyExprs(m, f, Append(labels, e.label), @)]
          [] OTHER -> e]

(* visit_export looks the variable up among the functions whatever the kind of
   the export; an initialiser is not visited at all. *)
ApplyItem(m, k, x) ==
  CASE k = "func" ->
         LET x1 == [x EXCEPT !.type_var = IF x.has_type THEN UseNameFor(m, "type", @) ELSE @]
         IN [x1 EXCEPT !.body = ApplyExprs(m, x1, <<>>, @)]
    [] k = "export" -> [x EXCEPT !.var = UseNameFor(m, "func", @)]
    [] k = "elem" -> [x EXCEPT !.var = UseNameFor(m, "table", @),
                               !.vars = [j \in DOMAIN x.vars |-> UseNameFor(m, "func", x.vars[j])]]
    [] k = "data" -> [x EXCEPT !.var = UseNameFor(m, "memory", @)]
    [] OTHER -> x

ApplyFails(m) ==
  LET Names(k, v) == HasItem(m, k, IndexByVar(m, k, v))
      UseOk(f, u) ==
        CASE u.op \in {"br", "br_if"} -> TRUE
          [] u.op = "call" -> Names("func", u.var)
          [] u.op = "call_indirect" -> Names("type", u.var)
          [] u.op \in {"get_global", "set_global"} -> Names("global", u.var)
          [] OTHER -> wasm_get_local_index_by_var(f, u.var) \in 0 .. NumParamsAndLocals(f) - 1
  IN \/ \E f \in ToSet(Items(m, "func")) :
          \/ f.has_type /\ ~Names("type", f.type_var)
          \/ \E u \in UsesOf(f.body) : ~UseOk(f, u)
     \/ \E x \in ToSet(Items(m, "elem")) :
          ~Names("table", x.var) \/ \E v \in ToSet(x.vars) : ~Names("func", v)
     \/ \E x \in ToSet(Items(m, "data")) : ~Names("memory", x.var)

wasm_apply_names(m) == EachItem(m, ApplyItem, <<"func", "export", "elem", "data">>)
================================================================================
