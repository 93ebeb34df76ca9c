---------------------------- MODULE ModuleValidator ----------------------------
(* validator.c on a whole module: the checks of its fields and of the variables
   in its function bodies (the types of the operands are Validator's subject, and
   the bodies of the instances are well typed).  Errors is what print_error would
   report, as the set of the checks that fail; the walk goes on after an error. *)
EXTENDS BinaryWriter

check_var(max_index, v) == 0 <= v.index /\ v.index < max_index
CheckItemVar(m, k, v) == check_var(Len(m.vec[k]), v)

check_local_var(f, v) ==
  LET i == wasm_get_local_index_by_var(f, v) IN 0 <= i /\ i < NumParamsAndLocals(f)

IsPowerOfTwo(n) == \E i \in 0 .. 4 : n = 2^i
check_align(align) ==
  align # USE_NATURAL_ALIGNMENT => IsPowerOfTwo(align) /\ align <= NaturalAlignment
check_offset(offset) == offset < 2^WordBits

(* check_block stops after an expression that leaves the type ANY on the stack:
   the expressions behind it are not looked at. *)
Diverts == {"br", "br_table", "return", "unreachable"}
Checked(es) ==
  LET stops == {i \in DOMAIN es : es[i].op \in Diverts}
  IN IF stops = {} THEN es ELSE SubSeq(es, 1, CHOOSE i \in stops : \A j \in stops : i <= j)

\* mutant: only labels are looked at
CheckVarOfLabels(m, f, depth, op, v) == op \in {"br", "br_if"} => check_var(depth, v)

CheckVar(m, f, depth, op, v) ==
  CASE op \in {"br", "br_if"} -> check_var(depth, v)
    [] op = "call" -> CheckItemVar(m, "func", v)
    [] op = "call_indirect" -> m.vec["table"] # <<>> /\ CheckItemVar(m, "type", v)
    [] op \in {"get_global", "set_global"} -> CheckItemVar(m, "global", v)
    [] OTHER -> check_local_var(f, v)

RECURSIVE check_block(_, _, _, _)
check_block(m, f, depth, es) ==
  \A i \in DOMAIN Checked(es) :
    LET e == es[i]
    IN CASE e.op \in VarOps -> CheckVar(m, f, depth, e.op, e.var)
         [] e.op = "br_table" ->
              \A v \in ToSet(e.targets) \cup {e.default} : check_var(depth, v)
         [] e.op \in {"block", "loop"} -> check_block(m, f, depth + 1, e.body)
         [] e.op = "if" -> /\ check_block(m, f, depth + 1, e.body)
                           /\ check_block(m, f, depth + 1, e.false)
         [] e.op \in {"load", "store"} ->
              m.vec["memory"] # <<>> /\ check_align(e.align) /\ check_offset(e.offset)
         [] e.op \in {"current_memory", "grow_memory"} -> m.vec["memory"] # <<>>
         [] OTHER -> TRUE

\* With more than one result nothing else is checked; the label of the function
\* is the one at depth 0.
check_func(m, f) ==
  /\ Len(f.sig.results) <= 1
  /\ f.has_type => /\ CheckItemVar(m, "type", f.type_var)
                   /\ Item(m, "type", f.type_var.index).sig = f.sig
  /\ check_block(m, f, 1, f.body)

\* n: current_global_index, the globals checked so far; an initialiser without
\* an expression has the type VOID
check_const_init_expr(m, es, expected, n) ==
  /\ Len(es) = 1
  /\ LET e == es[1]
     IN CASE e.op = "const" -> e.type = expected
          [] e.op = "get_global" ->
               /\ CheckItemVar(m, "global", e.var)
               /\ e.var.index < n /\ e.var.index < m.num_imports["global"]
               /\ LET g == Item(m, "global", e.var.index) IN ~g.mutable /\ g.type = expected
          [] OTHER -> FALSE

check_limits(l, absolute_max) ==
  /\ l.initial <= absolute_max
  /\ l.max # <<>> => l.max[1] <= absolute_max /\ l.initial <= l.max[1]

\* Only an import is checked for the type; n is current_table_index or
\* current_memory_index.
check_table(x, n) == n # 1 /\ check_limits(x.limits, 2^WordBits - 1)
check_memory(x, n) == n # 1 /\ check_limits(x.limits, MaxPages)

\* the fields before position p that define an item of kind k, imports included
Before(m, k, p) ==
  Cardinality({i \in 1 .. p - 1 : m.fields[i].k = k \/ (m.fields[i].k = "import" /\ m.fields[i].kind = k)})

check_import(m, x, p) ==
  CASE x.kind = "func" -> x.item.has_type => CheckItemVar(m, "type", x.item.type_var)
    [] x.kind = "table" -> check_table(x.item, Before(m, "table", p))
    [] x.kind = "memory" -> check_memory(x.item, Before(m, "memory", p))
    [] x.kind = "global" -> ~x.item.mutable

check_export(m, x) ==
  /\ CheckItemVar(m, x.kind, x.var)
  /\ x.kind = "global" => ~Item(m, "global", x.var.index).mutable

\* seen_start: an earlier field is a start field
CheckStart(m, x, p) ==
  /\ \A i \in 1 .. p - 1 : m.fields[i].k # "start"
  /\ CheckItemVar(m, "func", x.var)
  /\ Item(m, "func", x.var.index).sig = EmptySig

check_elem_segment(m, x) ==
  /\ CheckItemVar(m, "table", x.var)
  /\ \A v \in ToSet(x.vars) : CheckItemVar(m, "func", v)
  /\ check_const_init_expr(m, x.offset, I32, Len(m.vec["global"]))

check_data_segment(m, x) ==
  /\ CheckItemVar(m, "memory", x.var)
  /\ check_const_init_expr(m, x.offset, I32, Len(m.vec["global"]))

CheckField(m, p) ==
  LET x == m.fields[p].item
  IN CASE m.fields[p].k = "func" -> check_func(m, x)
       [] m.fields[p].k = "global" -> check_const_init_expr(m, x.init, x.type, Before(m, "global", p))
       [] m.fields[p].k = "import" -> check_import(m, m.fields[p], p)
       [] m.fields[p].k = "export" -> check_export(m, x)
       [] m.fields[p].k = "table" -> check_table(x, Before(m, "table", p))
       [] m.fields[p].k = "memory" -> check_memory(x, Before(m, "memory", p))
       [] m.fields[p].k = "start" -> CheckStart(m, x, p)
       [] m.fields[p].k = "elem" -> check_elem_segment(m, x)
       [] m.fields[p].k = "data" -> check_data_segment(m, x)
       [] OTHER -> TRUE

check_module(m) == \A p \in DOMAIN m.fields : CheckField(m, p)
================================================================================
