------------------------------ MODULE BinaryWriter -----------------------------
(* binary-writer.c over the memory stream of stream.c and writer.c: the bytes
   of a module.  A section, and the body of a function, is written behind a guess
   of the length of its size; when the size turns out longer the bytes already
   written are moved (canonicalize_lebs), otherwise the size has the longest
   form.  opts is [canonicalize_lebs, write_debug_names]. *)
EXTENDS Ast, Leb128

CONSTANT WordBits
ASSUME WordBitsAssumption == WordBits \in Nat \ {0}

F32 == -3
F64 == -4

Opcode ==
  [unreachable |-> 0, nop |-> 1, block |-> 2, loop |-> 3, if |-> 4, else |-> 5, end |-> 11,
   br |-> 12, br_if |-> 13, br_table |-> 14, return |-> 15, call |-> 16, call_indirect |-> 17,
   drop |-> 26, select |-> 27, get_local |-> 32, set_local |-> 33, tee_local |-> 34,
   get_global |-> 35, set_global |-> 36, load |-> 40, store |-> 54, current_memory |-> 63,
   grow_memory |-> 64, eqz |-> 69, add |-> 106]
\* Memory accesses are i32.load and i32.store: their natural alignment is 4.
NaturalAlignment == 4

SectionCode == [custom |-> 0, type |-> 1, import |-> 2, function |-> 3, table |-> 4,
                memory |-> 5, global |-> 6, export |-> 7, start |-> 8, elem |-> 9,
                code |-> 10, data |-> 11]
KindCode == [func |-> 0, table |-> 1, memory |-> 2, global |-> 3]
NameSection == <<110, 97, 109, 101>>
Magic == <<0, 97, 115, 109>>
Version == <<13, 0, 0, 0>>

(* ---------------------------------- stream --------------------------------- *)
NewStream == [buf |-> <<>>, offset |-> 0]

wasm_write_data_at(s, off, bytes) ==
  [s EXCEPT !.buf = SubSeq(@, 1, off) \o bytes \o SubSeq(@, off + Len(bytes) + 1, Len(@))]

wasm_write_data(s, bytes) ==
  [wasm_write_data_at(s, s.offset, bytes) EXCEPT !.offset = @ + Len(bytes)]

wasm_move_data(s, dst, src, size) == wasm_write_data_at(s, dst, SubSeq(s.buf, src + 1, src + size))

u32(v) == wasm_write_u32_leb128(v, WordBits)
wasm_write_type(t) == wasm_write_i32_leb128(t, WordBits)
wasm_write_str(name) == u32(Len(name)) \o name
LebSizeGuess == 1

write_u32_leb128_space(s, opts) ==
  wasm_write_data(s, [i \in 1 .. IF opts.canonicalize_lebs THEN LebSizeGuess
                                 ELSE MaxLebBytes(WordBits) |-> 0])

write_fixup_u32_leb128_size(s, offset, opts) ==
  IF opts.canonicalize_lebs
  THEN LET size == s.offset - offset - LebSizeGuess
           leb == size_u32_leb128(size, WordBits)
           moved == IF leb = LebSizeGuess THEN s
                    ELSE wasm_move_data(s, offset + leb, offset + LebSizeGuess, size)
       IN [wasm_write_data_at(moved, offset, u32(size)) EXCEPT !.offset = @ + leb - LebSizeGuess]
  ELSE LET size == s.offset - offset - MaxLebBytes(WordBits)
       IN wasm_write_data_at(s, offset, wasm_write_fixed_u32_leb128(size, WordBits))

\* begin_known_section, what Content writes, end_section
WriteSection(s, opts, code, Content(_)) ==
  LET s1 == wasm_write_data(s, <<code>>)
  IN write_fixup_u32_leb128_size(Content(write_u32_leb128_space(s1, opts)), s1.offset, opts)

(* -------------------------------- expressions ------------------------------ *)
Concat(n, F(_)) == FlattenSeq([i \in 1 .. n |-> F(i)])

\* A signature of more than one type has no encoding.
write_inline_signature_type(sig) ==
  CASE Len(sig) = 0 -> wasm_write_type(VOID)
    [] Len(sig) = 1 -> wasm_write_type(sig[1])
    [] OTHER -> <<255>>

\* The value of a float is the bytes of its bits.
ConstBytes(e) ==
  CASE e.type = I32 -> <<65>> \o wasm_write_i32_leb128(SignedValue(e.value), Width)
    [] e.type = I64 -> <<66>> \o wasm_write_i32_leb128(SignedValue(e.value), Width)
    [] e.type = F32 -> <<67>> \o e.value
    [] e.type = F64 -> <<68>> \o e.value

log2_u32(a) == CHOOSE n \in 0 .. 3 : 2^n = a
wasm_get_opcode_alignment(a) == IF a = USE_NATURAL_ALIGNMENT THEN NaturalAlignment ELSE a

\* the index of a function, type, global or local
VarBytes(m, f, e) ==
  u32(CASE e.op = "call" -> IndexByVar(m, "func", e.var)
        [] e.op = "call_indirect" -> IndexByVar(m, "type", e.var)
        [] e.op \in {"get_global", "set_global"} -> IndexByVar(m, "global", e.var)
        [] OTHER -> wasm_get_local_index_by_var(f, e.var))

BrTableBytes(e) ==
  u32(Len(e.targets)) \o Concat(Len(e.targets), LAMBDA j : u32(e.targets[j].index))
    \o u32(e.default.index)

AccessBytes(e) == <<log2_u32(wasm_get_opcode_alignment(e.align))>> \o u32(e.offset)

RECURSIVE write_expr_list(_, _, _)
write_expr_list(m, f, es) ==
  LET Bytes(i) ==
        LET e == es[i]
            op == <<Opcode[e.op]>>
        IN CASE e.op \in {"block", "loop"} ->
                  op \o write_inline_signature_type(e.sig) \o write_expr_list(m, f, e.body)
                     \o <<Opcode.end>>
             [] e.op = "if" ->
                  op \o write_inline_signature_type(e.sig) \o write_expr_list(m, f, e.body)
                     \o (IF e.false = <<>> THEN <<>>
                         ELSE <<Opcode.else>> \o write_expr_list(m, f, e.false))
                     \o <<Opcode.end>>
             [] e.op \in {"br", "br_if"} -> op \o u32(e.var.index)
             [] e.op = "br_table" -> op \o BrTableBytes(e)
             [] e.op = "call_indirect" -> op \o VarBytes(m, f, e) \o u32(0)
             [] e.op \in VarOps \ {"br", "br_if", "call_indirect"} -> op \o VarBytes(m, f, e)
             [] e.op = "const" -> ConstBytes(e)
             [] e.op \in {"load", "store"} -> op \o AccessBytes(e)
             [] e.op \in {"current_memory", "grow_memory"} -> op \o u32(0)
             [] OTHER -> op
  IN Concat(Len(es), Bytes)

NoFunc == [param_bindings |-> <<>>, local_bindings |-> <<>>, sig |-> EmptySig]
write_init_expr(m, es) == write_expr_list(m, NoFunc, es) \o <<Opcode.end>>

\* A run of locals of one type is one declaration.
LocalRuns(types) ==
  LET Extend(runs, t) == IF runs # <<>> /\ Last(runs).type = t
                         THEN [runs EXCEPT ![Len(runs)].count = @ + 1]
                         ELSE Append(runs, [type |-> t, count |-> 1])
  IN FoldLeft(Extend, <<>>, types)

write_func_locals(f) ==
  LET runs == LocalRuns(f.local_types)
  IN u32(Len(runs)) \o Concat(Len(runs), LAMBDA i : u32(runs[i].count) \o wasm_write_type(runs[i].type))

write_func(m, f) == write_func_locals(f) \o write_expr_list(m, f, f.body) \o <<Opcode.end>>

(* --------------------------------- sections -------------------------------- *)
\* max is the sequence of the maximum, empty when there is none
wasm_write_limits(l) ==
  u32(IF l.max = <<>> THEN 0 ELSE 1) \o u32(l.initial) \o (IF l.max = <<>> THEN <<>> ELSE u32(l.max[1]))
write_table(t) == wasm_write_type(ANYFUNC) \o wasm_write_limits(t.limits)
write_global_header(g) == wasm_write_type(g.type) \o <<IF g.mutable THEN 1 ELSE 0>>

TypeBytes(sig) ==
  wasm_write_type(FUNC) \o u32(Len(sig.params)) \o Concat(Len(sig.params), LAMBDA i : wasm_write_type(sig.params[i]))
    \o u32(Len(sig.results)) \o Concat(Len(sig.results), LAMBDA i : wasm_write_type(sig.results[i]))

ImportBytes(m, x) ==
  wasm_write_str(x.module) \o wasm_write_str(x.field) \o <<KindCode[x.kind]>>
    \o CASE x.kind = "func" -> u32(wasm_get_func_type_index_by_decl(m, x.item))
         [] x.kind = "table" -> write_table(x.item)
         [] x.kind = "memory" -> wasm_write_limits(x.item.limits)
         [] x.kind = "global" -> write_global_header(x.item)

ExportBytes(m, x) == wasm_write_str(x.name) \o <<KindCode[x.kind]>> \o u32(IndexByVar(m, x.kind, x.var))

ElemBytes(m, x) ==
  u32(IndexByVar(m, "table", x.var)) \o write_init_expr(m, x.offset) \o u32(Len(x.vars))
    \o Concat(Len(x.vars), LAMBDA i : u32(IndexByVar(m, "func", x.vars[i])))

DataBytes(m, x) ==
  u32(IndexByVar(m, "memory", x.var)) \o write_init_expr(m, x.offset) \o u32(Len(x.data)) \o x.data

\* A function's name, then a name for each of its params and locals: an entry
\* without a name is the empty string.
NameBytes(f) ==
  LET names == wasm_make_type_binding_reverse_mapping(f.sig.params, f.param_bindings)
               \o wasm_make_type_binding_reverse_mapping(f.local_types, f.local_bindings)
  IN wasm_write_str(f.name) \o u32(Len(names)) \o Concat(Len(names), LAMBDA i : wasm_write_str(names[i]))

\* the items of an index space that are not imported
Defined(m, k) == SubSeq(Items(m, k), m.num_imports[k] + 1, Len(m.vec[k]))

\* A vector of items as a section, left out when it is empty
WriteItems(s, opts, code, xs, Bytes(_)) ==
  IF xs = <<>> THEN s
  ELSE WriteSection(s, opts, code,
         LAMBDA x : wasm_write_data(x, u32(Len(xs)) \o Concat(Len(xs), LAMBDA i : Bytes(xs[i]))))

WriteBodies(s, opts, m, fs) ==
  LET Body(acc, f) ==
        write_fixup_u32_leb128_size(
          wasm_write_data(write_u32_leb128_space(acc, opts), write_func(m, f)), acc.offset, opts)
  IN IF fs = <<>> THEN s
     ELSE WriteSection(s, opts, SectionCode.code,
            LAMBDA x : FoldLeft(Body, wasm_write_data(x, u32(Len(fs))), fs))

\* A start function that no name binds writes no section.
WriteStart(s, opts, m) ==
  LET i == IF m.start = 0 THEN -1 ELSE IndexByVar(m, "func", m.fields[m.start].item.var)
  IN IF i = -1 THEN s
     ELSE WriteSection(s, opts, SectionCode.start, LAMBDA x : wasm_write_data(x, u32(i)))

WriteNames(s, opts, m) ==
  LET fs == Items(m, "func")
  IN IF ~opts.write_debug_names THEN s
     ELSE WriteSection(s, opts, SectionCode.custom,
            LAMBDA x : wasm_write_data(x, wasm_write_str(NameSection) \o u32(Len(fs))
                                          \o Concat(Len(fs), LAMBDA i : NameBytes(fs[i]))))

wasm_write_binary_module(m, opts) ==
  LET imports == [i \in DOMAIN m.vec["import"] |-> m.fields[m.vec["import"][i]]]
      s0 == wasm_write_data(NewStream, Magic \o Version)
      s1 == WriteItems(s0, opts, SectionCode.type, Items(m, "type"), LAMBDA x : TypeBytes(x.sig))
      s2 == WriteItems(s1, opts, SectionCode.import, imports, LAMBDA x : ImportBytes(m, x))
      s3 == WriteItems(s2, opts, SectionCode.function, Defined(m, "func"),
                       LAMBDA x : u32(wasm_get_func_type_index_by_decl(m, x)))
      s4 == WriteItems(s3, opts, SectionCode.table, Defined(m, "table"), write_table)
      s5 == WriteItems(s4, opts, SectionCode.memory, Defined(m, "memory"),
                       LAMBDA x : wasm_write_limits(x.limits))
      s6 == WriteItems(s5, opts, SectionCode.global, Defined(m, "global"),
                       LAMBDA x : write_global_header(x) \o write_init_expr(m, x.init))
      s7 == WriteItems(s6, opts, SectionCode.export, Items(m, "export"), LAMBDA x : ExportBytes(m, x))
      s8 == WriteStart(s7, opts, m)
      s9 == WriteItems(s8, opts, SectionCode.elem, Items(m, "elem"), LAMBDA x : ElemBytes(m, x))
      s10 == WriteBodies(s9, opts, m, Defined(m, "func"))
      s11 == WriteItems(s10, opts, SectionCode.data, Items(m, "data"), LAMBDA x : DataBytes(m, x))
  IN WriteNames(s11, opts, m).buf

\* The assertions on the indexes of functions, types and exports.
WriterAssertions(m) ==
  LET Bound(k, v) == HasItem(m, k, IndexByVar(m, k, v))
  IN /\ \A f \in ToSet(Items(m, "func")) :
          \A u \in UsesOf(f.body) : /\ u.op \in {"br", "br_if"} => ~IsName(u.var)
                                    /\ u.op = "call" => Bound("func", u.var)
                                    /\ u.op = "call_indirect" => Bound("type", u.var)
     /\ \A x \in ToSet(Items(m, "export")) : Bound(x.kind, x.var)
     /\ \A x \in ToSet(Items(m, "elem")) : \A v \in ToSet(x.vars) : Bound("func", v)
================================================================================
