-------------------------------- MODULE MCTools --------------------------------
(* Instances of Tools for TLC.  Every body is well typed: a statement takes
   nothing from the stack and leaves nothing on it. *)
EXTENDS Tools

\* names of one letter, and the name generate_name gives the function at index 1
a == <<97>>
b == <<98>>
f1 == <<102, 49>>

(* ---------------------------------- bodies --------------------------------- *)
Const(v) == [op |-> "const", type |-> I32, value |-> v]
Folded(operands, i) == [op |-> "folded", operands |-> operands, instr |-> i]
Op(op) == [op |-> op]
On(op, v) == [op |-> op, var |-> v]
Access(op, align, offset) == [op |-> op, align |-> align, offset |-> offset]
Dropped(e) == Folded(<<e>>, Op("drop"))

Labels == {Idx(0), Idx(1), Named(a), Named(b)}
Branches ==
  {On("br", v) : v \in Labels} \cup {Folded(<<Const(1)>>, On("br_if", v)) : v \in Labels}
  \cup {Folded(<<Const(0)>>, [op |-> "br_table", targets |-> ts, default |-> Idx(0)]) :
          ts \in {<<>>, <<Idx(1), Named(a)>>}}

\* the function has a parameter $a and a local $b; memory, table and globals exist
Statements ==
  Branches \cup {Op("nop"), Op("unreachable"), Op("return")}
  \cup {Dropped(Const(v)) : v \in {-16, -1, 15, 16}}
  \cup {Dropped(On(op, v)) : op \in {"get_local"}, v \in {Idx(0), Idx(1), Named(a), Named(b)}}
  \cup {Folded(<<Const(2)>>, On(op, v)) : op \in {"set_local", "set_global"}, v \in {Idx(1), Named(b)}}
  \cup {Dropped(Folded(<<Const(2)>>, On("tee_local", Named(a)))), Dropped(On("get_global", Named(a)))}
  \cup {Folded(<<Const(2)>>, On("call", v)) : v \in {Idx(0), Named(b)}}
  \cup {Folded(<<Const(2), Const(0)>>, On("call_indirect", v)) : v \in {Idx(0), Named(a)}}
  \cup {Dropped(Folded(<<Const(0)>>, Access("load", al, off))) : al \in {<<>>, <<1>>, <<4>>}, off \in {<<>>, <<17>>}}
  \cup {Folded(<<Const(0), Const(1)>>, Access("store", <<2>>, <<1>>)), Dropped(Op("current_memory")),
        Dropped(Folded(<<Const(1)>>, Op("grow_memory"))),
        Dropped(Folded(<<Const(1), Const(2), Const(0)>>, Op("select"))),
        Dropped(Folded(<<Const(1), Const(2)>>, Op("add"))), Dropped(Folded(<<Const(1)>>, Op("eqz")))}

BlockText(op, label, body, ends) ==
  [op |-> op, label |-> label, sig |-> <<>>, body |-> body, ends |-> ends]
FoldedIf(label, body, false) ==
  [op |-> "folded_if", label |-> label, sig |-> <<>>, cond |-> <<Const(0)>>, body |-> body,
   false |-> false]
\* the flat form: the condition stands before it
FlatIf(label, body, false, ends) ==
  <<Const(0), [op |-> "if", label |-> label, sig |-> <<>>, body |-> body, false |-> false,
               ends |-> ends]>>

\* the blocks around the members of ss
Around(ss) ==
  {BlockText(op, l, <<s>>, <<l>>) : op \in {"block", "loop"}, l \in {NoName, a}, s \in ss}
  \cup {FoldedIf(b, <<s>>, <<>>) : s \in ss} \cup {FoldedIf(NoName, <<Op("nop")>>, <<s, Op("nop")>>) : s \in ss}

MCBodies ==
  {<<>>} \cup {<<s, Op("nop")>> : s \in Statements}
  \cup {<<s>> : s \in Around(Branches)} \cup {<<s>> : s \in Around(Around(Branches))}
  \cup {<<FoldedIf(a, <<>>, <<>>)>>, <<Dropped([BlockText("block", a, <<Const(3)>>, <<a>>) EXCEPT !.sig = <<I32>>])>>,
        <<BlockText("block", a, <<>>, <<b>>)>>, FlatIf(a, <<Op("nop")>>, <<Op("return")>>, <<a, NoName>>),
        FlatIf(a, <<>>, <<On("br", Named(a))>>, <<b, a>>)}
  \* an index just past the last, and indexes where the validator does not look
  \cup {<<s>> : s \in Around({Folded(<<Const(2)>>, On("call", Idx(1)))})}
  \cup {<<Op("unreachable"), On(op, Idx(7))>> : op \in {"br", "call", "get_local", "get_global"}}

(* ---------------------------------- fields --------------------------------- *)
Limits(initial, max) == [initial |-> initial, max |-> max]
TypeDef(name, params) == [k |-> "type", name |-> name, sig |-> [params |-> params, results |-> <<>>]]
Func(name, export, type_use, fields, body) ==
  [k |-> "func", name |-> name, export |-> export, type_use |-> type_use, fields |-> fields,
   body |-> body]
Bound(field, name) == [field |-> field, name |-> name, types |-> <<I32>>]
Unbound(field, types) == [field |-> field, name |-> NoName, types |-> types]
Global(name, mutable, init) ==
  [k |-> "global", name |-> name, export |-> NoName, type |-> I32, mutable |-> mutable, init |-> init]
Table(inline, elems) ==
  [k |-> "table", name |-> a, export |-> NoName, inline |-> inline, limits |-> Limits(1, <<2>>),
   elems |-> elems]
Memory(export, inline, data) ==
  [k |-> "memory", name |-> NoName, export |-> export, inline |-> inline, limits |-> Limits(1, <<>>),
   data |-> data]
Elem(vars) == [k |-> "elem", var |-> Idx(0), offset |-> <<Const(0)>>, vars |-> vars]
Data(offset) ==
  [k |-> "data", var |-> Idx(0), offset |-> offset,
   data |-> <<<<Char(7), Escape(15, 15)>>, <<>>, <<Char(65), Escape(2, 2)>>>>]
Export(kind, name, var) == [k |-> "export", name |-> name, kind |-> kind, var |-> var]
Start(var) == [k |-> "start", var |-> var]
Import(kind) ==
  [k |-> "import", kind |-> kind, module |-> b, field |-> a, name |-> a]
  @@ CASE kind = "func" -> [type_use |-> <<>>, sig |-> [params |-> <<I32>>, results |-> <<>>]]
       [] kind = "global" -> [type |-> I32, mutable |-> FALSE]
       [] OTHER -> [limits |-> Limits(1, <<2>>)]

\* A body among everything it may use
Host(body) ==
  <<TypeDef(a, <<I32>>), Global(a, FALSE, <<Const(-3)>>), Global(b, TRUE, <<Const(5)>>),
    Table(TRUE, <<Named(b)>>), Memory(NoName, FALSE, <<>>),
    Func(b, b, <<>>, <<Bound("param", a), Bound("local", b), Unbound("local", <<I32, I64>>)>>, body)>>

Openers == {TypeDef(a, <<I32>>), Func(f1, NoName, <<>>, <<>>, <<>>), Import("func"), Import("global")}
Middles ==
  {Func(NoName, NoName, <<>>, <<>>, <<>>), Func(f1, a, <<Idx(0)>>, <<Bound("local", b)>>, <<>>),
   Func(a, NoName, <<>>, <<Bound("param", a), Bound("local", a)>>,
        <<Dropped(On("get_local", Idx(1)))>>),
   Func(NoName, b, <<>>, <<Unbound("param", <<I32, I64>>), Bound("param", b), Unbound("result", <<I32>>)>>,
        <<On("get_local", Named(b))>>),
   Global(NoName, FALSE, <<On("get_global", Idx(0))>>), Table(TRUE, <<Idx(0)>>), Table(FALSE, <<>>),
   Memory(b, TRUE, <<<<Char(1), Escape(0, 2), Char(3)>>>>)}
Closers ==
  {Elem(<<Named(f1), Idx(0)>>), Data(<<Const(1)>>), Data(<<On("get_global", Named(a))>>),
   Export("func", b, Named(f1)), Export("global", a, Idx(0)), Start(Idx(0)), Start(Named(a))}

\* the texts whose file is cut short at every byte
MCCuts ==
  {Host(<<s>>) : s \in {Op("nop"), FoldedIf(NoName, <<Op("nop")>>, <<Op("return")>>)}}
  \cup {<<Func(NoName, a, <<>>, <<>>, <<>>), Func(a, NoName, <<>>, <<>>, <<Op("nop")>>)>>}

MCTexts ==
  {<<>>} \cup MCCuts \cup {Host(body) : body \in MCBodies}
  \cup {<<o, m, c>> : o \in Openers, m \in Middles, c \in Closers}
MCFields == Openers \cup Middles \cup Closers \cup {Import(kind) : kind \in ExternalKinds}

Opt(c, d, g) == [canonicalize_lebs |-> c, debug_names |-> d, generate_names |-> g]
MCOptions == {Opt(TRUE, d, g) : d, g \in BOOLEAN} \cup {Opt(FALSE, FALSE, FALSE)}

================================================================================
