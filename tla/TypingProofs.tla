---------------------------- MODULE TypingProofs ----------------------------
(***************************************************************************)
(* Proof that the types the compiler had when it emitted an instruction    *)
(* are those of every way to reach it: falling through, branching, calling *)
(* and returning all arrive with the type stack recorded in typing, for    *)
(* every function index space, opcode set and bound.                       *)
(***************************************************************************)
EXTENDS FuncCompilerProofs

-----------------------------------------------------------------------------
(* Where an instruction is and what it expects.                            *)

\* Code that can be reached: the polymorphic type is not on the stack.
Live(ts) == \A i \in 1 .. Len(ts) : ts[i] # ANY

\* The types before the instruction that is emitted next.
NextTypes ==
  IF current_func = 0 THEN <<ANY>>
  ELSE IF decls_left = 0 THEN type_stack ELSE Funcs[current_func].params

TypesAt(t) == IF t <= Len(istream) THEN typing[t] ELSE NextTypes

\* Offset t leads to an instruction that expects T.
At(t, T) == Leads(istream, t) /\ TypesAt(t) = T

\* No function starts between the offsets c and t.
Same(c, t) ==
  \A f \in DOMAIN Funcs : func_offset[f] # INVALID =>
    (func_offset[f] <= c <=> func_offset[f] <= t)

Reaches(c, t, T) == At(t, T) /\ Same(c, t)

\* Function f is the last one to start at or below c.
In(f, c) ==
  /\ f \in DOMAIN Funcs
  /\ func_offset[f] # INVALID
  /\ func_offset[f] <= c
  /\ \A g \in DOMAIN Funcs : func_offset[g] # INVALID /\ func_offset[g] <= c =>
       func_offset[g] <= func_offset[f]

-----------------------------------------------------------------------------
(* What labels promise to the branches they will patch.                    *)

\* The stack below the operands of label d.
Below(d) == Truncate(type_stack, label_stack[d].type_stack_limit)

LabelTypes(d) == Below(d) \o label_stack[d].sig

\* The branch around the true arm of an if starts the other arm, the one
\* around the else arm ends the if.
ArmTypes(d) ==
  IF label_stack[d].label_type = "if" THEN Below(d) ELSE LabelTypes(d)

Pending(c, T) ==
  \A d \in 1 .. Len(label_stack) :
    /\ c \in Fix(depth_fixups, d) => T = LabelTypes(d)
    /\ c \in Arm(label_stack, d) => T = ArmTypes(d)

\* The branch at c is taken with the types T.
Goes(c, T) ==
  IF istream[c].target = INVALID THEN Pending(c, T)
  ELSE Reaches(c, istream[c].target, T)

-----------------------------------------------------------------------------
(* What instructions do to the types.                                      *)

Popped(ts, n) == Truncate(ts, Len(ts) - n)

Straight ==
  Opcodes \cup {ConstOp[t] : t \in Types}
    \cup {"alloca", "call", "call_host", "call_indirect", "drop", "drop_keep",
          "get_global", "get_local", "select", "set_global", "set_local",
          "tee_local"}

DropKept(ts, drop, keep) == Popped(ts, drop + keep) \o LastN(ts, keep)

\* An instruction with immediates a and b that continues behind itself turns
\* ts into T.
Effect(op, a, b, ts, T) ==
  LET n == Len(ts)
      Params(f) == Len(Funcs[f].params)
  IN  \/ \E t \in Types : op = ConstOp[t] /\ T = Append(ts, t)
      \/ /\ op \in Opcodes
         /\ n >= Len(OpcodeTable[op].params)
         /\ T = Popped(ts, Len(OpcodeTable[op].params)) \o OpcodeTable[op].result
      \/ op = "select" /\ n >= 3 /\ ts[n - 1] = ts[n - 2] /\ T = Popped(ts, 2)
      \/ op = "get_global" /\ a \in DOMAIN Globals /\ T = Append(ts, Globals[a].type)
      \/ op \in {"set_global", "drop"} /\ n >= 1 /\ T = Popped(ts, 1)
      \/ op = "get_local" /\ a \in 1 .. n /\ T = Append(ts, ts[n - a + 1])
      \/ op = "set_local" /\ a \in 1 .. n - 1 /\ ts[n - a] = ts[n] /\ T = Popped(ts, 1)
      \/ op = "tee_local" /\ a \in 1 .. n /\ ts[n - a + 1] = ts[n] /\ T = ts
      \/ op = "drop_keep" /\ b \in {0, 1} /\ n >= a + b /\ T = DropKept(ts, a, b)
      \/ op = "alloca" /\ Len(T) = n + a /\ Truncate(T, n) = ts
      \/ /\ op \in {"call", "call_host"}
         /\ a \in DOMAIN Funcs /\ n >= Params(a)
         /\ LastN(ts, Params(a)) = Funcs[a].params
         /\ T = Popped(ts, Params(a)) \o Funcs[a].results
      \/ /\ op = "call_indirect"
         /\ a \in DOMAIN Funcs /\ n >= Params(a) + 1
         /\ LastN(Popped(ts, 1), Params(a)) = Funcs[a].params
         /\ T = Popped(ts, Params(a) + 1) \o Funcs[a].results

Falls(c, ts) ==
  \E T \in Seq(Types) :
    /\ Effect(istream[c].op, istream[c].a, istream[c].b, ts, T)
    /\ Reaches(c, c + 1, T)

\* The entry e of a table is taken with the types ts.
Enters(c, e, ts) ==
  /\ istream[e].op = "entry"
  /\ istream[e].b \in {0, 1}
  /\ Len(ts) >= istream[e].a + istream[e].b
  /\ Same(c, e)
  /\ Goes(e, DropKept(ts, istream[e].a, istream[e].b))

\* Wherever the instruction at c continues, its types are expected there.
Flow(c) ==
  LET op == istream[c].op
      ts == typing[c]
  IN  Live(ts) =>
        /\ op \in Straight => Falls(c, ts)
        /\ op = "br" => Goes(c, ts)
        /\ op \in {"br_unless", "br_table"} => Len(ts) >= 1
        /\ op = "br_unless" =>
             Goes(c, Popped(ts, 1)) /\ Reaches(c, c + 1, Popped(ts, 1))
        /\ op = "br_table" =>
             \A k \in 0 .. istream[c].a :
               Enters(c, istream[c].target + k, Popped(ts, 1))
        /\ op = "return" => \A f \in DOMAIN Funcs : In(f, c) => ts = Funcs[f].results

-----------------------------------------------------------------------------
(* The inductive invariant.                                                *)

\* The operands of a cell name what they should, in unreachable code too.
CellOK(code, c) ==
  /\ code[c].op \in {"call_host", "call_indirect"} => code[c].a \in DOMAIN Funcs
  /\ code[c].op = "get_global" => code[c].a \in DOMAIN Globals
  /\ code[c].op = "get_local" => code[c].a >= 1
  /\ code[c].op = "br_table" => /\ code[c].target >= 1
                                /\ code[c].target + code[c].a <= Len(code)

\* The params and locals stay below the operands.
LocalsBelow ==
  /\ \A i \in 1 .. Len(param_and_local_types) :
       type_stack[i] = param_and_local_types[i]
  /\ Len(Funcs[current_func].params) <= Len(param_and_local_types)
  /\ Truncate(param_and_local_types, Len(Funcs[current_func].params))
       = Funcs[current_func].params
  /\ decls_left = 0 \/ func_offset[current_func] = Len(istream) + 1
  /\ Len(param_and_local_types) = Len(Funcs[current_func].params) + local_count

\* The function being compiled is the last one, and what is recorded for its
\* labels is its own.
CurrentLast ==
  LET start == func_offset[current_func]
  IN  /\ start # INVALID
      /\ \A f \in DOMAIN Funcs : f # current_func => func_offset[f] < start
      /\ label_stack[1].sig = Funcs[current_func].results
      /\ \A d \in 1 .. Len(label_stack) :
           /\ \A c \in Fix(depth_fixups, d) \cup Arm(label_stack, d) : start <= c
           /\ label_stack[d].label_type = "loop" => start <= label_stack[d].offset
           /\ label_stack[d].label_type # "loop" => label_stack[d].offset = INVALID

\* A loop is entered with the types a branch to it leaves.
LoopsTyped ==
  \A d \in 1 .. Len(label_stack) :
    label_stack[d].label_type = "loop" /\ Live(Below(d)) =>
      At(label_stack[d].offset, Below(d))

EntriesTyped ==
  \A f \in DOMAIN Funcs :
    func_offset[f] # INVALID => At(func_offset[f], Funcs[f].params)

\* The conditions the compiler leaves unchecked, and a host's failure.
Conditions == {"if", "else", "br_if", "bodies", "host"}

\* What holds of any module.
WInv ==
  /\ Len(typing) = Len(istream)
  /\ typing \in Seq(Seq(Types \cup {ANY}))
  /\ \A c \in 1 .. Len(istream) : CellOK(istream, c)
  /\ current_func # 0 => LocalsBelow /\ CurrentLast
  /\ status \in {"reading", "loaded", "rejected", "assert_emit_br",
                 "assert_top_type", "assert_translate_depth"}
  /\ next_func \in 0 .. Len(Funcs) + 1
  /\ decls_left \in 0 .. MaxDecls
  /\ unchecked \subseteq Conditions
  /\ status = "loaded" /\ "bodies" \notin unchecked => next_func = Len(Funcs) + 1

\* What holds as long as no unchecked condition was used.
TInv ==
  unchecked \subseteq {"host"} =>
    /\ \A c \in 1 .. Len(istream) : Flow(c)
    /\ EntriesTyped
    /\ current_func # 0 => LoopsTyped

-----------------------------------------------------------------------------
(* Type stacks.                                                            *)

\* What is left when n values are popped.
LEMMA PoppedFacts ==
  ASSUME NEW S, NEW ts \in Seq(S), NEW n \in 0 .. Len(ts)
  PROVE  /\ Popped(ts, n) \in Seq(S)
         /\ Len(Popped(ts, n)) = Len(ts) - n
         /\ \A i \in 1 .. Len(ts) - n : Popped(ts, n)[i] = ts[i]
<1>1. Len(ts) - n \in 0 .. Len(ts)
  OBVIOUS
<1>2. QED
  BY <1>1, TruncateFacts DEF Popped

\* The last n values.
LEMMA LastNFacts ==
  ASSUME NEW S, NEW ts \in Seq(S), NEW n \in 0 .. Len(ts)
  PROVE  /\ LastN(ts, n) \in Seq(S)
         /\ Len(LastN(ts, n)) = n
         /\ \A i \in 1 .. n : LastN(ts, n)[i] = ts[Len(ts) - n + i]
BY DEF LastN

\* Sequences with the same elements are equal.
LEMMA SeqEqual ==
  ASSUME NEW S, NEW s \in Seq(S), NEW t \in Seq(S), Len(s) = Len(t),
         \A i \in 1 .. Len(s) : s[i] = t[i]
  PROVE  s = t
OBVIOUS

\* A stack without the polymorphic type is a stack of value types.
LEMMA LiveTypes ==
  ASSUME NEW ts \in Seq(Types \cup {ANY}), Live(ts)
  PROVE  ts \in Seq(Types)
<1>1. \A i \in 1 .. Len(ts) : ts[i] \in Types
  BY DEF Live
<1>2. ts \in [1 .. Len(ts) -> Types] /\ Len(ts) \in Nat
  BY <1>1
<1>3. QED
  BY <1>2

\* And a stack of value types is such a stack.
LEMMA TypesLive ==
  ASSUME NEW ts \in Seq(Types)
  PROVE  Live(ts)
<1>1. \A i \in 1 .. Len(ts) : ts[i] \in Types
  BY ElementFacts
<1>2. QED
  BY <1>1, AnyIsNoType DEF Live

\* The top tells whether the polymorphic type is on the stack.
LEMMA TopLive ==
  ASSUME StackTypes, NEW ts, Typed(ts)
  PROVE  Live(ts) <=> ~top_type_is_any(ts)
<1>1. ASSUME ~top_type_is_any(ts) PROVE Live(ts)
  BY <1>1, NoAny DEF Live
<1>2. ASSUME top_type_is_any(ts) PROVE ~Live(ts)
  <2>1. Len(ts) \in Nat /\ Len(param_and_local_types) \in Nat
    BY DEF Typed, StackTypes
  <2>2. Len(ts) \in 1 .. Len(ts) /\ ts[Len(ts)] = ANY
    BY <1>2, <2>1 DEF top_type_is_any
  <2>3. QED
    BY <2>2 DEF Live
<1>3. QED
  BY <1>1, <1>2

\* Popping and concatenating keep to value types.
LEMMA PoppedTypes ==
  ASSUME NEW ts \in Seq(Types), NEW n \in 0 .. Len(ts)
  PROVE  Popped(ts, n) \in Seq(Types) /\ Live(Popped(ts, n))
BY PoppedFacts, TypesLive

\* drop_keep of value types.
LEMMA DropKeptFacts ==
  ASSUME NEW S, NEW ts \in Seq(S), NEW drop \in Nat, NEW keep \in Nat,
         drop + keep <= Len(ts)
  PROVE  /\ DropKept(ts, drop, keep) \in Seq(S)
         /\ Len(DropKept(ts, drop, keep)) = Len(ts) - drop
         /\ \A i \in 1 .. Len(ts) - drop - keep :
              DropKept(ts, drop, keep)[i] = ts[i]
         /\ \A i \in 1 .. keep :
              DropKept(ts, drop, keep)[Len(ts) - drop - keep + i]
                = ts[Len(ts) - keep + i]
<1> DEFINE p == Popped(ts, drop + keep)
           l == LastN(ts, keep)
<1>1. drop + keep \in 0 .. Len(ts) /\ keep \in 0 .. Len(ts)
  OBVIOUS
<1>2. /\ p \in Seq(S) /\ Len(p) = Len(ts) - (drop + keep)
      /\ \A i \in 1 .. Len(ts) - (drop + keep) : p[i] = ts[i]
  BY <1>1, PoppedFacts
<1>3. /\ l \in Seq(S) /\ Len(l) = keep
      /\ \A i \in 1 .. keep : l[i] = ts[Len(ts) - keep + i]
  BY <1>1, LastNFacts
<1> HIDE DEF p, l
<1>4. /\ p \o l \in Seq(S) /\ Len(p \o l) = Len(p) + Len(l)
      /\ \A i \in 1 .. Len(p) : (p \o l)[i] = p[i]
      /\ \A i \in 1 .. Len(l) : (p \o l)[Len(p) + i] = l[i]
  <2>1. p \in Seq(S) /\ l \in Seq(S)
    BY <1>2, <1>3
  <2>2. QED
    BY <2>1, ConcatFacts
<1>5. DropKept(ts, drop, keep) = p \o l
  BY DEF DropKept, p, l
<1>6. /\ Len(ts) - (drop + keep) = Len(ts) - drop - keep
      /\ Len(ts) - (drop + keep) + keep = Len(ts) - drop
  OBVIOUS
<1>7. Len(p) = Len(ts) - drop - keep /\ Len(p) + Len(l) = Len(ts) - drop
  BY <1>2, <1>3, <1>6
<1>8. \A i \in 1 .. Len(p) : p[i] = ts[i]
  BY <1>2
<1>9. \A i \in 1 .. keep : (p \o l)[Len(p) + i] = ts[Len(ts) - keep + i]
  BY <1>3, <1>4
<1>10. QED
  BY <1>4, <1>5, <1>7, <1>8, <1>9

-----------------------------------------------------------------------------
(* What a step of the compiler keeps.                                      *)

\* Emitted cells keep all but their offset, and their types.
Extends ==
  /\ Len(istream) <= Len(istream')
  /\ \A c \in 1 .. Len(istream) :
       /\ istream'[c].op = istream[c].op
       /\ istream'[c].a = istream[c].a
       /\ istream'[c].b = istream[c].b
       /\ istream[c].op \notin BranchOps => istream'[c].target = istream[c].target
       /\ typing'[c] = typing[c]

\* What is emitted next is what was expected next.
Continues ==
  Live(NextTypes) =>
    (IF Len(istream) < Len(istream') THEN typing'[Len(istream) + 1]
     ELSE NextTypes') = NextTypes

ReachesKept ==
  \A c \in 1 .. Len(istream) : \A t, T :
    Live(T) /\ Reaches(c, t, T) => Reaches(c, t, T)'

SameKept == \A c, e \in 1 .. Len(istream) : Same(c, e) => Same(c, e)'

InKept ==
  \A c \in 1 .. Len(istream) : \A f \in DOMAIN Funcs : In(f, c)' => In(f, c)

GoesKept ==
  \A c \in 1 .. Len(istream) : \A T :
    istream[c].op \in LabelOps /\ Live(T) /\ Goes(c, T) => Goes(c, T)'

\* What is recorded after the step was recorded before, for the same types.
PromisesKept ==
  \A d \in 1 .. Len(label_stack') : \A c \in 1 .. Len(istream) :
    /\ c \in Fix(depth_fixups', d) =>
         /\ d \in 1 .. Len(label_stack) /\ c \in Fix(depth_fixups, d)
         /\ LabelTypes(d)' = LabelTypes(d)
    /\ c \in Arm(label_stack', d) =>
         /\ d \in 1 .. Len(label_stack) /\ c \in Arm(label_stack, d)
         /\ ArmTypes(d)' = ArmTypes(d)

\* A branch is patched to where its label's types are expected.
PatchesKept ==
  \A c \in 1 .. Len(istream) : istream[c].op \in LabelOps =>
    \/ istream'[c].target = istream[c].target
    \/ /\ istream[c].target = INVALID
       /\ istream'[c].target # INVALID
       /\ \A t, T : t = istream'[c].target /\ Live(T) /\ Pending(c, T) =>
            Reaches(c, t, T)'

\* An offset that led to types that can be reached still does.
LEMMA AtKept ==
  ASSUME istream \in Seq(Cells), istream' \in Seq(Cells),
         Grows(istream, istream'), Extends, Continues,
         NEW t, NEW T, Live(T), At(t, T)
  PROVE  At(t, T)'
<1>1. /\ t \in 1 .. Len(istream) + 1
      /\ Len(istream) \in Nat /\ Len(istream') \in Nat
      /\ Len(istream) <= Len(istream')
      /\ Leads(istream, t)
  BY DEF At, Leads, Extends
<1>2. Leads(istream', t)
  BY <1>1, LeadsKept
<1>3. CASE t <= Len(istream)
  <2>1. t \in 1 .. Len(istream) /\ t <= Len(istream')
    BY <1>1, <1>3
  <2>2. typing'[t] = T
    BY <1>3, <2>1 DEF At, TypesAt, Extends
  <2>3. QED
    BY <1>2, <2>1, <2>2 DEF At, TypesAt
<1>4. CASE ~(t <= Len(istream))
  <2>1. t = Len(istream) + 1 /\ NextTypes = T
    BY <1>1, <1>4 DEF At, TypesAt
  <2>2. CASE Len(istream) < Len(istream')
    <3>1. t <= Len(istream') /\ typing'[t] = T
      BY <1>1, <2>1, <2>2 DEF Continues
    <3>2. QED
      BY <1>2, <3>1 DEF At, TypesAt
  <2>3. CASE ~(Len(istream) < Len(istream'))
    <3>1. ~(t <= Len(istream')) /\ NextTypes' = T
      BY <1>1, <2>1, <2>3 DEF Continues
    <3>2. QED
      BY <1>2, <3>1 DEF At, TypesAt
  <2>4. QED
    BY <2>2, <2>3
<1>5. QED
  BY <1>3, <1>4

\* A step that gives no function its offset.
LEMMA ReachesStays ==
  ASSUME istream \in Seq(Cells), istream' \in Seq(Cells),
         Grows(istream, istream'), Extends, Continues, UNCHANGED func_offset
  PROVE  ReachesKept /\ SameKept /\ InKept
<1>1. ASSUME NEW c, NEW t, Same(c, t) PROVE Same(c, t)'
  BY <1>1 DEF Same
<1>2. ASSUME NEW f, NEW c, In(f, c)' PROVE In(f, c)
  BY <1>2 DEF In
<1>3. ASSUME NEW c, NEW t, NEW T, Live(T), Reaches(c, t, T)
      PROVE  Reaches(c, t, T)'
  BY <1>1, <1>3, AtKept DEF Reaches
<1>4. QED
  BY <1>1, <1>2, <1>3 DEF ReachesKept, SameKept, InKept

\* Branches go where they went, or where they are patched to.
LEMMA GoesStays ==
  ASSUME ReachesKept, PromisesKept, PatchesKept
  PROVE  GoesKept
<1>1. SUFFICES ASSUME NEW c \in 1 .. Len(istream), NEW T,
                      istream[c].op \in LabelOps, Live(T), Goes(c, T)
               PROVE  Goes(c, T)'
  BY DEF GoesKept
<1>2. CASE istream[c].target # INVALID
  <2>1. istream'[c].target = istream[c].target
    BY <1>1, <1>2 DEF PatchesKept
  <2>2. PICK t : t = istream[c].target
    OBVIOUS
  <2>3. Reaches(c, t, T)
    BY <1>1, <1>2, <2>2 DEF Goes
  <2>4. Reaches(c, t, T)'
    BY <1>1, <2>3 DEF ReachesKept
  <2>5. QED
    BY <1>2, <2>1, <2>2, <2>4 DEF Goes
<1>3. CASE istream[c].target = INVALID /\ istream'[c].target = INVALID
  <2>1. Pending(c, T)
    BY <1>1, <1>3 DEF Goes
  <2>2. Pending(c, T)'
    <3>1. SUFFICES ASSUME NEW d \in 1 .. Len(label_stack')
                   PROVE  /\ c \in Fix(depth_fixups', d) => T = LabelTypes(d)'
                          /\ c \in Arm(label_stack', d) => T = ArmTypes(d)'
      BY DEF Pending
    <3>2. QED
      BY <2>1 DEF Pending, PromisesKept
  <2>3. QED
    BY <1>3, <2>2 DEF Goes
<1>4. CASE istream[c].target = INVALID /\ istream'[c].target # INVALID
  <2>1. Pending(c, T)
    BY <1>1, <1>4 DEF Goes
  <2>2. PICK t : t = istream'[c].target
    OBVIOUS
  <2>3. Reaches(c, t, T)'
    BY <1>1, <1>4, <2>1, <2>2 DEF PatchesKept
  <2>4. QED
    BY <1>4, <2>2, <2>3 DEF Goes
<1>5. QED
  BY <1>2, <1>3, <1>4

\* What an instruction leads to before a step it leads to after it.
LEMMA FlowStays ==
  ASSUME istream \in Seq(Cells), Extends,
         ReachesKept, SameKept, InKept, GoesKept,
         NEW c \in 1 .. Len(istream), typing[c] \in Seq(Types \cup {ANY}),
         CellOK(istream, c), Flow(c)
  PROVE  Flow(c)'
<1>1. PICK op, a, b, ts : /\ op = istream[c].op /\ op = istream'[c].op
                          /\ a = istream[c].a /\ a = istream'[c].a
                          /\ b = istream[c].b /\ b = istream'[c].b
                          /\ ts = typing[c] /\ ts = typing'[c]
  BY DEF Extends
<1>2. SUFFICES ASSUME Live(ts)
               PROVE  Flow(c)'
  BY <1>1 DEF Flow
<1>3. ts \in Seq(Types) /\ Len(ts) \in Nat /\ a \in Nat
  <2>1. istream[c] \in Cells
    BY ElementFacts
  <2>2. a \in Nat
    BY <1>1, <2>1 DEF Cells
  <2>3. ts \in Seq(Types)
    BY <1>1, <1>2, LiveTypes
  <2>4. QED
    BY <2>2, <2>3
<1>4. ASSUME op \in Straight PROVE Falls(c, ts)'
  <2>1. Falls(c, ts)
    BY <1>1, <1>2, <1>4 DEF Flow
  <2>2. PICK T \in Seq(Types) :
          Effect(op, a, b, ts, T) /\ Reaches(c, c + 1, T)
    BY <1>1, <2>1 DEF Falls
  <2>3. Reaches(c, c + 1, T)'
    BY <2>2, TypesLive DEF ReachesKept
  <2>4. QED
    BY <1>1, <2>2, <2>3 DEF Falls
<1>5. ASSUME op = "br" PROVE Goes(c, ts)'
  <2>1. Goes(c, ts)
    BY <1>1, <1>2, <1>5 DEF Flow
  <2>2. QED
    BY <1>1, <1>2, <1>5, <2>1 DEF GoesKept, LabelOps
<1>6. ASSUME op \in {"br_unless", "br_table"} PROVE Len(ts) >= 1
  BY <1>1, <1>2, <1>6 DEF Flow
<1>7. ASSUME op \in {"br_unless", "br_table"}
      PROVE  Popped(ts, 1) \in Seq(Types) /\ Live(Popped(ts, 1))
  BY <1>3, <1>6, <1>7, PoppedTypes
<1>8. ASSUME op = "br_unless"
      PROVE  Goes(c, Popped(ts, 1))' /\ Reaches(c, c + 1, Popped(ts, 1))'
  <2>1. PICK T : T = Popped(ts, 1)
    OBVIOUS
  <2>2. Goes(c, T) /\ Reaches(c, c + 1, T)
    BY <1>1, <1>2, <1>8, <2>1 DEF Flow
  <2>3. Goes(c, T)' /\ Reaches(c, c + 1, T)'
    BY <1>1, <1>7, <1>8, <2>1, <2>2 DEF GoesKept, LabelOps, ReachesKept
  <2>4. QED
    BY <2>1, <2>3
<1>9. ASSUME op = "br_table", NEW k \in 0 .. a
      PROVE  \A e : e = istream[c].target + k => Enters(c, e, Popped(ts, 1))'
  <2>1. PICK T : T = Popped(ts, 1)
    OBVIOUS
  <2>2. PICK e : e = istream[c].target + k
    OBVIOUS
  <2>3. Enters(c, e, T)
    BY <1>1, <1>2, <1>9, <2>1, <2>2 DEF Flow
  <2>4. e \in 1 .. Len(istream)
    <3>1. istream[c] \in Cells
      BY ElementFacts
    <3>2. istream[c].target \in Nat /\ istream[c].target >= 1
          /\ istream[c].target + a <= Len(istream)
      BY <1>1, <1>9, <3>1 DEF CellOK, Cells
    <3>3. QED
      BY <1>3, <2>2, <3>2
  <2>5. PICK x, y : /\ x = istream[e].a /\ x = istream'[e].a
                    /\ y = istream[e].b /\ y = istream'[e].b
    BY <2>4 DEF Extends
  <2>6. /\ istream[e].op = "entry" /\ istream'[e].op = "entry"
        /\ y \in {0, 1} /\ Len(T) >= x + y /\ Same(c, e)
        /\ Goes(e, DropKept(T, x, y))
    BY <2>3, <2>4, <2>5 DEF Enters, Extends
  <2>7. PICK U : U = DropKept(T, x, y)
    OBVIOUS
  <2>8. Live(U)
    <3>1. T \in Seq(Types) /\ x \in Nat /\ y \in Nat /\ x + y <= Len(T)
      <4>1. istream[e] \in Cells
        BY <2>4, ElementFacts
      <4>2. x \in Nat
        BY <2>5, <4>1 DEF Cells
      <4>3. T \in Seq(Types) /\ Len(T) \in Nat
        BY <1>7, <1>9, <2>1
      <4>4. QED
        BY <2>6, <4>2, <4>3
    <3>2. QED
      BY <2>7, <3>1, DropKeptFacts, TypesLive
  <2>9. Goes(e, U)'
    BY <2>4, <2>6, <2>7, <2>8 DEF GoesKept, LabelOps
  <2>10. Same(c, e)'
    BY <2>4, <2>6 DEF SameKept
  <2>11. Enters(c, e, T)'
    BY <2>5, <2>6, <2>7, <2>9, <2>10 DEF Enters
  <2>12. QED
    BY <2>1, <2>2, <2>11
<1>10. ASSUME op = "return", NEW f \in DOMAIN Funcs, In(f, c)'
       PROVE  ts = Funcs[f].results
  BY <1>1, <1>2, <1>10 DEF Flow, InKept
<1>11. op = "br_table" => istream'[c].target = istream[c].target
  BY <1>1 DEF Extends, BranchOps
<1>12. QED
  BY <1>1, <1>4, <1>5, <1>6, <1>8, <1>9, <1>10, <1>11 DEF Flow

-----------------------------------------------------------------------------
(* Callbacks that emit code and leave the labels alone.                    *)

\* The first n types are the same.
Prefix(new, old, n) ==
  /\ n <= Len(new) /\ n <= Len(old)
  /\ \A i \in 1 .. n : new[i] = old[i]

\* So are the stacks cut off at or below n.
LEMMA PrefixBelow ==
  ASSUME NEW S, NEW new \in Seq(S), NEW old \in Seq(S), NEW m \in Nat,
         Prefix(new, old, m), NEW n \in 0 .. m
  PROVE  Truncate(new, n) = Truncate(old, n)
<1>1. n \in 0 .. Len(new) /\ n \in 0 .. Len(old) /\ \A i \in 1 .. n : i \in 1 .. m
  BY DEF Prefix
<1>2. /\ Truncate(new, n) \in Seq(S) /\ Len(Truncate(new, n)) = n
      /\ \A i \in 1 .. n : Truncate(new, n)[i] = new[i]
  BY <1>1, TruncateFacts
<1>3. /\ Truncate(old, n) \in Seq(S) /\ Len(Truncate(old, n)) = n
      /\ \A i \in 1 .. n : Truncate(old, n)[i] = old[i]
  BY <1>1, TruncateFacts
<1>4. \A i \in 1 .. n : Truncate(new, n)[i] = Truncate(old, n)[i]
  BY <1>1, <1>2, <1>3 DEF Prefix
<1>5. QED
  BY <1>2, <1>3, <1>4, SeqEqual

\* The function being compiled starts last.
LEMMA StartFacts ==
  ASSUME IInv, FInv, WInv, current_func # 0
  PROVE  /\ current_func \in DOMAIN Funcs
         /\ func_offset[current_func] \in 1 .. Len(istream) + 1
         /\ \A f \in DOMAIN Funcs : /\ func_offset[f] \in Nat
                                    /\ func_offset[f] <= func_offset[current_func]
         /\ \A c, t \in Nat : func_offset[current_func] <= c
                                /\ func_offset[current_func] <= t => Same(c, t)
         /\ \A f, c : In(f, c) /\ func_offset[current_func] <= c /\ c \in Nat =>
              f = current_func
<1>1. current_func \in DOMAIN Funcs
  BY CompilerAssumption DEF IInv, StackTypes
<1>2. func_offset \in [DOMAIN Funcs -> Nat]
  BY DEF FInv, Linked
<1>3. /\ func_offset[current_func] # INVALID
      /\ \A f \in DOMAIN Funcs :
           f # current_func => func_offset[f] < func_offset[current_func]
  BY DEF WInv, CurrentLast
<1>4. func_offset[current_func] \in 1 .. Len(istream) + 1
  BY <1>1, <1>3 DEF FInv, Targets, Leads
<1>5. \A f \in DOMAIN Funcs : /\ func_offset[f] \in Nat
                              /\ func_offset[f] <= func_offset[current_func]
  BY <1>1, <1>2, <1>3
<1>6. ASSUME NEW c \in Nat, NEW t \in Nat, func_offset[current_func] <= c,
             func_offset[current_func] <= t
      PROVE  Same(c, t)
  <2>1. \A f \in DOMAIN Funcs : func_offset[f] <= c /\ func_offset[f] <= t
    BY <1>1, <1>5, <1>6
  <2>2. QED
    BY <2>1 DEF Same
<1>7. ASSUME NEW f, NEW c \in Nat, In(f, c), func_offset[current_func] <= c
      PROVE  f = current_func
  <2>1. f \in DOMAIN Funcs /\ func_offset[current_func] <= func_offset[f]
    BY <1>1, <1>3, <1>7 DEF In
  <2>2. func_offset[f] \in Nat /\ func_offset[current_func] \in Nat
    BY <1>1, <1>5, <2>1
  <2>3. QED
    BY <1>3, <2>1, <2>2
<1>8. QED
  BY <1>1, <1>4, <1>5, <1>6, <1>7

\* A callback that emits cells of given types above the top label's limit, and
\* records at most what it emits.
Emission(cells, types) ==
  /\ UNCHANGED <<label_stack, inFunctionVars>>
  /\ type_stack' \in Seq(Types \cup {ANY})
  /\ Prefix(type_stack', type_stack, top_label.type_stack_limit)
  /\ cells \in Seq(Cells) /\ Len(cells) > 0
  /\ cells[1].op \notin {"data", "entry"}
  /\ istream' = istream \o cells
  /\ types \in Seq(Seq(Types \cup {ANY})) /\ Len(types) = Len(cells)
  /\ typing' = typing \o types
  /\ Live(type_stack) => types[1] = type_stack
  /\ \A d \in 1 .. Len(label_stack) : \A c \in Fix(depth_fixups', d) :
       c \in Fix(depth_fixups, d) \/ (c \in Nat /\ c > Len(istream))
  /\ unchecked \subseteq unchecked' /\ unchecked' \subseteq Conditions

\* Where its cells and types are.
LEMMA EmissionCells ==
  ASSUME FInv, WInv, NEW cells, NEW types, Emission(cells, types)
  PROVE  /\ Len(istream) \in Nat /\ Len(cells) \in Nat
         /\ istream' \in Seq(Cells) /\ typing' \in Seq(Seq(Types \cup {ANY}))
         /\ Len(istream') = Len(istream) + Len(cells)
         /\ Len(typing') = Len(istream')
         /\ \A i \in 1 .. Len(istream) : /\ istream'[i] = istream[i]
                                         /\ typing'[i] = typing[i]
         /\ \A k \in 1 .. Len(cells) : /\ istream'[Len(istream) + k] = cells[k]
                                       /\ typing'[Len(istream) + k] = types[k]
<1>1. /\ istream \in Seq(Cells) /\ cells \in Seq(Cells)
      /\ istream' = istream \o cells
  BY DEF FInv, Emission
<1>2. /\ istream' \in Seq(Cells) /\ Len(istream') = Len(istream) + Len(cells)
      /\ \A i \in 1 .. Len(istream) : istream'[i] = istream[i]
      /\ \A k \in 1 .. Len(cells) : istream'[Len(istream) + k] = cells[k]
  BY <1>1, ConcatFacts
<1> DEFINE S == Seq(Types \cup {ANY})
<1>3. /\ typing \in Seq(S) /\ types \in Seq(S) /\ typing' = typing \o types
      /\ Len(typing) = Len(istream) /\ Len(types) = Len(cells)
  BY DEF WInv, Emission
<1> HIDE DEF S
<1>4. /\ typing' \in Seq(S) /\ Len(typing') = Len(typing) + Len(types)
      /\ \A i \in 1 .. Len(typing) : typing'[i] = typing[i]
      /\ \A k \in 1 .. Len(types) : typing'[Len(typing) + k] = types[k]
  <2>1. typing \in Seq(S) /\ types \in Seq(S)
    BY <1>3
  <2>2. /\ typing \o types \in Seq(S)
        /\ Len(typing \o types) = Len(typing) + Len(types)
        /\ \A i \in 1 .. Len(typing) : (typing \o types)[i] = typing[i]
        /\ \A k \in 1 .. Len(types) : (typing \o types)[Len(typing) + k] = types[k]
    BY <2>1, ConcatFacts
  <2>3. typing' = typing \o types
    BY <1>3
  <2>4. QED
    BY <2>2, <2>3
<1>5. QED
  BY <1>1, <1>2, <1>3, <1>4 DEF S

\* What it keeps.
LEMMA EmissionKeeps ==
  ASSUME IInv, FInv, WInv, NEW callback, InBody(callback),
         NEW cells, NEW types, Emission(cells, types)
  PROVE  /\ Extends /\ Grows(istream, istream') /\ Continues
         /\ ReachesKept /\ SameKept /\ InKept
         /\ \A d \in 1 .. Len(label_stack) :
              /\ Below(d)' = Below(d)
              /\ LabelTypes(d)' = LabelTypes(d)
              /\ ArmTypes(d)' = ArmTypes(d)
<1>1. /\ Len(istream) \in Nat /\ Len(cells) \in Nat
      /\ istream' \in Seq(Cells)
      /\ Len(istream') = Len(istream) + Len(cells)
      /\ \A i \in 1 .. Len(istream) : /\ istream'[i] = istream[i]
                                      /\ typing'[i] = typing[i]
      /\ \A k \in 1 .. Len(cells) : /\ istream'[Len(istream) + k] = cells[k]
                                    /\ typing'[Len(istream) + k] = types[k]
  BY EmissionCells
<1>2. /\ Len(cells) > 0 /\ cells[1].op \notin {"data", "entry"}
      /\ Live(type_stack) => types[1] = type_stack
      /\ label_stack' = label_stack /\ func_offset' = func_offset
      /\ type_stack' \in Seq(Types \cup {ANY})
      /\ Prefix(type_stack', type_stack, top_label.type_stack_limit)
  BY DEF Emission, inFunctionVars
<1>3. Extends
  BY <1>1, <1>2 DEF Extends
<1>4. /\ 1 \in 1 .. Len(cells) /\ Len(istream) < Len(istream')
      /\ istream'[Len(istream) + 1] = cells[1]
      /\ typing'[Len(istream) + 1] = types[1]
  BY <1>1, <1>2
<1>5. Grows(istream, istream')
  BY <1>1, <1>2, <1>4 DEF Grows
<1>6. Continues
  <2>1. NextTypes = type_stack
    BY DEF NextTypes, InBody
  <2>2. QED
    BY <1>2, <1>4, <2>1 DEF Continues
<1>7. ReachesKept /\ SameKept /\ InKept
  <2>1. istream \in Seq(Cells) /\ UNCHANGED func_offset
    BY <1>2 DEF FInv
  <2>2. QED
    BY <1>1, <1>3, <1>5, <1>6, <2>1, ReachesStays
<1>8. ASSUME NEW d \in 1 .. Len(label_stack)
      PROVE  Below(d)' = Below(d)
  <2>1. /\ label_stack[d].type_stack_limit \in Nat
        /\ top_label.type_stack_limit \in Nat
        /\ label_stack[d].type_stack_limit <= top_label.type_stack_limit
        /\ type_stack \in Seq(Types \cup {ANY})
    BY InBodyFacts, TopLimit, LabelFacts DEF StackTypes
  <2>2. PICK n \in 0 .. top_label.type_stack_limit :
          n = label_stack[d].type_stack_limit
    BY <2>1
  <2>3. Truncate(type_stack', n) = Truncate(type_stack, n)
    BY <1>2, <2>1, PrefixBelow
  <2>4. QED
    BY <1>2, <2>2, <2>3 DEF Below
<1>9. QED
  BY <1>2, <1>3, <1>5, <1>6, <1>7, <1>8 DEF LabelTypes, ArmTypes

\* Cells that name what they should.
CellsOK(first) ==
  \A c \in 1 .. Len(istream') : c >= first => CellOK(istream', c)

\* An emission keeps what holds of any module.
LEMMA EmissionWInv ==
  ASSUME IInv, FInv, WInv, NEW callback, InBody(callback),
         NEW cells, NEW types, Emission(cells, types), CellsOK(Len(istream) + 1)
  PROVE  WInv'
<1>1. /\ Len(istream) \in Nat /\ Len(istream') \in Nat
      /\ istream' \in Seq(Cells) /\ typing' \in Seq(Seq(Types \cup {ANY}))
      /\ Len(istream) <= Len(istream')
      /\ Len(typing') = Len(istream')
      /\ \A i \in 1 .. Len(istream) : istream'[i] = istream[i]
  <2>1. /\ Len(istream) \in Nat /\ Len(cells) \in Nat
        /\ istream' \in Seq(Cells) /\ typing' \in Seq(Seq(Types \cup {ANY}))
        /\ Len(istream') = Len(istream) + Len(cells)
        /\ Len(typing') = Len(istream')
        /\ \A i \in 1 .. Len(istream) : istream'[i] = istream[i]
    BY EmissionCells
  <2>2. QED
    BY <2>1
<1>2. /\ label_stack' = label_stack /\ func_offset' = func_offset
      /\ current_func' = current_func /\ next_func' = next_func
      /\ decls_left' = decls_left /\ local_count' = local_count
      /\ param_and_local_types' = param_and_local_types /\ status' = status
      /\ Prefix(type_stack', type_stack, top_label.type_stack_limit)
      /\ \A d \in 1 .. Len(label_stack) : \A c \in Fix(depth_fixups', d) :
           c \in Fix(depth_fixups, d) \/ (c \in Nat /\ c > Len(istream))
      /\ unchecked' \subseteq Conditions
  BY DEF Emission, inFunctionVars
<1>3. ASSUME NEW c \in 1 .. Len(istream') PROVE CellOK(istream', c)
  <2>1. CASE c \in 1 .. Len(istream)
    <3>1. CellOK(istream, c) /\ istream'[c] = istream[c]
      BY <1>1, <2>1 DEF WInv
    <3>2. istream[c].op = "br_table" =>
            istream[c].target \in Nat /\ istream[c].a \in Nat
      <4>1. istream[c] \in Cells
        BY <2>1, ElementFacts DEF FInv
      <4>2. QED
        BY <4>1 DEF Cells
    <3>3. QED
      BY SMTT(30), <1>1, <3>1, <3>2 DEF CellOK
  <2>2. CASE ~(c \in 1 .. Len(istream))
    BY <1>1, <2>2 DEF CellsOK
  <2>3. QED
    BY <2>1, <2>2
<1>4. LocalsBelow'
  <2>1. LocalsBelow /\ decls_left = 0
    BY DEF WInv, InBody
  <2>2. /\ Len(param_and_local_types) <= top_label.type_stack_limit
        /\ Len(param_and_local_types) \in Nat
        /\ top_label.type_stack_limit \in Nat
    BY InBodyFacts, TopLimit DEF StackTypes
  <2>3. ASSUME NEW i \in 1 .. Len(param_and_local_types)
        PROVE  type_stack'[i] = param_and_local_types[i]
    <3>1. i \in 1 .. top_label.type_stack_limit
      BY <2>2
    <3>2. type_stack'[i] = type_stack[i]
      BY <1>2, <3>1 DEF Prefix
    <3>3. QED
      BY <2>1, <3>2 DEF LocalsBelow
  <2>4. QED
    BY <1>2, <2>1, <2>3 DEF LocalsBelow
<1>5. CurrentLast'
  <2>1. CurrentLast /\ func_offset[current_func] \in 1 .. Len(istream) + 1
    BY StartFacts DEF WInv, InBody
  <2>2. ASSUME NEW d \in 1 .. Len(label_stack),
               NEW c \in Fix(depth_fixups', d) \cup Arm(label_stack, d)
        PROVE  func_offset[current_func] <= c
    <3>1. CASE c \in Fix(depth_fixups, d) \cup Arm(label_stack, d)
      BY <2>1, <3>1 DEF CurrentLast
    <3>2. CASE c \in Nat /\ c > Len(istream)
      BY <1>1, <2>1, <3>2
    <3>3. QED
      BY <1>2, <2>2, <3>1, <3>2
  <2>3. QED
    BY <1>2, <2>1, <2>2 DEF CurrentLast
<1>6. /\ status' = "reading"
      /\ next_func' \in 0 .. Len(Funcs) + 1 /\ decls_left' \in 0 .. MaxDecls
  BY <1>2 DEF WInv, InBody
<1>7. QED
  BY <1>1, <1>2, <1>3, <1>4, <1>5, <1>6 DEF WInv

\* The cells from first on lead to what expects their types.
FlowsFrom(first) == \A c \in 1 .. Len(istream') : c >= first => Flow(c)'

\* And, when what it emits flows, what holds of checked modules.
LEMMA EmissionTInv ==
  ASSUME IInv, FInv, WInv, TInv, NEW callback, InBody(callback),
         NEW cells, NEW types, Emission(cells, types),
         unchecked' \subseteq {"host"} => FlowsFrom(Len(istream) + 1)
  PROVE  TInv'
<1>1. SUFFICES ASSUME unchecked' \subseteq {"host"}
               PROVE  /\ \A c \in 1 .. Len(istream') : Flow(c)'
                      /\ EntriesTyped'
                      /\ current_func' # 0 => LoopsTyped'
  BY DEF TInv
<1>2. /\ \A c \in 1 .. Len(istream) : Flow(c)
      /\ EntriesTyped /\ LoopsTyped /\ current_func # 0
  BY <1>1 DEF TInv, Emission, InBody
<1>3. /\ Len(istream) \in Nat /\ Len(istream') \in Nat
      /\ istream \in Seq(Cells) /\ istream' \in Seq(Cells)
      /\ Len(istream) <= Len(istream')
      /\ \A i \in 1 .. Len(istream) : istream'[i] = istream[i]
  <2>1. /\ Len(istream) \in Nat /\ Len(cells) \in Nat
        /\ istream' \in Seq(Cells)
        /\ Len(istream') = Len(istream) + Len(cells)
        /\ \A i \in 1 .. Len(istream) : istream'[i] = istream[i]
    BY EmissionCells
  <2>2. QED
    BY <2>1 DEF FInv
<1>4. /\ Extends /\ Grows(istream, istream') /\ Continues
      /\ ReachesKept /\ SameKept /\ InKept
      /\ \A d \in 1 .. Len(label_stack) :
           /\ Below(d)' = Below(d)
           /\ LabelTypes(d)' = LabelTypes(d)
           /\ ArmTypes(d)' = ArmTypes(d)
  BY EmissionKeeps
<1>5. label_stack' = label_stack /\ func_offset' = func_offset
  BY DEF Emission, inFunctionVars
<1>6. GoesKept
  <2>1. PromisesKept
    <3>1. ASSUME NEW d \in 1 .. Len(label_stack), NEW c \in 1 .. Len(istream),
                 c \in Fix(depth_fixups', d)
          PROVE  c \in Fix(depth_fixups, d)
      BY <1>3, <3>1 DEF Emission
    <3>2. QED
      BY <1>4, <1>5, <3>1 DEF PromisesKept
  <2>2. PatchesKept
    BY <1>3 DEF PatchesKept
  <2>3. QED
    BY <1>4, <2>1, <2>2, GoesStays
<1>7. ASSUME NEW c \in 1 .. Len(istream') PROVE Flow(c)'
  <2>1. CASE c \in 1 .. Len(istream)
    <3>1. Flow(c) /\ CellOK(istream, c) /\ typing[c] \in Seq(Types \cup {ANY})
      BY <1>2, <2>1 DEF WInv
    <3>2. QED
      BY <1>3, <1>4, <1>6, <2>1, <3>1, FlowStays
  <2>2. CASE ~(c \in 1 .. Len(istream))
    BY <1>1, <1>3, <2>2 DEF FlowsFrom
  <2>3. QED
    BY <2>1, <2>2
<1>8. ASSUME NEW t, NEW T, Live(T), At(t, T) PROVE At(t, T)'
  BY <1>3, <1>4, <1>8, AtKept
<1>9. EntriesTyped'
  <2>1. SUFFICES ASSUME NEW f \in DOMAIN Funcs, func_offset[f] # INVALID
                 PROVE  \A t : t = func_offset[f] => At(t, Funcs[f].params)'
    BY <1>5 DEF EntriesTyped
  <2>2. PICK t : t = func_offset[f]
    OBVIOUS
  <2>3. At(t, Funcs[f].params) /\ Live(Funcs[f].params)
    BY <1>2, <2>1, <2>2, FuncFacts, TypesLive DEF EntriesTyped
  <2>4. QED
    BY <1>8, <2>2, <2>3
<1>10. LoopsTyped'
  <2>1. ASSUME NEW d \in 1 .. Len(label_stack),
               label_stack[d].label_type = "loop", NEW T, T = Below(d), Live(T),
               NEW t, t = label_stack[d].offset
        PROVE  At(t, T)'
    <3>1. At(t, T)
      BY <1>2, <2>1 DEF LoopsTyped
    <3>2. QED
      BY <1>8, <2>1, <3>1
  <2>2. QED
    BY <1>4, <1>5, <2>1 DEF LoopsTyped
<1>11. QED
  BY <1>7, <1>9, <1>10

\* A callback that fails leaves nothing behind.
LEMMA FailedTyped ==
  ASSUME Failed
  PROVE  WInv' /\ TInv'
<1>1. PICK outcome \in {"rejected", "assert_emit_br", "assert_top_type",
                        "assert_translate_depth"} : Stop(outcome)
  BY DEF Failed
<1>2. /\ istream' = <<>> /\ typing' = <<>> /\ current_func' = 0
      /\ func_offset' = [f \in DOMAIN Funcs |-> INVALID]
      /\ status' = outcome /\ next_func' = 0 /\ decls_left' = 0
      /\ unchecked' = {}
  BY <1>1 DEF Stop
<1>3. Len(istream') = 0 /\ Len(typing') = 0
      /\ typing' \in Seq(Seq(Types \cup {ANY}))
  BY <1>2
<1>4. WInv'
  <2>1. 0 \in 0 .. Len(Funcs) + 1 /\ 0 \in 0 .. MaxDecls
    BY CompilerAssumption
  <2>2. \A c \in 1 .. Len(istream') : CellOK(istream', c)
    BY <1>3
  <2>3. QED
    BY <1>2, <1>3, <2>1, <2>2 DEF WInv
<1>5. TInv'
  <2>1. \A c \in 1 .. Len(istream') : Flow(c)'
    BY <1>3
  <2>2. EntriesTyped'
    BY <1>2 DEF EntriesTyped
  <2>3. QED
    BY <1>2, <2>1, <2>2 DEF TInv
<1>6. QED
  BY <1>4, <1>5

\* What popping leaves.
LEMMA PopFacts ==
  ASSUME Body, NEW ts, Typed(ts), Above(ts), NEW n \in Nat,
         check_type_stack_limit(ts, n)
  PROVE  /\ pop_types(ts, n) \in Seq(Types \cup {ANY})
         /\ top_label.type_stack_limit <= Len(pop_types(ts, n))
         /\ Prefix(pop_types(ts, n), ts, top_label.type_stack_limit)
         /\ Live(ts) => /\ n <= Len(ts) /\ ts \in Seq(Types)
                        /\ pop_types(ts, n) = Popped(ts, n)
                        /\ pop_types(ts, n) \in Seq(Types)
         /\ ~Live(ts) => pop_types(ts, n) = ts
<1>1. /\ ts \in Seq(Types \cup {ANY}) /\ Len(ts) \in Nat
      /\ Len(label_stack) \in 1 .. Len(label_stack)
      /\ top_label.type_stack_limit \in Nat
      /\ Live(ts) <=> ~top_type_is_any(ts)
  <2>1. StackTypes /\ LabelsOrdered
    BY DEF Body
  <2>2. ts \in Seq(Types \cup {ANY})
    BY DEF Typed
  <2>3. Len(ts) \in Nat
    BY <2>2
  <2>4. label_stack \in Seq(Labels) /\ Len(label_stack) > 0
    BY <2>1 DEF StackTypes, LabelsOrdered
  <2>5. Len(label_stack) \in 1 .. Len(label_stack)
    BY <2>4
  <2>6. top_label.type_stack_limit \in Nat
    BY TopLimit
  <2>7. Live(ts) <=> ~top_type_is_any(ts)
    BY <2>1, TopLive
  <2>8. QED
    BY <2>2, <2>3, <2>5, <2>6, <2>7
<1>2. top_label.type_stack_limit <= Len(ts)
  BY <1>1 DEF Above, top_label
<1>3. CASE ~Live(ts)
  <2>1. pop_types(ts, n) = ts
    BY <1>1, <1>3 DEF pop_types
  <2>2. QED
    BY <1>1, <1>2, <1>3, <2>1 DEF Prefix
<1>4. CASE Live(ts)
  <2>1. n <= Len(ts) - top_label.type_stack_limit
    BY <1>1, <1>4 DEF check_type_stack_limit
  <2>2. n \in 0 .. Len(ts) /\ top_label.type_stack_limit <= Len(ts) - n
    BY <1>1, <2>1
  <2>3. /\ Popped(ts, n) \in Seq(Types \cup {ANY})
        /\ Len(Popped(ts, n)) = Len(ts) - n
        /\ \A i \in 1 .. Len(ts) - n : Popped(ts, n)[i] = ts[i]
    BY <1>1, <2>2, PoppedFacts
  <2>4. pop_types(ts, n) = Popped(ts, n)
    BY <1>1, <1>4 DEF pop_types, Popped
  <2>5. ts \in Seq(Types) /\ Popped(ts, n) \in Seq(Types)
    BY <1>1, <1>4, <2>2, LiveTypes, PoppedTypes
  <2>6. Prefix(Popped(ts, n), ts, top_label.type_stack_limit)
    BY <1>1, <1>2, <2>2, <2>3 DEF Prefix
  <2>7. QED
    BY <1>4, <2>2, <2>3, <2>4, <2>5, <2>6
<1>5. QED
  BY <1>3, <1>4

\* What pushing leaves below.
LEMMA PushFacts ==
  ASSUME StackTypes, NEW ts, Typed(ts), NEW types \in Seq(Types),
         NEW old, NEW n \in Nat, n <= Len(ts), Prefix(ts, old, n)
  PROVE  /\ push_types(ts, types) \in Seq(Types \cup {ANY})
         /\ Prefix(push_types(ts, types), old, n)
         /\ Live(ts) => /\ push_types(ts, types) = ts \o types
                        /\ push_types(ts, types) \in Seq(Types)
         /\ ~Live(ts) => push_types(ts, types) = ts
<1>1. /\ ts \in Seq(Types \cup {ANY}) /\ types \in Seq(Types \cup {ANY})
      /\ Len(ts) \in Nat /\ Len(types) \in Nat
      /\ Live(ts) <=> ~top_type_is_any(ts)
  BY TopLive DEF Typed
<1>2. CASE ~Live(ts)
  <2>1. push_types(ts, types) = ts
    BY <1>1, <1>2 DEF push_types
  <2>2. QED
    BY <1>1, <1>2, <2>1
<1>3. CASE Live(ts)
  <2>1. push_types(ts, types) = ts \o types
    BY <1>1, <1>3 DEF push_types
  <2>2. /\ ts \o types \in Seq(Types \cup {ANY})
        /\ Len(ts \o types) = Len(ts) + Len(types)
        /\ \A i \in 1 .. Len(ts) : (ts \o types)[i] = ts[i]
    BY <1>1, ConcatFacts
  <2>3. ts \in Seq(Types)
    BY <1>1, <1>3, LiveTypes
  <2>4. ts \o types \in Seq(Types)
    BY <2>3
  <2>5. Prefix(ts \o types, old, n)
    BY <1>1, <2>2 DEF Prefix
  <2>6. QED
    BY <1>3, <2>1, <2>2, <2>4, <2>5
<1>4. QED
  BY <1>2, <1>3

\* The instructions that continue behind themselves have their own names.
LEMMA StraightNames ==
  ASSUME NEW op \in Straight
  PROVE  op \notin {"data", "entry", "br", "br_unless", "br_table", "return",
                    "unreachable"}
<1>1. \A t \in Types : ConstOp[t] \in {"i32_const", "i64_const", "f32_const",
                                       "f64_const"}
  BY CompilerAssumption DEF ConstOp
<1>2. \A o \in Opcodes :
        o \in {"i32_add", "i32_div_s", "i32_wrap_i64", "i64_eqz", "i32_load",
               "i64_store", "grow_memory", "current_memory"}
  BY CompilerAssumption DEF OpcodeTable
<1>3. QED
  BY <1>1, <1>2 DEF Straight

\* A one-element sequence.
LEMMA OneFacts ==
  ASSUME NEW S, NEW x \in S
  PROVE  <<x>> \in Seq(S) /\ Len(<<x>>) = 1 /\ <<x>>[1] = x
OBVIOUS

\* What falls through to the code emitted next.
LEMMA NextReached ==
  ASSUME IInv, FInv, WInv, NEW callback, InBody(callback),
         UNCHANGED inFunctionVars, istream' \in Seq(Cells),
         Len(istream') > Len(istream), NEW c, c = Len(istream')
  PROVE  \A t, T : t = c + 1 /\ T = type_stack' => Reaches(c, t, T)'
<1>1. /\ Len(istream) \in Nat /\ Len(istream') \in Nat
      /\ func_offset[current_func] \in 1 .. Len(istream) + 1
      /\ current_func # 0 /\ decls_left = 0
      /\ \A d, t \in Nat : func_offset[current_func] <= d
                             /\ func_offset[current_func] <= t => Same(d, t)
  BY StartFacts DEF InBody, FInv
<1>2. /\ current_func' = current_func /\ decls_left' = decls_left
      /\ func_offset' = func_offset
  BY DEF inFunctionVars
<1>3. SUFFICES ASSUME NEW t, t = c + 1, NEW T, T = type_stack'
               PROVE  Reaches(c, t, T)'
  OBVIOUS
<1>4. c \in Nat /\ t \in Nat /\ ~(t <= Len(istream'))
      /\ func_offset[current_func] <= c /\ func_offset[current_func] <= t
  BY <1>1, <1>3
<1>5. Same(c, t)
  BY <1>1, <1>4
<1>6. Same(c, t)'
  BY <1>2, <1>5 DEF Same
<1>7. Leads(istream', t)
  BY <1>1, <1>3, <1>4 DEF Leads
<1>8. NextTypes' = T
  BY <1>1, <1>2, <1>3 DEF NextTypes
<1>9. QED
  BY <1>4, <1>6, <1>7, <1>8 DEF Reaches, At, TypesAt

\* A cell whose operands name what they should wherever it is put.
OperandsOK(cell) ==
  /\ cell.op \in {"call_host", "call_indirect"} => cell.a \in DOMAIN Funcs
  /\ cell.op = "get_global" => cell.a \in DOMAIN Globals
  /\ cell.op = "get_local" => cell.a >= 1

\* Callbacks that emit an instruction that continues behind itself.
LEMMA StraightTyped ==
  ASSUME IInv, FInv, WInv, TInv, NEW callback, InBody(callback),
         NEW cell \in Cells, cell.op \in Straight, OperandsOK(cell),
         istream' = istream \o <<cell>>, typing' = typing \o <<type_stack>>,
         UNCHANGED <<label_stack, depth_fixups, inFunctionVars, unchecked>>,
         type_stack' \in Seq(Types \cup {ANY}),
         Prefix(type_stack', type_stack, top_label.type_stack_limit),
         Live(type_stack) =>
           /\ type_stack' \in Seq(Types)
           /\ Effect(cell.op, cell.a, cell.b, type_stack, type_stack')
  PROVE  WInv' /\ TInv'
<1> DEFINE cells == <<cell>>
           types == <<type_stack>>
<1>1. /\ cells \in Seq(Cells) /\ Len(cells) = 1 /\ cells[1] = cell
      /\ types \in Seq(Seq(Types \cup {ANY})) /\ Len(types) = 1
      /\ types[1] = type_stack
  BY InBodyFacts, OneFacts DEF StackTypes
<1>2. cell.op \notin {"data", "entry", "br", "br_unless", "br_table", "return"}
  BY StraightNames
<1>3. Emission(cells, types)
  <2>1. cells[1].op \notin {"data", "entry"} /\ Len(cells) > 0
    BY <1>1, <1>2
  <2>2. unchecked \subseteq unchecked' /\ unchecked' \subseteq Conditions
        /\ depth_fixups' = depth_fixups
    BY DEF WInv
  <2>3. /\ istream' = istream \o cells /\ typing' = typing \o types
    OBVIOUS
  <2> HIDE DEF cells, types
  <2>4. QED
    BY <1>1, <2>1, <2>2, <2>3 DEF Emission
<1>4. /\ Len(istream) \in Nat
      /\ istream' \in Seq(Cells) /\ Len(istream') = Len(istream) + 1
      /\ Len(typing') = Len(istream')
      /\ istream'[Len(istream) + 1] = cell
      /\ typing'[Len(istream) + 1] = type_stack
  <2> HIDE DEF cells, types
  <2>1. /\ Len(istream) \in Nat /\ Len(cells) \in Nat
        /\ istream' \in Seq(Cells)
        /\ Len(istream') = Len(istream) + Len(cells)
        /\ Len(typing') = Len(istream')
        /\ \A k \in 1 .. Len(cells) : /\ istream'[Len(istream) + k] = cells[k]
                                      /\ typing'[Len(istream) + k] = types[k]
    BY <1>3, EmissionCells
  <2>2. 1 \in 1 .. Len(cells)
    BY <1>1
  <2>3. QED
    BY <1>1, <2>1, <2>2
<1>5. PICK c : c = Len(istream) + 1
  OBVIOUS
<1>6. c \in Nat /\ c = Len(istream') /\ istream'[c] = cell /\ typing'[c] = type_stack
      /\ \A k \in 1 .. Len(istream') : k >= Len(istream) + 1 => k = c
  BY <1>4, <1>5
<1>7. CellsOK(Len(istream) + 1)
  <2>1. CellOK(istream', c)
    BY <1>2, <1>6 DEF CellOK, OperandsOK
  <2>2. QED
    BY <1>6, <2>1 DEF CellsOK
<1>8. FlowsFrom(Len(istream) + 1)
  <2>1. PICK ts, T : ts = type_stack /\ T = type_stack'
    OBVIOUS
  <2>2. ASSUME Live(ts) PROVE Falls(c, ts)'
    <3>1. T \in Seq(Types) /\ Effect(cell.op, cell.a, cell.b, ts, T)
      BY <2>1, <2>2
    <3>2. PICK t : t = c + 1
      OBVIOUS
    <3>3. Reaches(c, t, T)'
      <4>1. Len(istream') > Len(istream) /\ UNCHANGED inFunctionVars
        BY <1>4
      <4>2. QED
        BY <1>4, <1>6, <2>1, <3>2, <4>1, NextReached
    <3>4. QED
      BY <1>6, <3>1, <3>2, <3>3 DEF Falls
  <2>3. Flow(c)'
    BY <1>2, <1>6, <2>1, <2>2 DEF Flow
  <2>4. QED
    BY <1>6, <2>3 DEF FlowsFrom
<1> HIDE DEF cells, types
<1>9. QED
  BY <1>3, <1>7, <1>8, EmissionWInv, EmissionTInv

\* Callbacks that pop params, push results and emit one cell.
LEMMA SimpleTyped ==
  ASSUME IInv, FInv, WInv, TInv, NEW callback, InBody(callback),
         NEW params \in Seq(Types), NEW types \in Seq(Types),
         NEW cell, cell.op \in Straight, SimpleExpr(params, types, cell),
         pop_and_check(type_stack, params) => cell \in Cells /\ OperandsOK(cell),
         pop_and_check(type_stack, params) /\ Live(type_stack)
             /\ Len(params) <= Len(type_stack) =>
           \A T : T = Popped(type_stack, Len(params)) \o types =>
             Effect(cell.op, cell.a, cell.b, type_stack, T)
  PROVE  WInv' /\ TInv'
<1>1. CASE ~pop_and_check(type_stack, params)
  <2>1. Failed
    BY <1>1 DEF SimpleExpr, Checked, Reject, Failed
  <2>2. QED
    BY <2>1, FailedTyped
<1>2. CASE pop_and_check(type_stack, params)
  <2> DEFINE n == Len(params)
             rest == pop_types(type_stack, n)
  <2>1. /\ istream' = istream \o <<cell>> /\ typing' = typing \o <<type_stack>>
        /\ type_stack' = push_types(rest, types)
        /\ UNCHANGED <<label_stack, depth_fixups, inFunctionVars, unchecked>>
    BY <1>2 DEF SimpleExpr, Checked, NoLabelChange, emit
  <2>2. /\ Body /\ StackTypes /\ Typed(type_stack) /\ Above(type_stack)
        /\ n \in Nat /\ check_type_stack_limit(type_stack, n)
    BY <1>2, InBodyFacts, PopAndCheckLimit
  <2>3. Typed(rest) /\ top_label.type_stack_limit \in Nat
    BY <2>2, PopTyped, TopLimit
  <2>4. /\ rest \in Seq(Types \cup {ANY})
        /\ top_label.type_stack_limit <= Len(rest)
        /\ Prefix(rest, type_stack, top_label.type_stack_limit)
        /\ Live(type_stack) => /\ n <= Len(type_stack)
                               /\ rest = Popped(type_stack, n)
                               /\ rest \in Seq(Types)
    BY <2>2, PopFacts
  <2> HIDE DEF rest, n
  <2>5. /\ push_types(rest, types) \in Seq(Types \cup {ANY})
        /\ Prefix(push_types(rest, types), type_stack, top_label.type_stack_limit)
        /\ Live(rest) => /\ push_types(rest, types) = rest \o types
                         /\ push_types(rest, types) \in Seq(Types)
    BY <2>2, <2>3, <2>4, PushFacts
  <2>6. ASSUME Live(type_stack)
        PROVE  /\ type_stack' \in Seq(Types)
               /\ Effect(cell.op, cell.a, cell.b, type_stack, type_stack')
    <3>1. Live(rest)
      BY <2>4, <2>6, TypesLive
    <3>2. type_stack' \in Seq(Types)
          /\ type_stack' = Popped(type_stack, Len(params)) \o types
          /\ Len(params) <= Len(type_stack)
      BY <2>1, <2>4, <2>5, <2>6, <3>1 DEF n
    <3>3. QED
      BY <1>2, <2>6, <3>2
  <2>7. cell \in Cells /\ OperandsOK(cell)
    BY <1>2
  <2>8. QED
    BY <2>1, <2>5, <2>6, <2>7, StraightTyped
<1>3. QED
  BY <1>1, <1>2

\* Operators.
LEMMA OpcodeTyped ==
  ASSUME IInv, FInv, WInv, TInv, NEW op \in Opcodes, OnOpcode(op)
  PROVE  WInv' /\ TInv'
<1> DEFINE cell == Cell(op, 0, 0, 0)
           params == OpcodeTable[op].params
           types == OpcodeTable[op].result
<1>1. cell \in Cells /\ cell.op = op /\ cell.a = 0 /\ op \in Straight
  BY OpNames, CellFacts DEF Straight
<1>2. params \in Seq(Types) /\ types \in Seq(Types)
  BY CompilerAssumption, SigFacts
<1>3. InBody("opcode") /\ SimpleExpr(params, types, cell)
  BY DEF OnOpcode
<1>4. OperandsOK(cell)
  <2>1. op \in {"i32_add", "i32_div_s", "i32_wrap_i64", "i64_eqz", "i32_load",
                "i64_store", "grow_memory", "current_memory"}
    BY CompilerAssumption DEF OpcodeTable
  <2>2. op \notin {"call_host", "call_indirect", "get_global", "get_local"}
    BY <2>1
  <2>3. QED
    BY <1>1, <2>2 DEF OperandsOK
<1>5. ASSUME Len(params) <= Len(type_stack)
      PROVE  \A T : T = Popped(type_stack, Len(params)) \o types =>
               Effect(cell.op, cell.a, cell.b, type_stack, T)
  <2>1. Len(type_stack) >= Len(params)
    <3>1. Len(params) \in Nat /\ Len(type_stack) \in Nat
      BY <1>2, <1>3, InBodyFacts DEF StackTypes
    <3>2. QED
      BY <1>5, <3>1
  <2>2. QED
    BY <1>1, <2>1 DEF Effect
<1> HIDE DEF cell, params, types
<1>6. QED
  BY <1>1, <1>2, <1>3, <1>4, <1>5, SimpleTyped

\* The operands a callback checked, when the code can be reached.
LEMMA CheckedOperands ==
  ASSUME Body, NEW ts, Typed(ts), Above(ts), Live(ts),
         NEW params \in Seq(Types), pop_and_check(ts, params)
  PROVE  /\ ts \in Seq(Types) /\ Len(ts) \in Nat /\ Len(params) \in Nat
         /\ Len(params) <= Len(ts)
         /\ top_label.type_stack_limit \in Nat
         /\ top_label.type_stack_limit <= Len(ts) - Len(params)
         /\ \A i \in 1 .. Len(params) : params[i] = ts[Len(ts) - Len(params) + i]
         /\ LastN(ts, Len(params)) = params
<1> DEFINE n == Len(params)
<1>1. /\ ts \in Seq(Types) /\ Len(ts) \in Nat /\ n \in Nat
      /\ top_label.type_stack_limit \in Nat /\ ~top_type_is_any(ts)
  BY LiveTypes, TopLimit, TopLive DEF Typed, Body
<1>2. n <= Len(ts) - top_label.type_stack_limit
  BY <1>1 DEF pop_and_check, check_type_stack_limit
<1>3. n <= Len(ts) /\ top_label.type_stack_limit <= Len(ts) - n
  BY <1>1, <1>2
<1>4. ASSUME NEW i \in 1 .. n
      PROVE  params[i] = ts[Len(ts) - n + i]
  <2>1. PICK m \in 0 .. Len(ts) : m = Len(ts) - n + i - 1
    <3>1. PICK l \in Nat : l = Len(ts)
      BY <1>1
    <3>2. PICK k \in Nat : k = n
      BY <1>1
    <3>3. i \in 1 .. k /\ k <= l
      BY <1>3, <3>1, <3>2
    <3>4. l - k + i - 1 \in 0 .. l
      BY <3>3
    <3>5. QED
      BY <3>1, <3>2, <3>4
  <2>2. check_type(Truncate(ts, m), params[i], ts[Len(ts) - n + i])
    BY <1>1, <2>1 DEF pop_and_check
  <2>3. ~top_type_is_any(Truncate(ts, m))
    <3>1. /\ Len(Truncate(ts, m)) = m
          /\ \A j \in 1 .. m : Truncate(ts, m)[j] = ts[j]
      BY <1>1, TruncateFacts
    <3>2. ASSUME top_type_is_any(Truncate(ts, m)) PROVE FALSE
      <4>1. Len(param_and_local_types) \in Nat
        BY DEF Body, StackTypes
      <4>2. m > Len(param_and_local_types) /\ Truncate(ts, m)[m] = ANY
        BY <3>1, <3>2 DEF top_type_is_any
      <4>3. m \in 1 .. m /\ m \in 1 .. Len(ts)
        BY <4>1, <4>2
      <4>4. QED
        BY <3>1, <4>2, <4>3 DEF Live
    <3>3. QED
      BY <3>2
  <2>4. QED
    BY <2>2, <2>3 DEF check_type
<1>5. LastN(ts, n) = params
  <2>1. n \in 0 .. Len(ts)
    BY <1>1, <1>3
  <2>2. /\ LastN(ts, n) \in Seq(Types) /\ Len(LastN(ts, n)) = n
        /\ \A i \in 1 .. n : LastN(ts, n)[i] = ts[Len(ts) - n + i]
    BY <1>1, <2>1, LastNFacts
  <2>3. \A i \in 1 .. n : LastN(ts, n)[i] = params[i]
    BY <1>4, <2>2
  <2>4. QED
    BY <2>2, <2>3, SeqEqual
<1>6. QED
  BY <1>1, <1>3, <1>4, <1>5

\* Popping nothing, pushing nothing, pushing one type.
LEMMA PushPop ==
  ASSUME NEW ts \in Seq(Types)
  PROVE  /\ Popped(ts, 0) = ts
         /\ ts \o <<>> = ts
         /\ \A t : ts \o <<t>> = Append(ts, t)
<1>1. Popped(ts, 0) = ts
  <2>1. 0 \in 0 .. Len(ts)
    OBVIOUS
  <2>2. /\ Popped(ts, 0) \in Seq(Types) /\ Len(Popped(ts, 0)) = Len(ts) - 0
        /\ \A i \in 1 .. Len(ts) - 0 : Popped(ts, 0)[i] = ts[i]
    BY <2>1, PoppedFacts
  <2>3. QED
    BY <2>2, SeqEqual
<1>2. QED
  BY <1>1

\* Constants.
LEMMA ConstTyped ==
  ASSUME IInv, FInv, WInv, TInv, NEW t \in Types, OnConst(t)
  PROVE  WInv' /\ TInv'
<1> DEFINE cell == Cell(ConstOp[t], 0, 0, 0)
<1>1. cell \in Cells /\ cell.op = ConstOp[t] /\ cell.op \in Straight
  BY OpNames, CellFacts DEF Straight
<1>2. InBody("const") /\ SimpleExpr(<<>>, <<t>>, cell)
  BY DEF OnConst
<1>3. <<>> \in Seq(Types) /\ <<t>> \in Seq(Types) /\ Len(<<>>) = 0
  OBVIOUS
<1>4. OperandsOK(cell)
  <2>1. ConstOp[t] \in {"i32_const", "i64_const", "f32_const", "f64_const"}
    BY CompilerAssumption DEF ConstOp
  <2>2. QED
    BY <1>1, <2>1 DEF OperandsOK
<1>5. ASSUME Live(type_stack)
      PROVE  \A T : T = Popped(type_stack, Len(<<>>)) \o <<t>> =>
               Effect(cell.op, cell.a, cell.b, type_stack, T)
  <2>1. type_stack \in Seq(Types)
    BY <1>2, <1>5, InBodyFacts, LiveTypes DEF StackTypes
  <2>2. Popped(type_stack, Len(<<>>)) \o <<t>> = Append(type_stack, t)
    BY <1>3, <2>1, PushPop
  <2>3. QED
    BY <1>1, <2>2 DEF Effect
<1> HIDE DEF cell
<1>6. QED
  BY <1>1, <1>2, <1>3, <1>4, <1>5, SimpleTyped

\* Globals.
LEMMA GlobalTyped ==
  ASSUME IInv, FInv, WInv, TInv, NEW g \in 1 .. Len(Globals) + 1,
         OnGetGlobal(g) \/ OnSetGlobal(g)
  PROVE  WInv' /\ TInv'
<1> DEFINE get == Cell("get_global", 0, g, 0)
           set == Cell("set_global", 0, g, 0)
           t == Globals[g].type
<1>1. InBody("global")
  BY DEF OnGetGlobal, OnSetGlobal
<1>2. \/ Failed
      \/ /\ g <= Len(Globals)
         /\ \/ SimpleExpr(<<>>, <<t>>, get)
            \/ SimpleExpr(<<t>>, <<>>, set)
  BY DEF OnGetGlobal, OnSetGlobal, Checked, Reject, Failed
<1>3. SUFFICES ASSUME g <= Len(Globals),
                      \/ SimpleExpr(<<>>, <<t>>, get)
                      \/ SimpleExpr(<<t>>, <<>>, set)
               PROVE  WInv' /\ TInv'
  BY <1>2, FailedTyped
<1>4. g \in Nat /\ g \in DOMAIN Globals /\ t \in Types
  <2>1. /\ Globals \in Seq([type : Types, mutable : BOOLEAN])
        /\ Len(Globals) \in Nat
    BY CompilerAssumption
  <2>2. g \in 1 .. Len(Globals) /\ g \in Nat
    BY <1>3, <2>1
  <2>3. Globals[g] \in [type : Types, mutable : BOOLEAN] /\ g \in DOMAIN Globals
    <3>1. Globals[g] \in [type : Types, mutable : BOOLEAN]
      BY <2>1, <2>2, ElementFacts
    <3>2. DOMAIN Globals = 1 .. Len(Globals)
      BY <2>1
    <3>3. QED
      BY <2>2, <3>1, <3>2
  <2>4. QED
    BY <2>2, <2>3
<1>5. /\ get \in Cells /\ get.op = "get_global" /\ get.a = g
      /\ set \in Cells /\ set.op = "set_global" /\ set.a = g
      /\ get.op \in Straight /\ set.op \in Straight
  <2>1. "get_global" \in CellOps /\ "set_global" \in CellOps
    BY DEF CellOps
  <2>2. "get_global" \in Straight /\ "set_global" \in Straight
    BY DEF Straight
  <2>3. QED
    BY <1>4, <2>1, <2>2, CellFacts
<1>6. OperandsOK(get) /\ OperandsOK(set)
  BY <1>4, <1>5 DEF OperandsOK
<1>7. /\ <<>> \in Seq(Types) /\ <<t>> \in Seq(Types)
      /\ Len(<<>>) = 0 /\ Len(<<t>>) = 1
  BY <1>4
<1> HIDE DEF get, set
<1>8. CASE SimpleExpr(<<>>, <<t>>, get)
  <2>1. ASSUME Live(type_stack)
        PROVE  \A T : T = Popped(type_stack, Len(<<>>)) \o <<t>> =>
                 Effect(get.op, get.a, get.b, type_stack, T)
    <3>1. type_stack \in Seq(Types)
      BY <1>1, <2>1, InBodyFacts, LiveTypes DEF StackTypes
    <3>2. Popped(type_stack, Len(<<>>)) \o <<t>> = Append(type_stack, t)
      BY <1>7, <3>1, PushPop
    <3>3. QED
      BY <1>4, <1>5, <3>2 DEF Effect
  <2> HIDE DEF t
  <2>2. QED
    BY <1>1, <1>5, <1>6, <1>7, <1>8, <2>1, SimpleTyped
<1>9. CASE SimpleExpr(<<t>>, <<>>, set)
  <2>1. ASSUME Live(type_stack), Len(<<t>>) <= Len(type_stack)
        PROVE  \A T : T = Popped(type_stack, Len(<<t>>)) \o <<>> =>
                 Effect(set.op, set.a, set.b, type_stack, T)
    <3>1. type_stack \in Seq(Types)
      BY <1>1, <2>1, InBodyFacts, LiveTypes DEF StackTypes
    <3>2. 1 \in 0 .. Len(type_stack) /\ Len(type_stack) >= 1
      BY <1>7, <2>1, <3>1
    <3>3. Popped(type_stack, 1) \in Seq(Types)
      BY <3>1, <3>2, PoppedTypes
    <3>4. Popped(type_stack, Len(<<t>>)) \o <<>> = Popped(type_stack, 1)
      BY <1>7, <3>3, PushPop
    <3>5. QED
      BY <1>5, <3>2, <3>4 DEF Effect
  <2> HIDE DEF t
  <2>2. QED
    BY <1>1, <1>5, <1>6, <1>7, <1>9, <2>1, SimpleTyped
<1>10. QED
  BY <1>3, <1>8, <1>9

\* The types of the params and locals are where the instructions look.
LEMMA LocalTypes ==
  ASSUME IInv, WInv, NEW callback, InBody(callback),
         NEW i \in 1 .. Len(param_and_local_types)
  PROVE  /\ Len(param_and_local_types) \in Nat /\ Len(type_stack) \in Nat
         /\ param_and_local_types[i] \in Types
         /\ type_stack[i] = param_and_local_types[i]
         /\ i <= top_label.type_stack_limit
         /\ top_label.type_stack_limit \in Nat
         /\ top_label.type_stack_limit <= Len(type_stack)
<1>1. /\ param_and_local_types \in Seq(Types)
      /\ Len(param_and_local_types) \in Nat /\ Len(type_stack) \in Nat
      /\ Body /\ Above(type_stack) /\ LabelsOrdered /\ Len(label_stack) \in Nat
  BY InBodyFacts DEF StackTypes, Body
<1>2. param_and_local_types[i] \in Types
  BY <1>1, ElementFacts
<1>3. type_stack[i] = param_and_local_types[i]
  BY DEF WInv, InBody, LocalsBelow
<1>4. /\ top_label.type_stack_limit \in Nat
      /\ Len(param_and_local_types) <= top_label.type_stack_limit
  BY <1>1, TopLimit
<1>5. top_label.type_stack_limit <= Len(type_stack)
  <2>1. Len(label_stack) \in 1 .. Len(label_stack)
    BY <1>1 DEF LabelsOrdered
  <2>2. QED
    BY <1>1, <2>1 DEF Above, top_label
<1>6. QED
  BY <1>1, <1>2, <1>3, <1>4, <1>5

\* get_local and set_local.
LEMMA LocalTyped ==
  ASSUME IInv, FInv, WInv, TInv, NEW i \in 1 .. Len(param_and_local_types) + 1,
         OnGetLocal(i) \/ OnSetLocal(i)
  PROVE  WInv' /\ TInv'
<1> DEFINE ts == pop_types(type_stack, 1)
           x == translate_local_index(type_stack, i)
           y == translate_local_index(ts, i)
           get == Cell("get_local", 0, x, 0)
           set == Cell("set_local", 0, y, 0)
           t == param_and_local_types[i]
<1>1. InBody("local")
  BY DEF OnGetLocal, OnSetLocal
<1>2. \/ Failed
      \/ /\ i <= Len(param_and_local_types)
         /\ \/ SimpleExpr(<<>>, <<t>>, get)
            \/ SimpleExpr(<<t>>, <<>>, set)
  BY DEF OnGetLocal, OnSetLocal, Checked, Reject, Failed
<1>3. SUFFICES ASSUME i <= Len(param_and_local_types),
                      \/ SimpleExpr(<<>>, <<t>>, get)
                      \/ SimpleExpr(<<t>>, <<>>, set)
               PROVE  WInv' /\ TInv'
  BY <1>2, FailedTyped
<1>4. i \in 1 .. Len(param_and_local_types) /\ i \in Nat
  BY <1>1, <1>3, InBodyFacts DEF StackTypes
<1>5. /\ Len(type_stack) \in Nat /\ t \in Types /\ type_stack[i] = t
      /\ top_label.type_stack_limit \in Nat
      /\ i <= top_label.type_stack_limit
      /\ top_label.type_stack_limit <= Len(type_stack)
  BY <1>1, <1>4, LocalTypes
<1>6. /\ <<>> \in Seq(Types) /\ <<t>> \in Seq(Types)
      /\ Len(<<>>) = 0 /\ Len(<<t>>) = 1 /\ <<t>>[1] = t
  BY <1>5
<1>7. /\ "get_local" \in CellOps /\ "set_local" \in CellOps
      /\ "get_local" \in Straight /\ "set_local" \in Straight
  BY DEF CellOps, Straight
<1>8. get.op = "get_local" /\ set.op = "set_local" /\ get.a = x /\ set.a = y
  BY DEF Cell
<1> HIDE DEF t
<1>9. CASE SimpleExpr(<<>>, <<t>>, get)
  <2>1. x = Len(type_stack) - i + 1
    BY DEF translate_local_index
  <2>2. x \in 1 .. Len(type_stack) /\ x \in Nat /\ Len(type_stack) - x + 1 = i
    BY <1>4, <1>5, <2>1
  <2> HIDE DEF x
  <2>3. get \in Cells
    BY <1>7, <2>2, CellFacts
  <2>4. OperandsOK(get)
    BY <1>8, <2>2 DEF OperandsOK
  <2>5. ASSUME Live(type_stack)
        PROVE  \A T : T = Popped(type_stack, Len(<<>>)) \o <<t>> =>
                 Effect(get.op, get.a, get.b, type_stack, T)
    <3>1. type_stack \in Seq(Types)
      BY <1>1, <2>5, InBodyFacts, LiveTypes DEF StackTypes
    <3>2. Popped(type_stack, Len(<<>>)) \o <<t>> = Append(type_stack, t)
      BY <1>6, <3>1, PushPop
    <3>3. type_stack[Len(type_stack) - x + 1] = t
      BY <1>5, <2>2
    <3>4. QED
      BY <1>8, <2>2, <3>2, <3>3 DEF Effect
  <2> HIDE DEF get
  <2>6. QED
    BY <1>1, <1>6, <1>7, <1>8, <1>9, <2>3, <2>4, <2>5, SimpleTyped
<1>10. CASE SimpleExpr(<<t>>, <<>>, set)
  <2>1. y = Len(ts) - i + 1
    BY DEF translate_local_index
  <2>2. ASSUME pop_and_check(type_stack, <<t>>)
        PROVE  set \in Cells /\ OperandsOK(set)
    <3>1. Typed(ts) /\ StackTypes
      BY <1>1, <2>2, InBodyFacts, PopOneTyped
    <3> HIDE DEF ts
    <3>2. y \in Nat
      BY <1>4, <3>1, LocalIndex
    <3> HIDE DEF y
    <3>3. QED
      BY <1>7, <1>8, <3>2, CellFacts DEF OperandsOK
  <2>3. ASSUME pop_and_check(type_stack, <<t>>), Live(type_stack)
        PROVE  \A T : T = Popped(type_stack, Len(<<t>>)) \o <<>> =>
                 Effect(set.op, set.a, set.b, type_stack, T)
    <3>1. /\ Body /\ Typed(type_stack) /\ Above(type_stack)
          /\ check_type_stack_limit(type_stack, 1)
      BY <1>1, <2>3, InBodyFacts, PopOneLimit
    <3>2. /\ type_stack \in Seq(Types)
          /\ 1 <= Len(type_stack)
          /\ top_label.type_stack_limit <= Len(type_stack) - 1
          /\ t = type_stack[Len(type_stack) - 1 + 1]
      <4>1. /\ type_stack \in Seq(Types)
            /\ Len(<<t>>) <= Len(type_stack)
            /\ top_label.type_stack_limit <= Len(type_stack) - Len(<<t>>)
            /\ \A j \in 1 .. Len(<<t>>) :
                 <<t>>[j] = type_stack[Len(type_stack) - Len(<<t>>) + j]
        BY <1>6, <2>3, <3>1, CheckedOperands
      <4>2. QED
        BY <1>6, <4>1
    <3>3. 1 \in 0 .. Len(type_stack)
      BY <1>5, <3>2
    <3>4. ts = Popped(type_stack, 1) /\ Popped(type_stack, 1) \in Seq(Types)
          /\ Len(ts) = Len(type_stack) - 1
      BY <2>3, <3>1, <3>2, <3>3, PopFacts, PoppedFacts
    <3>5. /\ y \in 1 .. Len(type_stack) - 1 /\ Len(type_stack) - y = i
          /\ type_stack[Len(type_stack) - y] = type_stack[Len(type_stack)]
      <4>1. y = (Len(type_stack) - 1) - i + 1
        BY <2>1, <3>4
      <4> HIDE DEF y
      <4>2. y \in 1 .. Len(type_stack) - 1 /\ Len(type_stack) - y = i
        BY <1>4, <1>5, <3>2, <4>1
      <4>3. Len(type_stack) - 1 + 1 = Len(type_stack)
        BY <1>5
      <4>4. QED
        BY <1>5, <3>2, <4>2, <4>3
    <3>6. Popped(type_stack, Len(<<t>>)) \o <<>> = Popped(type_stack, 1)
      BY <1>6, <3>4, PushPop
    <3> HIDE DEF y, set
    <3>7. QED
      BY <1>8, <3>5, <3>6 DEF Effect
  <2> HIDE DEF set
  <2>4. QED
    BY <1>1, <1>6, <1>7, <1>8, <1>10, <2>2, <2>3, SimpleTyped
<1>11. QED
  BY <1>3, <1>9, <1>10

\* drop.
LEMMA DropTyped ==
  ASSUME IInv, FInv, WInv, TInv, OnDrop
  PROVE  WInv' /\ TInv'
<1> DEFINE cell == Cell("drop", 0, 0, 0)
<1>1. InBody("drop")
  BY DEF OnDrop
<1>2. \/ Failed
      \/ /\ check_type_stack_limit(type_stack, 1)
         /\ istream' = istream \o <<cell>> /\ typing' = typing \o <<type_stack>>
         /\ type_stack' = pop_types(type_stack, 1)
         /\ UNCHANGED <<label_stack, depth_fixups, inFunctionVars, unchecked>>
  BY DEF OnDrop, Checked, Asserted, Reject, Failed, NoLabelChange, emit
<1>3. "drop" \in CellOps /\ "drop" \in Straight
  BY DEF CellOps, Straight
<1>4. cell \in Cells /\ cell.op = "drop"
  BY <1>3, CellFacts
<1>5. OperandsOK(cell)
  BY <1>4 DEF OperandsOK
<1> HIDE DEF cell
<1>6. CASE ~Failed
  <2>1. /\ Body /\ StackTypes /\ Typed(type_stack) /\ Above(type_stack)
        /\ check_type_stack_limit(type_stack, 1)
        /\ Len(type_stack) \in Nat
    BY <1>1, <1>2, <1>6, InBodyFacts DEF StackTypes
  <2>2. /\ type_stack' \in Seq(Types \cup {ANY})
        /\ Prefix(type_stack', type_stack, top_label.type_stack_limit)
        /\ Live(type_stack) => /\ 1 <= Len(type_stack)
                               /\ type_stack' = Popped(type_stack, 1)
                               /\ type_stack' \in Seq(Types)
    BY <1>2, <1>6, <2>1, PopFacts
  <2>3. ASSUME Live(type_stack)
        PROVE  Effect(cell.op, cell.a, cell.b, type_stack, type_stack')
    BY <1>4, <2>1, <2>2, <2>3 DEF Effect
  <2>4. QED
    BY <1>1, <1>2, <1>3, <1>4, <1>5, <1>6, <2>2, <2>3, StraightTyped
<1>7. QED
  BY <1>6, FailedTyped

\* Popping twice.
LEMMA PoppedTwice ==
  ASSUME NEW S, NEW ts \in Seq(S), NEW m \in Nat, NEW n \in Nat,
         m + n <= Len(ts)
  PROVE  Popped(Popped(ts, m), n) = Popped(ts, m + n)
<1>1. m \in 0 .. Len(ts) /\ m + n \in 0 .. Len(ts) /\ n \in 0 .. Len(ts) - m
  OBVIOUS
<1>2. /\ Popped(ts, m) \in Seq(S) /\ Len(Popped(ts, m)) = Len(ts) - m
      /\ \A i \in 1 .. Len(ts) - m : Popped(ts, m)[i] = ts[i]
  BY <1>1, PoppedFacts
<1>3. PICK us \in Seq(S) : us = Popped(ts, m)
  BY <1>2
<1>4. /\ Popped(us, n) \in Seq(S) /\ Len(Popped(us, n)) = Len(us) - n
      /\ \A i \in 1 .. Len(us) - n : Popped(us, n)[i] = us[i]
  <2>1. n \in 0 .. Len(us)
    BY <1>1, <1>2, <1>3
  <2>2. QED
    BY <2>1, PoppedFacts
<1>5. /\ Popped(ts, m + n) \in Seq(S)
      /\ Len(Popped(ts, m + n)) = Len(ts) - (m + n)
      /\ \A i \in 1 .. Len(ts) - (m + n) : Popped(ts, m + n)[i] = ts[i]
  BY <1>1, PoppedFacts
<1>6. Len(us) - n = Len(ts) - (m + n)
  BY <1>2, <1>3
<1>7. \A i \in 1 .. Len(ts) - (m + n) : i \in 1 .. Len(ts) - m
  OBVIOUS
<1>8. \A i \in 1 .. Len(ts) - (m + n) : Popped(us, n)[i] = Popped(ts, m + n)[i]
  BY <1>2, <1>3, <1>4, <1>5, <1>6, <1>7
<1>9. QED
  BY <1>3, <1>4, <1>5, <1>6, <1>8, SeqEqual

\* A stack of one label is a prefix of what it was popped from.
LEMMA PrefixTrans ==
  ASSUME NEW x, NEW y, NEW z, NEW n \in Nat, Prefix(x, y, n), Prefix(y, z, n)
  PROVE  Prefix(x, z, n)
BY DEF Prefix

\* select.
LEMMA SelectTyped ==
  ASSUME IInv, FInv, WInv, TInv, OnSelect
  PROVE  WInv' /\ TInv'
<1> DEFINE cell == Cell("select", 0, 0, 0)
           ts == pop_types(type_stack, 1)
           rest == pop_types(ts, 2)
           n == Len(type_stack)
<1>1. InBody("select")
  BY DEF OnSelect
<1>2. \/ Failed
      \/ /\ pop_and_check(type_stack, <<"i32">>)
         /\ check_type_stack_limit(ts, 2)
         /\ top_type_is_any(ts) \/ check_type(rest, ts[Len(ts) - 1], ts[Len(ts)])
         /\ istream' = istream \o <<cell>> /\ typing' = typing \o <<type_stack>>
         /\ type_stack' = IF top_type_is_any(ts) THEN ts
                          ELSE push_type(rest, ts[Len(ts) - 1])
         /\ UNCHANGED <<label_stack, depth_fixups, inFunctionVars, unchecked>>
  <2>1. CASE top_type_is_any(ts)
    BY <2>1 DEF OnSelect, Checked, Asserted, Reject, Failed, NoLabelChange, emit
  <2>2. CASE ~top_type_is_any(ts)
    BY <2>2 DEF OnSelect, Checked, Asserted, Reject, Failed, NoLabelChange, emit
  <2>3. QED
    BY <2>1, <2>2
<1>3. "select" \in CellOps /\ "select" \in Straight
  BY DEF CellOps, Straight
<1>4. cell \in Cells /\ cell.op = "select"
  BY <1>3, CellFacts
<1>5. OperandsOK(cell)
  BY <1>4 DEF OperandsOK
<1> HIDE DEF cell
<1>6. CASE ~Failed
  <2>1. /\ Body /\ StackTypes /\ Typed(type_stack) /\ Above(type_stack)
        /\ check_type_stack_limit(type_stack, 1) /\ n \in Nat
        /\ type_stack \in Seq(Types \cup {ANY})
        /\ top_label.type_stack_limit \in Nat
    BY <1>1, <1>2, <1>6, InBodyFacts, PopOneLimit, TopLimit DEF StackTypes
  <2>2. Typed(ts) /\ Above(ts)
    BY <1>2, <1>6, <2>1, PopTyped
  <2>3. /\ ts \in Seq(Types \cup {ANY}) /\ Len(ts) \in Nat
        /\ Prefix(ts, type_stack, top_label.type_stack_limit)
        /\ Live(type_stack) => /\ 1 <= n /\ type_stack \in Seq(Types)
                               /\ ts = Popped(type_stack, 1)
                               /\ ts \in Seq(Types)
        /\ ~Live(type_stack) => ts = type_stack
    BY <2>1, PopFacts
  <2>4. Live(ts) <=> ~top_type_is_any(ts)
    BY <2>1, <2>2, TopLive
  <2> HIDE DEF ts
  <2>5. Typed(rest) /\ Above(rest)
    BY <1>2, <1>6, <2>1, <2>2, PopTyped
  <2>6. /\ rest \in Seq(Types \cup {ANY})
        /\ top_label.type_stack_limit <= Len(rest)
        /\ Prefix(rest, ts, top_label.type_stack_limit)
        /\ Live(ts) => /\ 2 <= Len(ts)
                       /\ rest = Popped(ts, 2)
                       /\ rest \in Seq(Types)
    BY <1>2, <1>6, <2>1, <2>2, PopFacts
  <2>7. Live(rest) <=> ~top_type_is_any(rest)
    BY <2>1, <2>5, TopLive
  <2> HIDE DEF rest
  <2>8. CASE ~Live(type_stack)
    <3>1. type_stack' = type_stack
      BY <1>2, <1>6, <2>3, <2>4, <2>8
    <3>2. Prefix(type_stack', type_stack, top_label.type_stack_limit)
      BY <2>3, <2>8, <3>1
    <3>3. QED
      BY <1>1, <1>2, <1>3, <1>4, <1>5, <1>6, <2>1, <2>8, <3>1, <3>2, StraightTyped
  <2>9. CASE Live(type_stack)
    <3>1. Live(ts) /\ ts \in Seq(Types) /\ Live(rest) /\ rest \in Seq(Types)
          /\ type_stack \in Seq(Types)
      BY <2>3, <2>6, <2>9, TypesLive
    <3>2. 2 <= Len(ts) /\ 1 \in 0 .. n
      BY <2>1, <2>3, <2>6, <2>9, <3>1
    <3>3. Len(ts) = n - 1 /\ \A i \in 1 .. n - 1 : ts[i] = type_stack[i]
      BY <2>3, <2>9, <3>1, <3>2, PoppedFacts, SMTT(30)
    <3>4. /\ n >= 3 /\ 2 \in 0 .. n /\ 2 \in 0 .. Len(ts)
          /\ Len(ts) - 1 = n - 2 /\ Len(ts) - 2 = n - 3
          /\ n - 2 \in 1 .. n - 1 /\ n - 1 \in 1 .. n - 1
          /\ Len(ts) = n - 1
      BY <2>1, <3>2, <3>3
    <3>5. Len(rest) = n - 3 /\ \A i \in 1 .. n - 3 : rest[i] = ts[i]
      BY ZenonT(30), <2>6, <3>1, <3>4, PoppedFacts
    <3>6. type_stack' = Append(rest, type_stack[n - 2])
          /\ type_stack[n - 2] = type_stack[n - 1]
      <4>1. ts[n - 2] = type_stack[n - 2] /\ ts[n - 1] = type_stack[n - 1]
        BY <3>3, <3>4
      <4>2. type_stack' = push_type(rest, ts[n - 2])
            /\ check_type(rest, ts[n - 2], ts[n - 1])
        BY <1>2, <1>6, <2>4, <3>1, <3>4
      <4>3. ~top_type_is_any(rest)
        BY <2>7, <3>1
      <4>4. QED
        BY <4>1, <4>2, <4>3 DEF push_type, check_type
    <3>7. type_stack[n - 2] \in Types
      <4>1. n - 2 \in 1 .. Len(type_stack)
        BY <2>1, <3>4
      <4>2. QED
        BY <3>1, <4>1, ElementFacts
    <3>8. PICK t \in Types : t = type_stack[n - 2]
      BY <3>7
    <3>9. /\ Append(rest, t) \in Seq(Types) /\ Len(Append(rest, t)) = n - 3 + 1
          /\ \A i \in 1 .. n - 3 : Append(rest, t)[i] = rest[i]
          /\ Append(rest, t)[n - 3 + 1] = t
      BY <3>1, <3>5
    <3>10. /\ Popped(type_stack, 2) \in Seq(Types)
           /\ Len(Popped(type_stack, 2)) = n - 2
           /\ \A i \in 1 .. n - 2 : Popped(type_stack, 2)[i] = type_stack[i]
      BY <3>1, <3>4, PoppedFacts
    <3>11. Append(rest, t) = Popped(type_stack, 2)
      <4>1. n - 3 + 1 = n - 2
        BY <2>1
      <4>2. ASSUME NEW i \in 1 .. n - 2
            PROVE  Append(rest, t)[i] = Popped(type_stack, 2)[i]
        <5>1. CASE i = n - 2
          BY <3>8, <3>9, <3>10, <4>1, <5>1
        <5>2. CASE i # n - 2
          <6>1. i \in 1 .. n - 3 /\ i \in 1 .. n - 1
            BY <2>1, <5>2
          <6>2. QED
            BY <3>3, <3>5, <3>9, <3>10, <6>1
        <5>3. QED
          BY <5>1, <5>2
      <4>3. QED
        BY <3>9, <3>10, <4>1, <4>2, SeqEqual
    <3>12. Prefix(type_stack', type_stack, top_label.type_stack_limit)
      <4>1. PICK k \in Nat : k = top_label.type_stack_limit
        BY <2>1
      <4>2. k <= n - 3
        BY <2>6, <3>5, <4>1
      <4>3. k <= n - 2 /\ k <= n /\ \A i \in 1 .. k : i \in 1 .. n - 2
        BY <2>1, <4>2
      <4>4. type_stack' = Popped(type_stack, 2)
        BY <3>6, <3>8, <3>11
      <4>5. QED
        BY <3>10, <4>1, <4>3, <4>4 DEF Prefix
    <3>13. type_stack' \in Seq(Types) /\ type_stack' \in Seq(Types \cup {ANY})
      BY <3>6, <3>8, <3>9
    <3>14. Effect(cell.op, cell.a, cell.b, type_stack, type_stack')
      <4>1. type_stack' = Popped(type_stack, 2)
        BY <3>6, <3>8, <3>11
      <4>2. type_stack[n - 1] = type_stack[n - 2]
        BY <3>6
      <4>3. QED
        BY <1>4, <3>4, <4>1, <4>2 DEF Effect
    <3>15. QED
      BY <1>1, <1>2, <1>3, <1>4, <1>5, <1>6, <3>12, <3>13, <3>14, StraightTyped
  <2>10. QED
    BY <2>8, <2>9
<1>7. QED
  BY <1>6, FailedTyped

\* tee_local.
LEMMA TeeTyped ==
  ASSUME IInv, FInv, WInv, TInv, NEW i \in 1 .. Len(param_and_local_types) + 1,
         OnTeeLocal(i)
  PROVE  WInv' /\ TInv'
<1> DEFINE x == translate_local_index(type_stack, i)
           cell == Cell("tee_local", 0, x, 0)
           n == Len(type_stack)
<1>1. InBody("local")
  BY DEF OnTeeLocal
<1>2. \/ Failed
      \/ /\ i <= Len(param_and_local_types)
         /\ check_type_stack_limit(type_stack, 1)
         /\ check_type(type_stack, param_and_local_types[i], type_stack[n])
         /\ istream' = istream \o <<cell>> /\ typing' = typing \o <<type_stack>>
         /\ type_stack' = type_stack
         /\ UNCHANGED <<label_stack, depth_fixups, inFunctionVars, unchecked>>
  BY DEF OnTeeLocal, Checked, Asserted, Reject, Failed, NoLabelChange, emit
<1>3. CASE ~Failed
  <2>1. i \in 1 .. Len(param_and_local_types) /\ i \in Nat
    BY <1>1, <1>2, <1>3, InBodyFacts DEF StackTypes
  <2>2. /\ n \in Nat /\ type_stack[i] = param_and_local_types[i]
        /\ top_label.type_stack_limit \in Nat
        /\ i <= top_label.type_stack_limit
        /\ top_label.type_stack_limit <= n
    BY <1>1, <2>1, LocalTypes
  <2>3. x = n - i + 1
    BY DEF translate_local_index
  <2>4. x \in Nat /\ x \in 1 .. n /\ n - x + 1 = i
    BY <2>1, <2>2, <2>3
  <2> HIDE DEF x
  <2>5. "tee_local" \in CellOps /\ "tee_local" \in Straight
    BY DEF CellOps, Straight
  <2>6. cell \in Cells /\ cell.op = "tee_local" /\ cell.a = x
    <3>1. x \in Nat /\ "tee_local" \in CellOps /\ 0 \in Nat
      BY <2>4, <2>5
    <3>2. QED
      BY <3>1, CellFacts
  <2>7. OperandsOK(cell)
    BY <2>6 DEF OperandsOK
  <2> HIDE DEF cell
  <2>8. /\ type_stack \in Seq(Types \cup {ANY})
        /\ Live(type_stack) <=> ~top_type_is_any(type_stack)
    BY <1>1, InBodyFacts, TopLive DEF StackTypes
  <2>9. Prefix(type_stack', type_stack, top_label.type_stack_limit)
    BY <1>2, <1>3, <2>2 DEF Prefix
  <2>10. ASSUME Live(type_stack)
         PROVE  /\ type_stack' \in Seq(Types)
                /\ Effect(cell.op, cell.a, cell.b, type_stack, type_stack')
    <3>1. param_and_local_types[i] = type_stack[n]
      BY <1>2, <1>3, <2>8, <2>10 DEF check_type
    <3>2. type_stack[n - x + 1] = type_stack[n] /\ type_stack' = type_stack
      BY <1>2, <1>3, <2>2, <2>4, <3>1
    <3>3. type_stack \in Seq(Types)
      BY <2>8, <2>10, LiveTypes
    <3>4. Effect(cell.op, cell.a, cell.b, type_stack, type_stack')
      BY <2>4, <2>6, <3>2 DEF Effect
    <3>5. QED
      BY <3>2, <3>3, <3>4
  <2>11. type_stack' \in Seq(Types \cup {ANY})
    BY <1>2, <1>3, <2>8
  <2>12. QED
    BY <1>1, <1>2, <1>3, <2>5, <2>6, <2>7, <2>9, <2>10, <2>11, StraightTyped
<1>4. QED
  BY <1>3, FailedTyped

\* Calls of a given function.
LEMMA CallTyped ==
  ASSUME IInv, FInv, WInv, TInv, NEW f \in DOMAIN Funcs, OnCall(f)
  PROVE  WInv' /\ TInv'
<1> DEFINE params == Funcs[f].params
           types == Funcs[f].results
           rest == pop_types(type_stack, Len(params))
           host == Cell("call_host", 0, f, 0)
           defined == Cell("call", func_offset[f], f, 0)
<1>1. InBody("call")
  BY DEF OnCall
<1>2. \/ Failed
      \/ /\ pop_and_check(type_stack, params)
         /\ \/ istream' = istream \o <<host>>
            \/ istream' = istream \o <<defined>>
         /\ typing' = typing \o <<type_stack>>
         /\ type_stack' = push_types(rest, types)
         /\ UNCHANGED <<label_stack, depth_fixups, inFunctionVars, unchecked>>
  <2>1. CASE f <= NumImports
    BY <2>1 DEF OnCall, Checked, Asserted, Reject, Failed, NoLabelChange, emit
  <2>2. CASE ~(f <= NumImports)
    BY <2>2 DEF OnCall, Checked, Asserted, Reject, Failed, NoLabelChange, emit
  <2>3. QED
    BY <2>1, <2>2
<1>3. /\ params \in Seq(Types) /\ types \in Seq(Types) /\ Len(params) \in Nat
      /\ f \in Nat /\ func_offset[f] \in Nat
  BY FuncFacts, SigFacts, CompilerAssumption DEF FInv, Linked
<1>4. /\ "call" \in CellOps /\ "call_host" \in CellOps
      /\ "call" \in Straight /\ "call_host" \in Straight
  BY DEF CellOps, BranchOps, Straight
<1>5. /\ host \in Cells /\ host.op = "call_host" /\ host.a = f
      /\ defined \in Cells /\ defined.op = "call" /\ defined.a = f
  <2>1. PICK off \in Nat : off = func_offset[f]
    BY <1>3
  <2>2. f \in Nat /\ 0 \in Nat /\ "call" \in CellOps /\ "call_host" \in CellOps
    BY <1>3, <1>4
  <2>3. Cell("call_host", 0, f, 0) \in Cells /\ Cell("call_host", 0, f, 0).a = f
        /\ Cell("call_host", 0, f, 0).op = "call_host"
    BY <2>2, CellFacts
  <2>4. Cell("call", off, f, 0) \in Cells /\ Cell("call", off, f, 0).a = f
        /\ Cell("call", off, f, 0).op = "call"
    BY <2>2, CellFacts
  <2>5. QED
    BY <2>1, <2>3, <2>4
<1>6. OperandsOK(host) /\ OperandsOK(defined)
  BY <1>5 DEF OperandsOK
<1> HIDE DEF host, defined, params, types
<1>7. CASE ~Failed
  <2>1. /\ Body /\ StackTypes /\ Typed(type_stack) /\ Above(type_stack)
        /\ check_type_stack_limit(type_stack, Len(params))
        /\ top_label.type_stack_limit \in Nat
    BY <1>1, <1>2, <1>7, InBodyFacts, PopAndCheckLimit, TopLimit
  <2>2. Typed(rest)
    BY <1>3, <2>1, PopTyped
  <2>3. /\ rest \in Seq(Types \cup {ANY})
        /\ top_label.type_stack_limit <= Len(rest)
        /\ Prefix(rest, type_stack, top_label.type_stack_limit)
        /\ Live(type_stack) => /\ Len(params) <= Len(type_stack)
                               /\ rest = Popped(type_stack, Len(params))
                               /\ rest \in Seq(Types)
    BY <1>3, <2>1, PopFacts
  <2> HIDE DEF rest
  <2>4. /\ push_types(rest, types) \in Seq(Types \cup {ANY})
        /\ Prefix(push_types(rest, types), type_stack, top_label.type_stack_limit)
        /\ Live(rest) => /\ push_types(rest, types) = rest \o types
                         /\ push_types(rest, types) \in Seq(Types)
    BY <1>3, <2>1, <2>2, <2>3, PushFacts
  <2>5. PICK cell \in {host, defined} : istream' = istream \o <<cell>>
    BY <1>2, <1>7
  <2>6. /\ cell \in Cells /\ cell.op \in {"call", "call_host"} /\ cell.a = f
        /\ OperandsOK(cell) /\ cell.op \in Straight
    BY <1>4, <1>5, <1>6
  <2>7. ASSUME Live(type_stack)
        PROVE  /\ type_stack' \in Seq(Types)
               /\ Effect(cell.op, cell.a, cell.b, type_stack, type_stack')
    <3>1. Live(rest)
      BY <2>3, <2>7, TypesLive
    <3>2. /\ LastN(type_stack, Len(params)) = params
          /\ Len(params) <= Len(type_stack) /\ Len(type_stack) \in Nat
      BY <1>2, <1>3, <1>7, <2>1, <2>7, CheckedOperands
    <3>3. type_stack' = Popped(type_stack, Len(params)) \o types
          /\ type_stack' \in Seq(Types) /\ Len(type_stack) >= Len(params)
      BY <1>2, <1>3, <1>7, <2>3, <2>4, <2>7, <3>1, <3>2
    <3>4. Effect(cell.op, f, cell.b, type_stack, type_stack')
      BY <2>6, <3>2, <3>3 DEF Effect, params, types
    <3>5. QED
      BY <2>6, <3>3, <3>4
  <2>8. QED
    BY <1>1, <1>2, <1>7, <2>4, <2>5, <2>6, <2>7, StraightTyped
<1>8. QED
  BY <1>7, FailedTyped

\* Calls through the table.
LEMMA CallIndirectTyped ==
  ASSUME IInv, FInv, WInv, TInv, NEW f \in DOMAIN Funcs, OnCallIndirect(f)
  PROVE  WInv' /\ TInv'
<1> DEFINE params == Funcs[f].params
           types == Funcs[f].results
           ts == pop_types(type_stack, 1)
           rest == pop_types(ts, Len(params))
           cell == Cell("call_indirect", 0, f, 0)
<1>1. InBody("call_indirect")
  BY DEF OnCallIndirect
<1>2. \/ Failed
      \/ /\ pop_and_check(type_stack, <<"i32">>)
         /\ pop_and_check(ts, params)
         /\ istream' = istream \o <<cell>>
         /\ typing' = typing \o <<type_stack>>
         /\ type_stack' = push_types(rest, types)
         /\ UNCHANGED <<label_stack, depth_fixups, inFunctionVars, unchecked>>
  BY DEF OnCallIndirect, Checked, Asserted, Reject, Failed, NoLabelChange, emit
<1>3. /\ params \in Seq(Types) /\ types \in Seq(Types) /\ Len(params) \in Nat
      /\ f \in Nat
  BY FuncFacts, SigFacts, CompilerAssumption
<1>4. "call_indirect" \in CellOps /\ "call_indirect" \in Straight
  BY DEF CellOps, Straight
<1>5. cell \in Cells /\ cell.op = "call_indirect" /\ cell.a = f
  BY <1>3, <1>4, CellFacts
<1>6. OperandsOK(cell)
  BY <1>5 DEF OperandsOK
<1> HIDE DEF cell, params, types
<1>7. CASE ~Failed
  <2>1. /\ Body /\ StackTypes /\ Typed(type_stack) /\ Above(type_stack)
        /\ check_type_stack_limit(type_stack, 1)
        /\ top_label.type_stack_limit \in Nat
    BY <1>1, <1>2, <1>7, InBodyFacts, PopOneLimit, TopLimit
  <2>2. Typed(ts) /\ Above(ts)
    BY <2>1, PopTyped
  <2>3. /\ ts \in Seq(Types \cup {ANY})
        /\ Prefix(ts, type_stack, top_label.type_stack_limit)
        /\ Live(type_stack) => /\ 1 <= Len(type_stack)
                               /\ type_stack \in Seq(Types)
                               /\ ts = Popped(type_stack, 1)
                               /\ ts \in Seq(Types)
    BY <2>1, PopFacts
  <2> HIDE DEF ts
  <2>4. check_type_stack_limit(ts, Len(params))
    BY <1>2, <1>7, PopAndCheckLimit
  <2>5. Typed(rest)
    BY <1>3, <2>1, <2>2, <2>4, PopTyped
  <2>6. /\ rest \in Seq(Types \cup {ANY})
        /\ top_label.type_stack_limit <= Len(rest)
        /\ Prefix(rest, ts, top_label.type_stack_limit)
        /\ Live(ts) => /\ Len(params) <= Len(ts)
                       /\ rest = Popped(ts, Len(params))
                       /\ rest \in Seq(Types)
    BY <1>3, <2>1, <2>2, <2>4, PopFacts
  <2> HIDE DEF rest
  <2>7. Prefix(rest, type_stack, top_label.type_stack_limit)
    BY <2>1, <2>3, <2>6, PrefixTrans
  <2>8. /\ push_types(rest, types) \in Seq(Types \cup {ANY})
        /\ Prefix(push_types(rest, types), type_stack, top_label.type_stack_limit)
        /\ Live(rest) => /\ push_types(rest, types) = rest \o types
                         /\ push_types(rest, types) \in Seq(Types)
    BY <1>3, <2>1, <2>5, <2>6, <2>7, PushFacts
  <2>9. ASSUME Live(type_stack)
        PROVE  /\ type_stack' \in Seq(Types)
               /\ Effect(cell.op, cell.a, cell.b, type_stack, type_stack')
    <3>1. Live(ts) /\ ts \in Seq(Types) /\ type_stack \in Seq(Types)
          /\ 1 \in 0 .. Len(type_stack)
      BY <2>3, <2>9, TypesLive
    <3>2. Live(rest) /\ rest = Popped(ts, Len(params)) /\ Len(params) <= Len(ts)
      BY <2>6, <3>1, TypesLive
    <3>3. LastN(ts, Len(params)) = params
      BY <1>2, <1>3, <1>7, <2>1, <2>2, <3>1, CheckedOperands
    <3>4. Len(ts) = Len(type_stack) - 1
      BY <2>3, <2>9, <3>1, PoppedFacts
    <3>5. Len(type_stack) >= Len(params) + 1 /\ 1 + Len(params) <= Len(type_stack)
          /\ 1 + Len(params) = Len(params) + 1
      BY <1>3, <3>1, <3>2, <3>4
    <3>6. rest = Popped(type_stack, Len(params) + 1)
      BY <1>3, <2>3, <2>9, <3>1, <3>2, <3>5, PoppedTwice
    <3>7. type_stack' = Popped(type_stack, Len(params) + 1) \o types
          /\ type_stack' \in Seq(Types)
      BY <1>2, <1>7, <2>8, <3>2, <3>6
    <3>8. LastN(Popped(type_stack, 1), Len(params)) = params
      BY <2>3, <2>9, <3>3
    <3>9. Effect("call_indirect", f, cell.b, type_stack, type_stack')
      BY <3>5, <3>7, <3>8 DEF Effect, params, types
    <3>10. QED
      BY <1>5, <3>7, <3>9
  <2>10. QED
    BY <1>1, <1>2, <1>4, <1>5, <1>6, <1>7, <2>8, <2>9, StraightTyped
<1>8. QED
  BY <1>7, FailedTyped

-----------------------------------------------------------------------------
(* Transfers of control.                                                   *)

\* What unreachable code starts with.
LEMMA UnreachableFacts ==
  ASSUME Body, NEW ts, Typed(ts), Above(ts)
  PROVE  /\ UnreachableTypes(ts) \in Seq(Types \cup {ANY})
         /\ Prefix(UnreachableTypes(ts), ts, top_label.type_stack_limit)
<1> DEFINE n == top_label.type_stack_limit
           cut == reset_type_stack_to_limit(ts)
<1>1. /\ ts \in Seq(Types \cup {ANY}) /\ Len(ts) \in Nat /\ n \in Nat
      /\ Len(label_stack) \in 1 .. Len(label_stack)
  BY TopLimit DEF Typed, Body, StackTypes, LabelsOrdered
<1>2. n \in 0 .. Len(ts) /\ n <= Len(ts)
  <2>1. n <= Len(ts)
    BY <1>1 DEF Above, top_label
  <2>2. QED
    BY <1>1, <2>1
<1>3. /\ cut \in Seq(Types \cup {ANY}) /\ Len(cut) = n
      /\ \A i \in 1 .. n : cut[i] = ts[i]
  BY <1>1, <1>2, TruncateFacts DEF reset_type_stack_to_limit
<1> HIDE DEF cut
<1>4. UnreachableTypes(ts) = cut \/ UnreachableTypes(ts) = Append(cut, ANY)
  BY DEF UnreachableTypes, push_type, cut
<1>5. /\ Append(cut, ANY) \in Seq(Types \cup {ANY})
      /\ Len(Append(cut, ANY)) = n + 1
      /\ \A i \in 1 .. n : Append(cut, ANY)[i] = cut[i]
  BY <1>1, <1>3
<1> HIDE DEF n
<1>6. Prefix(cut, ts, n) /\ Prefix(Append(cut, ANY), ts, n)
  BY <1>1, <1>2, <1>3, <1>5 DEF Prefix
<1>7. QED
  BY <1>3, <1>4, <1>5, <1>6 DEF n

\* Dropping nothing, and dropping one value and keeping none.
LEMMA DropKeptCases ==
  ASSUME NEW S, NEW ts \in Seq(S)
  PROVE  /\ \A keep \in 0 .. Len(ts) : DropKept(ts, 0, keep) = ts
         /\ Len(ts) >= 1 => DropKept(ts, 1, 0) = Popped(ts, 1)
<1>1. ASSUME NEW keep \in 0 .. Len(ts)
      PROVE  DropKept(ts, 0, keep) = ts
  <2>1. /\ DropKept(ts, 0, keep) \in Seq(S)
        /\ Len(DropKept(ts, 0, keep)) = Len(ts) - 0
        /\ \A i \in 1 .. Len(ts) - 0 - keep : DropKept(ts, 0, keep)[i] = ts[i]
        /\ \A i \in 1 .. keep : DropKept(ts, 0, keep)[Len(ts) - 0 - keep + i]
                                  = ts[Len(ts) - keep + i]
    <3>1. 0 \in Nat /\ keep \in Nat /\ 0 + keep <= Len(ts)
      OBVIOUS
    <3>2. QED
      BY <3>1, DropKeptFacts
  <2>2. ASSUME NEW i \in 1 .. Len(ts)
        PROVE  DropKept(ts, 0, keep)[i] = ts[i]
    <3>1. CASE i \in 1 .. Len(ts) - 0 - keep
      BY <2>1, <3>1
    <3>2. CASE ~(i \in 1 .. Len(ts) - 0 - keep)
      <4>1. PICK j \in 1 .. keep : i = Len(ts) - 0 - keep + j
        <5>1. i - (Len(ts) - keep) \in 1 .. keep
          BY <3>2
        <5>2. i = Len(ts) - 0 - keep + (i - (Len(ts) - keep))
          OBVIOUS
        <5>3. QED
          BY <5>1, <5>2
      <4>2. i = Len(ts) - keep + j
        BY <4>1
      <4>3. QED
        BY <2>1, <4>1, <4>2
    <3>3. QED
      BY <3>1, <3>2
  <2>3. QED
    BY <2>1, <2>2, SeqEqual
<1>2. ASSUME Len(ts) >= 1
      PROVE  DropKept(ts, 1, 0) = Popped(ts, 1)
  <2>1. 1 \in 0 .. Len(ts) /\ 0 \in 0 .. Len(ts) /\ 1 + 0 = 1
    BY <1>2
  <2>2. Popped(ts, 1) \in Seq(S) /\ LastN(ts, 0) \in Seq(S) /\ Len(LastN(ts, 0)) = 0
    BY <2>1, PoppedFacts, LastNFacts
  <2>3. LastN(ts, 0) = <<>>
    BY <2>2
  <2>4. DropKept(ts, 1, 0) = Popped(ts, 1) \o <<>>
    BY <2>1, <2>3 DEF DropKept
  <2>5. QED
    BY <2>2, <2>4
<1>3. QED
  BY <1>1, <1>2

\* One and two elements put together.
LEMMA PairFacts ==
  ASSUME NEW S, NEW x \in S, NEW y \in S
  PROVE  /\ <<>> \o <<y>> \in Seq(S) /\ Len(<<>> \o <<y>>) = 1
         /\ (<<>> \o <<y>>)[1] = y
         /\ <<x>> \o <<y>> \in Seq(S) /\ Len(<<x>> \o <<y>>) = 2
         /\ (<<x>> \o <<y>>)[1] = x /\ (<<x>> \o <<y>>)[2] = y
<1>1. /\ <<x>> \in Seq(S) /\ <<y>> \in Seq(S) /\ <<>> \in Seq(S)
      /\ Len(<<x>>) = 1 /\ Len(<<y>>) = 1 /\ Len(<<>>) = 0
      /\ <<x>>[1] = x /\ <<y>>[1] = y
  OBVIOUS
<1>2. /\ <<>> \o <<y>> \in Seq(S) /\ Len(<<>> \o <<y>>) = Len(<<>>) + Len(<<y>>)
      /\ \A i \in 1 .. Len(<<y>>) : (<<>> \o <<y>>)[Len(<<>>) + i] = <<y>>[i]
  BY <1>1, ConcatFacts
<1>3. /\ <<x>> \o <<y>> \in Seq(S)
      /\ Len(<<x>> \o <<y>>) = Len(<<x>>) + Len(<<y>>)
      /\ \A i \in 1 .. Len(<<x>>) : (<<x>> \o <<y>>)[i] = <<x>>[i]
      /\ \A i \in 1 .. Len(<<y>>) : (<<x>> \o <<y>>)[Len(<<x>>) + i] = <<y>>[i]
  BY <1>1, ConcatFacts
<1>4. 1 \in 1 .. Len(<<x>>) /\ 1 \in 1 .. Len(<<y>>)
  BY <1>1
<1>5. 0 + 1 = 1 /\ 1 + 1 = 2
  OBVIOUS
<1>6. QED
  BY <1>1, <1>2, <1>3, <1>4, <1>5

\* The cell that drops and keeps.
DropCell(drop, keep) ==
  IF drop = 1 /\ keep = 0 THEN Cell("drop", 0, 0, 0)
  ELSE Cell("drop_keep", 0, drop, keep)

\* The cells that drop, keep and go on with the last one, and their types.
TailCells(cells, drop, keep, last) ==
  cells = emit_drop_keep(drop, keep) \o <<last>>

TailTypes(types, drop, ts, after) ==
  types = DropKeepTyping(drop, ts) \o <<after>>

\* They are one or two.
KeepTail(cells, types, ts, drop, keep, last, after) ==
  /\ cells \in Seq(Cells) /\ types \in Seq(Seq(Types \cup {ANY}))
  /\ drop = 0 => /\ Len(cells) = 1 /\ Len(types) = 1
                 /\ cells[1] = last /\ types[1] = after
  /\ drop # 0 => /\ Len(cells) = 2 /\ Len(types) = 2
                 /\ cells[1] = DropCell(drop, keep) /\ types[1] = ts
                 /\ cells[2] = last /\ types[2] = after

\* The cells and types of a drop, a keep and a branch, one by one.
LEMMA TailFacts ==
  ASSUME NEW ts \in Seq(Types \cup {ANY}), NEW drop \in Nat, NEW keep \in Nat,
         NEW last \in Cells, NEW after \in Seq(Types \cup {ANY}),
         NEW cells, TailCells(cells, drop, keep, last),
         NEW types, TailTypes(types, drop, ts, after)
  PROVE  KeepTail(cells, types, ts, drop, keep, last, after)
<1> DEFINE S == Seq(Types \cup {ANY})
           first == DropCell(drop, keep)
<1>1. first \in Cells
  <2>1. "drop" \in CellOps /\ "drop_keep" \in CellOps /\ 0 \in Nat
    BY DEF CellOps
  <2>2. Cell("drop", 0, 0, 0) \in Cells /\ Cell("drop_keep", 0, drop, keep) \in Cells
    BY <2>1, CellFacts
  <2>3. QED
    BY <2>2 DEF DropCell
<1>2. CASE drop = 0
  <2>1. cells = <<>> \o <<last>> /\ types = <<>> \o <<after>>
    BY <1>2 DEF emit_drop_keep, DropKeepTyping, TailCells, TailTypes
  <2>2. ts \in S /\ after \in S
    OBVIOUS
  <2> HIDE DEF S
  <2>3. cells \in Seq(Cells) /\ Len(cells) = 1 /\ cells[1] = last
    BY <2>1, PairFacts
  <2>4. types \in Seq(S) /\ Len(types) = 1 /\ types[1] = after
    BY <2>1, <2>2, PairFacts
  <2>5. QED
    BY <1>2, <2>3, <2>4 DEF S, KeepTail
<1>3. CASE drop # 0
  <2>1. emit_drop_keep(drop, keep) = <<first>> /\ DropKeepTyping(drop, ts) = <<ts>>
    BY <1>3 DEF emit_drop_keep, DropKeepTyping, DropCell
  <2>2. ts \in S /\ after \in S
    OBVIOUS
  <2> HIDE DEF S, first
  <2>3. cells = <<first>> \o <<last>> /\ types = <<ts>> \o <<after>>
    BY <2>1 DEF TailCells, TailTypes
  <2>4. /\ cells \in Seq(Cells) /\ Len(cells) = 2
        /\ cells[1] = first /\ cells[2] = last
    <3>1. first \in Cells /\ last \in Cells
      BY <1>1
    <3>2. /\ <<first>> \o <<last>> \in Seq(Cells)
          /\ Len(<<first>> \o <<last>>) = 2
          /\ (<<first>> \o <<last>>)[1] = first
          /\ (<<first>> \o <<last>>)[2] = last
      BY <3>1, PairFacts
    <3>3. QED
      BY <2>3, <3>2
  <2>5. /\ types \in Seq(S) /\ Len(types) = 2
        /\ types[1] = ts /\ types[2] = after
    <3>1. /\ <<ts>> \o <<after>> \in Seq(S)
          /\ Len(<<ts>> \o <<after>>) = 2
          /\ (<<ts>> \o <<after>>)[1] = ts
          /\ (<<ts>> \o <<after>>)[2] = after
      BY <2>2, PairFacts
    <3>2. QED
      BY <2>3, <3>1
  <2>6. QED
    BY <1>3, <2>4, <2>5 DEF S, first, KeepTail
<1>4. QED
  BY <1>2, <1>3

\* Cells emitted for the function being compiled belong to it.
LEMMA NewSame ==
  ASSUME IInv, FInv, WInv, current_func # 0, UNCHANGED func_offset,
         NEW c \in Nat, NEW t \in Nat, func_offset[current_func] <= t,
         Len(istream) < c
  PROVE  Same(c, t)'
<1>1. /\ Len(istream) \in Nat
      /\ func_offset[current_func] \in 1 .. Len(istream) + 1
      /\ \A x, y \in Nat : func_offset[current_func] <= x
                             /\ func_offset[current_func] <= y => Same(x, y)
  BY StartFacts DEF FInv
<1>2. func_offset[current_func] <= c
  BY <1>1
<1>3. Same(c, t)
  BY <1>1, <1>2
<1>4. QED
  BY <1>3 DEF Same

\* They reach each other.
LEMMA NewReached ==
  ASSUME IInv, FInv, WInv, current_func # 0, UNCHANGED func_offset,
         istream' \in Seq(Cells),
         NEW c \in Nat, NEW t \in Nat, Len(istream) < c, Len(istream) < t,
         t <= Len(istream'), istream'[t].op \notin {"data", "entry"}
  PROVE  \A T : T = typing'[t] => Reaches(c, t, T)'
<1>1. /\ Len(istream) \in Nat /\ Len(istream') \in Nat
      /\ func_offset[current_func] \in 1 .. Len(istream) + 1
  BY StartFacts DEF FInv
<1>2. func_offset[current_func] <= t /\ t \in 1 .. Len(istream') + 1
  BY <1>1
<1>3. Same(c, t)'
  BY <1>2, NewSame
<1>4. Leads(istream', t)
  BY <1>2 DEF Leads
<1>5. QED
  BY <1>3, <1>4 DEF Reaches, At, TypesAt

\* The cell emit_drop_keep emits falls through to what follows.
LEMMA DropFlows ==
  ASSUME IInv, FInv, WInv, current_func # 0, UNCHANGED func_offset,
         istream' \in Seq(Cells), NEW c \in Nat, Len(istream) < c,
         c + 1 <= Len(istream'), istream'[c + 1].op \notin {"data", "entry"},
         NEW ts \in Seq(Types \cup {ANY}), typing'[c] = ts,
         NEW drop \in Nat, NEW keep \in {0, 1},
         istream'[c] = DropCell(drop, keep),
         Live(ts) => /\ drop + keep <= Len(ts)
                     /\ typing'[c + 1] = DropKept(ts, drop, keep)
  PROVE  Flow(c)'
<1>1. CASE ~Live(ts)
  BY <1>1 DEF Flow
<1>2. CASE Live(ts)
  <2>1. PICK t \in Nat : t = c + 1
    OBVIOUS
  <2>2. PICK T : T = typing'[t]
    OBVIOUS
  <2>3. T = DropKept(ts, drop, keep) /\ drop + keep <= Len(ts)
    BY <1>2, <2>1, <2>2
  <2>4. ts \in Seq(Types) /\ Len(ts) \in Nat
    BY <1>2, LiveTypes
  <2>5. T \in Seq(Types)
    <3>1. keep \in Nat /\ drop + keep <= Len(ts)
      BY <2>3
    <3>2. QED
      BY <2>3, <2>4, <3>1, DropKeptFacts
  <2>6. Reaches(c, t, T)'
    <3>1. Len(istream) < t /\ t <= Len(istream')
          /\ istream'[t].op \notin {"data", "entry"}
      BY <2>1 DEF FInv
    <3>2. QED
      BY <2>1, <2>2, <3>1, NewReached
  <2>7. PICK op, a, b : op = istream'[c].op /\ a = istream'[c].a /\ b = istream'[c].b
    OBVIOUS
  <2>8. op \in {"drop", "drop_keep"} /\ Effect(op, a, b, ts, T)
    <3>1. CASE drop = 1 /\ keep = 0
      <4>1. op = "drop"
        BY <2>7, <3>1 DEF Cell, DropCell
      <4>2. T = Popped(ts, 1) /\ Len(ts) >= 1
        BY <2>3, <2>4, <3>1, DropKeptCases
      <4>3. QED
        BY <4>1, <4>2 DEF Effect
    <3>2. CASE ~(drop = 1 /\ keep = 0)
      <4>1. op = "drop_keep" /\ a = drop /\ b = keep
        BY <2>7, <3>2 DEF Cell, DropCell
      <4>2. Len(ts) >= drop + keep
        BY <2>3, <2>4
      <4>3. QED
        BY <2>3, <4>1, <4>2 DEF Effect
    <3>3. QED
      BY <3>1, <3>2
  <2>9. Falls(c, ts)'
    BY <2>1, <2>5, <2>6, <2>7, <2>8 DEF Falls
  <2>10. QED
    BY <2>7, <2>8, <2>9 DEF Flow
<1>3. QED
  BY <1>1, <1>2

\* The types a branch to label d arrives with.
BranchTypes(d) ==
  IF label_stack[d].label_type = "loop" THEN Below(d) ELSE LabelTypes(d)

\* A branch goes to its label, or is recorded for it.
LEMMA LabelGoes ==
  ASSUME IInv, FInv, WInv, LoopsTyped, NEW callback, InBody(callback),
         NEW cells, NEW types, Emission(cells, types),
         NEW d \in 1 .. Len(label_stack), NEW c \in Nat, Len(istream) < c,
         istream'[c].target = label_stack[d].offset,
         \A e \in 1 .. Len(label_stack) : c \in Fix(depth_fixups', e) => e = d,
         NEW T, Live(T), T = BranchTypes(d)
  PROVE  Goes(c, T)'
<1>1. /\ Len(istream) \in Nat /\ istream \in Seq(Cells) /\ istream' \in Seq(Cells)
      /\ current_func # 0
  BY EmissionCells DEF FInv, InBody
<1>2. /\ label_stack' = label_stack /\ func_offset' = func_offset
  BY DEF Emission, inFunctionVars
<1>3. /\ Extends /\ Grows(istream, istream') /\ Continues
      /\ LabelTypes(d)' = LabelTypes(d)
  BY EmissionKeeps
<1>4. CurrentLast
  BY <1>1 DEF WInv
<1>5. CASE label_stack[d].offset # INVALID
  <2>1. label_stack[d].label_type = "loop"
    BY <1>4, <1>5 DEF CurrentLast
  <2>2. PICK t : t = label_stack[d].offset
    OBVIOUS
  <2>3. At(t, T)
    BY <2>1, <2>2 DEF LoopsTyped, BranchTypes
  <2>4. At(t, T)'
    BY <1>1, <1>3, <2>3, AtKept
  <2>5. t \in Nat /\ func_offset[current_func] <= t
    <3>1. label_stack[d] \in Labels
      BY LabelFacts DEF IInv
    <3>2. QED
      BY <1>4, <2>1, <2>2, <3>1 DEF CurrentLast, Labels
  <2>6. Same(c, t)'
    BY <1>1, <1>2, <2>5, NewSame
  <2>7. QED
    BY <1>5, <2>2, <2>4, <2>6 DEF Goes, Reaches
<1>6. CASE label_stack[d].offset = INVALID
  <2>1. T = LabelTypes(d)
    <3>1. func_offset[current_func] \in 1 .. Len(istream) + 1
      BY <1>1, StartFacts
    <3>2. label_stack[d].label_type # "loop"
      BY <1>1, <1>4, <1>6, <3>1 DEF CurrentLast, INVALID
    <3>3. QED
      BY <3>2 DEF BranchTypes
  <2>2. ASSUME NEW e \in 1 .. Len(label_stack)
        PROVE  c \notin Arm(label_stack, e)
    <3>1. \A x \in Arm(label_stack, e) : x \in 1 .. Len(istream)
      BY DEF FInv, Owned
    <3>2. QED
      BY <1>1, <3>1
  <2>3. Pending(c, T)'
    <3>1. SUFFICES ASSUME NEW e \in 1 .. Len(label_stack')
                   PROVE  /\ c \in Fix(depth_fixups', e) => T = LabelTypes(e)'
                          /\ c \in Arm(label_stack', e) => T = ArmTypes(e)'
      BY DEF Pending
    <3>2. c \notin Arm(label_stack', e)
      BY <1>2, <2>2
    <3>3. c \in Fix(depth_fixups', e) => T = LabelTypes(e)'
      BY <1>2, <1>3, <2>1
    <3>4. QED
      BY <3>2, <3>3
  <2>4. QED
    BY <1>6, <2>3 DEF Goes
<1>7. QED
  BY <1>5, <1>6

\* The operands check_n_types found, when the code can be reached.
LEMMA CheckedTypes ==
  ASSUME Body, NEW ts, Typed(ts), Live(ts), NEW sig \in Sigs,
         check_n_types(ts, sig)
  PROVE  /\ Len(sig) \in {0, 1} /\ Len(ts) \in Nat
         /\ top_label.type_stack_limit \in Nat
         /\ Len(sig) <= Len(ts) - top_label.type_stack_limit
         /\ LastN(ts, Len(sig)) = sig
<1>1. /\ ts \in Seq(Types) /\ Len(ts) \in Nat
      /\ top_label.type_stack_limit \in Nat /\ ~top_type_is_any(ts)
      /\ sig \in Seq(Types) /\ Len(sig) \in 0 .. 1
  BY LiveTypes, TopLimit, TopLive, SigFacts DEF Typed, Body
<1>2. Len(sig) <= Len(ts) - top_label.type_stack_limit
  BY <1>1 DEF check_n_types, check_type_stack_limit
<1>3. Len(sig) \in 0 .. Len(ts)
  BY <1>1, <1>2
<1>4. /\ LastN(ts, Len(sig)) \in Seq(Types) /\ Len(LastN(ts, Len(sig))) = Len(sig)
      /\ \A i \in 1 .. Len(sig) :
           LastN(ts, Len(sig))[i] = ts[Len(ts) - Len(sig) + i]
  BY <1>1, <1>3, LastNFacts
<1>5. ASSUME NEW i \in 1 .. Len(sig)
      PROVE  LastN(ts, Len(sig))[i] = sig[i]
  <2>1. Len(sig) = 1 /\ i = 1
    <3>1. PICK n \in 0 .. 1 : n = Len(sig)
      BY <1>1
    <3>2. i \in 1 .. n
      BY <3>1
    <3>3. n = 1 /\ i = 1
      BY <3>2
    <3>4. QED
      BY <3>1, <3>3
  <2>2. sig[Len(sig) - 0] = ts[Len(ts) - Len(sig) + 0 + 1]
    <3>1. 0 \in 0 .. Len(sig) - 1
      BY <2>1
    <3>2. QED
      BY <1>1, <3>1 DEF check_n_types, check_type
  <2>3. Len(sig) - 0 = i /\ Len(ts) - Len(sig) + 0 + 1 = Len(ts) - Len(sig) + i
    BY <1>1, <2>1
  <2>4. QED
    BY <1>4, <2>2, <2>3
<1>6. LastN(ts, Len(sig)) = sig
  BY <1>1, <1>4, <1>5, SeqEqual
<1>7. QED
  BY <1>1, <1>2, <1>6

\* Nothing of a stack.
LEMMA LastNone ==
  ASSUME NEW S, NEW ts \in Seq(S)
  PROVE  LastN(ts, 0) = <<>>
<1>1. LastN(ts, 0) \in Seq(S) /\ Len(LastN(ts, 0)) = 0
  BY LastNFacts
<1>2. QED
  BY <1>1

\* What a branch drops and keeps leaves the types of its label.
LEMMA BranchLeaves ==
  ASSUME Body, NEW ts, Typed(ts), Live(ts),
         Prefix(ts, type_stack, top_label.type_stack_limit),
         NEW d \in 1 .. Len(label_stack),
         EmitBrAsserts(ts, label_stack[d]),
         label_stack[d].label_type # "loop" => check_n_types(ts, label_stack[d].sig)
  PROVE  /\ br_drop_count(ts, label_stack[d]) \in Nat
         /\ get_label_br_arity(label_stack[d]) \in {0, 1}
         /\ br_drop_count(ts, label_stack[d]) + get_label_br_arity(label_stack[d])
              <= Len(ts)
         /\ DropKept(ts, br_drop_count(ts, label_stack[d]),
                     get_label_br_arity(label_stack[d])) = BranchTypes(d)
         /\ BranchTyping(ts, label_stack[d]) = BranchTypes(d)
         /\ BranchTypes(d) \in Seq(Types)
<1> DEFINE label == label_stack[d]
           drop == br_drop_count(ts, label)
           keep == get_label_br_arity(label)
           limit == label.type_stack_limit
<1>1. /\ ts \in Seq(Types) /\ ts \in Seq(Types \cup {ANY}) /\ Len(ts) \in Nat
      /\ type_stack \in Seq(Types \cup {ANY})
      /\ label \in Labels /\ label.sig \in Sigs /\ limit \in Nat
      /\ top_label.type_stack_limit \in Nat
      /\ limit <= top_label.type_stack_limit
      /\ ~top_type_is_any(ts)
  <2>1. StackTypes /\ ts \in Seq(Types \cup {ANY})
    BY DEF Body, Typed
  <2>2. label \in Labels /\ label.sig \in Sigs /\ limit \in Nat
    BY <2>1, LabelFacts
  <2>3. /\ top_label.type_stack_limit \in Nat
        /\ limit <= top_label.type_stack_limit
    BY TopLimit
  <2>4. ts \in Seq(Types) /\ ~top_type_is_any(ts)
    BY <2>1, LiveTypes, TopLive
  <2>5. type_stack \in Seq(Types \cup {ANY}) /\ Len(ts) \in Nat
    BY <2>1 DEF StackTypes
  <2>6. QED
    BY <2>1, <2>2, <2>3, <2>4, <2>5
<1>2. drop \in Nat /\ keep \in Nat
  BY <1>1, DropCount
<1>3. keep \in {0, 1} /\ LastN(ts, keep) =
        IF label.label_type = "loop" THEN <<>> ELSE label.sig
  <2>1. CASE label.label_type = "loop"
    <3>1. keep = 0
      BY <2>1 DEF get_label_br_arity
    <3>2. LastN(ts, 0) = <<>>
      BY <1>1, LastNone
    <3>3. QED
      BY <2>1, <3>1, <3>2
  <2>2. CASE label.label_type # "loop"
    <3>1. keep = Len(label.sig)
      BY <2>2 DEF get_label_br_arity
    <3>2. Len(label.sig) \in {0, 1} /\ LastN(ts, Len(label.sig)) = label.sig
      BY <1>1, <2>2, CheckedTypes
    <3>3. QED
      BY <2>2, <3>1, <3>2
  <2>3. QED
    BY <2>1, <2>2
<1>4. drop = (Len(ts) - limit) - keep
  BY DEF br_drop_count
<1>5. drop + keep <= Len(ts) /\ Len(ts) - (drop + keep) = limit
  <2> HIDE DEF drop, keep, limit
  <2>1. QED
    BY <1>1, <1>2, <1>4
<1>6. Truncate(ts, limit) = Below(d)
  <2>1. limit \in 0 .. top_label.type_stack_limit
    BY <1>1
  <2> HIDE DEF limit
  <2>2. Truncate(ts, limit) = Truncate(type_stack, limit)
    BY <1>1, <2>1, PrefixBelow
  <2>3. QED
    BY <2>2 DEF Below, limit
<1>7. DropKept(ts, drop, keep) = Truncate(ts, limit) \o LastN(ts, keep)
  <2> HIDE DEF drop, keep, limit
  <2>1. QED
    BY <1>5 DEF DropKept, Popped
<1>8. BranchTyping(ts, label) = Truncate(ts, limit) \o LastN(ts, keep)
  BY <1>1 DEF BranchTyping
<1>9. /\ Truncate(ts, limit) \in Seq(Types)
  <2>1. limit \in 0 .. Len(ts)
    <3>1. PICK n \in Nat : n = drop + keep
      BY <1>2
    <3>2. Len(ts) - n = limit /\ n <= Len(ts)
      BY <1>5, <3>1
    <3> HIDE DEF limit
    <3>3. QED
      BY <1>1, <3>2
  <2> HIDE DEF limit
  <2>2. QED
    BY <1>1, <2>1, TruncateFacts
<1>10. Truncate(ts, limit) \o LastN(ts, keep) = BranchTypes(d)
  <2>1. CASE label.label_type = "loop"
    <3>1. LastN(ts, keep) = <<>> /\ BranchTypes(d) = Below(d)
      BY <1>3, <2>1 DEF BranchTypes
    <3> HIDE DEF keep, limit
    <3>2. Truncate(ts, limit) \o <<>> = Truncate(ts, limit)
      BY <1>9
    <3>3. QED
      BY <1>6, <3>1, <3>2
  <2>2. CASE label.label_type # "loop"
    <3>1. LastN(ts, keep) = label.sig /\ BranchTypes(d) = LabelTypes(d)
      BY <1>3, <2>2 DEF BranchTypes
    <3>2. QED
      BY <1>6, <3>1 DEF LabelTypes
  <2>3. QED
    BY <2>1, <2>2
<1>11. BranchTypes(d) \in Seq(Types)
  <2>1. LastN(ts, keep) \in Seq(Types)
    BY <1>1, <1>3, SigFacts
  <2>2. Truncate(ts, limit) \o LastN(ts, keep) \in Seq(Types)
    BY <1>9, <2>1, ConcatFacts
  <2>3. QED
    BY <1>10, <2>2
<1>12. QED
  BY <1>2, <1>3, <1>5, <1>7, <1>8, <1>10, <1>11

\* Nothing put before a sequence.
LEMMA EmptyConcat ==
  ASSUME NEW S, NEW s \in Seq(S)
  PROVE  <<>> \o s = s
OBVIOUS

\* A callback that emits them and leaves unreachable code behind.
TailStep(cells, types) ==
  /\ istream' = istream \o cells /\ typing' = typing \o types
  /\ type_stack' = UnreachableTypes(type_stack)
  /\ UNCHANGED <<label_stack, inFunctionVars, unchecked>>
  /\ \A d \in 1 .. Len(label_stack) : \A c \in Fix(depth_fixups', d) :
       c \in Fix(depth_fixups, d) \/ (c \in Nat /\ c > Len(istream))

\* In reachable code they drop and keep as the types say.
TailDrops(drop, keep, after) ==
  Live(type_stack) => /\ keep \in {0, 1} /\ drop + keep <= Len(type_stack)
                      /\ after = DropKept(type_stack, drop, keep)

\* The last cell flows.
LastFlows(last, after) ==
  unchecked' \subseteq {"host"} =>
    \A c : c = Len(istream') /\ istream'[c] = last /\ typing'[c] = after =>
      Flow(c)'

\* The cells after which a callback leaves unreachable code.
LEMMA TailEmission ==
  ASSUME IInv, FInv, WInv, NEW callback, InBody(callback),
         NEW drop \in Nat, NEW keep \in Nat, NEW last \in Cells,
         last.op \in {"br", "return", "unreachable"},
         NEW after \in Seq(Types \cup {ANY}),
         NEW cells, TailCells(cells, drop, keep, last),
         NEW types, TailTypes(types, drop, type_stack, after),
         TailStep(cells, types), TailDrops(drop, keep, after)
  PROVE  Emission(cells, types)
<1>1. /\ Body /\ Typed(type_stack) /\ Above(type_stack)
      /\ type_stack \in Seq(Types \cup {ANY})
  BY InBodyFacts DEF StackTypes
<1>2. /\ type_stack' \in Seq(Types \cup {ANY})
      /\ Prefix(type_stack', type_stack, top_label.type_stack_limit)
  BY <1>1, UnreachableFacts DEF TailStep
<1>3. KeepTail(cells, types, type_stack, drop, keep, last, after)
  BY <1>1, TailFacts
<1>4. cells[1].op \notin {"data", "entry"} /\ Len(cells) > 0
  <2>1. DropCell(drop, keep).op \in {"drop", "drop_keep"}
    BY DEF Cell, DropCell
  <2>2. QED
    BY <1>3, <2>1 DEF KeepTail
<1>5. ASSUME Live(type_stack) PROVE types[1] = type_stack
  <2>1. CASE drop = 0
    <3>1. keep \in 0 .. Len(type_stack)
      BY <1>1, <1>5, <2>1 DEF TailDrops
    <3>2. after = type_stack
      BY <1>1, <1>5, <2>1, <3>1, DropKeptCases DEF TailDrops
    <3>3. QED
      BY <1>3, <2>1, <3>2 DEF KeepTail
  <2>2. CASE drop # 0
    BY <1>3, <2>2 DEF KeepTail
  <2>3. QED
    BY <2>1, <2>2
<1>6. unchecked \subseteq unchecked' /\ unchecked' \subseteq Conditions
  BY DEF WInv, TailStep
<1>7. QED
  <2>1. /\ Len(types) = Len(cells) /\ cells \in Seq(Cells)
        /\ types \in Seq(Seq(Types \cup {ANY}))
    BY <1>3 DEF KeepTail
  <2>2. QED
    BY <1>2, <1>4, <1>5, <1>6, <2>1 DEF Emission, TailStep

\* They are typed when the last one flows.
LEMMA TailTyped ==
  ASSUME IInv, FInv, WInv, TInv, NEW callback, InBody(callback),
         NEW drop \in Nat, NEW keep \in Nat, NEW last \in Cells,
         last.op \in {"br", "return", "unreachable"},
         NEW after \in Seq(Types \cup {ANY}),
         NEW cells, TailCells(cells, drop, keep, last),
         NEW types, TailTypes(types, drop, type_stack, after),
         Emission(cells, types),
         TailDrops(drop, keep, after), LastFlows(last, after)
  PROVE  WInv' /\ TInv'
<1>1. /\ Body /\ Typed(type_stack) /\ type_stack \in Seq(Types \cup {ANY})
      /\ current_func # 0
  BY InBodyFacts DEF StackTypes
<1>2. KeepTail(cells, types, type_stack, drop, keep, last, after)
  BY <1>1, TailFacts
<1>3. /\ Len(istream) \in Nat /\ istream' \in Seq(Cells)
      /\ Len(istream') = Len(istream) + Len(cells)
      /\ \A k \in 1 .. Len(cells) : /\ istream'[Len(istream) + k] = cells[k]
                                    /\ typing'[Len(istream) + k] = types[k]
  <2>1. Emission(cells, types)
    OBVIOUS
  <2>2. QED
    BY <2>1, EmissionCells
<1>4. PICK n \in Nat : n = Len(istream)
  BY <1>3
<1>5. func_offset' = func_offset
  BY DEF Emission, inFunctionVars
<1>6. CASE drop = 0
  <2>1. Len(cells) = 1 /\ cells[1] = last /\ types[1] = after
    BY <1>2, <1>6 DEF KeepTail
  <2>2. PICK c \in Nat : c = n + 1
    OBVIOUS
  <2>3. /\ c = Len(istream') /\ istream'[c] = last /\ typing'[c] = after
        /\ \A k \in 1 .. Len(istream') : k >= Len(istream) + 1 => k = c
    BY <1>3, <1>4, <2>1, <2>2
  <2>4. CellsOK(Len(istream) + 1)
    <3>1. CellOK(istream', c)
      BY <2>3 DEF CellOK
    <3>2. QED
      BY <2>3, <3>1 DEF CellsOK
  <2>5. unchecked' \subseteq {"host"} => FlowsFrom(Len(istream) + 1)
    BY <2>3 DEF FlowsFrom, LastFlows
  <2>6. QED
    BY <2>4, <2>5, EmissionWInv, EmissionTInv
<1>7. CASE drop # 0
  <2>1. /\ Len(cells) = 2
        /\ cells[2] = last /\ types[2] = after /\ types[1] = type_stack
        /\ cells[1] = DropCell(drop, keep)
    BY <1>2, <1>7 DEF KeepTail
  <2>2. PICK b \in Nat : b = n + 1
    OBVIOUS
  <2>3. PICK c \in Nat : c = n + 2
    OBVIOUS
  <2>4. c = b + 1 /\ n < b /\ b > n
    BY <2>2, <2>3
  <2>5. /\ c = Len(istream') /\ istream'[c] = last /\ typing'[c] = after
        /\ istream'[b] = cells[1] /\ typing'[b] = type_stack
        /\ \A k \in 1 .. Len(istream') : k >= Len(istream) + 1 => k = b \/ k = c
    BY <1>3, <1>4, <2>1, <2>2, <2>3
  <2>6. cells[1].op \in {"drop", "drop_keep"}
    BY <2>1 DEF Cell, DropCell
  <2>7. CellsOK(Len(istream) + 1)
    <3>1. CellOK(istream', b) /\ CellOK(istream', c)
      BY <2>5, <2>6 DEF CellOK
    <3>2. QED
      BY <2>5, <3>1 DEF CellsOK
  <2>8. Flow(b)'
    <3>1. CASE ~Live(type_stack)
      <4>1. PICK ts : ts = type_stack
        OBVIOUS
      <4>2. typing'[b] = ts /\ ~Live(ts)
        BY <2>5, <3>1, <4>1
      <4>3. QED
        BY <4>2 DEF Flow
    <3>2. CASE Live(type_stack)
      <4>1. /\ Len(istream) < b /\ b + 1 <= Len(istream')
            /\ istream'[b + 1].op \notin {"data", "entry"}
            /\ typing'[b + 1] = DropKept(type_stack, drop, keep)
            /\ keep \in {0, 1} /\ drop + keep <= Len(type_stack)
        BY <1>4, <2>3, <2>4, <2>5, <3>2 DEF TailDrops
      <4>2. istream'[b] = DropCell(drop, keep)
        BY <2>1, <2>5
      <4>3. QED
        BY ZenonT(30), <1>1, <1>3, <1>5, <2>5, <4>1, <4>2, DropFlows
    <3>3. QED
      BY <3>1, <3>2
  <2>9. unchecked' \subseteq {"host"} => FlowsFrom(Len(istream) + 1)
    BY <2>5, <2>8 DEF FlowsFrom, LastFlows
  <2>10. QED
    BY <2>7, <2>9, EmissionWInv, EmissionTInv
<1>8. QED
  BY <1>6, <1>7

\* unreachable.
LEMMA UnreachableCallbackTyped ==
  ASSUME IInv, FInv, WInv, TInv, OnUnreachable
  PROVE  WInv' /\ TInv'
<1> DEFINE last == Cell("unreachable", 0, 0, 0)
           cells == emit_drop_keep(0, 0) \o <<last>>
           types == DropKeepTyping(0, type_stack) \o <<type_stack>>
<1>1. InBody("unreachable")
  BY DEF OnUnreachable
<1>2. /\ istream' = istream \o <<last>> /\ typing' = typing \o <<type_stack>>
      /\ type_stack' = UnreachableTypes(type_stack)
      /\ UNCHANGED <<label_stack, depth_fixups, inFunctionVars, unchecked>>
  BY DEF OnUnreachable, NoLabelChange, emit
<1>3. last \in Cells /\ last.op = "unreachable"
  <2>1. "unreachable" \in CellOps /\ 0 \in Nat
    BY DEF CellOps
  <2>2. QED
    BY <2>1, CellFacts
<1>4. type_stack \in Seq(Types \cup {ANY})
  BY <1>1, InBodyFacts DEF StackTypes
<1>5. cells = <<last>> /\ types = <<type_stack>>
  <2>1. cells = <<>> \o <<last>> /\ types = <<>> \o <<type_stack>>
    BY DEF emit_drop_keep, DropKeepTyping
  <2>2. <<last>> \in Seq(Cells) /\ <<type_stack>> \in Seq(Seq(Types \cup {ANY}))
    BY <1>3, <1>4, OneFacts
  <2>3. QED
    BY <2>1, <2>2, EmptyConcat
<1>6. /\ istream' = istream \o cells /\ typing' = typing \o types
  BY <1>2, <1>5
<1>7. TailDrops(0, 0, type_stack)
  BY <1>4, DropKeptCases DEF TailDrops
<1> HIDE DEF last, cells, types
<1>8. Emission(cells, types)
  <2>1. TailStep(cells, types)
    BY <1>2, <1>6 DEF TailStep
  <2>2. /\ TailCells(cells, 0, 0, last)
        /\ TailTypes(types, 0, type_stack, type_stack)
        /\ 0 \in Nat /\ last.op \in {"br", "return", "unreachable"}
    BY <1>3 DEF cells, types, TailCells, TailTypes
  <2>3. QED
    BY <1>1, <1>3, <1>4, <1>7, <2>1, <2>2, TailEmission
<1>9. LastFlows(last, type_stack)
  <2>1. ASSUME NEW c, istream'[c] = last PROVE Flow(c)'
    <3>1. istream'[c].op = "unreachable"
      BY <1>3, <2>1
    <3>2. "unreachable" \notin Straight
      BY StraightNames
    <3>3. QED
      BY <3>1, <3>2 DEF Flow
  <2>2. QED
    BY <2>1 DEF LastFlows
<1>10. QED
  <2>1. /\ TailCells(cells, 0, 0, last)
        /\ TailTypes(types, 0, type_stack, type_stack)
        /\ 0 \in Nat /\ last.op \in {"br", "return", "unreachable"}
    BY <1>3 DEF cells, types, TailCells, TailTypes
  <2>2. QED
    BY <1>1, <1>3, <1>4, <1>7, <1>8, <1>9, <2>1, TailTyped

\* A return leaves the results of its function.
LEMMA ReturnFlows ==
  ASSUME IInv, FInv, WInv, TInv, NEW callback, InBody(callback),
         NEW drop \in Nat, NEW keep \in Nat, NEW last,
         last = Cell("return", 0, 0, 0),
         NEW after \in Seq(Types \cup {ANY}),
         NEW cells, TailCells(cells, drop, keep, last),
         NEW types, TailTypes(types, drop, type_stack, after),
         TailStep(cells, types), TailDrops(drop, keep, after),
         Live(after) => after = Funcs[current_func].results
  PROVE  WInv' /\ TInv'
<1>1. last \in Cells /\ last.op = "return"
  <2>1. "return" \in CellOps /\ 0 \in Nat
    BY DEF CellOps
  <2>2. QED
    BY <2>1, CellFacts
<1>2. Emission(cells, types)
  BY <1>1, TailEmission
<1>3. LastFlows(last, after)
  <2>1. ASSUME NEW c, c = Len(istream'), istream'[c] = last, typing'[c] = after
        PROVE  Flow(c)'
    <3>1. istream'[c].op = "return" /\ "return" \notin Straight
      BY <1>1, <2>1, StraightNames
    <3>2. ASSUME Live(after), NEW f \in DOMAIN Funcs, In(f, c)'
          PROVE  after = Funcs[f].results
      <4>1. In(f, c)
        BY <3>2 DEF In, TailStep, inFunctionVars
      <4>2. c \in Nat /\ Len(istream) < c
        <5>1. /\ Len(istream) \in Nat /\ Len(cells) \in Nat
              /\ Len(istream') = Len(istream) + Len(cells)
          BY <1>2, EmissionCells
        <5>2. Len(cells) > 0
          BY <1>2 DEF Emission
        <5>3. QED
          BY <2>1, <5>1, <5>2
      <4>3. func_offset[current_func] \in 1 .. Len(istream) + 1 /\ current_func # 0
        BY StartFacts DEF InBody
      <4>4. func_offset[current_func] <= c
        <5>1. Len(istream) \in Nat
          BY DEF FInv
        <5>2. QED
          BY <4>2, <4>3, <5>1
      <4>5. f = current_func
        BY <4>1, <4>2, <4>3, <4>4, StartFacts
      <4>6. QED
        BY <3>2, <4>5
    <3>3. QED
      BY <2>1, <3>1, <3>2 DEF Flow
  <2>2. QED
    BY <2>1 DEF LastFlows
<1>4. QED
  BY <1>1, <1>2, <1>3, TailTyped

\* return.
LEMMA ReturnTyped ==
  ASSUME IInv, FInv, WInv, TInv, OnReturn
  PROVE  WInv' /\ TInv'
<1> DEFINE results == Funcs[current_func].results
           last == Cell("return", 0, 0, 0)
           cells == ReturnCells(type_stack, Len(results)) \o <<last>>
           types == ReturnTyping(type_stack, Len(results))
<1>1. InBody("return")
  BY DEF OnReturn
<1>2. CASE ~check_n_types(type_stack, results)
  BY <1>2, FailedTyped DEF OnReturn, Checked, Reject, Failed
<1>3. CASE check_n_types(type_stack, results)
  <2>1. /\ istream' = istream \o cells /\ typing' = typing \o types
        /\ type_stack' = UnreachableTypes(type_stack)
        /\ UNCHANGED <<label_stack, depth_fixups, inFunctionVars, unchecked>>
    BY <1>3 DEF OnReturn, Checked, NoLabelChange, emit
  <2>2. TailStep(cells, types)
    BY <2>1 DEF TailStep
  <2>3. /\ Body /\ Typed(type_stack) /\ type_stack \in Seq(Types \cup {ANY})
        /\ StackTypes /\ current_func # 0 /\ results \in Sigs
        /\ Len(type_stack) \in Nat
    <3>1. current_func \in DOMAIN Funcs
      BY <1>1, StartFacts DEF InBody
    <3>2. Funcs[current_func].results \in Sigs
      BY <3>1, FuncFacts
    <3>3. QED
      BY <1>1, <3>2, InBodyFacts DEF StackTypes
  <2>4. CASE ~Live(type_stack)
    <3>1. top_type_is_any(type_stack)
      BY <2>3, <2>4, TopLive
    <3>2. cells = <<>> \o <<last>> /\ types = <<type_stack>>
      BY <3>1 DEF ReturnCells, ReturnTyping
    <3>3. <<type_stack>> = <<>> \o <<type_stack>>
      <4>1. <<type_stack>> \in Seq(Seq(Types \cup {ANY}))
        BY <2>3, OneFacts
      <4>2. QED
        BY <4>1, EmptyConcat
    <3> HIDE DEF cells, types, last
    <3>4. TailCells(cells, 0, 0, last) /\ TailTypes(types, 0, type_stack, type_stack)
      BY <3>2, <3>3 DEF TailCells, TailTypes, emit_drop_keep, DropKeepTyping
    <3>5. TailDrops(0, 0, type_stack) /\ 0 \in Nat
      BY <2>4 DEF TailDrops
    <3>6. last = Cell("return", 0, 0, 0)
      BY DEF last
    <3>7. QED
      BY <1>1, <2>2, <2>3, <2>4, <3>4, <3>5, <3>6, ReturnFlows
  <2>5. CASE Live(type_stack)
    <3>1. ~top_type_is_any(type_stack)
      BY <2>3, <2>5, TopLive
    <3>2. PICK n : n = Len(results)
      OBVIOUS
    <3>3. /\ n \in {0, 1} /\ top_label.type_stack_limit \in Nat
          /\ n <= Len(type_stack) - top_label.type_stack_limit
          /\ LastN(type_stack, n) = results
      BY <1>3, <2>3, <2>5, <3>2, CheckedTypes
    <3>4. n \in 0 .. Len(type_stack) /\ n \in Nat
      BY <2>3, <3>3
    <3>5. PICK drop \in Nat : drop = Len(type_stack) - n
      BY <2>3, <3>4
    <3>6. drop + n = Len(type_stack) /\ drop + n <= Len(type_stack)
      BY <2>3, <3>4, <3>5
    <3>7. PICK after \in Seq(Types \cup {ANY}) : after = LastN(type_stack, n)
      BY <2>3, <3>4, LastNFacts
    <3>8. /\ cells = emit_drop_keep(drop, n) \o <<last>>
          /\ types = DropKeepTyping(drop, type_stack) \o <<after>>
      BY <3>1, <3>2, <3>5, <3>7 DEF ReturnCells, ReturnTyping
    <3> HIDE DEF cells, types, last
    <3>9. TailCells(cells, drop, n, last) /\ TailTypes(types, drop, type_stack, after)
      BY <3>8 DEF TailCells, TailTypes
    <3>10. after = DropKept(type_stack, drop, n)
      <4>1. Popped(type_stack, drop + n) = <<>>
        BY <2>3, <3>6 DEF Popped, Truncate
      <4>2. DropKept(type_stack, drop, n) = <<>> \o after
        BY <3>7, <4>1 DEF DropKept
      <4>3. QED
        BY <4>2, EmptyConcat
    <3>11. TailDrops(drop, n, after)
      BY <3>3, <3>6, <3>10 DEF TailDrops
    <3>12. last = Cell("return", 0, 0, 0) /\ after = results
      BY <3>3, <3>7 DEF last
    <3>13. QED
      BY <1>1, <2>2, <3>4, <3>9, <3>11, <3>12, ReturnFlows
  <2>6. QED
    BY <2>4, <2>5
<1>4. QED
  BY <1>2, <1>3

\* A branch is recorded for its label alone.
LEMMA BranchRecorded ==
  ASSUME FInv, label_stack \in Seq(Labels), NEW d \in 1 .. Len(label_stack),
         NEW c \in Nat, c > Len(istream),
         depth_fixups' = append_fixup(depth_fixups, BranchRefs(d, c))
  PROVE  /\ \A e \in 1 .. Len(label_stack) : \A x \in Fix(depth_fixups', e) :
              x \in Fix(depth_fixups, e) \/ (x \in Nat /\ x > Len(istream))
         /\ \A e \in 1 .. Len(label_stack) : c \in Fix(depth_fixups', e) => e = d
<1> DEFINE refs == BranchRefs(d, c)
<1>1. \A r \in refs : r = <<d, c>>
  BY DEF BranchRefs
<1>2. \A r \in refs : /\ r[1] = d /\ r[2] = c
                      /\ r[1] \in 1 .. Len(label_stack) /\ r[2] \in Nat
  BY <1>1
<1>3. /\ depth_fixups \in Seq(SUBSET Nat) /\ Len(label_stack) \in Nat
      /\ Len(depth_fixups) <= Len(label_stack)
      /\ \A e \in 1 .. Len(label_stack) : \A x \in Fix(depth_fixups, e) :
           x \in 1 .. Len(istream)
      /\ Len(istream) \in Nat
  BY DEF FInv, Owned
<1> HIDE DEF refs
<1>4. depth_fixups' = append_fixup(depth_fixups, refs)
  BY DEF refs
<1>5. PICK N \in Nat : N = Len(label_stack)
  BY <1>3
<1>6. \A e \in 1 .. N : \A x :
        x \in Fix(append_fixup(depth_fixups, refs), e) <=>
          x \in Fix(depth_fixups, e) \/ \E r \in refs : r[1] = e /\ r[2] = x
  <2>1. \A r \in refs : r[1] \in 1 .. N /\ r[2] \in Nat
    BY <1>2, <1>5
  <2>2. depth_fixups \in Seq(SUBSET Nat) /\ Len(depth_fixups) <= N
    BY <1>3, <1>5
  <2>3. QED
    BY <2>1, <2>2, AppendFixup
<1>7. \A e \in 1 .. Len(label_stack) : \A x \in Fix(depth_fixups', e) :
        x \in Fix(depth_fixups, e) \/ (x = c /\ e = d)
  BY <1>2, <1>4, <1>5, <1>6
<1>8. ~(c \in 1 .. Len(istream))
  BY <1>3
<1>9. QED
  BY <1>3, <1>7, <1>8

\* br.
LEMMA BrTyped ==
  ASSUME IInv, FInv, WInv, TInv, NEW depth \in 0 .. Len(label_stack), OnBr(depth)
  PROVE  WInv' /\ TInv'
<1> DEFINE d == translate_depth(depth)
           label == label_stack[d]
           drop == br_drop_count(type_stack, label)
           keep == get_label_br_arity(label)
           after == BranchTyping(type_stack, label)
           last == Cell("br", label.offset, 0, 0)
           cells == emit_drop_keep(drop, keep) \o <<last>>
           types == DropKeepTyping(drop, type_stack) \o <<after>>
           ok == /\ depth < Len(label_stack)
                 /\ label.label_type # "loop" => check_n_types(type_stack, label.sig)
           Works == /\ emit(cells, types)
                    /\ depth_fixups' =
                         append_fixup(depth_fixups, BranchRefs(d, Len(istream')))
                    /\ type_stack' = UnreachableTypes(type_stack)
                    /\ UNCHANGED <<inFunctionVars, label_stack, func_fixups, unchecked>>
<1>1. InBody("br") /\ Checked(ok, Asserted(EmitBrAsserts(type_stack, label),
                                           "assert_emit_br", Works))
  BY DEF OnBr
<1>2. CASE ~ok
  BY <1>1, <1>2, FailedTyped DEF Checked, Reject, Failed
<1>3. CASE ~EmitBrAsserts(type_stack, label)
  BY <1>1, <1>3, FailedTyped DEF Checked, Asserted, Reject, Failed
<1>4. CASE ok /\ EmitBrAsserts(type_stack, label)
  <2>1. Works
    BY <1>1, <1>4 DEF Checked, Asserted
  <2>2. /\ Body /\ Typed(type_stack) /\ type_stack \in Seq(Types \cup {ANY})
        /\ StackTypes /\ current_func # 0
        /\ Len(type_stack) \in Nat /\ label_stack \in Seq(Labels)
        /\ Len(label_stack) \in Nat
    BY <1>1, InBodyFacts DEF StackTypes, InBody
  <2>3. d \in 1 .. Len(label_stack)
    BY <1>4, <2>2 DEF translate_depth
  <2>4. label \in Labels /\ label.offset \in Nat
    BY <2>2, <2>3, LabelFacts DEF Labels
  <2> HIDE DEF d
  <2>5. drop \in Nat /\ keep \in Nat
    BY <1>4, <2>2, <2>4, DropCount
  <2>6. Prefix(type_stack, type_stack, top_label.type_stack_limit)
    <3>1. Above(type_stack)
      BY <1>1, InBodyFacts
    <3>2. top_label.type_stack_limit \in Nat
          /\ top_label.type_stack_limit <= Len(type_stack)
      BY <2>2, <3>1, TopLimit DEF Above, top_label, Body, LabelsOrdered
    <3>3. QED
      BY <3>2 DEF Prefix
  <2>7. ASSUME Live(type_stack)
        PROVE  /\ keep \in {0, 1} /\ drop + keep <= Len(type_stack)
               /\ after = DropKept(type_stack, drop, keep)
               /\ after = BranchTypes(d) /\ after \in Seq(Types)
    BY <1>4, <2>2, <2>3, <2>6, <2>7, BranchLeaves
  <2>8. ~Live(type_stack) => after = type_stack
    BY <2>2, TopLive DEF BranchTyping
  <2>9. after \in Seq(Types \cup {ANY})
    <3>1. Seq(Types) \subseteq Seq(Types \cup {ANY})
      OBVIOUS
    <3>2. QED
      BY <2>2, <2>7, <2>8, <3>1
  <2>10. last \in Cells /\ last.op = "br" /\ last.target = label.offset
    <3>1. "br" \in CellOps /\ 0 \in Nat
      BY DEF CellOps, BranchOps
    <3>2. QED
      BY <2>4, <3>1, CellFacts
  <2>11. /\ istream' = istream \o cells /\ typing' = typing \o types
         /\ depth_fixups' = append_fixup(depth_fixups, BranchRefs(d, Len(istream')))
         /\ type_stack' = UnreachableTypes(type_stack)
         /\ UNCHANGED <<inFunctionVars, label_stack, unchecked>>
    BY <2>1 DEF emit
  <2>12. TailCells(cells, drop, keep, last) /\ TailTypes(types, drop, type_stack, after)
    BY DEF TailCells, TailTypes
  <2> HIDE DEF drop, keep, after, last, cells, types, label
  <2>13. KeepTail(cells, types, type_stack, drop, keep, last, after)
    BY <2>2, <2>5, <2>9, <2>10, <2>12, TailFacts
  <2>14. PICK c \in Nat : c = Len(istream') /\ c > Len(istream)
    <3>1. /\ Len(istream \o cells) = Len(istream) + Len(cells)
          /\ Len(istream) \in Nat /\ Len(cells) \in Nat
      <4>1. istream \in Seq(Cells) /\ cells \in Seq(Cells)
        BY <2>13 DEF FInv, KeepTail
      <4>2. QED
        BY <4>1, ConcatFacts
    <3>2. Len(cells) > 0
      BY <2>13 DEF KeepTail
    <3>3. QED
      BY <2>11, <3>1, <3>2
  <2>15. /\ \A e \in 1 .. Len(label_stack) : \A x \in Fix(depth_fixups', e) :
              x \in Fix(depth_fixups, e) \/ (x \in Nat /\ x > Len(istream))
         /\ \A e \in 1 .. Len(label_stack) : c \in Fix(depth_fixups', e) => e = d
    <3>1. depth_fixups' = append_fixup(depth_fixups, BranchRefs(d, c))
      BY <2>11, <2>14
    <3>2. QED
      BY <2>2, <2>3, <2>14, <3>1, BranchRecorded
  <2>16. TailStep(cells, types)
    BY <2>11, <2>15 DEF TailStep
  <2>17. TailDrops(drop, keep, after)
    BY <2>7 DEF TailDrops
  <2>18. Emission(cells, types)
    BY <1>1, <2>5, <2>9, <2>10, <2>12, <2>16, <2>17, TailEmission
  <2>19. LastFlows(last, after)
    <3>1. ASSUME unchecked' \subseteq {"host"}, istream'[c] = last, typing'[c] = after
          PROVE  Flow(c)'
      <4>1. istream'[c].op = "br" /\ "br" \notin Straight
        BY <2>10, <3>1, StraightNames
      <4>2. ASSUME NEW T, T = after, Live(T) PROVE Goes(c, T)'
        <5>1. LoopsTyped
          BY <2>2, <2>11, <3>1 DEF TInv
        <5>2. T = BranchTypes(d)
          BY <2>7, <2>8, <4>2
        <5>3. istream'[c].target = label_stack[d].offset
          BY <2>10, <3>1 DEF label
        <5>4. QED
          BY <1>1, <2>3, <2>14, <2>15, <2>18, <4>2, <5>1, <5>2, <5>3, LabelGoes
      <4>3. QED
        BY <3>1, <4>1, <4>2 DEF Flow
    <3>2. QED
      BY <2>14, <3>1 DEF LastFlows
  <2>20. QED
    BY <1>1, <2>5, <2>9, <2>10, <2>12, <2>17, <2>18, <2>19, TailTyped
<1>5. QED
  BY <1>2, <1>3, <1>4

\* What branches to the code emitted next.
LEMMA NextReachedFrom ==
  ASSUME IInv, FInv, WInv, NEW callback, InBody(callback),
         UNCHANGED inFunctionVars, istream' \in Seq(Cells),
         Len(istream') > Len(istream), NEW c \in Nat, Len(istream) < c
  PROVE  \A t, T : t = Len(istream') + 1 /\ T = type_stack' => Reaches(c, t, T)'
<1>1. PICK n \in Nat : n = Len(istream')
  OBVIOUS
<1>2. SUFFICES ASSUME NEW t, t = n + 1, NEW T, T = type_stack'
               PROVE  Reaches(c, t, T)'
  BY <1>1
<1>3. Reaches(n, t, T)'
  BY <1>1, <1>2, NextReached
<1>4. /\ t \in Nat /\ func_offset[current_func] <= t /\ UNCHANGED func_offset
      /\ current_func # 0
  <2>1. /\ Len(istream) \in Nat
        /\ func_offset[current_func] \in 1 .. Len(istream) + 1
        /\ current_func # 0
    BY StartFacts DEF InBody, FInv
  <2>2. QED
    BY <1>1, <1>2, <2>1 DEF inFunctionVars
<1>5. Same(c, t)'
  BY <1>4, NewSame
<1>6. QED
  BY <1>3, <1>5 DEF Reaches

\* A cell put before a sequence of cells.
LEMMA ConsFacts ==
  ASSUME NEW S, NEW x \in S, NEW s \in Seq(S)
  PROVE  /\ <<x>> \o s \in Seq(S) /\ Len(<<x>> \o s) = Len(s) + 1
         /\ (<<x>> \o s)[1] = x
         /\ \A k \in 1 .. Len(s) : (<<x>> \o s)[k + 1] = s[k]
<1>1. <<x>> \in Seq(S) /\ Len(<<x>>) = 1 /\ <<x>>[1] = x
  BY OneFacts
<1>2. /\ <<x>> \o s \in Seq(S) /\ Len(<<x>> \o s) = Len(<<x>>) + Len(s)
      /\ \A i \in 1 .. Len(<<x>>) : (<<x>> \o s)[i] = <<x>>[i]
      /\ \A k \in 1 .. Len(s) : (<<x>> \o s)[Len(<<x>>) + k] = s[k]
  BY <1>1, ConcatFacts
<1>3. \A k \in 1 .. Len(s) : 1 + k = k + 1
  OBVIOUS
<1>4. QED
  BY <1>1, <1>2, <1>3

\* The branch around the drop, the keep and the branch of a br_if.
Around(cell, tail) ==
  /\ cell \in Cells /\ cell.op = "br_unless"
  /\ cell.target = Len(istream) + 2 + Len(tail)

ConsOf(s, x, t) == s = <<x>> \o t

\* The stack once the condition is popped.
PopsTop(ts) ==
  Live(type_stack) => Len(type_stack) >= 1 /\ Live(ts) /\ ts = Popped(type_stack, 1)

DropsChecked(ts, drop, keep, after) ==
  unchecked' \subseteq {"host"} /\ Live(ts) =>
    keep \in {0, 1} /\ drop + keep <= Len(ts) /\ after = DropKept(ts, drop, keep)

\* The first places of a tail of one cell or two, and of the cells with it.
LEMMA OneOrTwo ==
  ASSUME NEW k \in {1, 2}
  PROVE  1 \in 1 .. k /\ 1 \in 1 .. k + 1 /\ 2 \in 1 .. k + 1
<1>1. CASE k = 1
  BY <1>1
<1>2. CASE k = 2
  BY <1>2
<1>3. QED
  BY <1>1, <1>2

\* Its cells are typed if the branch is.
LEMMA AroundTyped ==
  ASSUME IInv, FInv, WInv, TInv, NEW callback, InBody(callback),
         NEW cell, NEW tail, Around(cell, tail),
         NEW ts, ts = type_stack', Typed(ts),
         PopsTop(ts), NEW drop \in Nat, NEW keep \in Nat, NEW last \in Cells, last.op = "br",
         NEW after, NEW ttypes,
         KeepTail(tail, ttypes, ts, drop, keep, last, after),
         NEW cells, ConsOf(cells, cell, tail),
         NEW types, ConsOf(types, type_stack, ttypes),
         Emission(cells, types), DropsChecked(ts, drop, keep, after),
         LastFlows(last, after)
  PROVE  WInv' /\ TInv'
<1>1. /\ type_stack \in Seq(Types \cup {ANY}) /\ current_func # 0
      /\ ts \in Seq(Types \cup {ANY})
  BY InBodyFacts DEF StackTypes, Typed
<1>2. /\ Len(istream) \in Nat /\ istream' \in Seq(Cells)
      /\ Len(istream') = Len(istream) + Len(cells)
      /\ \A k \in 1 .. Len(cells) : /\ istream'[Len(istream) + k] = cells[k]
                                    /\ typing'[Len(istream) + k] = types[k]
  <2>1. Emission(cells, types)
    OBVIOUS
  <2>2. QED
    BY <2>1, EmissionCells
<1>3. func_offset' = func_offset /\ UNCHANGED inFunctionVars
  BY DEF Emission, inFunctionVars
<1>4. /\ Len(cells) = Len(tail) + 1 /\ cells[1] = cell /\ Len(tail) \in {1, 2}
      /\ \A k \in 1 .. Len(tail) : cells[k + 1] = tail[k]
  <2>1. cell \in Cells /\ tail \in Seq(Cells) /\ Len(tail) \in {1, 2}
    BY DEF Around, KeepTail
  <2>2. /\ Len(<<cell>> \o tail) = Len(tail) + 1 /\ (<<cell>> \o tail)[1] = cell
        /\ \A k \in 1 .. Len(tail) : (<<cell>> \o tail)[k + 1] = tail[k]
    BY <2>1, ConsFacts
  <2>3. QED
    BY <2>1, <2>2 DEF ConsOf
<1>5. /\ types[1] = type_stack
      /\ \A k \in 1 .. Len(tail) : types[k + 1] = ttypes[k]
  <2>1. ttypes \in Seq(Seq(Types \cup {ANY})) /\ Len(ttypes) = Len(tail)
    BY DEF KeepTail
  <2>2. /\ (<<type_stack>> \o ttypes)[1] = type_stack
        /\ \A k \in 1 .. Len(ttypes) : (<<type_stack>> \o ttypes)[k + 1] = ttypes[k]
    BY <1>1, <2>1, ConsFacts
  <2>3. QED
    BY <2>1, <2>2 DEF ConsOf
<1>6. PICK n \in Nat : n = Len(istream)
  BY <1>2
<1>7. PICK m \in Nat : m = Len(istream') /\ m = n + Len(tail) + 1
  <2>1. Len(tail) \in Nat
    BY <1>4
  <2>2. QED
    BY <1>2, <1>4, <1>6, <2>1
<1>8. \A k \in 1 .. Len(tail) + 1 :
        istream'[n + k] = cells[k] /\ typing'[n + k] = types[k]
  BY <1>2, <1>4, <1>6
<1>9. PICK a \in Nat : a = n + 1
  OBVIOUS
<1>10. PICK b \in Nat : b = n + 2
  OBVIOUS
<1>11. b = a + 1 /\ a > n /\ n < a /\ n < b /\ b <= m
  <2>0. Len(tail) \in {1, 2}
    BY <1>4
  <2>1. PICK k \in {1, 2} : k = Len(tail)
    BY <2>0
  <2>2. m = n + k + 1
    BY <1>7, <2>1
  <2>3. QED
    <3>1. k \in Nat /\ k >= 1
      OBVIOUS
    <3>2. b <= m
      BY <1>10, <2>2, <3>1
    <3>3. QED
      BY <1>9, <1>10, <3>2
<1>12. /\ istream'[a] = cell /\ typing'[a] = type_stack
       /\ istream'[b] = tail[1] /\ typing'[b] = ttypes[1]
  <2>0. Len(tail) \in {1, 2}
    BY <1>4
  <2>1. 1 \in 1 .. Len(tail) /\ 1 \in 1 .. Len(tail) + 1 /\ 2 \in 1 .. Len(tail) + 1
    BY <2>0, OneOrTwo
  <2>2. cells[1 + 1] = tail[1] /\ types[1 + 1] = ttypes[1]
    BY <1>4, <1>5, <2>1
  <2>3. QED
    <3>1. istream'[n + 1] = cells[1] /\ typing'[n + 1] = types[1]
      BY <1>8, <2>1
    <3>2. istream'[n + 2] = cells[2] /\ typing'[n + 2] = types[2]
      BY <1>8, <2>1
    <3>3. QED
      BY <1>4, <1>5, <1>9, <1>10, <2>2, <3>1, <3>2
<1>13. istream'[m] = last /\ typing'[m] = after
  <2>1. CASE drop = 0
    <3>1. Len(tail) = 1 /\ tail[1] = last /\ ttypes[1] = after
      BY <2>1 DEF KeepTail
    <3>2. b = m
      BY <1>7, <1>10, <3>1
    <3>3. QED
      BY <1>12, <3>1, <3>2
  <2>2. CASE drop # 0
    <3>0. Len(tail) = 2 /\ tail[2] = last /\ ttypes[2] = after
      BY <2>2 DEF KeepTail
    <3>1. /\ m = n + 3 /\ 3 \in 1 .. Len(tail) + 1 /\ 2 \in 1 .. Len(tail)
      BY <1>7, <3>0
    <3>2. /\ istream'[m] = cells[2 + 1] /\ typing'[m] = types[2 + 1]
      BY <1>8, <3>1
    <3>3. QED
      BY <1>4, <1>5, <3>0, <3>1, <3>2
  <2>3. QED
    BY <2>1, <2>2
<1>14. \A k \in 1 .. Len(istream') : k >= Len(istream) + 1 =>
         k = a \/ (k = b /\ drop # 0) \/ k = m
  <2>1. CASE drop = 0
    <3>1. Len(tail) = 1
      BY <2>1 DEF KeepTail
    <3>2. QED
      BY <1>6, <1>7, <1>9, <1>10, <3>1
  <2>2. CASE drop # 0
    <3>1. Len(tail) = 2
      BY <2>2 DEF KeepTail
    <3>2. QED
      BY <1>6, <1>7, <1>9, <1>10, <2>2, <3>1
  <2>3. QED
    BY <2>1, <2>2
<1>15. tail[1].op \in {"drop", "drop_keep", "br"}
  BY DEF DropCell, Cell, KeepTail
<1>16. CellsOK(Len(istream) + 1)
  <2>1. /\ CellOK(istream', a) /\ CellOK(istream', b) /\ CellOK(istream', m)
    BY <1>12, <1>13, <1>15 DEF CellOK, Around
  <2>2. QED
    BY <1>14, <2>1 DEF CellsOK
<1>17. ASSUME unchecked' \subseteq {"host"} PROVE Flow(m)'
  BY <1>7, <1>13, <1>17 DEF LastFlows
<1>18. ASSUME unchecked' \subseteq {"host"} PROVE Flow(a)'
  <2>1. PICK old : old = type_stack
    OBVIOUS
  <2>2. typing'[a] = old /\ istream'[a] = cell
    BY <1>12, <2>1
  <2>3. ASSUME Live(old)
        PROVE  /\ Len(old) >= 1
               /\ Goes(a, Popped(old, 1))' /\ Reaches(a, a + 1, Popped(old, 1))'
    <3>1. Len(old) >= 1 /\ ts = Popped(old, 1) /\ Live(ts)
      BY <2>1, <2>3 DEF PopsTop
    <3>2. Reaches(a, b, ts)'
      <4>1. typing'[b] = ts
        <5>1. CASE drop # 0
          BY <1>12, <5>1 DEF KeepTail
        <5>2. CASE drop = 0
          <6>1. keep \in 0 .. Len(ts) /\ after = DropKept(ts, 0, keep)
            BY <1>1, <1>18, <3>1, <5>2 DEF DropsChecked
          <6>2. after = ts
            BY <1>1, <6>1, DropKeptCases
          <6>3. QED
            BY <1>12, <5>2, <6>2 DEF KeepTail
        <5>3. QED
          BY <5>1, <5>2
      <4>2. istream'[b].op \notin {"data", "entry"} /\ b <= Len(istream')
        BY <1>7, <1>11, <1>12, <1>15
      <4>3. /\ Len(istream) < a /\ Len(istream) < b
        BY <1>6, <1>11
      <4>4. QED
        BY <1>1, <1>2, <1>3, <4>1, <4>2, <4>3, NewReached
    <3>3. Goes(a, ts)'
      <4>1. istream'[a].target = m + 1 /\ istream'[a].target # INVALID
        BY <1>6, <1>7, <2>2 DEF Around, INVALID
      <4>2. PICK t : t = m + 1
        OBVIOUS
      <4>3. Reaches(a, t, ts)'
        <5>1. Len(istream') > Len(istream) /\ Len(istream) < a
          BY <1>6, <1>7, <1>11
        <5>2. t = Len(istream') + 1
          BY <1>7, <4>2
        <5>3. QED
          BY <1>2, <1>3, <5>1, <5>2, NextReachedFrom
      <4>4. QED
        BY <4>1, <4>2, <4>3 DEF Goes
    <3>4. QED
      BY <1>11, <3>1, <3>2, <3>3
  <2>4. istream'[a].op = "br_unless" /\ "br_unless" \notin Straight
    BY <2>2, StraightNames DEF Around
  <2>5. QED
    BY <2>2, <2>3, <2>4 DEF Flow
<1>19. ASSUME unchecked' \subseteq {"host"}, drop # 0 PROVE Flow(b)'
  <2>1. /\ m = b + 1 /\ b + 1 <= Len(istream') /\ Len(istream) < b
        /\ istream'[b + 1].op \notin {"data", "entry"}
    <3>1. Len(tail) = 2
      BY <1>19 DEF KeepTail
    <3>2. m = b + 1 /\ b + 1 <= Len(istream') /\ Len(istream) < b
      BY <1>6, <1>7, <1>10, <3>1
    <3>3. QED
      BY <1>13, <3>2
  <2>2. /\ istream'[b] = DropCell(drop, keep) /\ typing'[b] = ts
    BY <1>12, <1>19 DEF KeepTail
  <2>3. CASE ~Live(ts)
    BY <2>2, <2>3 DEF Flow
  <2>4. CASE Live(ts)
    <3>1. /\ keep \in {0, 1} /\ drop + keep <= Len(ts)
          /\ typing'[b + 1] = DropKept(ts, drop, keep)
      BY <1>13, <1>19, <2>1, <2>4 DEF DropsChecked
    <3>2. QED
      BY <1>1, <1>2, <1>3, <2>1, <2>2, <3>1, DropFlows
  <2>5. QED
    BY <2>3, <2>4
<1>20. unchecked' \subseteq {"host"} => FlowsFrom(Len(istream) + 1)
  BY <1>14, <1>17, <1>18, <1>19 DEF FlowsFrom
<1>21. QED
  BY <1>16, <1>20, EmissionWInv, EmissionTInv

\* What the effect of a br_if is.
BrIfWorks(d, ts, dropped, cell, last, after, typed) ==
  /\ emit(<<cell>> \o dropped \o <<last>>,
          <<type_stack>> \o DropKeepTyping(br_drop_count(ts, label_stack[d]), ts)
            \o <<after>>)
  /\ depth_fixups' = append_fixup(depth_fixups, BranchRefs(d, Len(istream')))
  /\ type_stack' = ts
  /\ unchecked' = unchecked \cup (IF typed THEN {} ELSE {"br_if"})
  /\ UNCHANGED <<inFunctionVars, label_stack, func_fixups>>

\* br_if.
LEMMA BrIfTyped ==
  ASSUME IInv, FInv, WInv, TInv, NEW depth \in 0 .. Len(label_stack), OnBrIf(depth)
  PROVE  WInv' /\ TInv'
<1> DEFINE d == translate_depth(depth)
           label == label_stack[d]
           ts == pop_types(type_stack, 1)
           drop == br_drop_count(ts, label)
           keep == get_label_br_arity(label)
           dropped == emit_drop_keep(drop, keep)
           after == BranchTyping(ts, label)
           cell == Cell("br_unless", get_istream_offset + Len(dropped) + 2, 0, 0)
           last == Cell("br", label.offset, 0, 0)
           typed == label.label_type = "loop" \/ check_n_types(ts, label.sig)
           ok == depth < Len(label_stack) /\ pop_and_check(type_stack, <<"i32">>)
           Works == BrIfWorks(d, ts, dropped, cell, last, after, typed)
<1>1. InBody("br_if") /\ Checked(ok, Asserted(EmitBrAsserts(ts, label),
                                              "assert_emit_br", Works))
  BY DEF OnBrIf, BrIfWorks
<1>2. CASE ~ok
  BY <1>1, <1>2, FailedTyped DEF Checked, Reject, Failed
<1>3. CASE ~EmitBrAsserts(ts, label)
  BY <1>1, <1>3, FailedTyped DEF Checked, Asserted, Reject, Failed
<1>4. CASE ok /\ EmitBrAsserts(ts, label)
  <2>1. Works
    BY <1>1, <1>4 DEF Checked, Asserted
  <2>2. /\ Body /\ Typed(type_stack) /\ Above(type_stack)
        /\ type_stack \in Seq(Types \cup {ANY})
        /\ StackTypes /\ current_func # 0
        /\ Len(type_stack) \in Nat /\ label_stack \in Seq(Labels)
        /\ Len(label_stack) \in Nat
        /\ istream \in Seq(Cells) /\ Len(istream) \in Nat
    BY <1>1, InBodyFacts DEF StackTypes, InBody, FInv
  <2>3. d \in 1 .. Len(label_stack)
    BY <1>4, <2>2 DEF translate_depth
  <2>4. label \in Labels /\ label.offset \in Nat
    BY <2>2, <2>3, LabelFacts DEF Labels
  <2>5. /\ Typed(ts) /\ Above(ts) /\ ts \in Seq(Types \cup {ANY}) /\ Len(ts) \in Nat
    <3>1. pop_and_check(type_stack, <<"i32">>)
      BY <1>4
    <3>2. Typed(ts) /\ Above(ts)
      BY <2>2, <3>1, PopOneTyped
    <3> HIDE DEF ts
    <3>3. QED
      BY <3>2 DEF Typed
  <2>6. /\ Prefix(ts, type_stack, top_label.type_stack_limit)
        /\ Live(type_stack) => /\ 1 <= Len(type_stack)
                               /\ ts = Popped(type_stack, 1)
                               /\ ts \in Seq(Types)
        /\ ~Live(type_stack) => ts = type_stack
    <3>1. check_type_stack_limit(type_stack, 1)
      BY <1>4, PopOneLimit
    <3>2. QED
      BY <2>2, <3>1, PopFacts
  <2>7. PopsTop(ts)
    BY <2>2, <2>6, TypesLive DEF PopsTop
  <2>8. ~Live(ts) => after = ts
    BY <2>2, <2>5, TopLive DEF BranchTyping
  <2> HIDE DEF d, ts
  <2>9. drop \in Nat /\ keep \in Nat
    BY <1>4, <2>4, <2>5, DropCount
  <2>10. dropped \in Seq(Cells)
    BY <2>9, DropKeepFacts
  <2>11. ASSUME Live(ts), label.label_type # "loop" => check_n_types(ts, label.sig)
         PROVE  /\ keep \in {0, 1} /\ drop + keep <= Len(ts)
                /\ after = DropKept(ts, drop, keep)
                /\ after = BranchTypes(d) /\ after \in Seq(Types)
    <3>1. EmitBrAsserts(ts, label_stack[d])
      BY <1>4
    <3>2. label_stack[d].label_type # "loop" => check_n_types(ts, label_stack[d].sig)
      BY <2>11
    <3>3. /\ get_label_br_arity(label_stack[d]) \in {0, 1}
          /\ br_drop_count(ts, label_stack[d]) + get_label_br_arity(label_stack[d])
               <= Len(ts)
          /\ DropKept(ts, br_drop_count(ts, label_stack[d]),
                      get_label_br_arity(label_stack[d])) = BranchTypes(d)
          /\ BranchTyping(ts, label_stack[d]) = BranchTypes(d)
          /\ BranchTypes(d) \in Seq(Types)
      BY <2>2, <2>3, <2>5, <2>6, <2>11, <3>1, <3>2, BranchLeaves
    <3>4. QED
      BY <3>3
  <2>12. after \in Seq(Types \cup {ANY})
    <3>1. CASE ~Live(ts)
      BY <2>5, <2>8, <3>1
    <3>2. CASE Live(ts)
      <4>1. /\ label.type_stack_limit \in Nat
            /\ label.type_stack_limit + keep <= Len(ts)
        BY <1>4, <2>4 DEF EmitBrAsserts, Labels
      <4>2. label.type_stack_limit \in 0 .. Len(ts) /\ keep \in 0 .. Len(ts)
        BY <2>5, <2>9, <4>1
      <4>3. /\ Truncate(ts, label.type_stack_limit) \in Seq(Types \cup {ANY})
            /\ LastN(ts, keep) \in Seq(Types \cup {ANY})
        BY <2>5, <4>2, TruncateFacts, LastNFacts
      <4>4. after = Truncate(ts, label.type_stack_limit) \o LastN(ts, keep)
        BY <2>2, <2>5, <3>2, TopLive DEF BranchTyping
      <4> HIDE DEF after, keep
      <4>5. QED
        BY <4>3, <4>4, ConcatFacts
    <3>3. QED
      BY <3>1, <3>2
  <2>13. last \in Cells /\ last.op = "br" /\ last.target = label.offset
    <3>1. "br" \in CellOps /\ 0 \in Nat
      BY DEF CellOps, BranchOps
    <3>2. PICK to \in Nat : to = label.offset
      BY <2>4
    <3>3. /\ Cell("br", to, 0, 0) \in Cells /\ Cell("br", to, 0, 0).op = "br"
          /\ Cell("br", to, 0, 0).target = to
      BY <3>1, CellFacts
    <3>4. QED
      BY <3>2, <3>3
  <2> HIDE DEF dropped
  <2>14. /\ cell \in Cells /\ cell.op = "br_unless"
         /\ cell.target = Len(istream) + 3 + Len(dropped)
         /\ Len(dropped) \in Nat
    <3>1. "br_unless" \in CellOps /\ 0 \in Nat
      BY DEF CellOps, BranchOps
    <3>2. Len(dropped) \in Nat
      BY <2>10
    <3>3. /\ get_istream_offset + Len(dropped) + 2 \in Nat
          /\ get_istream_offset + Len(dropped) + 2 = Len(istream) + 3 + Len(dropped)
      BY <2>2, <3>2 DEF get_istream_offset
    <3>4. QED
      BY SMTT(30), <3>1, <3>2, <3>3, CellFacts
  <2> DEFINE tail == dropped \o <<last>>
             ttypes == DropKeepTyping(drop, ts) \o <<after>>
             cells == <<cell>> \o tail
             types == <<type_stack>> \o ttypes
  <2>15. TailCells(tail, drop, keep, last) /\ TailTypes(ttypes, drop, ts, after)
    BY DEF TailCells, TailTypes, dropped
  <2>16. /\ istream' = istream \o ((<<cell>> \o dropped) \o <<last>>)
         /\ typing' = typing
              \o ((<<type_stack>> \o DropKeepTyping(drop, ts)) \o <<after>>)
         /\ depth_fixups' = append_fixup(depth_fixups, BranchRefs(d, Len(istream')))
         /\ type_stack' = ts
         /\ unchecked' = unchecked \cup (IF typed THEN {} ELSE {"br_if"})
         /\ UNCHANGED <<inFunctionVars, label_stack>>
    BY <2>1 DEF emit, BrIfWorks
  <2> HIDE DEF drop, keep, after, last, cell, label, typed
  <2>17. (<<cell>> \o dropped) \o <<last>> = cells
    <3>1. <<cell>> \in Seq(Cells) /\ <<last>> \in Seq(Cells)
      BY <2>13, <2>14, OneFacts
    <3>2. QED
      BY <2>10, <3>1, ConcatAssoc
  <2>18. (<<type_stack>> \o DropKeepTyping(drop, ts)) \o <<after>> = types
    <3> DEFINE S == Seq(Types \cup {ANY})
    <3>1. type_stack \in S /\ after \in S /\ ts \in S
      BY <2>2, <2>5, <2>12
    <3> HIDE DEF S
    <3>2. <<type_stack>> \in Seq(S) /\ <<after>> \in Seq(S) /\ <<ts>> \in Seq(S)
      BY <3>1, OneFacts
    <3>3. DropKeepTyping(drop, ts) \in Seq(S)
      BY <3>2 DEF DropKeepTyping
    <3>4. QED
      BY <3>2, <3>3, ConcatAssoc
  <2>19. Len(tail) = Len(dropped) + 1
    <3>1. <<last>> \in Seq(Cells) /\ Len(<<last>>) = 1
      BY <2>13, OneFacts
    <3>2. QED
      BY <2>10, <3>1, ConcatFacts
  <2>20. ConsOf(cells, cell, tail) /\ ConsOf(types, type_stack, ttypes)
    BY DEF ConsOf
  <2>21. istream' = istream \o cells /\ typing' = typing \o types
    BY <2>16, <2>17, <2>18
  <2> HIDE DEF tail, ttypes, cells, types
  <2>22. KeepTail(tail, ttypes, ts, drop, keep, last, after)
    BY <2>5, <2>9, <2>12, <2>13, <2>15, TailFacts
  <2>23. Around(cell, tail)
    BY <2>2, <2>14, <2>19 DEF Around
  <2>24. /\ cells \in Seq(Cells) /\ Len(cells) = Len(tail) + 1 /\ cells[1] = cell
    <3>1. cell \in Cells /\ tail \in Seq(Cells)
      BY <2>14, <2>22 DEF KeepTail
    <3>2. /\ <<cell>> \o tail \in Seq(Cells) /\ Len(<<cell>> \o tail) = Len(tail) + 1
          /\ (<<cell>> \o tail)[1] = cell
      BY <3>1, ConsFacts
    <3>3. QED
      BY <2>20, <3>2 DEF ConsOf
  <2>25. /\ types \in Seq(Seq(Types \cup {ANY})) /\ Len(types) = Len(ttypes) + 1
         /\ types[1] = type_stack
    <3> DEFINE S == Seq(Types \cup {ANY})
    <3>1. type_stack \in S /\ ttypes \in Seq(S)
      BY <2>2, <2>22 DEF KeepTail
    <3> HIDE DEF S
    <3>2. /\ <<type_stack>> \o ttypes \in Seq(S)
          /\ Len(<<type_stack>> \o ttypes) = Len(ttypes) + 1
          /\ (<<type_stack>> \o ttypes)[1] = type_stack
      BY <3>1, ConsFacts
    <3>3. QED
      BY <2>20, <3>2 DEF ConsOf, S
  <2>26. Len(tail) = Len(ttypes) /\ Len(tail) \in {1, 2}
    BY <2>22 DEF KeepTail
  <2>27. PICK c \in Nat : c = Len(istream') /\ c > Len(istream)
    <3>1. Len(istream \o cells) = Len(istream) + Len(cells)
      BY <2>2, <2>24, ConcatFacts
    <3>2. Len(cells) \in Nat /\ Len(cells) > 0
      BY <2>24, <2>26
    <3>3. QED
      BY <2>2, <2>21, <3>1, <3>2
  <2>28. /\ \A e \in 1 .. Len(label_stack) : \A x \in Fix(depth_fixups', e) :
              x \in Fix(depth_fixups, e) \/ (x \in Nat /\ x > Len(istream))
         /\ \A e \in 1 .. Len(label_stack) : c \in Fix(depth_fixups', e) => e = d
    <3>1. depth_fixups' = append_fixup(depth_fixups, BranchRefs(d, c))
      BY <2>16, <2>27
    <3>2. QED
      BY <2>2, <2>3, <2>27, <3>1, BranchRecorded
  <2>29. Emission(cells, types)
    <3>1. unchecked \subseteq unchecked' /\ unchecked' \subseteq Conditions
      BY <2>16 DEF WInv, Conditions
    <3>2. cells[1].op \notin {"data", "entry"} /\ Len(cells) > 0
          /\ Len(types) = Len(cells)
      BY <2>14, <2>24, <2>25, <2>26
    <3>3. QED
      BY <2>5, <2>6, <2>16, <2>21, <2>24, <2>25, <2>28, <3>1, <3>2 DEF Emission
  <2>30. ASSUME unchecked' \subseteq {"host"}
         PROVE  /\ label.label_type # "loop" => check_n_types(ts, label.sig)
                /\ unchecked \subseteq {"host"}
    <3>1. "br_if" # "host"
      OBVIOUS
    <3>2. typed
      BY <2>16, <2>30, <3>1
    <3>3. QED
      BY <2>16, <2>30, <3>2 DEF typed
  <2>31. DropsChecked(ts, drop, keep, after)
    BY <2>11, <2>30 DEF DropsChecked
  <2>32. LastFlows(last, after)
    <3>1. ASSUME unchecked' \subseteq {"host"}, istream'[c] = last, typing'[c] = after
          PROVE  Flow(c)'
      <4>1. istream'[c].op = "br" /\ "br" \notin Straight
        BY <2>13, <3>1, StraightNames
      <4>2. ASSUME NEW T, T = after, Live(T) PROVE Goes(c, T)'
        <5>1. LoopsTyped
          BY <2>2, <2>30, <3>1 DEF TInv
        <5>2. T = BranchTypes(d)
          BY <2>8, <2>11, <2>30, <3>1, <4>2
        <5>3. istream'[c].target = label_stack[d].offset
          BY <2>13, <3>1 DEF label
        <5>4. QED
          BY <1>1, <2>3, <2>27, <2>28, <2>29, <4>2, <5>1, <5>2, <5>3, LabelGoes
      <4>3. QED
        BY <3>1, <4>1, <4>2 DEF Flow
    <3>2. QED
      BY <2>27, <3>1 DEF LastFlows
  <2>33. QED
    <3>1. ts = type_stack'
      BY <2>16
    <3>2. PICK rest : rest = ts
      OBVIOUS
    <3>3. /\ rest = type_stack' /\ Typed(rest) /\ PopsTop(rest)
          /\ KeepTail(tail, ttypes, rest, drop, keep, last, after)
          /\ DropsChecked(rest, drop, keep, after)
      BY <2>5, <2>7, <2>22, <2>31, <3>1, <3>2
    <3>4. QED
      BY <1>1, <2>9, <2>13, <2>20, <2>23, <2>29, <2>32, <3>3, AroundTyped
<1>5. QED
  BY <1>2, <1>3, <1>4

-----------------------------------------------------------------------------
(* br_table.                                                               *)

\* An entry of a table is a branch to label d.
Entry(cell, d, ts) ==
  /\ cell.op = "entry"
  /\ cell.target = label_stack[d].offset
  /\ cell.a = br_drop_count(ts, label_stack[d])
  /\ cell.b = get_label_br_arity(label_stack[d])

\* The branch, its marker and the entries to the labels of D.
TableCells(cells, D, k, ts) ==
  /\ cells \in Seq(Cells) /\ Len(cells) = k + 2
  /\ cells[1].op = "br_table" /\ cells[1].target = Len(istream) + 3
  /\ cells[1].a = k - 1
  /\ cells[2].op = "data"
  /\ \A i \in 1 .. k : Entry(cells[i + 2], D[i], ts)

TableTypes(types, k) ==
  /\ types \in Seq(Seq(Types \cup {ANY})) /\ Len(types) = k + 2
  /\ types[1] = type_stack

TableFixups(D, k) ==
  \A e \in 1 .. Len(label_stack) : \A c \in Fix(depth_fixups', e) :
    c \in Fix(depth_fixups, e) \/ \E i \in 1 .. k : c = Len(istream) + 2 + i /\ e = D[i]

\* Every target is checked.
TableChecked(D, k, ts) ==
  \A i \in 1 .. k : /\ D[i] \in 1 .. Len(label_stack)
                    /\ EmitBrAsserts(ts, label_stack[D[i]])
                    /\ check_n_types(ts, label_stack[D[i]].sig)

TableStep(cells, types, D, k, ts) ==
  /\ TableCells(cells, D, k, ts) /\ TableTypes(types, k)
  /\ istream' = istream \o cells /\ typing' = typing \o types
  /\ TableFixups(D, k)
  /\ type_stack' = UnreachableTypes(ts)
  /\ UNCHANGED <<inFunctionVars, label_stack, unchecked>>

\* What a table emits is above the top label's limit.
LEMMA TableEmission ==
  ASSUME IInv, FInv, WInv, NEW callback, InBody(callback),
         NEW k \in Nat, k > 0, NEW D, NEW ts, Typed(ts), Above(ts),
         Prefix(ts, type_stack, top_label.type_stack_limit),
         NEW cells, NEW types, TableStep(cells, types, D, k, ts)
  PROVE  Emission(cells, types)
<1>1. /\ Body /\ top_label.type_stack_limit \in Nat /\ Len(istream) \in Nat
  BY InBodyFacts, TopLimit DEF FInv
<1>2. /\ type_stack' \in Seq(Types \cup {ANY})
      /\ Prefix(type_stack', ts, top_label.type_stack_limit)
  BY <1>1, UnreachableFacts DEF TableStep
<1>3. Prefix(type_stack', type_stack, top_label.type_stack_limit)
  BY <1>1, <1>2, PrefixTrans
<1>4. /\ cells \in Seq(Cells) /\ Len(cells) = k + 2 /\ cells[1].op = "br_table"
      /\ types \in Seq(Seq(Types \cup {ANY})) /\ Len(types) = k + 2
      /\ types[1] = type_stack
  BY DEF TableStep, TableCells, TableTypes
<1>5. \A e \in 1 .. Len(label_stack) : \A c \in Fix(depth_fixups', e) :
        c \in Fix(depth_fixups, e) \/ (c \in Nat /\ c > Len(istream))
  <2>1. \A i \in 1 .. k : Len(istream) + 2 + i \in Nat /\ Len(istream) + 2 + i > Len(istream)
    BY <1>1
  <2>2. QED
    BY <2>1 DEF TableStep, TableFixups
<1>6. unchecked \subseteq unchecked' /\ unchecked' \subseteq Conditions
  BY DEF WInv, TableStep
<1>7. Len(cells) > 0 /\ cells[1].op \notin {"data", "entry"} /\ Len(types) = Len(cells)
  BY <1>4
<1>8. QED
  BY <1>2, <1>3, <1>4, <1>5, <1>6, <1>7 DEF Emission, TableStep

\* The two cells before a table of k entries.
LEMMA TwoBefore ==
  ASSUME NEW k \in Nat
  PROVE  1 \in 1 .. k + 2 /\ 2 \in 1 .. k + 2
OBVIOUS

\* Its entries go to their labels.
LEMMA TableTyped ==
  ASSUME IInv, FInv, WInv, TInv, NEW callback, InBody(callback),
         NEW k \in Nat, k > 0, NEW D, NEW ts, Typed(ts), Above(ts),
         Prefix(ts, type_stack, top_label.type_stack_limit), PopsTop(ts),
         TableChecked(D, k, ts),
         NEW cells, NEW types, TableStep(cells, types, D, k, ts)
  PROVE  WInv' /\ TInv'
<1>1. Emission(cells, types)
  BY TableEmission
<1>2. /\ Len(istream) \in Nat /\ istream' \in Seq(Cells)
      /\ Len(istream') = Len(istream) + Len(cells)
      /\ \A j \in 1 .. Len(cells) : /\ istream'[Len(istream) + j] = cells[j]
                                    /\ typing'[Len(istream) + j] = types[j]
  BY <1>1, EmissionCells
<1>3. PICK n \in Nat : n = Len(istream)
  BY <1>2
<1>4. /\ Len(cells) = k + 2 /\ cells[1].op = "br_table"
      /\ cells[1].target = n + 3 /\ cells[1].a = k - 1
      /\ cells[2].op = "data" /\ types[1] = type_stack
      /\ \A i \in 1 .. k : Entry(cells[i + 2], D[i], ts)
  BY <1>3 DEF TableStep, TableCells, TableTypes
<1>5. /\ Body /\ current_func # 0 /\ func_offset' = func_offset
      /\ label_stack \in Seq(Labels)
  BY InBodyFacts DEF TableStep, inFunctionVars, InBody, StackTypes
<1>6. /\ istream'[n + 1] = cells[1] /\ istream'[n + 2] = cells[2]
      /\ typing'[n + 1] = type_stack
      /\ \A i \in 1 .. k : istream'[n + 2 + i] = cells[i + 2]
  <2>0. Len(cells) = k + 2
    BY <1>4
  <2>1. 1 \in 1 .. Len(cells) /\ 2 \in 1 .. Len(cells)
    BY <2>0, TwoBefore
  <2>2. ASSUME NEW i \in 1 .. k
        PROVE  i + 2 \in 1 .. Len(cells) /\ n + 2 + i = n + (i + 2)
    <3>1. i + 2 \in 1 .. k + 2 /\ n + 2 + i = n + (i + 2)
      OBVIOUS
    <3>2. QED
      BY <2>0, <3>1, Zenon
  <2>3. QED
    BY <1>2, <1>3, <1>4, <2>1, <2>2
<1>7. Len(istream') = n + k + 2
  BY <1>2, <1>3, <1>4
<1>8. ASSUME NEW c \in 1 .. Len(istream'), c >= n + 1
      PROVE  c = n + 1 \/ istream'[c].op \in {"data", "entry"}
  <2>1. c = n + 1 \/ c = n + 2 \/ \E i \in 1 .. k : c = n + 2 + i
    <3>1. CASE c > n + 2
      <4>1. c - n - 2 \in 1 .. k /\ c = n + 2 + (c - n - 2)
        BY <1>7, <3>1
      <4>2. QED
        BY <4>1
    <3>2. CASE ~(c > n + 2)
      BY <1>7, <1>8, <3>2
    <3>3. QED
      BY <3>1, <3>2
  <2>2. QED
    BY <1>4, <1>6, <2>1 DEF Entry
<1>9. CellsOK(Len(istream) + 1)
  <2>1. CellOK(istream', n + 1)
    <3>1. istream'[n + 1].op = "br_table" /\ istream'[n + 1].target = n + 3
          /\ istream'[n + 1].a = k - 1
      BY <1>4, <1>6
    <3>2. n + 3 >= 1 /\ n + 3 + (k - 1) <= Len(istream')
      BY <1>7
    <3>3. QED
      BY <3>1, <3>2 DEF CellOK
  <2>2. ASSUME NEW c \in 1 .. Len(istream'), c >= n + 1 PROVE CellOK(istream', c)
    <3>1. CASE istream'[c].op \in {"data", "entry"}
      BY <3>1 DEF CellOK
    <3>2. QED
      BY <1>8, <2>1, <2>2, <3>1
  <2>3. QED
    BY <1>3, <2>2 DEF CellsOK
<1>10. ASSUME unchecked' \subseteq {"host"}, NEW j \in 0 .. k - 1, Live(type_stack)
       PROVE  \A c, e : c = n + 1 /\ e = n + 3 + j => Enters(c, e, ts)'
  <2>1. PICK i \in 1 .. k : i = j + 1
    BY <1>10
  <2>2. PICK e \in Nat : e = n + 2 + i /\ e = n + 3 + j
    BY <1>10, <2>1
  <2>3. PICK c \in Nat : c = n + 1
    OBVIOUS
  <2>4. PICK d \in 1 .. Len(label_stack) : d = D[i]
    BY DEF TableChecked
  <2>5. /\ EmitBrAsserts(ts, label_stack[d])
        /\ check_n_types(ts, label_stack[d].sig)
    BY <2>4 DEF TableChecked
  <2>6. Live(ts)
    BY <1>10 DEF PopsTop
  <2>7. PICK a, b : /\ a = br_drop_count(ts, label_stack[d])
                    /\ b = get_label_br_arity(label_stack[d])
    OBVIOUS
  <2>8. /\ b \in {0, 1} /\ a + b <= Len(ts) /\ a \in Nat
        /\ DropKept(ts, a, b) = BranchTypes(d) /\ BranchTypes(d) \in Seq(Types)
    <3>1. /\ br_drop_count(ts, label_stack[d]) \in Nat
          /\ get_label_br_arity(label_stack[d]) \in {0, 1}
          /\ br_drop_count(ts, label_stack[d]) + get_label_br_arity(label_stack[d])
               <= Len(ts)
          /\ DropKept(ts, br_drop_count(ts, label_stack[d]),
                      get_label_br_arity(label_stack[d])) = BranchTypes(d)
          /\ BranchTypes(d) \in Seq(Types)
      BY <1>5, <2>5, <2>6, BranchLeaves
    <3>2. QED
      BY <2>7, <3>1
  <2>9. /\ istream'[e].op = "entry" /\ istream'[e].target = label_stack[d].offset
        /\ istream'[e].a = a /\ istream'[e].b = b
    BY <1>4, <1>6, <2>2, <2>4, <2>7 DEF Entry
  <2>10. Same(c, e)'
    <3>1. /\ Len(istream) < c /\ Len(istream) + 1 <= e
      BY <1>3, <2>2, <2>3
    <3>2. func_offset[current_func] <= e
      <4>1. func_offset[current_func] \in 1 .. Len(istream) + 1
        BY <1>5, StartFacts
      <4>2. QED
        BY <1>3, <3>1, <4>1
    <3>3. QED
      BY <1>5, <3>1, <3>2, NewSame
  <2>11. PICK T : T = DropKept(ts, a, b)
    OBVIOUS
  <2>12. Goes(e, T)'
    <3>1. Len(istream) < e
      BY <1>3, <2>2
    <3>2. LoopsTyped
      BY <1>5, <1>10 DEF TInv, TableStep
    <3>3. Live(T) /\ T = BranchTypes(d)
      BY <2>8, <2>11, TypesLive
    <3>4. ASSUME NEW f \in 1 .. Len(label_stack), e \in Fix(depth_fixups', f)
          PROVE  f = d
      <4>1. \A x \in Fix(depth_fixups, f) : x \in 1 .. Len(istream)
        BY DEF FInv, Owned
      <4>2. ~(e \in 1 .. Len(istream))
        BY <1>2, <3>1
      <4>3. PICK h \in 1 .. k : e = Len(istream) + 2 + h /\ f = D[h]
        BY <3>4, <4>1, <4>2 DEF TableStep, TableFixups
      <4>4. h = i
        BY <1>3, <2>2, <4>3
      <4>5. QED
        BY <2>4, <4>3, <4>4
    <3>5. QED
      BY <1>1, <2>9, <3>1, <3>2, <3>3, <3>4, LabelGoes
  <2>13. Enters(c, e, ts)'
    BY <2>8, <2>9, <2>10, <2>11, <2>12 DEF Enters
  <2>14. QED
    BY <2>2, <2>3, <2>13
<1>11. ASSUME unchecked' \subseteq {"host"} PROVE \A c : c = n + 1 => Flow(c)'
  <2>1. PICK old : old = type_stack
    OBVIOUS
  <2>2. PICK c : c = n + 1
    OBVIOUS
  <2>3. /\ typing'[c] = old /\ istream'[c].op = "br_table"
        /\ istream'[c].target = n + 3 /\ istream'[c].a = k - 1
    BY <1>4, <1>6, <2>1, <2>2
  <2>4. "br_table" \notin Straight
    BY StraightNames
  <2>5. ASSUME Live(old)
        PROVE  /\ Len(old) >= 1
               /\ \A j \in 0 .. k - 1 : \A e : e = n + 3 + j => Enters(c, e, Popped(old, 1))'
    <3>1. Len(old) >= 1 /\ ts = Popped(old, 1) /\ Live(type_stack)
      BY <2>1, <2>5 DEF PopsTop
    <3>2. ASSUME NEW j \in 0 .. k - 1, NEW e, e = n + 3 + j PROVE Enters(c, e, ts)'
      BY <1>10, <1>11, <2>2, <3>1, <3>2
    <3>3. QED
      BY <3>1, <3>2
  <2>6. QED
    BY <2>2, <2>3, <2>4, <2>5 DEF Flow
<1>12. unchecked' \subseteq {"host"} => FlowsFrom(Len(istream) + 1)
  <2>1. SUFFICES ASSUME unchecked' \subseteq {"host"},
                        NEW c \in 1 .. Len(istream'), c >= n + 1
                 PROVE  Flow(c)'
    BY <1>3 DEF FlowsFrom
  <2>2. CASE c = n + 1
    BY <1>11, <2>1, <2>2
  <2>3. CASE istream'[c].op \in {"data", "entry"}
    BY <2>3, StraightNames DEF Flow
  <2>4. QED
    BY <1>8, <2>1, <2>2, <2>3
<1>13. QED
  BY <1>1, <1>9, <1>12, EmissionWInv, EmissionTInv

\* The fields of a cell.
LEMMA CellFields ==
  ASSUME NEW op, NEW target, NEW a, NEW b
  PROVE  /\ Cell(op, target, a, b).op = op
         /\ Cell(op, target, a, b).target = target
         /\ Cell(op, target, a, b).a = a
         /\ Cell(op, target, a, b).b = b
BY DEF Cell

TableHead(k) ==
  <<Cell("br_table", get_istream_offset + 2, k - 1, 0), Cell("data", 0, k, 0)>>

Entries(entries, D, k, ts) == \A i \in 1 .. k : Entry(entries[i], D[i], ts)

\* The cells of a table.
LEMMA TableCellsBuilt ==
  ASSUME Len(istream) \in Nat, NEW k \in Nat, k > 0, NEW D, NEW ts,
         NEW entries \in [1 .. k -> Cells], Entries(entries, D, k, ts)
  PROVE  TableCells(TableHead(k) \o entries, D, k, ts)
<1> DEFINE h == Cell("br_table", get_istream_offset + 2, k - 1, 0)
           g == Cell("data", 0, k, 0)
<1>1. /\ get_istream_offset + 2 = Len(istream) + 3
      /\ get_istream_offset + 2 \in Nat /\ k - 1 \in Nat
  BY DEF get_istream_offset
<1>2. /\ h \in Cells /\ h.op = "br_table" /\ h.target = Len(istream) + 3
      /\ h.a = k - 1 /\ g \in Cells /\ g.op = "data"
  <2>1. "br_table" \in CellOps /\ "data" \in CellOps /\ 0 \in Nat
    BY DEF CellOps
  <2>2. PICK t \in Nat, j \in Nat : t = get_istream_offset + 2 /\ j = k - 1
    BY <1>1
  <2>3. h = Cell("br_table", t, j, 0)
    BY <2>2
  <2>4. /\ h \in Cells /\ h.op = "br_table" /\ h.target = t /\ h.a = j
    BY <2>1, <2>3, CellFacts
  <2>5. g \in Cells /\ g.op = "data"
    BY <2>1, CellFacts
  <2>6. QED
    BY <1>1, <2>2, <2>4, <2>5
<1>3. TableHead(k) = <<h, g>>
  BY DEF TableHead
<1> HIDE DEF h, g
<1>4. <<h, g>> \in Seq(Cells) /\ Len(<<h, g>>) = 2 /\ <<h, g>>[1] = h /\ <<h, g>>[2] = g
  BY <1>2
<1>5. PICK head \in Seq(Cells) : /\ head = TableHead(k)
                                 /\ Len(head) = 2 /\ head[1] = h /\ head[2] = g
  BY <1>3, <1>4
<1>6. entries \in Seq(Cells) /\ Len(entries) = k
  OBVIOUS
<1>7. /\ head \o entries \in Seq(Cells)
      /\ Len(head \o entries) = Len(head) + Len(entries)
      /\ \A i \in 1 .. Len(head) : (head \o entries)[i] = head[i]
      /\ \A i \in 1 .. Len(entries) : (head \o entries)[Len(head) + i] = entries[i]
  <2>1. head \in Seq(Cells) /\ entries \in Seq(Cells)
    BY <1>6
  <2>2. QED
    BY <2>1, ConcatFacts
<1>8. PICK cells : cells = head \o entries
  OBVIOUS
<1>9. /\ cells \in Seq(Cells) /\ Len(cells) = 2 + k
      /\ \A i \in 1 .. 2 : cells[i] = head[i]
      /\ \A i \in 1 .. k : cells[2 + i] = entries[i]
  BY <1>5, <1>6, <1>7, <1>8
<1>10. /\ 1 \in 1 .. 2 /\ 2 \in 1 .. 2 /\ 2 + k = k + 2
       /\ \A i \in 1 .. k : 2 + i = i + 2
  OBVIOUS
<1>11. /\ cells[1] = h /\ cells[2] = g
       /\ \A i \in 1 .. k : cells[i + 2] = entries[i]
  BY <1>5, <1>9, <1>10
<1>12. TableCells(cells, D, k, ts)
  BY <1>2, <1>9, <1>10, <1>11 DEF TableCells, Entries
<1>13. QED
  BY <1>5, <1>8, <1>12

\* Their types.
LEMMA TableTypesBuilt ==
  ASSUME type_stack \in Seq(Types \cup {ANY}), NEW k \in Nat,
         NEW types, types = <<type_stack>> \o [i \in 1 .. k + 1 |-> <<ANY>>]
  PROVE  TableTypes(types, k)
<1> DEFINE S == Seq(Types \cup {ANY})
           rest == [i \in 1 .. k + 1 |-> <<ANY>>]
<1>1. type_stack \in S /\ <<ANY>> \in S
  OBVIOUS
<1> HIDE DEF S
<1>2. rest \in Seq(S) /\ Len(rest) = k + 1
  <2>1. rest \in [1 .. k + 1 -> S] /\ k + 1 \in Nat
    BY <1>1
  <2> HIDE DEF rest
  <2>2. QED
    BY <2>1
<1>3. types = <<type_stack>> \o rest
  OBVIOUS
<1> HIDE DEF rest
<1>4. /\ <<type_stack>> \o rest \in Seq(S) /\ Len(<<type_stack>> \o rest) = Len(rest) + 1
      /\ (<<type_stack>> \o rest)[1] = type_stack
  BY <1>1, <1>2, ConsFacts
<1>5. Len(types) = k + 2
  BY <1>2, <1>3, <1>4
<1>6. QED
  BY <1>3, <1>4, <1>5 DEF TableTypes, S

TableRefs(refs, D, k, table) ==
  refs = UNION {BranchRefs(D[i], table + i - 1) : i \in 1 .. k}

\* The fixups of a table are those of its entries.
LEMMA TableRecorded ==
  ASSUME FInv, label_stack \in Seq(Labels), NEW k \in Nat, NEW D,
         \A i \in 1 .. k : D[i] \in 1 .. Len(label_stack),
         NEW table, table = Len(istream) + 3,
         NEW refs, TableRefs(refs, D, k, table),
         depth_fixups' = append_fixup(depth_fixups, refs)
  PROVE  TableFixups(D, k)
<1>1. /\ depth_fixups \in Seq(SUBSET Nat) /\ Len(label_stack) \in Nat
      /\ Len(depth_fixups) <= Len(label_stack)
      /\ Len(istream) \in Nat
  BY DEF FInv, Owned
<1>2. ASSUME NEW r \in refs
      PROVE  \E i \in 1 .. k : r[1] = D[i] /\ r[2] = Len(istream) + 2 + i
  <2>1. PICK i \in 1 .. k : r \in BranchRefs(D[i], table + i - 1)
    BY DEF TableRefs
  <2>2. r[1] = D[i] /\ r[2] = table + i - 1
    BY <2>1 DEF BranchRefs
  <2>3. table + i - 1 = Len(istream) + 2 + i
    BY <1>1
  <2>4. QED
    BY <2>2, <2>3
<1>3. PICK N \in Nat : N = Len(label_stack)
  BY <1>1
<1>4. PICK R : R = refs
  OBVIOUS
<1>5. \A r \in R : r[1] \in 1 .. N /\ r[2] \in Nat
  <2>1. \A i \in 1 .. k : Len(istream) + 2 + i \in Nat
    BY <1>1
  <2>2. QED
    BY <1>2, <1>3, <1>4, <2>1
<1>6. \A e \in 1 .. N : \A x :
        x \in Fix(append_fixup(depth_fixups, R), e) <=>
          x \in Fix(depth_fixups, e) \/ \E r \in R : r[1] = e /\ r[2] = x
  <2>1. Len(depth_fixups) <= N
    BY <1>1, <1>3
  <2>2. QED
    BY <1>1, <1>5, <2>1, AppendFixup, SMTT(30)
<1>7. QED
  BY <1>2, <1>3, <1>4, <1>6 DEF TableFixups

\* br_table.
LEMMA BrTableTyped ==
  ASSUME IInv, FInv, WInv, TInv, NEW k \in 1 .. MaxTargets + 1,
         NEW targets \in [1 .. k -> 0 .. Len(label_stack)], OnBrTable(targets)
  PROVE  WInv' /\ TInv'
<1> DEFINE pop == pop_types(type_stack, 1)
           L(i) == label_stack[translate_depth(targets[i])]
           E(i) == Cell("entry", L(i).offset, br_drop_count(pop, L(i)),
                        get_label_br_arity(L(i)))
           table == get_istream_offset + 2
           cells == TableHead(k) \o [i \in 1 .. k |-> E(i)]
           types == <<type_stack>> \o [i \in 1 .. k + 1 |-> <<ANY>>]
           refs == UNION {BranchRefs(translate_depth(targets[i]), table + i - 1)
                            : i \in 1 .. k}
<1>1. InBody("br_table")
  BY DEF OnBrTable
<1>2. k \in Nat /\ k > 0 /\ targets \in Seq(0 .. Len(label_stack)) /\ Len(targets) = k
  BY CompilerAssumption
<1>3. \/ Failed
      \/ /\ pop_and_check(type_stack, <<"i32">>)
         /\ \A i \in 1 .. k : /\ targets[i] < Len(label_stack)
                              /\ check_n_types(pop, L(i).sig)
         /\ \A i \in 1 .. k : EmitBrAsserts(pop, L(i))
         /\ istream' = istream \o cells /\ typing' = typing \o types
         /\ depth_fixups' = append_fixup(depth_fixups, refs)
         /\ type_stack' = UnreachableTypes(pop)
         /\ UNCHANGED <<label_stack, inFunctionVars, unchecked>>
  BY <1>2 DEF OnBrTable, Checked, Asserted, Reject, Failed, emit, TableHead
<1>4. ASSUME pop_and_check(type_stack, <<"i32">>),
             \A i \in 1 .. k : /\ targets[i] < Len(label_stack)
                               /\ check_n_types(pop, L(i).sig),
             \A i \in 1 .. k : EmitBrAsserts(pop, L(i)),
             istream' = istream \o cells, typing' = typing \o types,
             depth_fixups' = append_fixup(depth_fixups, refs),
             type_stack' = UnreachableTypes(pop),
             UNCHANGED <<label_stack, inFunctionVars, unchecked>>
      PROVE  WInv' /\ TInv'
  <2>1. /\ Body /\ Typed(type_stack) /\ Above(type_stack)
        /\ type_stack \in Seq(Types \cup {ANY})
        /\ StackTypes /\ label_stack \in Seq(Labels) /\ Len(label_stack) \in Nat
        /\ Len(istream) \in Nat
    BY <1>1, InBodyFacts DEF StackTypes, FInv
  <2>2. Typed(pop) /\ Above(pop)
    BY <1>4, <2>1, PopOneTyped
  <2>3. /\ Prefix(pop, type_stack, top_label.type_stack_limit) /\ PopsTop(pop)
    <3>1. check_type_stack_limit(type_stack, 1)
      BY <1>4, PopOneLimit
    <3>2. /\ Prefix(pop, type_stack, top_label.type_stack_limit)
          /\ Live(type_stack) => /\ 1 <= Len(type_stack)
                                 /\ pop = Popped(type_stack, 1)
                                 /\ pop \in Seq(Types)
      BY <2>1, <3>1, PopFacts
    <3>3. QED
      BY <2>1, <3>2, TypesLive DEF PopsTop
  <2>4. PICK ts : ts = pop
    OBVIOUS
  <2>5. PICK D : D = [i \in 1 .. k |-> translate_depth(targets[i])]
    OBVIOUS
  <2>6. ASSUME NEW i \in 1 .. k
        PROVE  /\ D[i] = translate_depth(targets[i])
               /\ D[i] \in 1 .. Len(label_stack) /\ label_stack[D[i]] \in Labels
    <3>1. targets[i] \in 0 .. Len(label_stack) /\ targets[i] < Len(label_stack)
      BY <1>4
    <3>2. D[i] = translate_depth(targets[i])
      BY <2>5
    <3>3. D[i] \in 1 .. Len(label_stack)
      BY <2>1, <3>1, <3>2 DEF translate_depth
    <3>4. QED
      BY <2>1, <3>2, <3>3, ElementFacts
  <2>7. TableChecked(D, k, ts)
    BY <1>4, <2>4, <2>6 DEF TableChecked
  <2>8. PICK entries : entries = [i \in 1 .. k |-> E(i)]
    OBVIOUS
  <2>9. ASSUME NEW i \in 1 .. k
        PROVE  E(i) \in Cells /\ Entry(E(i), D[i], ts)
    <3>1. Len(pop) \in Nat
      BY <2>2 DEF Typed
    <3>2. L(i) \in Labels /\ L(i) = label_stack[D[i]]
      BY <2>6
    <3> HIDE DEF pop, L
    <3>3. br_drop_count(pop, L(i)) \in Nat /\ get_label_br_arity(L(i)) \in Nat
      BY <1>4, <3>1, <3>2, DropCount
    <3>4. L(i).offset \in Nat
      BY <3>2 DEF Labels
    <3>5. "entry" \in CellOps
      BY DEF CellOps, BranchOps
    <3>6. E(i) \in Cells
      BY <3>3, <3>4, <3>5, CellFacts
    <3>7. Entry(E(i), D[i], ts)
      BY <2>4, <3>2, CellFields DEF Entry
    <3>8. QED
      BY <3>6, <3>7
  <2>10. entries \in [1 .. k -> Cells] /\ Entries(entries, D, k, ts)
    BY <2>8, <2>9 DEF Entries
  <2>11. PICK cs : cs = cells
    OBVIOUS
  <2>12. PICK tys : tys = types
    OBVIOUS
  <2>13. TableCells(cs, D, k, ts)
    <3>1. cs = TableHead(k) \o entries
      BY <2>8, <2>11
    <3>2. TableCells(TableHead(k) \o entries, D, k, ts)
      BY <1>2, <2>1, <2>10, TableCellsBuilt
    <3>3. QED
      BY <3>1, <3>2
  <2>14. TableTypes(tys, k)
    BY <1>2, <2>1, <2>12, TableTypesBuilt
  <2>15. TableFixups(D, k)
    <3>1. table = Len(istream) + 3
      BY <2>1 DEF get_istream_offset
    <3>2. refs = UNION {BranchRefs(D[i], table + i - 1) : i \in 1 .. k}
      BY <2>6
    <3>3. PICK R : R = refs
      OBVIOUS
    <3> HIDE DEF table, refs
    <3>4. depth_fixups' = append_fixup(depth_fixups, R)
      BY <1>4, <3>3
    <3>5. PICK t : t = table
      OBVIOUS
    <3>6. TableRefs(R, D, k, t) /\ t = Len(istream) + 3
      BY <3>1, <3>2, <3>3, <3>5 DEF TableRefs
    <3>7. \A i \in 1 .. k : D[i] \in 1 .. Len(label_stack)
      BY <2>6
    <3>8. QED
      BY <1>2, <2>1, <3>4, <3>6, <3>7, TableRecorded
  <2>16. TableStep(cs, tys, D, k, ts)
    BY <1>4, <2>4, <2>11, <2>12, <2>13, <2>14, <2>15 DEF TableStep
  <2>17. QED
    <3>1. /\ Typed(ts) /\ Above(ts) /\ PopsTop(ts)
          /\ Prefix(ts, type_stack, top_label.type_stack_limit)
      BY <2>2, <2>3, <2>4
    <3>2. QED
      BY <1>1, <1>2, <2>7, <2>16, <3>1, TableTyped
<1>5. QED
  BY <1>3, <1>4, FailedTyped


-----------------------------------------------------------------------------
(* Callbacks that open and close labels.                                   *)

\* Cells that were fine still are, when those emitted are.
LEMMA CellsKept ==
  ASSUME FInv, WInv, Extends, Len(istream') \in Nat, CellsOK(Len(istream) + 1)
  PROVE  \A c \in 1 .. Len(istream') : CellOK(istream', c)
<1>1. Len(istream) \in Nat /\ Len(istream) <= Len(istream')
  BY DEF FInv, Extends
<1>2. SUFFICES ASSUME NEW c \in 1 .. Len(istream') PROVE CellOK(istream', c)
  OBVIOUS
<1>3. CASE c \in 1 .. Len(istream)
  <2>1. CellOK(istream, c)
    BY <1>3 DEF WInv
  <2>2. /\ istream'[c].op = istream[c].op /\ istream'[c].a = istream[c].a
        /\ istream[c].op \notin BranchOps => istream'[c].target = istream[c].target
    BY <1>3 DEF Extends
  <2>3. istream[c].target \in Nat /\ istream[c].a \in Nat
    <3>1. istream[c] \in Cells
      BY <1>3, ElementFacts DEF FInv
    <3>2. QED
      BY <3>1 DEF Cells
  <2>4. "br_table" \notin BranchOps
    BY DEF BranchOps
  <2>5. QED
    BY <1>1, <2>1, <2>2, <2>3, <2>4 DEF CellOK
<1>4. CASE ~(c \in 1 .. Len(istream))
  BY <1>1, <1>4 DEF CellsOK
<1>5. QED
  BY <1>3, <1>4

\* The loops open after a step were open before, or are entered as they should.
LoopEntered(d) == Live(Below(d)) => At(label_stack[d].offset, Below(d))

LoopsKept ==
  \A d \in 1 .. Len(label_stack') : label_stack'[d].label_type = "loop" =>
    \/ /\ d \in 1 .. Len(label_stack)
       /\ label_stack[d].label_type = "loop"
       /\ label_stack'[d].offset = label_stack[d].offset
       /\ Below(d)' = Below(d)
    \/ LoopEntered(d)'

\* The functions that have an offset after a step had it before, or are entered
\* as they should.
EntriesKept ==
  \A f \in DOMAIN Funcs : func_offset'[f] # INVALID =>
    \/ func_offset'[f] = func_offset[f]
    \/ \A t : t = func_offset'[f] => At(t, Funcs[f].params)'

FlowKept ==
  /\ ReachesKept /\ SameKept /\ InKept
  /\ PromisesKept /\ PatchesKept
  /\ FlowsFrom(Len(istream) + 1)
  /\ EntriesKept
  /\ current_func' # 0 => LoopsKept

\* What a step has to keep.
LEMMA StepTyped ==
  ASSUME FInv, WInv, TInv, istream' \in Seq(Cells),
         Grows(istream, istream'), Extends, Continues,
         unchecked \subseteq unchecked',
         unchecked' \subseteq {"host"} => FlowKept
  PROVE  TInv'
<1>1. SUFFICES ASSUME unchecked' \subseteq {"host"}
               PROVE  /\ \A c \in 1 .. Len(istream') : Flow(c)'
                      /\ EntriesTyped'
                      /\ current_func' # 0 => LoopsTyped'
  BY DEF TInv
<1>2. /\ \A c \in 1 .. Len(istream) : Flow(c)
      /\ EntriesTyped
      /\ current_func # 0 => LoopsTyped
  BY <1>1 DEF TInv
<1>3. FlowKept
  BY <1>1
<1>4. /\ Len(istream) \in Nat /\ Len(istream') \in Nat
      /\ istream \in Seq(Cells) /\ Len(istream) <= Len(istream')
  BY DEF FInv, Extends
<1>5. GoesKept
  BY <1>3, GoesStays DEF FlowKept
<1>6. ASSUME NEW c \in 1 .. Len(istream') PROVE Flow(c)'
  <2>1. CASE c \in 1 .. Len(istream)
    <3>1. Flow(c) /\ CellOK(istream, c) /\ typing[c] \in Seq(Types \cup {ANY})
      BY <1>2, <2>1 DEF WInv
    <3>2. ReachesKept /\ SameKept /\ InKept
      BY <1>3 DEF FlowKept
    <3>3. QED
      BY <1>4, <1>5, <2>1, <3>1, <3>2, FlowStays
  <2>2. CASE ~(c \in 1 .. Len(istream))
    BY <1>3, <1>4, <2>2 DEF FlowKept, FlowsFrom
  <2>3. QED
    BY <2>1, <2>2
<1>7. ASSUME NEW t, NEW T, Live(T), At(t, T) PROVE At(t, T)'
  BY <1>4, <1>7, AtKept
<1>8. EntriesTyped'
  <2>1. SUFFICES ASSUME NEW f \in DOMAIN Funcs, func_offset'[f] # INVALID,
                        NEW t, t = func_offset'[f]
                 PROVE  At(t, Funcs[f].params)'
    BY DEF EntriesTyped
  <2>2. CASE func_offset'[f] = func_offset[f]
    <3>1. PICK P : P = Funcs[f].params
      OBVIOUS
    <3>2. At(t, P) /\ Live(P)
      <4>1. func_offset[f] # INVALID /\ t = func_offset[f]
        BY <2>1, <2>2
      <4>2. EntriesTyped
        BY <1>2
      <4>3. At(t, P)
        BY <3>1, <4>1, <4>2 DEF EntriesTyped
      <4>4. QED
        BY <3>1, <4>3, FuncFacts, TypesLive
    <3>3. At(t, P)'
      BY <1>7, <3>2
    <3>4. QED
      BY <3>1, <3>3
  <2>3. QED
    BY <1>3, <2>1, <2>2 DEF FlowKept, EntriesKept
<1>9. ASSUME current_func' # 0 PROVE LoopsTyped'
  <2>1. SUFFICES ASSUME NEW d \in 1 .. Len(label_stack'),
                        label_stack'[d].label_type = "loop"
                 PROVE  LoopEntered(d)'
    BY DEF LoopsTyped, LoopEntered
  <2>2. LoopsKept
    BY <1>3, <1>9 DEF FlowKept
  <2>3. ASSUME d \in 1 .. Len(label_stack), label_stack[d].label_type = "loop",
               label_stack'[d].offset = label_stack[d].offset, Below(d)' = Below(d)
        PROVE  LoopEntered(d)'
    <3>1. current_func # 0
      <4>1. label_stack # <<>>
        BY <2>3
      <4>2. QED
        BY <4>1 DEF FInv
    <3>2. PICK t, T : t = label_stack[d].offset /\ T = Below(d)
      OBVIOUS
    <3>3. Live(T) => At(t, T)
      <4>1. LoopsTyped
        BY <1>2, <3>1
      <4>2. QED
        BY <2>3, <3>2, <4>1 DEF LoopsTyped
    <3>4. Live(T) => At(t, T)'
      BY <1>7, <3>3
    <3>5. QED
      BY <2>3, <3>2, <3>4 DEF LoopEntered
  <2>4. QED
    BY <2>1, <2>2, <2>3 DEF LoopsKept
<1>10. QED
  BY <1>6, <1>8, <1>9

\* A label pushed above the values of an expression.
Opens(l) ==
  /\ l \in Labels
  /\ l.type_stack_limit = Len(type_stack')
  /\ label_stack' = Append(label_stack, l)
  /\ type_stack' \in Seq(Types \cup {ANY})
  /\ Prefix(type_stack', type_stack, top_label.type_stack_limit)
  /\ UNCHANGED <<depth_fixups, inFunctionVars>>
  /\ l.label_type = "loop" => l.offset = Len(istream) + 1
  /\ l.label_type # "loop" => l.offset = INVALID
  /\ l.label_type \in {"if", "else"} => l.fixup_offset = Len(istream) + 1

\* The first n values of a stack of n.
LEMMA TruncateAll ==
  ASSUME NEW S, NEW s \in Seq(S)
  PROVE  Truncate(s, Len(s)) = s
<1>1. Len(s) \in 0 .. Len(s)
  OBVIOUS
<1>2. /\ Truncate(s, Len(s)) \in Seq(S) /\ Len(Truncate(s, Len(s))) = Len(s)
      /\ \A i \in 1 .. Len(s) : Truncate(s, Len(s))[i] = s[i]
  BY <1>1, TruncateFacts
<1>3. QED
  BY <1>2, SeqEqual

\* Append keeps what was there and adds one element.
LEMMA AppendFacts ==
  ASSUME NEW S, NEW s \in Seq(S), NEW x \in S
  PROVE  /\ Append(s, x) \in Seq(S) /\ Len(Append(s, x)) = Len(s) + 1
         /\ \A i \in 1 .. Len(s) : Append(s, x)[i] = s[i]
         /\ Append(s, x)[Len(s) + 1] = x
OBVIOUS

\* The labels that were open promise what they promised.
OldLabels(n) ==
  \A d \in 1 .. n : /\ label_stack'[d] = label_stack[d]
                    /\ Below(d)' = Below(d)
                    /\ LabelTypes(d)' = LabelTypes(d)
                    /\ ArmTypes(d)' = ArmTypes(d)

\* They do if the values below the top label stay.
LEMMA OldLabelsKept ==
  ASSUME Body, NEW n \in 0 .. Len(label_stack),
         type_stack' \in Seq(Types \cup {ANY}),
         Prefix(type_stack', type_stack, top_label.type_stack_limit),
         \A d \in 1 .. n : label_stack'[d] = label_stack[d]
  PROVE  OldLabels(n)
<1>1. ASSUME NEW d \in 1 .. n PROVE Below(d)' = Below(d)
  <2>1. /\ d \in 1 .. Len(label_stack) /\ StackTypes
    BY DEF Body, StackTypes
  <2>2. /\ label_stack[d].type_stack_limit \in Nat
        /\ top_label.type_stack_limit \in Nat
        /\ label_stack[d].type_stack_limit <= top_label.type_stack_limit
        /\ type_stack \in Seq(Types \cup {ANY})
    BY <2>1, TopLimit, LabelFacts DEF StackTypes
  <2>3. PICK m \in 0 .. top_label.type_stack_limit :
          m = label_stack[d].type_stack_limit
    BY <2>2
  <2>4. Truncate(type_stack', m) = Truncate(type_stack, m)
    BY <2>2, PrefixBelow
  <2>5. QED
    BY <2>3, <2>4 DEF Below
<1>2. QED
  BY <1>1 DEF OldLabels, LabelTypes, ArmTypes

\* What opening a label leaves.
LEMMA OpenFacts ==
  ASSUME IInv, FInv, WInv, NEW callback, InBody(callback), NEW l, Opens(l),
         NEW N \in Nat, N = Len(label_stack)
  PROVE  /\ Len(label_stack') = N + 1 /\ label_stack'[N + 1] = l
         /\ OldLabels(N)
         /\ Fix(depth_fixups', N + 1) = {}
         /\ Below(N + 1)' = type_stack'
         /\ PromisesKept
         /\ LocalsBelow' /\ CurrentLast'
<1>1. /\ Body /\ label_stack \in Seq(Labels) /\ l \in Labels /\ StackTypes
      /\ type_stack' \in Seq(Types \cup {ANY})
      /\ current_func # 0
      /\ top_label.type_stack_limit \in Nat
      /\ Len(param_and_local_types) <= top_label.type_stack_limit
  BY InBodyFacts, TopLimit DEF Opens, StackTypes
<1>2. /\ Len(Append(label_stack, l)) = Len(label_stack) + 1
      /\ \A i \in 1 .. Len(label_stack) : Append(label_stack, l)[i] = label_stack[i]
      /\ Append(label_stack, l)[Len(label_stack) + 1] = l
  BY <1>1, AppendFacts
<1>3. /\ Len(label_stack') = N + 1 /\ label_stack'[N + 1] = l
      /\ \A d \in 1 .. N : label_stack'[d] = label_stack[d]
  BY <1>2 DEF Opens
<1>4. OldLabels(N)
  <2>1. N \in 0 .. Len(label_stack)
    OBVIOUS
  <2>2. QED
    BY <1>1, <1>3, <2>1, OldLabelsKept DEF Opens
<1>5. Fix(depth_fixups', N + 1) = {}
  <2>1. /\ depth_fixups' = depth_fixups
        /\ Len(depth_fixups) \in Nat /\ Len(depth_fixups) <= N
    BY DEF Opens, FInv, Owned
  <2>2. QED
    BY <2>1 DEF Fix
<1>6. Below(N + 1)' = type_stack'
  <2>1. PICK s \in Seq(Types \cup {ANY}) : s = type_stack'
    BY <1>1
  <2>2. Truncate(s, Len(s)) = s
    BY <2>1, TruncateAll
  <2>3. l.type_stack_limit = Len(s)
    BY <2>1 DEF Opens
  <2>4. QED
    BY <1>3, <2>1, <2>2, <2>3 DEF Below
<1>7. ASSUME NEW c \in Arm(label_stack', N + 1) PROVE c = Len(istream) + 1
  BY <1>3, <1>7 DEF Arm, Opens
<1>8. ASSUME NEW d \in 1 .. N + 1
      PROVE  \/ d \in 1 .. N /\ d \in 1 .. Len(label_stack)
             \/ d = N + 1
  OBVIOUS
<1>9. ASSUME NEW d \in 1 .. N
      PROVE  /\ Arm(label_stack', d) = Arm(label_stack, d)
             /\ Fix(depth_fixups', d) = Fix(depth_fixups, d)
  BY <1>3 DEF Arm, Fix, Opens
<1>10. Len(istream) \in Nat /\ func_offset[current_func] \in 1 .. Len(istream) + 1
  BY <1>1, StartFacts DEF FInv
<1>11. PromisesKept
  <2>1. SUFFICES ASSUME NEW d \in 1 .. N + 1, NEW c \in 1 .. Len(istream)
                 PROVE  /\ c \in Fix(depth_fixups', d) =>
                             /\ d \in 1 .. Len(label_stack) /\ c \in Fix(depth_fixups, d)
                             /\ LabelTypes(d)' = LabelTypes(d)
                        /\ c \in Arm(label_stack', d) =>
                             /\ d \in 1 .. Len(label_stack) /\ c \in Arm(label_stack, d)
                             /\ ArmTypes(d)' = ArmTypes(d)
    BY <1>3 DEF PromisesKept
  <2>2. CASE d \in 1 .. N
    BY <1>4, <1>9, <2>2 DEF OldLabels
  <2>3. CASE d = N + 1
    <3>1. c # Len(istream) + 1
      BY <1>10
    <3>2. QED
      BY <1>5, <1>7, <2>3, <3>1
  <2>4. QED
    BY <1>8, <2>2, <2>3
<1>12. LocalsBelow'
  <2>1. LocalsBelow
    BY <1>1 DEF WInv
  <2>2. ASSUME NEW i \in 1 .. Len(param_and_local_types)
        PROVE  type_stack'[i] = param_and_local_types[i]
    <3>1. i \in 1 .. top_label.type_stack_limit
      BY <1>1 DEF StackTypes
    <3>2. type_stack'[i] = type_stack[i]
      BY <3>1 DEF Prefix, Opens
    <3>3. QED
      BY <2>1, <3>2 DEF LocalsBelow
  <2>3. decls_left' = 0
    BY InBodyFacts DEF Opens, inFunctionVars
  <2>4. QED
    BY <2>1, <2>2, <2>3 DEF LocalsBelow, Opens, inFunctionVars
<1>13. CurrentLast'
  <2>1. CurrentLast /\ N > 0
    BY <1>1 DEF WInv, Body, LabelsOrdered
  <2>2. PICK start : start = func_offset[current_func]
    OBVIOUS
  <2>3. /\ start # INVALID /\ start = func_offset'[current_func']
        /\ \A f \in DOMAIN Funcs : f # current_func' => func_offset'[f] < start
        /\ label_stack'[1].sig = Funcs[current_func'].results
    <3>1. 1 \in 1 .. N
      BY <2>1
    <3>2. label_stack'[1] = label_stack[1]
      BY <1>3, <3>1
    <3>3. QED
      BY <2>1, <2>2, <3>2 DEF CurrentLast, Opens, inFunctionVars
  <2>4. ASSUME NEW d \in 1 .. N + 1
        PROVE  /\ \A c \in Fix(depth_fixups', d) \cup Arm(label_stack', d) : start <= c
               /\ label_stack'[d].label_type = "loop" => start <= label_stack'[d].offset
               /\ label_stack'[d].label_type # "loop" => label_stack'[d].offset = INVALID
    <3>1. CASE d \in 1 .. N
      BY <1>3, <1>9, <2>1, <2>2, <3>1 DEF CurrentLast
    <3>2. CASE d = N + 1
      <4>1. start <= Len(istream) + 1
        BY <1>10, <2>2
      <4>2. QED
        BY <1>3, <1>5, <1>7, <3>2, <4>1 DEF Opens
    <3>3. QED
      BY <1>8, <3>1, <3>2
  <2>5. QED
    BY <1>3, <2>3, <2>4 DEF CurrentLast
<1>14. QED
  BY <1>3, <1>4, <1>5, <1>6, <1>11, <1>12, <1>13

\* What a step inside a function has to keep of any module.
Progresses ==
  /\ Len(typing') = Len(istream') /\ typing' \in Seq(Seq(Types \cup {ANY}))
  /\ status = "reading" /\ UNCHANGED <<status, next_func>>
  /\ decls_left' \in 0 .. MaxDecls
  /\ unchecked' \subseteq Conditions

\* What a step has to do to the code to keep it well shaped.
LEMMA StepShaped ==
  ASSUME FInv, WInv, istream' \in Seq(Cells), Extends, Progresses,
         CellsOK(Len(istream) + 1),
         current_func' # 0 => LocalsBelow' /\ CurrentLast'
  PROVE  WInv'
<1>1. \A c \in 1 .. Len(istream') : CellOK(istream', c)
  <2>1. Len(istream') \in Nat
    OBVIOUS
  <2>2. QED
    BY <2>1, CellsKept
<1>2. /\ status' \in {"reading", "loaded", "rejected", "assert_emit_br",
                      "assert_top_type", "assert_translate_depth"}
      /\ next_func' \in 0 .. Len(Funcs) + 1
      /\ status' # "loaded"
  BY DEF WInv, Progresses
<1>3. QED
  BY <1>1, <1>2 DEF WInv, Progresses

\* A step that emits nothing.
LEMMA Nothing ==
  ASSUME FInv, UNCHANGED <<istream, typing>>
  PROVE  /\ istream' \in Seq(Cells) /\ Len(istream') = Len(istream)
         /\ Len(istream) \in Nat
         /\ Grows(istream, istream') /\ Extends
         /\ CellsOK(Len(istream) + 1) /\ FlowsFrom(Len(istream) + 1)
         /\ PatchesKept
<1>1. istream' \in Seq(Cells) /\ Len(istream) \in Nat /\ istream' = istream
  BY DEF FInv
<1>2. Grows(istream, istream')
  BY <1>1 DEF Grows
<1>3. Extends
  BY <1>1 DEF Extends
<1>4. \A c \in 1 .. Len(istream') : ~(c >= Len(istream) + 1)
  BY <1>1
<1>5. CellsOK(Len(istream) + 1) /\ FlowsFrom(Len(istream) + 1)
  BY <1>4 DEF CellsOK, FlowsFrom
<1>6. PatchesKept
  BY <1>1 DEF PatchesKept
<1>7. QED
  BY <1>1, <1>2, <1>3, <1>5, <1>6

\* The limit of the top label is within the stack.
LEMMA TopAbove ==
  ASSUME Body, NEW ts, Above(ts)
  PROVE  top_label.type_stack_limit <= Len(ts)
<1>1. Len(label_stack) \in 1 .. Len(label_stack)
  BY DEF Body, LabelsOrdered, StackTypes
<1>2. QED
  BY <1>1 DEF Above, top_label

\* A block or a loop emits nothing.
LEMMA BlockTyped ==
  ASSUME IInv, FInv, WInv, TInv, NEW sig \in Sigs, OnBlock(sig) \/ OnLoop(sig)
  PROVE  WInv' /\ TInv'
<1>1. PICK callback : InBody(callback)
  BY DEF OnBlock, OnLoop
<1>2. PICK ty \in {"block", "loop"}, off \in {INVALID, Len(istream) + 1} :
        /\ label_stack' = Append(label_stack,
                            NewLabel(ty, sig, Len(type_stack), off, INVALID))
        /\ ty = "loop" => off = Len(istream) + 1
        /\ ty # "loop" => off = INVALID
  BY DEF OnBlock, OnLoop, push_label, NewLabel, get_istream_offset
<1>3. UNCHANGED <<istream, type_stack, typing, depth_fixups, unchecked, inFunctionVars>>
  BY DEF OnBlock, OnLoop
<1> DEFINE l == NewLabel(ty, sig, Len(type_stack), off, INVALID)
<1>4. /\ current_func # 0 /\ label_stack \in Seq(Labels) /\ decls_left = 0
      /\ type_stack \in Seq(Types \cup {ANY}) /\ Len(type_stack) \in Nat
      /\ Body /\ Above(type_stack) /\ Typed(type_stack)
  BY <1>1, InBodyFacts DEF StackTypes
<1>5. istream \in Seq(Cells) /\ Len(istream) \in Nat /\ off \in Nat /\ INVALID \in Nat
  BY DEF FInv, INVALID
<1>6. /\ l \in Labels /\ l.label_type = ty /\ l.offset = off
      /\ l.type_stack_limit = Len(type_stack)
  <2>1. ty \in {"func", "block", "loop", "if", "else"}
    OBVIOUS
  <2>2. QED
    BY <1>4, <1>5, <2>1 DEF NewLabel, Labels
<1>7. label_stack' = Append(label_stack, l)
  BY <1>2
<1> HIDE DEF l
<1>8. Prefix(type_stack', type_stack, top_label.type_stack_limit)
  <2>1. top_label.type_stack_limit \in Nat
    BY <1>4, TopLimit
  <2>2. top_label.type_stack_limit <= Len(type_stack)
    BY <1>4, TopAbove
  <2>3. QED
    BY <1>3, <2>1, <2>2 DEF Prefix
<1>9. Opens(l)
  BY <1>2, <1>3, <1>4, <1>6, <1>7, <1>8 DEF Opens
<1>10. PICK N \in Nat : N = Len(label_stack)
  BY <1>4
<1>11. /\ Len(label_stack') = N + 1 /\ label_stack'[N + 1] = l
       /\ OldLabels(N)
       /\ Below(N + 1)' = type_stack'
       /\ PromisesKept
       /\ LocalsBelow' /\ CurrentLast'
  BY <1>1, <1>9, <1>10, OpenFacts
<1>12. UNCHANGED <<istream, typing>>
  BY <1>3
<1>13. /\ istream' \in Seq(Cells) /\ Len(istream') = Len(istream)
       /\ Grows(istream, istream') /\ Extends
       /\ CellsOK(Len(istream) + 1) /\ FlowsFrom(Len(istream) + 1)
       /\ PatchesKept
  BY <1>12, Nothing
<1>14. NextTypes' = NextTypes /\ NextTypes = type_stack
  BY <1>3, <1>4 DEF NextTypes, inFunctionVars
<1>15. Continues
  BY <1>5, <1>13, <1>14 DEF Continues
<1>16. Progresses
  BY <1>1, <1>3 DEF Progresses, WInv, inFunctionVars, InBody
<1>17. WInv'
  BY <1>11, <1>13, <1>16, StepShaped
<1>18. UNCHANGED func_offset
  BY <1>3 DEF inFunctionVars
<1>19. ReachesKept /\ SameKept /\ InKept
  BY <1>5, <1>13, <1>15, <1>18, ReachesStays
<1>20. LoopsKept
  <2>1. SUFFICES ASSUME NEW d \in 1 .. N + 1, label_stack'[d].label_type = "loop"
                 PROVE  \/ /\ d \in 1 .. N
                           /\ label_stack[d].label_type = "loop"
                           /\ label_stack'[d].offset = label_stack[d].offset
                           /\ Below(d)' = Below(d)
                        \/ LoopEntered(d)'
    BY <1>10, <1>11 DEF LoopsKept
  <2>2. CASE d \in 1 .. N
    BY <1>11, <2>1, <2>2 DEF OldLabels
  <2>3. CASE d = N + 1
    <3>1. PICK t, T : t = label_stack'[d].offset /\ T = Below(d)'
      OBVIOUS
    <3>2. t = Len(istream) + 1 /\ T = type_stack
      BY <1>2, <1>3, <1>6, <1>11, <2>1, <2>3, <3>1
    <3>3. At(t, T)'
      <4>1. Leads(istream', t)
        BY <1>5, <1>13, <3>2 DEF Leads
      <4>2. TypesAt(t)' = T
        BY <1>5, <1>13, <1>14, <3>2 DEF TypesAt
      <4>3. QED
        BY <4>1, <4>2 DEF At
    <3>4. QED
      BY <3>1, <3>3 DEF LoopEntered
  <2>4. QED
    BY <2>2, <2>3
<1>21. EntriesKept
  BY <1>18 DEF EntriesKept
<1>22. FlowKept
  BY <1>11, <1>13, <1>19, <1>20, <1>21 DEF FlowKept
<1>23. TInv'
  BY <1>3, <1>13, <1>15, <1>22, StepTyped
<1>24. QED
  BY <1>17, <1>23

\* Patching only changes offsets.
LEMMA PatchedFields ==
  ASSUME NEW code \in Seq(Cells), NEW S, NEW off \in Nat,
         NEW i \in 1 .. Len(code)
  PROVE  Patched(code, S, off)[i].b = code[i].b
<1>1. code[i] \in Cells /\ i \in DOMAIN code
  BY ElementFacts
<1>2. QED
  BY <1>1 DEF Patched, Cells

\* Patching nothing.
LEMMA PatchedNone ==
  ASSUME NEW code \in Seq(Cells), NEW off
  PROVE  Patched(code, {}, off) = code
BY DEF Patched

\* The cells in S are patched and cells emitted.
Emitted(S, off, cells, types) ==
  /\ istream' \in Seq(Cells) /\ Len(istream') = Len(istream) + Len(cells)
  /\ typing' \in Seq(Seq(Types \cup {ANY})) /\ Len(typing') = Len(istream')
  /\ \A c \in 1 .. Len(istream) :
       /\ istream'[c].op = istream[c].op
       /\ istream'[c].a = istream[c].a
       /\ istream'[c].b = istream[c].b
       /\ istream'[c].target = IF c \in S THEN off ELSE istream[c].target
       /\ typing'[c] = typing[c]
  /\ \A k \in 1 .. Len(cells) : /\ istream'[Len(istream) + k] = cells[k]
                                /\ typing'[Len(istream) + k] = types[k]

\* Patching offsets and appending cells is an emission.
LEMMA PatchEmits ==
  ASSUME FInv, WInv, NEW S, NEW off \in Nat,
         NEW cells \in Seq(Cells), NEW types \in Seq(Seq(Types \cup {ANY})),
         Len(types) = Len(cells),
         istream' = Patched(istream, S, off) \o cells,
         typing' = typing \o types
  PROVE  Emitted(S, off, cells, types)
<1>1. /\ istream \in Seq(Cells) /\ Len(istream) \in Nat
      /\ typing \in Seq(Seq(Types \cup {ANY})) /\ Len(typing) = Len(istream)
  BY DEF FInv, WInv
<1>2. PICK code : code = Patched(istream, S, off)
  OBVIOUS
<1>3. /\ Patched(istream, S, off) \in Seq(Cells)
      /\ Len(Patched(istream, S, off)) = Len(istream)
      /\ \A i \in 1 .. Len(istream) :
           /\ Patched(istream, S, off)[i].op = istream[i].op
           /\ Patched(istream, S, off)[i].a = istream[i].a
           /\ Patched(istream, S, off)[i].b = istream[i].b
           /\ Patched(istream, S, off)[i].target =
                IF i \in S THEN off ELSE istream[i].target
  BY <1>1, PatchedFacts, PatchedFields
<1>4. /\ code \in Seq(Cells) /\ Len(code) = Len(istream)
      /\ \A i \in 1 .. Len(istream) :
           /\ code[i].op = istream[i].op
           /\ code[i].a = istream[i].a
           /\ code[i].b = istream[i].b
           /\ code[i].target = IF i \in S THEN off ELSE istream[i].target
  BY <1>2, <1>3
<1>5. code \in Seq(Cells)
  BY <1>4
<1>6. /\ code \o cells \in Seq(Cells)
      /\ Len(code \o cells) = Len(code) + Len(cells)
      /\ \A i \in 1 .. Len(code) : (code \o cells)[i] = code[i]
      /\ \A i \in 1 .. Len(cells) : (code \o cells)[Len(code) + i] = cells[i]
  BY <1>5, ConcatFacts
<1>7. typing \in Seq(Seq(Types \cup {ANY}))
  BY <1>1
<1>8. /\ typing \o types \in Seq(Seq(Types \cup {ANY}))
      /\ Len(typing \o types) = Len(typing) + Len(types)
      /\ \A i \in 1 .. Len(typing) : (typing \o types)[i] = typing[i]
      /\ \A i \in 1 .. Len(types) : (typing \o types)[Len(typing) + i] = types[i]
  BY <1>7, ConcatFacts
<1>9. istream' = code \o cells
  BY <1>2
<1>10. /\ istream' \in Seq(Cells) /\ Len(istream') = Len(istream) + Len(cells)
       /\ \A i \in 1 .. Len(istream) : istream'[i] = code[i]
       /\ \A i \in 1 .. Len(cells) : istream'[Len(istream) + i] = cells[i]
  BY <1>4, <1>6, <1>9
<1>11. /\ typing' \in Seq(Seq(Types \cup {ANY})) /\ Len(typing') = Len(istream) + Len(cells)
       /\ \A i \in 1 .. Len(istream) : typing'[i] = typing[i]
       /\ \A i \in 1 .. Len(cells) : typing'[Len(istream) + i] = types[i]
  BY <1>1, <1>8
<1>12. QED
  BY ZenonT(30), <1>4, <1>10, <1>11 DEF Emitted

\* That keeps what was emitted.
LEMMA EmittedKeeps ==
  ASSUME FInv, NEW S, NEW off, NEW cells, NEW types, Emitted(S, off, cells, types),
         \A c \in S : c \in 1 .. Len(istream) => istream[c].op \in BranchOps,
         Len(cells) \in Nat,
         Len(cells) > 0 => cells[1].op \notin {"data", "entry"}
  PROVE  Grows(istream, istream') /\ Extends /\ Len(istream) \in Nat
<1>1. Len(istream) \in Nat
  BY DEF FInv
<1>2. Len(istream) <= Len(istream')
  BY <1>1 DEF Emitted
<1>3. Extends
  BY <1>2 DEF Extends, Emitted
<1>4. Grows(istream, istream')
  <2>1. ASSUME Len(istream) < Len(istream')
        PROVE  istream'[Len(istream) + 1].op \notin {"data", "entry"}
    <3>1. Len(cells) > 0 /\ 1 \in 1 .. Len(cells)
      BY <1>1, <2>1 DEF Emitted
    <3>2. istream'[Len(istream) + 1] = cells[1]
      BY <3>1 DEF Emitted
    <3>3. QED
      BY <3>1, <3>2
  <2>2. QED
    BY <1>2, <2>1 DEF Grows, Emitted
<1>5. QED
  BY <1>1, <1>3, <1>4

\* What is recorded for the open labels are emitted cells.
LEMMA RecordedBelow ==
  ASSUME FInv, NEW d \in 1 .. Len(label_stack), NEW c,
         c \in Fix(depth_fixups, d) \cup Arm(label_stack, d)
  PROVE  c \in 1 .. Len(istream) /\ Dangles(istream[c])
BY DEF FInv, Owned

\* An if emits the branch around its true arm.
LEMMA IfTyped ==
  ASSUME IInv, FInv, WInv, TInv, NEW sig \in Sigs, OnIf(sig)
  PROVE  WInv' /\ TInv'
<1>1. InBody("if")
  BY DEF OnIf
<1>2. CASE ~pop_and_check(type_stack, <<"i32">>)
  <2>1. Stop("rejected")
    BY <1>2 DEF OnIf, Checked, Reject
  <2>2. Failed
    BY <2>1 DEF Failed
  <2>3. QED
    BY <2>2, FailedTyped
<1>3. CASE pop_and_check(type_stack, <<"i32">>)
  <2> DEFINE cell == Cell("br_unless", INVALID, 0, 0)
             l == NewLabel("if", sig, Len(type_stack'), INVALID, Len(istream) + 1)
  <2>1. /\ type_stack' = pop_types(type_stack, 1)
        /\ istream' = istream \o <<cell>> /\ typing' = typing \o <<type_stack>>
        /\ label_stack' = Append(label_stack, l)
    BY <1>3 DEF OnIf, Checked, push_label, emit, NewLabel, get_istream_offset
  <2>2. UNCHANGED <<inFunctionVars, depth_fixups, unchecked>>
    BY <1>3 DEF OnIf, Checked
  <2>3. /\ current_func # 0 /\ label_stack \in Seq(Labels) /\ decls_left = 0
        /\ type_stack \in Seq(Types \cup {ANY}) /\ Len(type_stack) \in Nat
        /\ Body /\ Above(type_stack) /\ Typed(type_stack) /\ StackTypes
    BY <1>1, InBodyFacts DEF StackTypes
  <2>4. istream \in Seq(Cells) /\ Len(istream) \in Nat /\ INVALID \in Nat
    BY DEF FInv, INVALID
  <2>5. check_type_stack_limit(type_stack, 1) /\ 1 \in Nat
    BY <1>3, PopOneLimit
  <2>6. /\ pop_types(type_stack, 1) \in Seq(Types \cup {ANY})
        /\ Prefix(pop_types(type_stack, 1), type_stack, top_label.type_stack_limit)
        /\ Live(type_stack) => /\ 1 <= Len(type_stack)
                               /\ pop_types(type_stack, 1) = Popped(type_stack, 1)
    BY <2>3, <2>5, PopFacts
  <2>7. /\ type_stack' \in Seq(Types \cup {ANY}) /\ Len(type_stack') \in Nat
        /\ Prefix(type_stack', type_stack, top_label.type_stack_limit)
        /\ Live(type_stack) => /\ 1 <= Len(type_stack)
                               /\ type_stack' = Popped(type_stack, 1)
    BY <2>1, <2>6
  <2>8. /\ l \in Labels /\ l.label_type = "if" /\ l.offset = INVALID
        /\ l.type_stack_limit = Len(type_stack')
        /\ l.fixup_offset = Len(istream) + 1
    <3>1. Len(istream) + 1 \in Nat
      BY <2>4
    <3>2. QED
      BY <2>4, <2>7, <3>1 DEF NewLabel, Labels
  <2>9. /\ cell \in Cells /\ cell.op = "br_unless" /\ cell.target = INVALID
    <3>1. "br_unless" \in CellOps /\ 0 \in Nat
      BY DEF CellOps, BranchOps
    <3>2. QED
      BY <2>4, <3>1, CellFacts
  <2> HIDE DEF l, cell
  <2>10. Opens(l)
    BY <2>1, <2>2, <2>7, <2>8 DEF Opens
  <2>11. PICK N \in Nat : N = Len(label_stack)
    BY <2>3
  <2>12. /\ Len(label_stack') = N + 1 /\ label_stack'[N + 1] = l
         /\ OldLabels(N)
         /\ Fix(depth_fixups', N + 1) = {}
         /\ Below(N + 1)' = type_stack'
         /\ PromisesKept
         /\ LocalsBelow' /\ CurrentLast'
    BY <1>1, <2>10, <2>11, OpenFacts
  <2>13. Emitted({}, 0, <<cell>>, <<type_stack>>)
    <3>1. /\ <<cell>> \in Seq(Cells) /\ Len(<<cell>>) = 1
          /\ <<type_stack>> \in Seq(Seq(Types \cup {ANY})) /\ Len(<<type_stack>>) = 1
      BY <2>3, <2>9, OneFacts
    <3>2. istream' = Patched(istream, {}, 0) \o <<cell>>
      BY <2>1, <2>4, PatchedNone
    <3>3. 0 \in Nat
      OBVIOUS
    <3>4. QED
      BY <2>1, <3>1, <3>2, <3>3, PatchEmits
  <2>14. /\ Len(<<cell>>) = 1 /\ <<cell>>[1] = cell /\ <<type_stack>>[1] = type_stack
    OBVIOUS
  <2>15. Grows(istream, istream') /\ Extends
    <3>1. /\ Len(<<cell>>) \in Nat
          /\ Len(<<cell>>) > 0 => <<cell>>[1].op \notin {"data", "entry"}
          /\ \A c \in {} : c \in 1 .. Len(istream) => istream[c].op \in BranchOps
      BY <2>9, <2>14
    <3>2. QED
      BY <2>13, <3>1, EmittedKeeps
  <2>16. PICK n \in Nat : n = Len(istream) + 1
    BY <2>4
  <2>17. /\ istream' \in Seq(Cells) /\ Len(istream') = n
         /\ istream'[n] = cell /\ typing'[n] = type_stack
         /\ typing' \in Seq(Seq(Types \cup {ANY})) /\ Len(typing') = Len(istream')
         /\ \A c \in 1 .. Len(istream) : istream'[c].target = istream[c].target
    BY <2>13, <2>14, <2>16 DEF Emitted
  <2>18. \A c \in 1 .. Len(istream') : c >= Len(istream) + 1 => c = n
    BY <2>4, <2>16, <2>17
  <2>19. CellsOK(Len(istream) + 1)
    <3>1. CellOK(istream', n)
      BY <2>9, <2>17 DEF CellOK
    <3>2. QED
      BY <2>18, <3>1 DEF CellsOK
  <2>20. Continues
    <3>1. NextTypes = type_stack
      BY <2>3 DEF NextTypes
    <3>2. Len(istream) < Len(istream')
      BY <2>4, <2>16, <2>17
    <3>3. QED
      BY <2>16, <2>17, <3>1, <3>2 DEF Continues
  <2>21. Progresses
    BY <1>1, <2>2, <2>17 DEF Progresses, WInv, inFunctionVars, InBody
  <2>22. WInv'
    BY <2>12, <2>15, <2>17, <2>19, <2>21, StepShaped
  <2>23. UNCHANGED func_offset
    BY <2>2 DEF inFunctionVars
  <2>24. ReachesKept /\ SameKept /\ InKept
    BY <2>4, <2>15, <2>17, <2>20, <2>23, ReachesStays
  <2>25. LoopsKept
    <3>1. SUFFICES ASSUME NEW d \in 1 .. N + 1, label_stack'[d].label_type = "loop"
                   PROVE  /\ d \in 1 .. N
                          /\ label_stack[d].label_type = "loop"
                          /\ label_stack'[d].offset = label_stack[d].offset
                          /\ Below(d)' = Below(d)
      BY <2>11, <2>12 DEF LoopsKept
    <3>2. d # N + 1
      BY <2>8, <2>12, <3>1
    <3>3. d \in 1 .. N
      BY <3>2
    <3>4. QED
      BY <2>12, <3>1, <3>3 DEF OldLabels
  <2>26. EntriesKept
    BY <2>23 DEF EntriesKept
  <2>27. PatchesKept
    BY <2>17 DEF PatchesKept
  <2>28. ASSUME Live(type_stack), NEW T, T = Popped(type_stack, 1)
         PROVE  Goes(n, T)'
    <3>1. T = type_stack'
      BY <2>7, <2>28
    <3>2. n \notin 1 .. Len(istream)
      BY <2>4, <2>16
    <3>3. ASSUME NEW d \in 1 .. N + 1
          PROVE  /\ n \in Fix(depth_fixups', d) => T = LabelTypes(d)'
                 /\ n \in Arm(label_stack', d) => T = ArmTypes(d)'
      <4>1. CASE d \in 1 .. N
        <5>1. Fix(depth_fixups', d) = Fix(depth_fixups, d)
          BY <2>2
        <5>2. Arm(label_stack', d) = Arm(label_stack, d)
          BY <2>12, <4>1 DEF OldLabels, Arm
        <5>3. n \notin Fix(depth_fixups, d) \cup Arm(label_stack, d)
          BY <2>11, <3>2, <4>1, RecordedBelow
        <5>4. QED
          BY <5>1, <5>2, <5>3
      <4>2. CASE d = N + 1
        <5>1. ArmTypes(d)' = Below(d)'
          BY <2>8, <2>12, <4>2 DEF ArmTypes
        <5>2. QED
          BY <2>12, <3>1, <4>2, <5>1
      <4>3. QED
        BY <4>1, <4>2
    <3>4. Pending(n, T)'
      BY <2>12, <3>3 DEF Pending
    <3>5. istream'[n].target = INVALID
      BY <2>9, <2>17
    <3>6. QED
      BY <3>4, <3>5 DEF Goes
  <2>29. Flow(n)'
    <3>1. PICK ts, T, t : ts = type_stack /\ T = Popped(ts, 1) /\ t = n + 1
      OBVIOUS
    <3>2. typing'[n] = ts /\ istream'[n].op = "br_unless"
      BY <2>9, <2>17, <3>1
    <3>3. ASSUME Live(ts) PROVE Len(ts) >= 1 /\ Goes(n, T)' /\ Reaches(n, t, T)'
      <4>1. Len(ts) >= 1 /\ T = type_stack'
        BY <2>7, <3>1, <3>3
      <4>2. Goes(n, T)'
        BY <2>28, <3>1, <3>3
      <4>3. n = Len(istream') /\ Len(istream') > Len(istream)
        BY <2>4, <2>16, <2>17
      <4>4. UNCHANGED inFunctionVars
        BY <2>2
      <4>5. \A u, U : u = n + 1 /\ U = type_stack' => Reaches(n, u, U)'
        BY <1>1, <2>17, <4>3, <4>4, NextReached
      <4>6. QED
        BY <3>1, <4>1, <4>2, <4>5
    <3>4. "br_unless" \notin Straight
      BY StraightNames
    <3>5. QED
      BY <3>1, <3>2, <3>3, <3>4 DEF Flow
  <2>30. FlowsFrom(Len(istream) + 1)
    BY <2>18, <2>29 DEF FlowsFrom
  <2>31. FlowKept
    BY <2>12, <2>24, <2>25, <2>26, <2>27, <2>30 DEF FlowKept
  <2>32. TInv'
    BY <2>2, <2>15, <2>17, <2>20, <2>31, StepTyped
  <2>33. QED
    BY <2>22, <2>32
<1>4. QED
  BY <1>2, <1>3

\* At the end of a label its results are all there is above its limit.
LEMMA ExactTypes ==
  ASSUME Body, NEW ts, Typed(ts), Live(ts), NEW sig \in Sigs,
         check_n_types(ts, sig), check_type_stack_limit_exact(ts, Len(sig))
  PROVE  ts = Truncate(ts, top_label.type_stack_limit) \o sig
<1>1. /\ Len(sig) \in {0, 1} /\ Len(ts) \in Nat
      /\ top_label.type_stack_limit \in Nat
      /\ Len(sig) <= Len(ts) - top_label.type_stack_limit
      /\ LastN(ts, Len(sig)) = sig
  BY CheckedTypes
<1>2. /\ StackTypes /\ ts \in Seq(Types \cup {ANY})
  BY DEF Body, Typed
<1>3. ~top_type_is_any(ts) /\ ts \in Seq(Types)
  BY <1>2, TopLive, LiveTypes
<1>4. PICK lim, k \in Nat : lim = top_label.type_stack_limit /\ k = Len(sig)
  BY <1>1
<1>5. Len(ts) = lim + k
  BY <1>1, <1>3, <1>4 DEF check_type_stack_limit_exact
<1>6. lim \in 0 .. Len(ts) /\ k \in 0 .. Len(ts)
  BY <1>4, <1>5
<1>7. PICK low : low = Truncate(ts, lim)
  OBVIOUS
<1>8. /\ Truncate(ts, lim) \in Seq(Types) /\ Len(Truncate(ts, lim)) = lim
      /\ \A i \in 1 .. lim : Truncate(ts, lim)[i] = ts[i]
  BY <1>3, <1>6, TruncateFacts
<1>9. low \in Seq(Types) /\ Len(low) = lim /\ \A i \in 1 .. lim : low[i] = ts[i]
  BY <1>7, <1>8
<1>10. /\ LastN(ts, k) \in Seq(Types) /\ Len(LastN(ts, k)) = k
       /\ \A i \in 1 .. k : LastN(ts, k)[i] = ts[Len(ts) - k + i]
  BY <1>3, <1>6, LastNFacts
<1>11. LastN(ts, k) = sig
  BY <1>1, <1>4
<1>12. sig \in Seq(Types) /\ \A i \in 1 .. k : sig[i] = ts[lim + i]
  BY <1>4, <1>5, <1>10, <1>11
<1>13. low \in Seq(Types) /\ sig \in Seq(Types)
  BY <1>9, <1>12
<1>14. /\ low \o sig \in Seq(Types) /\ Len(low \o sig) = Len(low) + Len(sig)
       /\ \A i \in 1 .. Len(low) : (low \o sig)[i] = low[i]
       /\ \A i \in 1 .. Len(sig) : (low \o sig)[Len(low) + i] = sig[i]
  BY <1>13, ConcatFacts
<1>15. PICK all : all = low \o sig
  OBVIOUS
<1>16. /\ all \in Seq(Types) /\ Len(all) = lim + k
       /\ \A i \in 1 .. lim : all[i] = ts[i]
       /\ \A i \in 1 .. k : all[lim + i] = ts[lim + i]
  BY <1>4, <1>9, <1>12, <1>14, <1>15
<1>17. \A i \in 1 .. lim + k : all[i] = ts[i]
  <2>1. SUFFICES ASSUME NEW i \in 1 .. lim + k PROVE all[i] = ts[i]
    OBVIOUS
  <2>2. CASE i <= lim
    BY <1>4, <1>16, <2>2
  <2>3. CASE i > lim
    <3>1. PICK j \in 1 .. k : i = lim + j
      <4>1. i - lim \in 1 .. k /\ i = lim + (i - lim)
        BY <1>4, <2>3
      <4>2. QED
        BY <4>1
    <3>2. QED
      BY <1>16, <3>1
  <2>4. QED
    BY <1>4, <2>2, <2>3
<1>18. all = ts
  BY <1>3, <1>5, <1>16, <1>17, SeqEqual
<1>19. QED
  BY <1>4, <1>7, <1>15, <1>18

\* Locals stay below what a callback leaves on the stack.
LEMMA LocalsKept ==
  ASSUME IInv, WInv, NEW callback, InBody(callback), UNCHANGED inFunctionVars,
         Prefix(type_stack', type_stack, top_label.type_stack_limit)
  PROVE  LocalsBelow'
<1>1. /\ Body /\ StackTypes /\ current_func # 0 /\ decls_left = 0
      /\ top_label.type_stack_limit \in Nat
      /\ Len(param_and_local_types) <= top_label.type_stack_limit
  BY InBodyFacts, TopLimit
<1>2. LocalsBelow
  BY <1>1 DEF WInv
<1>3. ASSUME NEW i \in 1 .. Len(param_and_local_types)
      PROVE  type_stack'[i] = param_and_local_types[i]
  <2>1. i \in 1 .. top_label.type_stack_limit
    BY <1>1 DEF StackTypes
  <2>2. type_stack'[i] = type_stack[i]
    BY <2>1 DEF Prefix
  <2>3. QED
    BY <1>2, <2>2 DEF LocalsBelow
<1>4. decls_left' = 0
  BY <1>1 DEF inFunctionVars
<1>5. QED
  BY <1>2, <1>3, <1>4 DEF LocalsBelow, inFunctionVars

\* The stack cut off at the limit of the top label.
LEMMA ResetFacts ==
  ASSUME Body, NEW ts, Typed(ts), Above(ts), NEW low,
         low = reset_type_stack_to_limit(ts)
  PROVE  /\ low \in Seq(Types \cup {ANY})
         /\ Len(low) = top_label.type_stack_limit
         /\ Prefix(low, ts, top_label.type_stack_limit)
         /\ Truncate(low, top_label.type_stack_limit) = low
<1>1. /\ ts \in Seq(Types \cup {ANY}) /\ top_label.type_stack_limit \in Nat
      /\ top_label.type_stack_limit <= Len(ts)
  BY TopLimit, TopAbove DEF Typed
<1>2. PICK n \in 0 .. Len(ts) : n = top_label.type_stack_limit
  BY <1>1
<1>3. /\ Truncate(ts, n) \in Seq(Types \cup {ANY}) /\ Len(Truncate(ts, n)) = n
      /\ \A i \in 1 .. n : Truncate(ts, n)[i] = ts[i]
  BY <1>1, TruncateFacts
<1>4. low = Truncate(ts, n)
  BY <1>2 DEF reset_type_stack_to_limit
<1>5. /\ low \in Seq(Types \cup {ANY}) /\ Len(low) = n
      /\ \A i \in 1 .. n : low[i] = ts[i]
  BY <1>3, <1>4
<1>6. Truncate(low, Len(low)) = low
  BY <1>5, TruncateAll
<1>7. Prefix(low, ts, n)
  BY <1>1, <1>2, <1>5 DEF Prefix
<1>8. QED
  BY <1>2, <1>5, <1>6, <1>7

\* The label an else leaves in place of that of the if.
LEMMA ElseLabelsKept ==
  ASSUME NEW ls \in Seq(Labels), NEW m \in Nat, m = Len(ls), m > 0,
         NEW off \in Nat
  PROVE  /\ ElseLabels(ls, m, off)[m].sig = ls[m].sig
         /\ ElseLabels(ls, m, off)[m].type_stack_limit = ls[m].type_stack_limit
<1> DEFINE new == ElseLabels(ls, m, off)
           l == [ls[m] EXCEPT !.label_type = "else", !.fixup_offset = off]
<1>1. m \in 1 .. m /\ ls[m] \in Labels
  OBVIOUS
<1>2. new = [ls EXCEPT ![m] = l]
  BY DEF ElseLabels
<1>3. l.sig = ls[m].sig /\ l.type_stack_limit = ls[m].type_stack_limit
  BY <1>1 DEF Labels
<1> HIDE DEF l, new
<1>4. new[m] = l
  BY <1>1, <1>2
<1>5. new[m].sig = ls[m].sig /\ new[m].type_stack_limit = ls[m].type_stack_limit
  BY <1>3, <1>4
<1>6. QED
  BY <1>5 DEF new

\* An else: N is the number of labels, of which the top one is that of the if.
Elses(N, arm) ==
  /\ N \in Nat /\ N > 0 /\ N = Len(label_stack)
  /\ label_stack[N].label_type = "if" /\ label_stack[N].fixup_offset = arm
  /\ Len(label_stack') = N
  /\ \A d \in 1 .. N - 1 : label_stack'[d] = label_stack[d]
  /\ label_stack'[N].label_type = "else"
  /\ label_stack'[N].fixup_offset = Len(istream) + 1
  /\ label_stack'[N].offset = label_stack[N].offset
  /\ label_stack'[N].sig = label_stack[N].sig
  /\ label_stack'[N].type_stack_limit = label_stack[N].type_stack_limit
  /\ type_stack' = reset_type_stack_to_limit(type_stack)
  /\ UNCHANGED <<depth_fixups, inFunctionVars>>

\* The true arm ends where the else arm starts, on the same stack.
LEMMA ElseFacts ==
  ASSUME IInv, FInv, WInv, NEW callback, InBody(callback),
         NEW N, NEW arm, Elses(N, arm)
  PROVE  /\ OldLabels(N - 1)
         /\ type_stack' \in Seq(Types \cup {ANY})
         /\ Below(N)' = type_stack' /\ Below(N) = type_stack'
         /\ LabelTypes(N)' = LabelTypes(N)
         /\ ArmTypes(N)' = LabelTypes(N) /\ ArmTypes(N) = type_stack'
         /\ Arm(label_stack', N) = {Len(istream) + 1}
         /\ Arm(label_stack, N) = {arm}
         /\ PromisesKept
         /\ LocalsBelow' /\ CurrentLast'
         /\ \A d \in 1 .. N : d = N \/ d \in 1 .. N - 1
<1>1. /\ Body /\ label_stack \in Seq(Labels) /\ StackTypes
      /\ Typed(type_stack) /\ Above(type_stack)
      /\ current_func # 0 /\ top_label = label_stack[N]
      /\ top_label.type_stack_limit \in Nat
      /\ N \in Nat /\ N > 0 /\ N = Len(label_stack)
  BY InBodyFacts, TopLimit DEF StackTypes, Elses, top_label
<1>2. PICK low : low = reset_type_stack_to_limit(type_stack)
  OBVIOUS
<1>3. /\ low \in Seq(Types \cup {ANY})
      /\ Prefix(low, type_stack, top_label.type_stack_limit)
      /\ Truncate(low, top_label.type_stack_limit) = low
  BY <1>1, <1>2, ResetFacts
<1>4. type_stack' = low
  BY <1>2 DEF Elses
<1>5. OldLabels(N - 1)
  <2>1. N - 1 \in 0 .. Len(label_stack)
    BY <1>1
  <2>2. \A d \in 1 .. N - 1 : label_stack'[d] = label_stack[d]
    BY DEF Elses
  <2>3. QED
    BY <1>1, <1>3, <1>4, <2>1, <2>2, OldLabelsKept
<1>6. Below(N) = low
  BY <1>1, <1>2 DEF Below, reset_type_stack_to_limit
<1>7. Below(N)' = low
  <2>1. label_stack'[N].type_stack_limit = top_label.type_stack_limit
    BY <1>1 DEF Elses
  <2>2. QED
    BY <1>3, <1>4, <2>1 DEF Below
<1>8. LabelTypes(N)' = LabelTypes(N)
  BY <1>6, <1>7 DEF LabelTypes, Elses
<1>9. ArmTypes(N)' = LabelTypes(N) /\ ArmTypes(N) = low
  BY <1>6, <1>8 DEF ArmTypes, Elses
<1>10. Arm(label_stack', N) = {Len(istream) + 1} /\ Arm(label_stack, N) = {arm}
  BY DEF Arm, Elses
<1>11. \A d \in 1 .. N : d = N \/ d \in 1 .. N - 1
  BY <1>1
<1>12. ASSUME NEW d \in 1 .. N - 1 PROVE Arm(label_stack', d) = Arm(label_stack, d)
  BY DEF Arm, Elses
<1>13. Len(istream) \in Nat /\ func_offset[current_func] \in 1 .. Len(istream) + 1
  BY <1>1, StartFacts DEF FInv
<1>14. PromisesKept
  <2>1. SUFFICES ASSUME NEW d \in 1 .. N, NEW c \in 1 .. Len(istream)
                 PROVE  /\ c \in Fix(depth_fixups, d) => LabelTypes(d)' = LabelTypes(d)
                        /\ c \in Arm(label_stack', d) =>
                             /\ c \in Arm(label_stack, d)
                             /\ ArmTypes(d)' = ArmTypes(d)
    BY DEF PromisesKept, Elses
  <2>2. CASE d = N
    <3>1. c # Len(istream) + 1
      BY <1>13
    <3>2. QED
      BY <1>8, <1>10, <2>2, <3>1
  <2>3. CASE d \in 1 .. N - 1
    BY <1>5, <1>12, <2>3 DEF OldLabels
  <2>4. QED
    BY <1>11, <2>2, <2>3
<1>15. LocalsBelow'
  <2>1. UNCHANGED inFunctionVars
    BY DEF Elses
  <2>2. QED
    BY <1>3, <1>4, <2>1, LocalsKept
<1>16. CurrentLast'
  <2>1. CurrentLast
    BY <1>1 DEF WInv
  <2>2. PICK start : start = func_offset[current_func]
    OBVIOUS
  <2>3. label_stack'[1].sig = label_stack[1].sig
    <3>1. 1 \in 1 .. N
      BY <1>1
    <3>2. CASE 1 = N
      BY <3>2 DEF Elses
    <3>3. CASE 1 \in 1 .. N - 1
      BY <3>3 DEF Elses
    <3>4. QED
      BY <1>11, <3>1, <3>2, <3>3
  <2>4. /\ start # INVALID /\ start = func_offset'[current_func']
        /\ \A f \in DOMAIN Funcs : f # current_func' => func_offset'[f] < start
        /\ label_stack'[1].sig = Funcs[current_func'].results
    BY <2>1, <2>2, <2>3 DEF CurrentLast, Elses, inFunctionVars
  <2>5. ASSUME NEW d \in 1 .. N
        PROVE  /\ \A c \in Fix(depth_fixups, d) \cup Arm(label_stack', d) : start <= c
               /\ label_stack'[d].label_type = "loop" => start <= label_stack'[d].offset
               /\ label_stack'[d].label_type # "loop" => label_stack'[d].offset = INVALID
    <3>1. /\ \A c \in Fix(depth_fixups, d) \cup Arm(label_stack, d) : start <= c
          /\ label_stack[d].label_type = "loop" => start <= label_stack[d].offset
          /\ label_stack[d].label_type # "loop" => label_stack[d].offset = INVALID
      BY <1>1, <2>1, <2>2 DEF CurrentLast
    <3>2. CASE d = N
      <4>1. start <= Len(istream) + 1
        BY <1>13, <2>2
      <4>2. QED
        BY <1>10, <3>1, <3>2, <4>1 DEF Elses
    <3>3. CASE d \in 1 .. N - 1
      BY <1>12, <3>1, <3>3 DEF Elses
    <3>4. QED
      BY <1>11, <3>2, <3>3
  <2>6. QED
    BY <2>4, <2>5 DEF CurrentLast, Elses
<1>17. QED
  BY <1>3, <1>4, <1>5, <1>6, <1>7, <1>8, <1>9, <1>10, <1>11, <1>14, <1>15, <1>16

\* What is recorded for a label and the end of the istream are in the function.
LEMMA RecordedSame ==
  ASSUME IInv, FInv, WInv, current_func # 0, UNCHANGED func_offset,
         NEW d \in 1 .. Len(label_stack),
         NEW c, c \in Fix(depth_fixups, d) \cup Arm(label_stack, d),
         NEW t \in Nat, Len(istream) < t
  PROVE  Same(c, t)'
<1>1. PICK start : start = func_offset[current_func]
  OBVIOUS
<1>2. start <= c
  BY <1>1 DEF WInv, CurrentLast
<1>3. c \in 1 .. Len(istream) /\ Len(istream) \in Nat
  BY RecordedBelow DEF FInv
<1>4. /\ start \in 1 .. Len(istream) + 1
      /\ \A x, y \in Nat : start <= x /\ start <= y => Same(x, y)
  BY <1>1, StartFacts
<1>5. start <= t /\ c \in Nat
  BY <1>3, <1>4
<1>6. Same(c, t)
  BY <1>2, <1>4, <1>5
<1>7. QED
  BY <1>6 DEF Same

\* The branch to the end of the if carries its results.
LEMMA ElseGoes ==
  ASSUME IInv, FInv, WInv, NEW callback, InBody(callback),
         NEW N, NEW arm, Elses(N, arm), NEW n \in Nat, n = Len(istream) + 1,
         istream'[n].target = INVALID,
         NEW ts, ts = type_stack, Live(ts),
         check_n_types(ts, top_label.sig),
         check_type_stack_limit_exact(ts, Len(top_label.sig))
  PROVE  Goes(n, ts)'
<1>1. /\ OldLabels(N - 1)
      /\ ArmTypes(N)' = LabelTypes(N)
      /\ \A d \in 1 .. N : d = N \/ d \in 1 .. N - 1
  BY ElseFacts
<1>2. /\ Body /\ Typed(type_stack) /\ top_label.sig \in Sigs
      /\ top_label = label_stack[N]
      /\ N \in Nat /\ N = Len(label_stack)
  BY InBodyFacts, TopLimit DEF Elses, top_label
<1>3. PICK sig \in Sigs : sig = top_label.sig
  BY <1>2
<1>4. /\ check_n_types(ts, sig) /\ check_type_stack_limit_exact(ts, Len(sig))
      /\ Typed(ts)
  BY <1>2, <1>3
<1>5. ts = Truncate(ts, top_label.type_stack_limit) \o sig
  BY <1>2, <1>4, ExactTypes
<1>6. ts = LabelTypes(N)
  BY <1>2, <1>3, <1>5 DEF LabelTypes, Below
<1>7. n \notin 1 .. Len(istream)
  BY DEF FInv
<1>8. ASSUME NEW d \in 1 .. N
      PROVE  /\ n \in Fix(depth_fixups', d) => ts = LabelTypes(d)'
             /\ n \in Arm(label_stack', d) => ts = ArmTypes(d)'
  <2>1. n \notin Fix(depth_fixups, d) \cup Arm(label_stack, d)
    BY <1>2, <1>7, RecordedBelow
  <2>2. depth_fixups' = depth_fixups
    BY DEF Elses
  <2>3. CASE d = N
    BY <1>1, <1>6, <2>1, <2>2, <2>3
  <2>4. CASE d \in 1 .. N - 1
    <3>1. Arm(label_stack', d) = Arm(label_stack, d)
      BY <1>1, <2>4 DEF OldLabels, Arm
    <3>2. QED
      BY <2>1, <2>2, <3>1
  <2>5. QED
    BY <1>1, <2>3, <2>4
<1>9. Pending(n, ts)'
  BY <1>8 DEF Pending, Elses
<1>10. QED
  BY <1>9 DEF Goes

\* An else emits a branch around the arm it starts.
LEMMA ElseTyped ==
  ASSUME IInv, FInv, WInv, TInv, OnElse
  PROVE  WInv' /\ TInv'
<1> DEFINE ok == /\ top_label.label_type = "if"
                 /\ check_n_types(type_stack, top_label.sig)
<1>1. InBody("else")
  BY DEF OnElse
<1>2. CASE ~ok
  <2>1. Stop("rejected")
    BY <1>2 DEF OnElse, Checked, Reject
  <2>2. Failed
    BY <2>1 DEF Failed
  <2>3. QED
    BY <2>2, FailedTyped
<1>3. CASE ok
  <2> DEFINE cell == Cell("br", INVALID, 0, 0)
             arm == top_label.fixup_offset
             N == Len(label_stack)
             n == Len(istream) + 1
             exact == check_type_stack_limit_exact(type_stack, Len(top_label.sig))
  <2>1. /\ istream' = Patched(istream, {arm}, n + 1) \o <<cell>>
        /\ typing' = Append(typing, type_stack)
        /\ label_stack' = ElseLabels(label_stack, N, n)
        /\ type_stack' = reset_type_stack_to_limit(type_stack)
    BY <1>3 DEF OnElse, Checked, ElseLabels, get_istream_offset
  <2>2. /\ unchecked' = unchecked \cup (IF exact THEN {} ELSE {"else"})
        /\ UNCHANGED <<inFunctionVars, depth_fixups>>
    BY <1>3 DEF OnElse, Checked
  <2>3. /\ current_func # 0 /\ label_stack \in Seq(Labels) /\ decls_left = 0
        /\ type_stack \in Seq(Types \cup {ANY}) /\ Len(type_stack) \in Nat
        /\ Body /\ StackTypes /\ N \in Nat /\ N > 0 /\ top_label = label_stack[N]
    BY <1>1, InBodyFacts DEF StackTypes, Body, LabelsOrdered, top_label
  <2>4. /\ istream \in Seq(Cells) /\ Len(istream) \in Nat /\ INVALID \in Nat
        /\ n \in Nat /\ n + 1 \in Nat
    BY DEF FInv, INVALID
  <2>5. /\ cell \in Cells /\ cell.op = "br" /\ cell.target = INVALID
    <3>1. "br" \in CellOps /\ 0 \in Nat
      BY DEF CellOps, BranchOps
    <3>2. QED
      BY <2>4, <3>1, CellFacts
  <2>6. top_label.label_type = "if" /\ check_n_types(type_stack, top_label.sig)
    BY <1>3
  <2> HIDE DEF cell, ok
  <2>7. Elses(N, arm)
    <3>1. /\ Len(ElseLabels(label_stack, N, n)) = N
          /\ \A d \in 1 .. N - 1 : ElseLabels(label_stack, N, n)[d] = label_stack[d]
          /\ ElseLabels(label_stack, N, n)[N].label_type = "else"
          /\ ElseLabels(label_stack, N, n)[N].fixup_offset = n
          /\ ElseLabels(label_stack, N, n)[N].offset = label_stack[N].offset
      BY <2>3, <2>4, ElseLabelsFacts
    <3>2. /\ ElseLabels(label_stack, N, n)[N].sig = label_stack[N].sig
          /\ ElseLabels(label_stack, N, n)[N].type_stack_limit
               = label_stack[N].type_stack_limit
      BY <2>3, <2>4, ElseLabelsKept
    <3>3. QED
      BY <2>1, <2>2, <2>3, <2>6, <3>1, <3>2 DEF Elses
  <2>8. /\ OldLabels(N - 1)
        /\ type_stack' \in Seq(Types \cup {ANY})
        /\ ArmTypes(N) = type_stack'
        /\ Arm(label_stack, N) = {arm}
        /\ PromisesKept
        /\ LocalsBelow' /\ CurrentLast'
        /\ \A d \in 1 .. N : d = N \/ d \in 1 .. N - 1
    BY <1>1, <2>7, ElseFacts
  <2>9. typing' = typing \o <<type_stack>>
    BY <2>1, <2>3 DEF WInv
  <2>10. Emitted({arm}, n + 1, <<cell>>, <<type_stack>>)
    <3>1. /\ <<cell>> \in Seq(Cells) /\ Len(<<cell>>) = 1
          /\ <<type_stack>> \in Seq(Seq(Types \cup {ANY})) /\ Len(<<type_stack>>) = 1
      BY <2>3, <2>5, OneFacts
    <3>2. QED
      BY <2>1, <2>4, <2>9, <3>1, PatchEmits
  <2>11. /\ Len(<<cell>>) = 1 /\ <<cell>>[1] = cell /\ <<type_stack>>[1] = type_stack
    OBVIOUS
  <2>12. N \in 1 .. Len(label_stack) /\ arm \in Fix(depth_fixups, N) \cup Arm(label_stack, N)
    BY <2>3, <2>8
  <2>13. arm \in 1 .. Len(istream) /\ Dangles(istream[arm])
    BY <2>12, RecordedBelow
  <2>14. Grows(istream, istream') /\ Extends
    <3>1. /\ Len(<<cell>>) \in Nat
          /\ Len(<<cell>>) > 0 => <<cell>>[1].op \notin {"data", "entry"}
          /\ \A c \in {arm} : c \in 1 .. Len(istream) => istream[c].op \in BranchOps
      BY <2>5, <2>11, <2>13 DEF Dangles, LabelOps, BranchOps
    <3>2. QED
      BY <2>10, <3>1, EmittedKeeps
  <2>15. /\ istream' \in Seq(Cells) /\ Len(istream') = n
         /\ istream'[n] = cell /\ typing'[n] = type_stack
         /\ typing' \in Seq(Seq(Types \cup {ANY})) /\ Len(typing') = Len(istream')
         /\ \A c \in 1 .. Len(istream) : istream'[c].target =
              IF c \in {arm} THEN n + 1 ELSE istream[c].target
    BY <2>10, <2>11 DEF Emitted
  <2> HIDE DEF n, arm, N
  <2>16. \A c \in 1 .. Len(istream') : c >= Len(istream) + 1 => c = n
    BY <2>4, <2>15 DEF n
  <2>17. CellsOK(Len(istream) + 1)
    <3>1. CellOK(istream', n)
      BY <2>5, <2>15 DEF CellOK
    <3>2. QED
      BY <2>16, <3>1 DEF CellsOK
  <2>18. Continues
    <3>1. NextTypes = type_stack
      BY <2>3 DEF NextTypes
    <3>2. Len(istream) < Len(istream')
      BY <2>4, <2>15 DEF n
    <3>3. QED
      BY <2>15, <3>1, <3>2 DEF Continues, n
  <2>19. Progresses
    BY <1>1, <2>2, <2>15 DEF Progresses, WInv, inFunctionVars, InBody, Conditions
  <2>20. WInv'
    BY <2>8, <2>14, <2>15, <2>17, <2>19, StepShaped
  <2>21. UNCHANGED func_offset
    BY <2>2 DEF inFunctionVars
  <2>22. ReachesKept /\ SameKept /\ InKept
    BY <2>4, <2>14, <2>15, <2>18, <2>21, ReachesStays
  <2>23. LoopsKept
    <3>1. SUFFICES ASSUME NEW d \in 1 .. N, label_stack'[d].label_type = "loop"
                   PROVE  /\ d \in 1 .. Len(label_stack)
                          /\ label_stack[d].label_type = "loop"
                          /\ label_stack'[d].offset = label_stack[d].offset
                          /\ Below(d)' = Below(d)
      BY <2>7 DEF LoopsKept, Elses
    <3>2. d # N /\ d \in 1 .. Len(label_stack)
      BY <2>7, <3>1 DEF Elses
    <3>3. QED
      BY <2>8, <3>1, <3>2 DEF OldLabels
  <2>24. EntriesKept
    BY <2>21 DEF EntriesKept
  <2>25. PatchesKept
    <3>1. SUFFICES ASSUME NEW c \in 1 .. Len(istream), c = arm,
                          NEW t, NEW T
                   PROVE  /\ istream[c].target = INVALID
                          /\ istream'[c].target # INVALID
                          /\ t = istream'[c].target /\ Live(T) /\ Pending(c, T) =>
                               Reaches(c, t, T)'
      BY <2>15 DEF PatchesKept
    <3>2. istream[c].target = INVALID /\ istream'[c].target = n + 1
      BY <2>13, <2>15, <3>1 DEF Dangles
    <3>3. n + 1 # INVALID
      BY <2>4 DEF n, INVALID
    <3> SUFFICES ASSUME t = istream'[c].target, Pending(c, T)
                 PROVE  Reaches(c, t, T)'
      BY <3>2, <3>3
    <3>4. T = type_stack'
      BY <2>8, <2>12, <3>1 DEF Pending
    <3>5. t = n + 1
      BY <3>1, <3>2
    <3>6. At(t, T)'
      <4>1. Leads(istream', t)
        BY <2>4, <2>15, <3>5 DEF Leads
      <4>2. NextTypes' = type_stack'
        BY <2>2, <2>3 DEF NextTypes, inFunctionVars
      <4>3. TypesAt(t)' = T
        BY <2>4, <2>15, <3>4, <3>5, <4>2 DEF TypesAt
      <4>4. QED
        BY <4>1, <4>2, <4>3 DEF At
    <3>7. Same(c, t)'
      <4>1. t \in Nat /\ Len(istream) < t
        BY <2>4, <3>5 DEF n
      <4>2. QED
        BY <2>3, <2>12, <2>21, <3>1, <4>1, RecordedSame
    <3>8. QED
      BY <3>2, <3>3, <3>6, <3>7 DEF Reaches
  <2>26. ASSUME unchecked' \subseteq {"host"}, NEW k, k = n PROVE Flow(k)'
    <3>1. exact
      BY <2>2, <2>26
    <3>2. PICK ts : ts = type_stack
      OBVIOUS
    <3>3. typing'[k] = ts /\ istream'[k].op = "br" /\ istream'[k].target = INVALID
      BY <2>5, <2>15, <2>26, <3>2
    <3>4. ASSUME Live(ts) PROVE Goes(k, ts)'
      <4>1. /\ k \in Nat /\ k = Len(istream) + 1
            /\ check_n_types(ts, top_label.sig)
            /\ check_type_stack_limit_exact(ts, Len(top_label.sig))
        BY <2>4, <2>6, <2>26, <3>1, <3>2 DEF n
      <4>2. QED
        BY <1>1, <2>7, <3>2, <3>3, <3>4, <4>1, ElseGoes
    <3>5. "br" \notin Straight
      BY StraightNames
    <3>6. QED
      BY <3>3, <3>4, <3>5 DEF Flow
  <2>27. ASSUME unchecked' \subseteq {"host"} PROVE FlowKept
    <3>1. FlowsFrom(Len(istream) + 1)
      BY <2>16, <2>26, <2>27 DEF FlowsFrom
    <3>2. QED
      BY <2>8, <2>22, <2>23, <2>24, <2>25, <3>1 DEF FlowKept
  <2>28. TInv'
    <3>1. unchecked \subseteq unchecked'
      BY <2>2
    <3>2. QED
      BY <2>14, <2>15, <2>18, <2>27, <3>1, StepTyped
  <2>29. QED
    BY <2>20, <2>28
<1>4. QED
  BY <1>2, <1>3

\* The top label is closed, the ones below it keep their fixups.
Closes(N) ==
  /\ N \in Nat /\ N > 0 /\ N = Len(label_stack)
  /\ Len(label_stack') = N - 1
  /\ \A d \in 1 .. N - 1 : /\ label_stack'[d] = label_stack[d]
                           /\ Fix(depth_fixups', d) = Fix(depth_fixups, d)

\* PatchAndPopLabel closes the innermost label.
LEMMA PopCloses ==
  ASSUME FInv, label_stack \in Seq(Labels), NEW N \in Nat, N > 0,
         N = Len(label_stack), PatchAndPopLabel
  PROVE  Closes(N)
<1>1. PICK m \in Nat : m = N - 1 /\ m \in 0 .. Len(label_stack)
  OBVIOUS
<1>2. /\ label_stack' = Truncate(label_stack, m)
      /\ depth_fixups' = IF Len(depth_fixups) > m
                         THEN Truncate(depth_fixups, m) ELSE depth_fixups
  BY <1>1 DEF PatchAndPopLabel
<1>3. /\ Len(Truncate(label_stack, m)) = m
      /\ \A d \in 1 .. m : Truncate(label_stack, m)[d] = label_stack[d]
  BY <1>1, TruncateFacts
<1>4. \A d \in 1 .. m : Fix(depth_fixups', d) = Fix(depth_fixups, d)
  <2>1. depth_fixups \in Seq(SUBSET Nat) /\ Len(depth_fixups) \in Nat
    BY DEF FInv, Owned
  <2>2. CASE Len(depth_fixups) > m
    <3>1. m \in 0 .. Len(depth_fixups)
      BY <2>1, <2>2
    <3>2. /\ Len(Truncate(depth_fixups, m)) = m
          /\ \A d \in 1 .. m : Truncate(depth_fixups, m)[d] = depth_fixups[d]
      BY <2>1, <3>1, TruncateFacts
    <3>3. /\ Len(depth_fixups') = m
          /\ \A d \in 1 .. m : depth_fixups'[d] = depth_fixups[d]
      BY <1>2, <2>2, <3>2
    <3>4. QED
      BY <2>1, <2>2, <3>3 DEF Fix
  <2>3. CASE ~(Len(depth_fixups) > m)
    BY <1>2, <2>3
  <2>4. QED
    BY <2>2, <2>3
<1>5. QED
  BY <1>1, <1>2, <1>3, <1>4 DEF Closes

\* What the labels that stay open keep.
LEMMA CloseFacts ==
  ASSUME IInv, FInv, WInv, NEW callback, InBody(callback), UNCHANGED inFunctionVars,
         NEW N, Closes(N), N > 1, type_stack' \in Seq(Types \cup {ANY}),
         Prefix(type_stack', type_stack, top_label.type_stack_limit)
  PROVE  OldLabels(N - 1) /\ PromisesKept /\ LocalsBelow' /\ CurrentLast'
<1>1. /\ Body /\ current_func # 0 /\ N \in Nat /\ N = Len(label_stack)
      /\ \A d \in 1 .. N - 1 : d \in 1 .. Len(label_stack)
  BY InBodyFacts DEF Closes
<1>2. OldLabels(N - 1)
  <2>1. N - 1 \in 0 .. Len(label_stack)
    BY <1>1
  <2>2. \A d \in 1 .. N - 1 : label_stack'[d] = label_stack[d]
    BY DEF Closes
  <2>3. QED
    BY <1>1, <2>1, <2>2, OldLabelsKept
<1>3. ASSUME NEW d \in 1 .. N - 1
      PROVE  /\ Arm(label_stack', d) = Arm(label_stack, d)
             /\ Fix(depth_fixups', d) = Fix(depth_fixups, d)
  BY DEF Arm, Closes
<1>4. PromisesKept
  <2>1. Len(label_stack') = N - 1
    BY DEF Closes
  <2>2. QED
    BY <1>1, <1>2, <1>3, <2>1 DEF PromisesKept, OldLabels
<1>5. LocalsBelow'
  BY LocalsKept
<1>6. CurrentLast'
  <2>1. CurrentLast
    BY <1>1 DEF WInv
  <2>2. PICK start : start = func_offset[current_func]
    OBVIOUS
  <2>3. label_stack'[1] = label_stack[1]
    <3>1. 1 \in 1 .. N - 1
      BY <1>1
    <3>2. QED
      BY <3>1 DEF Closes
  <2>4. /\ start # INVALID /\ start = func_offset'[current_func']
        /\ \A f \in DOMAIN Funcs : f # current_func' => func_offset'[f] < start
        /\ label_stack'[1].sig = Funcs[current_func'].results
    BY <2>1, <2>2, <2>3 DEF CurrentLast, inFunctionVars
  <2>5. ASSUME NEW d \in 1 .. N - 1
        PROVE  /\ \A c \in Fix(depth_fixups', d) \cup Arm(label_stack', d) : start <= c
               /\ label_stack'[d].label_type = "loop" => start <= label_stack'[d].offset
               /\ label_stack'[d].label_type # "loop" => label_stack'[d].offset = INVALID
    <3>1. label_stack'[d] = label_stack[d]
      BY DEF Closes
    <3>2. d \in 1 .. Len(label_stack)
      BY <1>1
    <3>3. QED
      BY <1>3, <2>1, <2>2, <3>1, <3>2 DEF CurrentLast
  <2>6. QED
    BY <2>4, <2>5 DEF CurrentLast, Closes
<1>7. QED
  BY <1>2, <1>4, <1>5, <1>6

\* The types a label leaves: its own on the stack below it.
LEMMA EndTypes ==
  ASSUME IInv, NEW callback, InBody(callback), EndChecks(type_stack, top_label),
         type_stack' = push_types(reset_type_stack_to_limit(type_stack), top_label.sig),
         NEW N, N = Len(label_stack)
  PROVE  /\ type_stack' \in Seq(Types \cup {ANY})
         /\ Prefix(type_stack', type_stack, top_label.type_stack_limit)
         /\ Live(type_stack) => type_stack' = type_stack
         /\ Live(LabelTypes(N)) => type_stack' = LabelTypes(N)
         /\ Live(Below(N)) /\ top_label.sig = <<>> => type_stack' = Below(N)
<1>1. /\ Body /\ StackTypes /\ Typed(type_stack) /\ Above(type_stack)
      /\ top_label = label_stack[N] /\ top_label.sig \in Sigs
      /\ top_label.type_stack_limit \in Nat
  BY InBodyFacts, TopLimit DEF top_label
<1>2. PICK low, sig : low = reset_type_stack_to_limit(type_stack) /\ sig = top_label.sig
  OBVIOUS
<1>3. /\ low \in Seq(Types \cup {ANY}) /\ Len(low) = top_label.type_stack_limit
      /\ Prefix(low, type_stack, top_label.type_stack_limit)
  BY <1>1, <1>2, ResetFacts
<1>4. Typed(low)
  BY <1>1, <1>2, ResetTyped
<1>5. sig \in Sigs /\ sig \in Seq(Types)
  BY <1>1, <1>2, SigFacts
<1>6. PICK lim \in Nat : lim = top_label.type_stack_limit
  BY <1>1
<1>7. Prefix(low, type_stack, lim) /\ lim <= Len(low)
  BY <1>3, <1>6
<1>8. /\ push_types(low, sig) \in Seq(Types \cup {ANY})
      /\ Prefix(push_types(low, sig), type_stack, lim)
      /\ Live(low) => /\ push_types(low, sig) = low \o sig
                      /\ push_types(low, sig) \in Seq(Types)
  BY <1>1, <1>4, <1>5, <1>7, PushFacts
<1>9. type_stack' = push_types(low, sig)
  BY <1>2
<1>10. /\ type_stack' \in Seq(Types \cup {ANY})
       /\ Prefix(type_stack', type_stack, top_label.type_stack_limit)
       /\ Live(low) => type_stack' = low \o sig
  BY <1>6, <1>8, <1>9
<1>11. Below(N) = low /\ LabelTypes(N) = low \o sig
  BY <1>1, <1>2 DEF Below, LabelTypes, reset_type_stack_to_limit
<1>12. ASSUME Live(type_stack) PROVE type_stack' = type_stack
  <2>1. check_n_types(type_stack, sig) /\ check_type_stack_limit_exact(type_stack, Len(sig))
    BY <1>2 DEF EndChecks
  <2>2. type_stack = Truncate(type_stack, top_label.type_stack_limit) \o sig
    BY <1>1, <1>5, <1>12, <2>1, ExactTypes
  <2>3. Live(low)
    <3>1. \A i \in 1 .. Len(low) : i \in 1 .. Len(type_stack) /\ low[i] = type_stack[i]
      BY <1>1, <1>3, <1>6 DEF Prefix, StackTypes
    <3>2. QED
      BY <1>12, <3>1 DEF Live
  <2>4. QED
    BY <1>2, <1>10, <2>2, <2>3 DEF reset_type_stack_to_limit
<1>13. ASSUME Live(low \o sig) PROVE Live(low)
  <2>1. /\ sig \in Seq(Types \cup {ANY}) /\ low \in Seq(Types \cup {ANY})
    BY <1>3, <1>5
  <2>2. /\ Len(low \o sig) = Len(low) + Len(sig)
        /\ \A i \in 1 .. Len(low) : (low \o sig)[i] = low[i]
    BY <2>1, ConcatFacts
  <2>3. \A i \in 1 .. Len(low) : i \in 1 .. Len(low \o sig)
    BY <2>1, <2>2
  <2>4. QED
    BY <1>13, <2>2, <2>3 DEF Live
<1>14. ASSUME Live(low), sig = <<>> PROVE type_stack' = low
  <2>1. low \o <<>> = low
    BY <1>3
  <2>2. QED
    BY <1>10, <1>14, <2>1
<1>15. QED
  BY <1>2, <1>10, <1>11, <1>12, <1>13, <1>14

\* The end of a block, loop or if.
LEMMA EndTyped ==
  ASSUME IInv, FInv, WInv, TInv, OnEnd
  PROVE  WInv' /\ TInv'
<1> DEFINE ok == /\ top_label.label_type # "func"
                 /\ EndChecks(type_stack, top_label)
<1>1. InBody("end")
  BY DEF OnEnd
<1>2. CASE ~ok
  <2>1. Stop("rejected")
    BY <1>2 DEF OnEnd, Checked, Reject
  <2>2. Failed
    BY <2>1 DEF Failed
  <2>3. QED
    BY <2>2, FailedTyped
<1>3. CASE ok
  <2> DEFINE N == Len(label_stack)
             S == TopFixups \cup Arm(label_stack, N)
             n == Len(istream) + 1
             lost == IF top_label.label_type = "if" /\ top_label.sig # <<>>
                     THEN {"if"} ELSE {}
  <2>1. /\ istream' = Patched(istream, S, n)
        /\ type_stack' = push_types(reset_type_stack_to_limit(type_stack),
                                    top_label.sig)
        /\ PatchAndPopLabel
    BY <1>3 DEF OnEnd, Checked, get_istream_offset, Arm, top_label
  <2>2. /\ unchecked' = unchecked \cup lost
        /\ UNCHANGED <<inFunctionVars, typing>>
    BY <1>3 DEF OnEnd, Checked
  <2>3. /\ current_func # 0 /\ label_stack \in Seq(Labels) /\ decls_left = 0
        /\ Body /\ StackTypes /\ N \in Nat /\ N > 0 /\ top_label = label_stack[N]
    BY <1>1, InBodyFacts DEF StackTypes, Body, LabelsOrdered, top_label
  <2>4. /\ istream \in Seq(Cells) /\ Len(istream) \in Nat /\ n \in Nat
        /\ typing \in Seq(Seq(Types \cup {ANY})) /\ Len(typing) = Len(istream)
    BY DEF FInv, WInv
  <2>5. EndChecks(type_stack, top_label) /\ top_label.label_type # "func"
    BY <1>3
  <2> HIDE DEF ok
  <2>6. N > 1
    <3>1. FunctionLabel
      BY <2>3 DEF IInv
    <3>2. QED
      BY <2>3, <2>5, <3>1 DEF FunctionLabel
  <2>7. S = Fix(depth_fixups, N) \cup Arm(label_stack, N)
    BY <2>3, TopFixupsFacts
  <2>8. Closes(N)
    BY <2>1, <2>3, PopCloses
  <2> HIDE DEF S, n, N, lost
  <2>9. /\ type_stack' \in Seq(Types \cup {ANY})
        /\ Prefix(type_stack', type_stack, top_label.type_stack_limit)
        /\ Live(type_stack) => type_stack' = type_stack
        /\ Live(LabelTypes(N)) => type_stack' = LabelTypes(N)
        /\ Live(Below(N)) /\ top_label.sig = <<>> => type_stack' = Below(N)
    <3>1. N = Len(label_stack)
      BY DEF N
    <3>2. QED
      BY <1>1, <2>1, <2>5, <3>1, EndTypes
  <2>10. OldLabels(N - 1) /\ PromisesKept /\ LocalsBelow' /\ CurrentLast'
    BY <1>1, <2>2, <2>6, <2>8, <2>9, CloseFacts
  <2>11. Emitted(S, n, <<>>, <<>>)
    <3>1. /\ Patched(istream, S, n) \in Seq(Cells)
          /\ Patched(istream, S, n) \o <<>> = Patched(istream, S, n)
      <4>1. Patched(istream, S, n) \in Seq(Cells)
        BY <2>4, PatchedFacts
      <4>2. PICK code \in Seq(Cells) : code = Patched(istream, S, n)
        BY <4>1
      <4>3. code \o <<>> = code
        OBVIOUS
      <4>4. QED
        BY <4>1, <4>2, <4>3
    <3>2. istream' = Patched(istream, S, n) \o <<>>
      BY <2>1, <3>1
    <3>3. typing' = typing \o <<>>
      BY <2>2, <2>4
    <3>4. /\ <<>> \in Seq(Cells) /\ <<>> \in Seq(Seq(Types \cup {ANY}))
          /\ Len(<<>>) = Len(<<>>)
      OBVIOUS
    <3>5. QED
      BY <2>4, <3>2, <3>3, <3>4, PatchEmits
  <2>12. Len(<<>>) = 0
    OBVIOUS
  <2>13. N \in 1 .. Len(label_stack)
    BY <2>3 DEF N
  <2>14. \A c \in S : c \in 1 .. Len(istream) /\ Dangles(istream[c])
    BY <2>7, <2>13, RecordedBelow
  <2>15. Grows(istream, istream') /\ Extends
    <3>1. /\ Len(<<>>) \in Nat
          /\ Len(<<>>) > 0 => <<>>[1].op \notin {"data", "entry"}
          /\ \A c \in S : c \in 1 .. Len(istream) => istream[c].op \in BranchOps
      BY <2>12, <2>14 DEF Dangles, LabelOps, BranchOps
    <3>2. QED
      BY <2>11, <3>1, EmittedKeeps
  <2>16. /\ istream' \in Seq(Cells) /\ Len(istream') = Len(istream)
         /\ typing' \in Seq(Seq(Types \cup {ANY})) /\ Len(typing') = Len(istream')
         /\ \A c \in 1 .. Len(istream) : istream'[c].target =
              IF c \in S THEN n ELSE istream[c].target
    BY <2>4, <2>11, <2>12 DEF Emitted
  <2>17. \A c \in 1 .. Len(istream') : ~(c >= Len(istream) + 1)
    BY <2>4, <2>16
  <2>18. CellsOK(Len(istream) + 1) /\ FlowsFrom(Len(istream) + 1)
    BY <2>17 DEF CellsOK, FlowsFrom
  <2>19. NextTypes = type_stack /\ NextTypes' = type_stack'
    BY <2>2, <2>3 DEF NextTypes, inFunctionVars
  <2>20. Continues
    BY <2>4, <2>9, <2>16, <2>19 DEF Continues
  <2>21. Progresses
    BY <1>1, <2>2, <2>16 DEF Progresses, WInv, inFunctionVars, InBody, Conditions, lost
  <2>22. WInv'
    BY <2>10, <2>15, <2>16, <2>18, <2>21, StepShaped
  <2>23. UNCHANGED func_offset
    BY <2>2 DEF inFunctionVars
  <2>24. ReachesKept /\ SameKept /\ InKept
    BY <2>4, <2>15, <2>16, <2>20, <2>23, ReachesStays
  <2>25. LoopsKept
    <3>1. Len(label_stack') = N - 1 /\ \A d \in 1 .. N - 1 : d \in 1 .. Len(label_stack)
      BY <2>8 DEF Closes
    <3>2. QED
      BY <2>10, <3>1 DEF LoopsKept, OldLabels
  <2>26. EntriesKept
    BY <2>23 DEF EntriesKept
  <2>27. ASSUME unchecked' \subseteq {"host"} PROVE PatchesKept
    <3>1. top_label.label_type = "if" => top_label.sig = <<>>
      BY <2>2, <2>27 DEF lost
    <3>2. SUFFICES ASSUME NEW c \in 1 .. Len(istream), c \in S, NEW t, NEW T
                   PROVE  /\ istream[c].target = INVALID
                          /\ istream'[c].target # INVALID
                          /\ t = istream'[c].target /\ Live(T) /\ Pending(c, T) =>
                               Reaches(c, t, T)'
      BY <2>16 DEF PatchesKept
    <3>3. istream[c].target = INVALID /\ istream'[c].target = n /\ n # INVALID
      BY <2>4, <2>14, <2>16, <3>2 DEF Dangles, n, INVALID
    <3> SUFFICES ASSUME t = istream'[c].target, Live(T), Pending(c, T)
                 PROVE  Reaches(c, t, T)'
      BY <3>3
    <3>4. T = type_stack'
      <4>1. CASE c \in Fix(depth_fixups, N)
        <5>1. T = LabelTypes(N)
          BY <2>13, <4>1 DEF Pending
        <5>2. QED
          BY <2>9, <5>1
      <4>2. CASE c \in Arm(label_stack, N)
        <5>1. T = ArmTypes(N)
          BY <2>13, <4>2 DEF Pending
        <5>2. CASE top_label.label_type = "if"
          <6>1. T = Below(N)
            BY <2>3, <5>1, <5>2 DEF ArmTypes, N
          <6>2. QED
            BY <2>9, <3>1, <5>2, <6>1
        <5>3. CASE top_label.label_type # "if"
          <6>1. T = LabelTypes(N)
            BY <2>3, <5>1, <5>3 DEF ArmTypes, N
          <6>2. QED
            BY <2>9, <6>1
        <5>4. QED
          BY <5>2, <5>3
      <4>3. QED
        BY <2>7, <3>2, <4>1, <4>2
    <3>5. t = Len(istream) + 1
      BY <3>3 DEF n
    <3>6. At(t, T)'
      <4>1. Leads(istream', t)
        BY <2>4, <2>16, <3>5 DEF Leads
      <4>2. TypesAt(t)' = T
        BY <2>4, <2>16, <2>19, <3>4, <3>5 DEF TypesAt
      <4>3. QED
        BY <4>1, <4>2 DEF At
    <3>7. Same(c, t)'
      <4>1. t \in Nat /\ Len(istream) < t
        BY <2>4, <3>5
      <4>2. c \in Fix(depth_fixups, N) \cup Arm(label_stack, N)
        BY <2>7, <3>2
      <4>3. QED
        BY <2>3, <2>13, <2>23, <4>1, <4>2, RecordedSame
    <3>8. QED
      BY <3>6, <3>7 DEF Reaches
  <2>28. ASSUME unchecked' \subseteq {"host"} PROVE FlowKept
    BY <2>10, <2>18, <2>24, <2>25, <2>26, <2>27, <2>28 DEF FlowKept
  <2>29. TInv'
    <3>1. unchecked \subseteq unchecked'
      BY <2>2
    <3>2. QED
      BY <2>15, <2>16, <2>20, <2>28, <3>1, StepTyped
  <2>30. QED
    BY <2>22, <2>29
<1>4. QED
  BY <1>2, <1>3

\* Inside a function body, between any two callbacks.
Inside == status = "reading" /\ current_func # 0 /\ decls_left = 0

\* What holds of the type stack and the labels inside a body.
LEMMA InsideFacts ==
  ASSUME IInv, Inside
  PROVE  /\ Body /\ StackTypes /\ Typed(type_stack) /\ Above(type_stack)
         /\ label_stack \in Seq(Labels) /\ Len(label_stack) > 0
         /\ Len(label_stack) \in Nat
BY DEF IInv, Inside, Body, StackTypes, LabelsOrdered

\* A function returns what is left at its end, which are the types promised to
\* the branches that leave it.
LEMMA ImplicitTypes ==
  ASSUME IInv, Inside, Len(label_stack) = 1, EndChecks(type_stack, top_label),
         NEW ts, ts = ImplicitReturnTypes, NEW sig, sig = top_label.sig
  PROVE  /\ ts = LabelTypes(1) /\ ts \in Seq(Types) /\ ~top_type_is_any(ts)
         /\ Live(type_stack) => ts = type_stack
         /\ sig \in Sigs /\ Len(sig) \in {0, 1} /\ Len(sig) <= Len(ts)
         /\ LastN(ts, Len(sig)) = sig
<1>1. /\ Body /\ StackTypes /\ Typed(type_stack) /\ Above(type_stack)
      /\ top_label = label_stack[1] /\ sig \in Sigs
      /\ type_stack \in Seq(Types \cup {ANY})
  BY InsideFacts, TopLimit DEF top_label, StackTypes
<1>2. PICK low : low = reset_type_stack_to_limit(type_stack)
  OBVIOUS
<1>3. PICK lim \in Nat : lim = top_label.type_stack_limit
  BY <1>1, TopLimit
<1>4. /\ low \in Seq(Types \cup {ANY}) /\ Len(low) = lim
      /\ Prefix(low, type_stack, lim)
  BY <1>1, <1>2, <1>3, ResetFacts
<1>5. lim = Len(param_and_local_types)
  BY <1>1, <1>3 DEF Body, FunctionLimit
<1>6. Live(low)
  <2>1. \A i \in 1 .. lim : low[i] = type_stack[i] /\ type_stack[i] # ANY
    BY <1>1, <1>4, <1>5 DEF Prefix, Typed
  <2>2. QED
    BY <1>4, <2>1 DEF Live
<1>7. low \in Seq(Types) /\ sig \in Seq(Types) /\ Len(sig) \in {0, 1}
  <2>1. Len(sig) \in 0 .. 1
    BY <1>1, SigFacts
  <2>2. low \in Seq(Types)
    BY <1>4, <1>6, LiveTypes
  <2>3. sig \in Seq(Types)
    BY <1>1, SigFacts
  <2>4. QED
    BY <2>1, <2>2, <2>3
<1>8. PICK all : all = low \o sig
  OBVIOUS
<1>9. low \in Seq(Types) /\ sig \in Seq(Types)
  BY <1>7
<1>10. /\ low \o sig \in Seq(Types) /\ Len(low \o sig) = Len(low) + Len(sig)
       /\ \A i \in 1 .. Len(sig) : (low \o sig)[Len(low) + i] = sig[i]
  BY <1>9, ConcatFacts
<1>11. /\ all \in Seq(Types) /\ Len(all) = Len(low) + Len(sig)
       /\ \A i \in 1 .. Len(sig) : all[Len(low) + i] = sig[i]
  BY <1>8, <1>10
<1>12. LabelTypes(1) = all
  BY <1>1, <1>2, <1>8 DEF LabelTypes, Below, reset_type_stack_to_limit
<1>13. Live(type_stack) => type_stack = all
  <2>1. check_n_types(type_stack, sig) /\ check_type_stack_limit_exact(type_stack, Len(sig))
    BY DEF EndChecks
  <2>2. Live(type_stack) =>
          type_stack = Truncate(type_stack, top_label.type_stack_limit) \o sig
    BY <1>1, <2>1, ExactTypes
  <2>3. QED
    BY <1>2, <1>8, <2>2 DEF reset_type_stack_to_limit
<1>14. Live(type_stack) <=> ~top_type_is_any(type_stack)
  BY <1>1, TopLive
<1>15. ts = all
  BY <1>2, <1>8, <1>13, <1>14 DEF ImplicitReturnTypes
<1>16. ~top_type_is_any(ts)
  <2>1. ASSUME top_type_is_any(ts) PROVE FALSE
    <3>1. Len(ts) \in Nat /\ Len(param_and_local_types) \in Nat
      BY <1>1, <1>11, <1>15 DEF StackTypes
    <3>2. Len(ts) \in 1 .. Len(ts) /\ ts[Len(ts)] = ANY
      BY <2>1, <3>1 DEF top_type_is_any
    <3>3. ts[Len(ts)] \in Types
      BY <1>11, <1>15, <3>2, ElementFacts
    <3>4. QED
      BY <3>2, <3>3, AnyIsNoType
  <2>2. QED
    BY <2>1
<1>17. PICK a, k \in Nat : a = Len(low) /\ k = Len(sig)
  BY <1>7
<1>18. Len(all) = a + k /\ k \in 0 .. Len(all)
  BY <1>11, <1>17
<1>19. /\ LastN(all, k) \in Seq(Types) /\ Len(LastN(all, k)) = k
       /\ \A i \in 1 .. k : LastN(all, k)[i] = all[Len(all) - k + i]
  BY <1>11, <1>18, LastNFacts
<1>20. PICK last : last = LastN(all, k)
  OBVIOUS
<1>21. /\ last \in Seq(Types) /\ Len(last) = Len(sig)
       /\ \A i \in 1 .. Len(last) : last[i] = sig[i]
  BY <1>11, <1>17, <1>18, <1>19, <1>20
<1>22. last = sig
  BY <1>7, <1>21, SeqEqual
<1>23. LastN(ts, Len(sig)) = sig
  BY <1>15, <1>17, <1>20, <1>22
<1>24. Len(sig) <= Len(ts)
  BY <1>15, <1>17, <1>18
<1>25. ts = LabelTypes(1) /\ ts \in Seq(Types) /\ (Live(type_stack) => ts = type_stack)
  BY <1>11, <1>12, <1>13, <1>15
<1>26. QED
  BY <1>1, <1>7, <1>16, <1>23, <1>24, <1>25

\* The cells at the end of a function: N is 1, S what branches to its label.
Returns(S, drop, keep, ts, sig, cells, types) ==
  /\ KeepTail(cells, types, ts, drop, keep, Cell("return", 0, 0, 0), sig)
  /\ Emitted(S, Len(istream) + 1, cells, types)
  /\ drop \in Nat /\ keep \in {0, 1} /\ drop + keep <= Len(ts)
  /\ ts \in Seq(Types) /\ sig = DropKept(ts, drop, keep) /\ sig \in Sigs
  /\ UNCHANGED func_offset

\* They lead to the caller with the results of the function.
LEMMA ReturnsFlow ==
  ASSUME IInv, FInv, WInv, Inside,
         NEW S, NEW drop, NEW keep, NEW ts, NEW sig, NEW cells, NEW types,
         Returns(S, drop, keep, ts, sig, cells, types),
         sig = Funcs[current_func].results
  PROVE  /\ CellsOK(Len(istream) + 1) /\ FlowsFrom(Len(istream) + 1)
         /\ types[1] = ts /\ Len(cells) \in Nat /\ Len(cells) > 0
         /\ cells[1].op \notin {"data", "entry"}
<1> DEFINE last == Cell("return", 0, 0, 0)
<1>1. KeepTail(cells, types, ts, drop, keep, last, sig) /\ last.op = "return"
  BY CellFields DEF Returns
<1> HIDE DEF last
<1>2. /\ Len(istream) \in Nat /\ istream' \in Seq(Cells)
      /\ Len(istream') = Len(istream) + Len(cells)
      /\ \A k \in 1 .. Len(cells) : /\ istream'[Len(istream) + k] = cells[k]
                                    /\ typing'[Len(istream) + k] = types[k]
  <2>1. Emitted(S, Len(istream) + 1, cells, types)
    BY DEF Returns
  <2>2. QED
    BY <2>1 DEF Emitted, FInv
<1>3. PICK n \in Nat : n = Len(istream)
  BY <1>2
<1>4. /\ drop \in Nat /\ keep \in {0, 1} /\ drop + keep <= Len(ts)
      /\ ts \in Seq(Types) /\ sig = DropKept(ts, drop, keep) /\ sig \in Sigs
      /\ func_offset' = func_offset
  BY DEF Returns
<1>5. ASSUME NEW c \in Nat, n < c, istream'[c] = last, typing'[c] = sig
      PROVE  Flow(c)'
  <2>1. istream'[c].op = "return" /\ "return" \notin Straight
    BY <1>1, <1>5, StraightNames
  <2>2. ASSUME NEW f \in DOMAIN Funcs, In(f, c)'
        PROVE  sig = Funcs[f].results
    <3>1. In(f, c)
      BY <1>4, <2>2 DEF In
    <3>2. func_offset[current_func] \in 1 .. Len(istream) + 1 /\ current_func # 0
      BY StartFacts DEF Inside
    <3>3. func_offset[current_func] <= c
      BY <1>3, <1>5, <3>2
    <3>4. f = current_func
      BY <1>5, <3>1, <3>2, <3>3, StartFacts
    <3>5. QED
      BY <3>4
  <2>3. QED
    BY <1>5, <2>1, <2>2 DEF Flow
<1>6. CASE drop = 0
  <2>1. Len(cells) = 1 /\ cells[1] = last /\ types[1] = sig
    BY <1>1, <1>6 DEF KeepTail
  <2>2. PICK c \in Nat : c = n + 1
    OBVIOUS
  <2>3. /\ istream'[c] = last /\ typing'[c] = sig /\ n < c
        /\ \A k \in 1 .. Len(istream') : k >= Len(istream) + 1 => k = c
    BY <1>2, <1>3, <2>1, <2>2
  <2>4. CellsOK(Len(istream) + 1)
    <3>1. CellOK(istream', c)
      BY <1>1, <2>3 DEF CellOK
    <3>2. QED
      BY <2>3, <3>1 DEF CellsOK
  <2>5. FlowsFrom(Len(istream) + 1)
    BY <1>5, <2>3 DEF FlowsFrom
  <2>6. sig = ts
    <3>1. keep \in 0 .. Len(ts)
      BY <1>4, <1>6
    <3>2. DropKept(ts, 0, keep) = ts
      BY <1>4, <3>1, DropKeptCases
    <3>3. QED
      BY <1>4, <1>6, <3>2
  <2>7. QED
    BY <1>1, <2>1, <2>4, <2>5, <2>6
<1>7. CASE drop # 0
  <2>1. /\ Len(cells) = 2
        /\ cells[2] = last /\ types[2] = sig /\ types[1] = ts
        /\ cells[1] = DropCell(drop, keep)
    BY <1>1, <1>7 DEF KeepTail
  <2>2. PICK b \in Nat : b = n + 1
    OBVIOUS
  <2>3. PICK c \in Nat : c = n + 2
    OBVIOUS
  <2>4. c = b + 1 /\ n < b /\ n < c
    BY <2>2, <2>3
  <2>5. /\ c = Len(istream') /\ istream'[c] = last /\ typing'[c] = sig
        /\ istream'[b] = cells[1] /\ typing'[b] = ts
        /\ \A k \in 1 .. Len(istream') : k >= Len(istream) + 1 => k = b \/ k = c
    BY <1>2, <1>3, <2>1, <2>2, <2>3
  <2>6. cells[1].op \in {"drop", "drop_keep"}
    BY <2>1 DEF Cell, DropCell
  <2>7. CellsOK(Len(istream) + 1)
    <3>1. CellOK(istream', b) /\ CellOK(istream', c)
      BY <1>1, <2>5, <2>6 DEF CellOK
    <3>2. QED
      BY <2>5, <3>1 DEF CellsOK
  <2>8. Flow(b)'
    <3>1. /\ Len(istream) < b /\ b + 1 <= Len(istream')
          /\ istream'[b + 1].op \notin {"data", "entry"}
          /\ typing'[b + 1] = DropKept(ts, drop, keep)
          /\ current_func # 0
      BY <1>1, <1>3, <1>4, <2>4, <2>5 DEF Inside
    <3>2. istream'[b] = DropCell(drop, keep) /\ ts \in Seq(Types \cup {ANY})
      BY <1>4, <2>1, <2>5
    <3>3. QED
      BY <1>2, <1>4, <2>5, <3>1, <3>2, DropFlows
  <2>9. FlowsFrom(Len(istream) + 1)
    BY <1>5, <2>4, <2>5, <2>8 DEF FlowsFrom
  <2>10. QED
    BY <2>1, <2>6, <2>7, <2>9
<1>8. QED
  BY <1>6, <1>7

\* The end of a function body.
LEMMA EndFunctionTyped ==
  ASSUME IInv, FInv, WInv, TInv, EndFunctionBody
  PROVE  WInv' /\ TInv'
<1> DEFINE ok == /\ top_label.label_type = "func"
                 /\ EndChecks(type_stack, top_label)
<1>1. Inside
  BY DEF EndFunctionBody, Inside
<1>2. CASE ~ok
  <2>1. Stop("rejected")
    BY <1>2 DEF EndFunctionBody, Checked, Reject
  <2>2. Failed
    BY <2>1 DEF Failed
  <2>3. QED
    BY <2>2, FailedTyped
<1>3. CASE ok
  <2> DEFINE n == Len(istream) + 1
             S == TopFixups
             P == Patched(istream, S, n)
             R == ReturnCells(ImplicitReturnTypes, Len(top_label.sig))
             last == Cell("return", 0, 0, 0)
             cells == R \o <<last>>
             types == ReturnTyping(ImplicitReturnTypes, Len(top_label.sig))
  <2>1. /\ istream' = (P \o R) \o <<last>>
        /\ typing' = typing \o types
        /\ PatchAndPopLabel /\ current_func' = 0
    BY <1>3 DEF EndFunctionBody, Checked, get_istream_offset
  <2>2. UNCHANGED <<func_offset, next_func, decls_left, status, unchecked>>
    BY <1>3 DEF EndFunctionBody, Checked
  <2>3. /\ Body /\ StackTypes /\ Typed(type_stack) /\ Above(type_stack)
        /\ label_stack \in Seq(Labels) /\ Len(label_stack) > 0
        /\ Len(label_stack) \in Nat /\ current_func # 0 /\ decls_left = 0
        /\ status = "reading"
    BY <1>1, InsideFacts DEF Inside
  <2>4. EndChecks(type_stack, top_label) /\ top_label.label_type = "func"
    BY <1>3
  <2> HIDE DEF ok
  <2>5. Len(label_stack) = 1
    <3>1. PICK m \in Nat : m = Len(label_stack)
      BY <2>3
    <3>2. m > 0 /\ InnerLabels
      BY <2>3, <3>1 DEF FInv
    <3>3. m # 1 => m \in 2 .. m
      BY <3>1, <3>2
    <3>4. QED
      BY <2>4, <3>1, <3>2, <3>3 DEF InnerLabels, top_label
  <2>6. PICK ts, sig : ts = ImplicitReturnTypes /\ sig = top_label.sig
    OBVIOUS
  <2>7. /\ ts = LabelTypes(1) /\ ts \in Seq(Types) /\ ~top_type_is_any(ts)
        /\ Live(type_stack) => ts = type_stack
        /\ sig \in Sigs /\ Len(sig) \in {0, 1} /\ Len(sig) <= Len(ts)
        /\ LastN(ts, Len(sig)) = sig
    BY <1>1, <2>4, <2>5, <2>6, ImplicitTypes
  <2>8. PICK keep, drop \in Nat : keep = Len(sig) /\ drop = Len(ts) - keep
    BY <2>7
  <2>9. drop + keep = Len(ts) /\ keep \in {0, 1} /\ keep \in 0 .. Len(ts)
    BY <2>7, <2>8
  <2>10. cells = emit_drop_keep(drop, keep) \o <<last>>
    BY <2>6, <2>7, <2>8 DEF ReturnCells
  <2>11. types = DropKeepTyping(drop, ts) \o <<sig>>
    BY <2>6, <2>7, <2>8 DEF ReturnTyping
  <2>12. last \in Cells
    <3>1. "return" \in CellOps /\ 0 \in Nat
      BY DEF CellOps
    <3>2. QED
      BY <3>1, CellFacts
  <2>13. R \in Seq(Cells)
    <3>1. emit_drop_keep(drop, keep) \in Seq(Cells)
      BY <2>8, DropKeepFacts
    <3>2. QED
      BY <2>6, <2>7, <2>8, <3>1 DEF ReturnCells
  <2>14. istream \in Seq(Cells) /\ Len(istream) \in Nat /\ n \in Nat
    BY DEF FInv
  <2>15. istream' = P \o cells
    <3>1. P \in Seq(Cells) /\ <<last>> \in Seq(Cells)
      BY <2>12, <2>14, PatchedFacts, OneFacts
    <3> HIDE DEF P, R, last
    <3>2. (P \o R) \o <<last>> = P \o (R \o <<last>>)
      BY <2>13, <3>1, ConcatAssoc
    <3>3. QED
      BY <2>1, <3>2
  <2> HIDE DEF cells, types, last
  <2>16. ts \in Seq(Types \cup {ANY}) /\ sig \in Seq(Types \cup {ANY})
    BY <2>7, SigFacts
  <2>17. KeepTail(cells, types, ts, drop, keep, last, sig)
    <3>1. TailCells(cells, drop, keep, last) /\ TailTypes(types, drop, ts, sig)
      BY <2>10, <2>11 DEF TailCells, TailTypes
    <3>2. QED
      BY <2>8, <2>12, <2>16, <3>1, TailFacts
  <2>18. cells \in Seq(Cells) /\ types \in Seq(Seq(Types \cup {ANY})) /\ Len(types) = Len(cells)
    BY <2>17 DEF KeepTail
  <2>19. Emitted(S, n, cells, types)
    BY <2>1, <2>14, <2>15, <2>18, PatchEmits
  <2>20. sig = DropKept(ts, drop, keep)
    <3>1. Popped(ts, drop + keep) = <<>>
      BY <2>9, <2>16 DEF Popped, Truncate
    <3>2. DropKept(ts, drop, keep) = <<>> \o sig
      BY <2>7, <2>8, <3>1 DEF DropKept
    <3>3. QED
      BY <2>16, <3>2, EmptyConcat
  <2>21. Returns(S, drop, keep, ts, sig, cells, types)
    BY <2>2, <2>7, <2>8, <2>9, <2>17, <2>19, <2>20 DEF Returns, last
  <2>22. sig = Funcs[current_func].results
    <3>1. CurrentLast
      BY <2>3 DEF WInv
    <3>2. QED
      BY <2>5, <2>6, <3>1 DEF CurrentLast, top_label
  <2>23. /\ CellsOK(Len(istream) + 1) /\ FlowsFrom(Len(istream) + 1)
         /\ types[1] = ts /\ Len(cells) \in Nat /\ Len(cells) > 0
         /\ cells[1].op \notin {"data", "entry"}
    BY <1>1, <2>21, <2>22, ReturnsFlow
  <2>24. S = Fix(depth_fixups, 1) /\ 1 \in 1 .. Len(label_stack)
    BY <2>3, <2>5, TopFixupsFacts
  <2> HIDE DEF S, n
  <2>25. \A c \in S : c \in 1 .. Len(istream) /\ Dangles(istream[c])
    BY <2>24, RecordedBelow
  <2>26. Grows(istream, istream') /\ Extends
    <3>1. \A c \in S : c \in 1 .. Len(istream) => istream[c].op \in BranchOps
      BY <2>25 DEF Dangles, LabelOps, BranchOps
    <3>2. QED
      BY <2>19, <2>23, <3>1, EmittedKeeps
  <2>27. /\ istream' \in Seq(Cells) /\ Len(istream) < Len(istream')
         /\ typing' \in Seq(Seq(Types \cup {ANY})) /\ Len(typing') = Len(istream')
         /\ typing'[Len(istream) + 1] = ts
         /\ \A c \in 1 .. Len(istream) : istream'[c].target =
              IF c \in S THEN n ELSE istream[c].target
    <3>1. 1 \in 1 .. Len(cells)
      BY <2>23
    <3>2. QED
      BY <2>14, <2>19, <2>23, <3>1 DEF Emitted
  <2>28. Continues
    <3>1. NextTypes = type_stack
      BY <2>3 DEF NextTypes
    <3>2. QED
      BY <2>7, <2>27, <3>1 DEF Continues
  <2>29. Progresses
    BY <2>2, <2>3, <2>27 DEF Progresses, WInv
  <2>30. WInv'
    BY <2>1, <2>23, <2>26, <2>27, <2>29, StepShaped
  <2>31. UNCHANGED func_offset /\ unchecked \subseteq unchecked'
    BY <2>2
  <2>32. ReachesKept /\ SameKept /\ InKept
    BY <2>14, <2>26, <2>27, <2>28, <2>31, ReachesStays
  <2>33. EntriesKept
    BY <2>31 DEF EntriesKept
  <2>34. PromisesKept
    <3>1. Closes(1)
      BY <2>1, <2>3, <2>5, PopCloses
    <3>2. Len(label_stack') = 0
      BY <3>1 DEF Closes
    <3>3. QED
      BY <3>2 DEF PromisesKept
  <2>35. PatchesKept
    <3>1. SUFFICES ASSUME NEW c \in 1 .. Len(istream), c \in S, NEW t, NEW T
                   PROVE  /\ istream[c].target = INVALID
                          /\ istream'[c].target # INVALID
                          /\ t = istream'[c].target /\ Live(T) /\ Pending(c, T) =>
                               Reaches(c, t, T)'
      BY <2>27 DEF PatchesKept
    <3>2. istream[c].target = INVALID /\ istream'[c].target = n /\ n # INVALID
      BY <2>14, <2>25, <2>27, <3>1 DEF Dangles, n, INVALID
    <3> SUFFICES ASSUME t = istream'[c].target, Pending(c, T)
                 PROVE  Reaches(c, t, T)'
      BY <3>2
    <3>3. T = ts
      BY <2>7, <2>24, <3>1 DEF Pending
    <3>4. t = Len(istream) + 1 /\ t \in Nat /\ Len(istream) < t
      BY <2>14, <3>2 DEF n
    <3>5. At(t, T)'
      <4>1. Leads(istream', t)
        BY <2>14, <2>26, <2>27, <3>4 DEF Leads, Grows
      <4>2. TypesAt(t)' = T
        BY <2>14, <2>27, <3>3, <3>4 DEF TypesAt
      <4>3. QED
        BY <4>1, <4>2 DEF At
    <3>6. Same(c, t)'
      <4>1. c \in Fix(depth_fixups, 1) \cup Arm(label_stack, 1)
        BY <2>24, <3>1
      <4>2. QED
        BY <2>3, <2>24, <2>31, <3>4, <4>1, RecordedSame
    <3>7. QED
      BY <3>5, <3>6 DEF Reaches
  <2>36. FlowKept
    BY <2>1, <2>23, <2>32, <2>33, <2>34, <2>35 DEF FlowKept
  <2>37. TInv'
    BY <2>26, <2>27, <2>28, <2>31, <2>36, StepTyped
  <2>38. QED
    BY <2>30, <2>37
<1>4. QED
  BY <1>2, <1>3

\* The start of a function body: f gets the offset n.
Starts(f, n, S) ==
  /\ status = "reading" /\ status' = "reading" /\ current_func = 0
  /\ f \in DOMAIN Funcs /\ f \in Nat /\ f # 0
  /\ current_func' = f /\ next_func' = f + 1
  /\ n \in Nat /\ n = Len(istream) + 1
  /\ func_offset[f] = INVALID /\ func_offset'[f] = n
  /\ \A g \in DOMAIN Funcs : /\ func_offset[g] \in Nat /\ func_offset[g] <= Len(istream)
                             /\ g # f => func_offset'[g] = func_offset[g]
  /\ \A c \in S : c \in 1 .. Len(istream) /\ istream[c].op = "call"
  /\ istream' = Patched(istream, S, n)
  /\ local_count' = 0 /\ param_and_local_types' = Funcs[f].params
  /\ type_stack' = Funcs[f].params
  /\ Len(label_stack') = 1 /\ label_stack'[1].label_type = "func"
  /\ label_stack'[1].sig = Funcs[f].results
  /\ label_stack'[1].offset = INVALID
  /\ depth_fixups' = <<>> /\ UNCHANGED <<typing, unchecked>>

\* BeginFunctionBody starts the next function.
LEMMA BeginStarts ==
  ASSUME FInv, NEW count, BeginFunctionBody(count), NEW f, f = next_func
  PROVE  /\ Starts(f, Len(istream) + 1, func_fixups[f])
         /\ decls_left' = count
<1>1. /\ status = "reading" /\ status' = "reading" /\ current_func = 0
      /\ f \in DOMAIN Funcs
      /\ current_func' = f /\ next_func' = f + 1
      /\ func_offset' = [func_offset EXCEPT ![f] = Len(istream) + 1]
      /\ istream' = Patched(istream, func_fixups[f], Len(istream) + 1)
      /\ decls_left' = count /\ local_count' = 0
      /\ param_and_local_types' = Funcs[f].params /\ type_stack' = Funcs[f].params
      /\ depth_fixups' = <<>> /\ UNCHANGED <<typing, unchecked>>
  BY DEF BeginFunctionBody, get_istream_offset
<1>2. /\ Len(label_stack') = 1 /\ label_stack'[1].label_type = "func"
      /\ label_stack'[1].sig = Funcs[f].results
      /\ label_stack'[1].offset = INVALID
  BY DEF BeginFunctionBody
<1>3. /\ istream \in Seq(Cells) /\ Len(istream) \in Nat
      /\ Linked(istream, func_offset, func_fixups)
      /\ Within(istream, func_offset) /\ BodiesRead
  BY <1>1 DEF FInv
<1>4. f \in Nat /\ f # 0 /\ func_offset[f] = INVALID
  <2>1. f \in Nat /\ f # 0
    BY <1>1, <1>3, CompilerAssumption DEF BodiesRead
  <2>2. QED
    BY <1>1, <1>3, <2>1 DEF BodiesRead
<1>5. /\ func_offset'[f] = Len(istream) + 1
      /\ \A g \in DOMAIN Funcs : /\ func_offset[g] \in Nat /\ func_offset[g] <= Len(istream)
                                 /\ g # f => func_offset'[g] = func_offset[g]
  BY <1>1, <1>3 DEF Linked, Within
<1>6. \A c \in func_fixups[f] : c \in 1 .. Len(istream) /\ istream[c].op = "call"
  BY <1>1, <1>3 DEF Linked
<1>7. Len(istream) + 1 \in Nat
  BY <1>3
<1>8. QED
  BY <1>1, <1>2, <1>4, <1>5, <1>6, <1>7 DEF Starts

\* The labels and locals of the new function.
LEMMA StartShaped ==
  ASSUME FInv, NEW f, NEW n, NEW S, Starts(f, n, S), Len(istream') = Len(istream)
  PROVE  /\ LocalsBelow' /\ CurrentLast' /\ PromisesKept /\ LoopsKept
<1>1. Funcs[f].params \in Seq(Types)
  BY FuncFacts DEF Starts
<1>2. /\ current_func' = f /\ func_offset'[f] = n /\ n = Len(istream) + 1
      /\ Len(istream) \in Nat
  BY DEF Starts, FInv
<1>3. LocalsBelow'
  <2>1. PICK P \in Seq(Types) : P = Funcs[f].params
    BY <1>1
  <2>2. Truncate(P, Len(P)) = P /\ Len(P) \in Nat
    BY TruncateAll
  <2>3. param_and_local_types' = P /\ type_stack' = P /\ local_count' = 0
    BY <2>1 DEF Starts
  <2>4. Len(P) <= Len(P) /\ Len(P) = Len(P) + 0
    BY <2>2
  <2>5. Funcs[current_func'].params = P
    BY <1>2, <2>1
  <2>6. func_offset'[current_func'] = Len(istream') + 1
    BY <1>2
  <2>7. QED
    BY <2>2, <2>3, <2>4, <2>5, <2>6 DEF LocalsBelow
<1>4. \A d \in 1 .. Len(label_stack') :
        /\ d = 1 /\ Fix(depth_fixups', d) = {} /\ Arm(label_stack', d) = {}
        /\ label_stack'[d].label_type # "loop" /\ label_stack'[d].offset = INVALID
  BY DEF Starts, Fix, Arm
<1>5. PromisesKept /\ LoopsKept
  BY <1>4 DEF PromisesKept, LoopsKept
<1>6. CurrentLast'
  <2>1. n # INVALID
    BY <1>2 DEF INVALID
  <2>2. \A g \in DOMAIN Funcs : g # current_func' => func_offset'[g] < n
    BY <1>2 DEF Starts
  <2>3. label_stack'[1].sig = Funcs[current_func'].results
    BY DEF Starts
  <2>4. func_offset'[current_func'] = n
    BY <1>2
  <2>5. QED
    BY <1>4, <2>1, <2>2, <2>3, <2>4 DEF CurrentLast
<1>7. QED
  BY <1>3, <1>5, <1>6

\* What was reached stays in the functions it was in.
LEMMA StartReaches ==
  ASSUME FInv, WInv, NEW f, NEW n, NEW S, Starts(f, n, S),
         istream' \in Seq(Cells), Grows(istream, istream'), Extends, Continues
  PROVE  ReachesKept /\ SameKept /\ InKept
<1>1. /\ istream \in Seq(Cells) /\ Len(istream) \in Nat
      /\ n \in Nat /\ n = Len(istream) + 1
      /\ func_offset[f] = INVALID /\ func_offset'[f] = n
      /\ \A g \in DOMAIN Funcs : g # f => func_offset'[g] = func_offset[g]
  BY DEF Starts, FInv
<1>2. SameKept
  <2>1. SUFFICES ASSUME NEW c \in 1 .. Len(istream), NEW e \in 1 .. Len(istream), Same(c, e),
                        NEW g \in DOMAIN Funcs, func_offset'[g] # INVALID
                 PROVE  func_offset'[g] <= c <=> func_offset'[g] <= e
    BY DEF SameKept, Same
  <2>2. CASE g = f
    BY <1>1, <2>2
  <2>3. CASE g # f
    BY <1>1, <2>1, <2>3 DEF Same
  <2>4. QED
    BY <2>2, <2>3
<1>3. InKept
  <2>1. SUFFICES ASSUME NEW c \in 1 .. Len(istream), NEW g \in DOMAIN Funcs, In(g, c)'
                 PROVE  In(g, c)
    BY DEF InKept
  <2>2. ~(n <= c)
    BY <1>1
  <2>3. g # f
    BY <1>1, <2>1, <2>2 DEF In
  <2>4. /\ func_offset[g] # INVALID /\ func_offset[g] <= c
    BY <1>1, <2>1, <2>3 DEF In
  <2>5. ASSUME NEW h \in DOMAIN Funcs, func_offset[h] # INVALID, func_offset[h] <= c
        PROVE  func_offset[h] <= func_offset[g]
    BY <1>1, <2>1, <2>3, <2>5 DEF In
  <2>6. QED
    BY <2>4, <2>5 DEF In
<1>4. ReachesKept
  <2>1. SUFFICES ASSUME NEW c \in 1 .. Len(istream), NEW t, NEW T, Live(T), Reaches(c, t, T)
                 PROVE  Reaches(c, t, T)'
    BY DEF ReachesKept
  <2>2. At(t, T) /\ Same(c, t)
    BY <2>1 DEF Reaches
  <2>3. At(t, T)'
    BY <1>1, <2>1, <2>2, AtKept
  <2>4. t \in 1 .. Len(istream)
    <3>1. t \in 1 .. Len(istream) + 1
      BY <2>2 DEF At, Leads
    <3>2. ~(t <= Len(istream)) => T = <<ANY>>
      BY <2>2 DEF At, TypesAt, NextTypes, Starts
    <3>3. ~Live(<<ANY>>)
      BY DEF Live
    <3>4. QED
      BY <1>1, <2>1, <3>1, <3>2, <3>3
  <2>5. Same(c, t)'
    BY <1>2, <2>2, <2>4 DEF SameKept
  <2>6. QED
    BY <2>3, <2>5 DEF Reaches
<1>5. QED
  BY <1>2, <1>3, <1>4

\* Patching without emitting.
LEMMA PatchOnly ==
  ASSUME FInv, WInv, NEW S, NEW n \in Nat, istream' = Patched(istream, S, n),
         UNCHANGED typing,
         \A c \in S : c \in 1 .. Len(istream) => istream[c].op \in BranchOps
  PROVE  /\ istream' \in Seq(Cells) /\ Len(istream') = Len(istream)
         /\ typing' \in Seq(Seq(Types \cup {ANY})) /\ Len(typing') = Len(istream')
         /\ \A c \in 1 .. Len(istream) : istream'[c].target =
              IF c \in S THEN n ELSE istream[c].target
         /\ Grows(istream, istream') /\ Extends
         /\ CellsOK(Len(istream) + 1) /\ FlowsFrom(Len(istream) + 1)
<1>1. /\ istream \in Seq(Cells) /\ Len(istream) \in Nat
      /\ typing \in Seq(Seq(Types \cup {ANY})) /\ Len(typing) = Len(istream)
  BY DEF FInv, WInv
<1>2. Emitted(S, n, <<>>, <<>>)
  <2>1. Patched(istream, S, n) \in Seq(Cells)
    BY <1>1, PatchedFacts
  <2>2. PICK code \in Seq(Cells) : code = Patched(istream, S, n)
    BY <2>1
  <2>3. code \o <<>> = code /\ typing \o <<>> = typing
    BY <1>1
  <2>4. istream' = Patched(istream, S, n) \o <<>> /\ typing' = typing \o <<>>
    BY <2>2, <2>3
  <2>5. /\ <<>> \in Seq(Cells) /\ <<>> \in Seq(Seq(Types \cup {ANY}))
        /\ Len(<<>>) = Len(<<>>)
    OBVIOUS
  <2>6. QED
    BY <2>4, <2>5, PatchEmits
<1>3. Len(<<>>) = 0
  OBVIOUS
<1>4. /\ istream' \in Seq(Cells) /\ Len(istream') = Len(istream)
      /\ typing' \in Seq(Seq(Types \cup {ANY})) /\ Len(typing') = Len(istream')
      /\ \A c \in 1 .. Len(istream) : istream'[c].target =
           IF c \in S THEN n ELSE istream[c].target
  BY <1>1, <1>2, <1>3 DEF Emitted
<1>5. Grows(istream, istream') /\ Extends
  <2>1. /\ Len(<<>>) \in Nat
        /\ Len(<<>>) > 0 => <<>>[1].op \notin {"data", "entry"}
    BY <1>3
  <2>2. QED
    BY <1>2, <2>1, EmittedKeeps
<1>6. \A c \in 1 .. Len(istream') : ~(c >= Len(istream) + 1)
  BY <1>1, <1>4
<1>7. CellsOK(Len(istream) + 1) /\ FlowsFrom(Len(istream) + 1)
  BY <1>6 DEF CellsOK, FlowsFrom
<1>8. QED
  BY <1>4, <1>5, <1>7

\* The start of a function body.
LEMMA BeginTyped ==
  ASSUME IInv, FInv, WInv, TInv, NEW count \in 0 .. MaxDecls, BeginFunctionBody(count)
  PROVE  WInv' /\ TInv'
<1>1. PICK f, n, S : f = next_func /\ n = Len(istream) + 1 /\ S = func_fixups[f]
  OBVIOUS
<1>2. Starts(f, n, S) /\ decls_left' = count
  BY <1>1, BeginStarts
<1>3. /\ istream' = Patched(istream, S, n) /\ UNCHANGED typing /\ n \in Nat
      /\ \A c \in S : c \in 1 .. Len(istream) /\ istream[c].op = "call"
  BY <1>2 DEF Starts
<1>4. /\ istream' \in Seq(Cells) /\ Len(istream') = Len(istream)
      /\ typing' \in Seq(Seq(Types \cup {ANY})) /\ Len(typing') = Len(istream')
      /\ \A c \in 1 .. Len(istream) : istream'[c].target =
           IF c \in S THEN n ELSE istream[c].target
      /\ Grows(istream, istream') /\ Extends
      /\ CellsOK(Len(istream) + 1) /\ FlowsFrom(Len(istream) + 1)
  <2>1. \A c \in S : c \in 1 .. Len(istream) => istream[c].op \in BranchOps
    BY <1>3 DEF BranchOps
  <2>2. QED
    BY <1>3, <2>1, PatchOnly
<1>5. LocalsBelow' /\ CurrentLast' /\ PromisesKept /\ LoopsKept
  BY <1>2, <1>4, StartShaped
<1>6. Continues
  <2>1. NextTypes = <<ANY>>
    BY <1>2 DEF NextTypes, Starts
  <2>2. ~Live(<<ANY>>)
    BY DEF Live
  <2>3. QED
    BY <2>1, <2>2 DEF Continues
<1>7. WInv'
  <2>1. Len(istream') \in Nat
    BY <1>4
  <2>2. \A c \in 1 .. Len(istream') : CellOK(istream', c)
    BY <1>4, <2>1, CellsKept
  <2>3. next_func' \in 0 .. Len(Funcs) + 1
    <3>1. f \in 1 .. Len(Funcs) /\ Len(Funcs) \in Nat
      BY <1>2, CompilerAssumption DEF Starts
    <3>2. QED
      BY <1>2, <3>1 DEF Starts
  <2>4. status' = "reading" /\ unchecked' = unchecked
    BY <1>2 DEF Starts
  <2>5. QED
    BY <1>2, <1>4, <1>5, <2>2, <2>3, <2>4 DEF WInv
<1>8. ReachesKept /\ SameKept /\ InKept
  BY <1>2, <1>4, <1>6, StartReaches
<1>9. PatchesKept
  <2>1. \A c \in 1 .. Len(istream) : istream[c].op \in LabelOps => c \notin S
    BY <1>3 DEF LabelOps
  <2>2. QED
    BY <1>4, <2>1 DEF PatchesKept
<1>10. EntriesKept
  <2>1. SUFFICES ASSUME NEW g \in DOMAIN Funcs, func_offset'[g] # func_offset[g],
                        NEW t, t = func_offset'[g]
                 PROVE  At(t, Funcs[g].params)'
    BY DEF EntriesKept
  <2>2. g = f /\ t = n /\ n = Len(istream) + 1 /\ Len(istream) \in Nat
    BY <1>1, <1>2, <2>1 DEF Starts, FInv
  <2>3. PICK T : T = Funcs[f].params
    OBVIOUS
  <2>4. NextTypes' = T
    BY <1>2, <2>3 DEF NextTypes, Starts
  <2>5. Leads(istream', t)
    BY <1>4, <2>2 DEF Leads
  <2>6. TypesAt(t)' = T
    BY <1>4, <2>2, <2>4 DEF TypesAt
  <2>7. QED
    BY <2>2, <2>3, <2>5, <2>6 DEF At
<1>11. FlowKept
  BY <1>4, <1>5, <1>8, <1>9, <1>10 DEF FlowKept
<1>12. TInv'
  <2>1. unchecked \subseteq unchecked'
    BY <1>2 DEF Starts
  <2>2. QED
    BY <1>4, <1>6, <1>11, <2>1, StepTyped
<1>13. QED
  BY <1>7, <1>12

\* A declaration of locals, of which P is what the function had before.
Declares(P, more) ==
  /\ status = "reading" /\ current_func # 0 /\ decls_left > 0
  /\ UNCHANGED <<depth_fixups, func_offset, current_func, next_func, status, unchecked>>
  /\ decls_left' = decls_left - 1
  /\ P \in Seq(Types) /\ more \in Seq(Types)
  /\ param_and_local_types = P /\ param_and_local_types' = P \o more
  /\ type_stack' = type_stack \o more
  /\ local_count' = local_count + Len(more)
  /\ Len(label_stack') = Len(label_stack)
  /\ label_stack'[1].label_type = label_stack[1].label_type
  /\ label_stack'[1].sig = label_stack[1].sig
  /\ label_stack'[1].offset = label_stack[1].offset
  /\ label_stack'[1].fixup_offset = label_stack[1].fixup_offset

\* What is below the operands then: the params and locals, and no fixups yet.
LEMMA DeclFacts ==
  ASSUME IInv, FInv, WInv, NEW P, NEW more, Declares(P, more),
         decls_left' = 0 \/ Len(istream') = Len(istream)
  PROVE  /\ LocalsBelow' /\ CurrentLast' /\ PromisesKept /\ LoopsKept
         /\ type_stack' = P \o more /\ P \o more \in Seq(Types)
         /\ Funcs[current_func].params \in Seq(Types)
         /\ Truncate(P \o more, Len(Funcs[current_func].params))
              = Funcs[current_func].params
         /\ Len(P \o more) = Len(Funcs[current_func].params) + local_count'
         /\ local_count' \in Nat
         /\ func_offset[current_func] = Len(istream) + 1
         /\ NextTypes = Funcs[current_func].params
<1>1. /\ status = "reading" /\ current_func # 0 /\ decls_left > 0
      /\ P \in Seq(Types) /\ more \in Seq(Types)
      /\ param_and_local_types = P /\ param_and_local_types' = P \o more
      /\ type_stack' = type_stack \o more
      /\ local_count' = local_count + Len(more)
      /\ UNCHANGED <<depth_fixups, func_offset, current_func>>
  BY DEF Declares
<1>2. /\ StackTypes /\ FunctionLimit /\ Typed(type_stack) /\ FunctionLabel
      /\ LocalsBelow /\ CurrentLast /\ Len(istream) \in Nat
  BY <1>1 DEF IInv, WInv, FInv
<1>3. Len(label_stack) = 1 /\ Len(type_stack) = Len(P)
  BY <1>1, <1>2 DEF FunctionLimit
<1>4. PICK Q : Q = Funcs[current_func].params
  OBVIOUS
<1>5. /\ \A i \in 1 .. Len(P) : type_stack[i] = P[i]
      /\ Len(Q) <= Len(P) /\ Truncate(P, Len(Q)) = Q
      /\ func_offset[current_func] = Len(istream) + 1
      /\ Len(P) = Len(Q) + local_count
  BY <1>1, <1>2, <1>4 DEF LocalsBelow
<1>6. Q \in Seq(Types)
  <2>1. current_func \in DOMAIN Funcs
    BY <1>1, StartFacts
  <2>2. QED
    BY <1>4, <2>1, FuncFacts
<1>7. type_stack = P
  <2>1. type_stack \in Seq(Types \cup {ANY}) /\ P \in Seq(Types \cup {ANY})
    BY <1>1, <1>2 DEF StackTypes
  <2>2. QED
    BY <1>3, <1>5, <2>1, SeqEqual
<1>8. PICK all : all = P \o more
  OBVIOUS
<1>9. P \in Seq(Types) /\ more \in Seq(Types)
  BY <1>1
<1>10. /\ P \o more \in Seq(Types) /\ Len(P \o more) = Len(P) + Len(more)
       /\ \A i \in 1 .. Len(P) : (P \o more)[i] = P[i]
  BY <1>9, ConcatFacts
<1>11. /\ all \in Seq(Types) /\ Len(all) = Len(P) + Len(more)
       /\ \A i \in 1 .. Len(P) : all[i] = P[i]
  BY <1>8, <1>10
<1>12. type_stack' = all /\ param_and_local_types' = all
  BY <1>1, <1>7, <1>8
<1>13. PICK q, p, m \in Nat : q = Len(Q) /\ p = Len(P) /\ m = Len(more)
  BY <1>6, <1>9
<1>14. local_count \in Nat /\ q <= p /\ p = q + local_count
  BY <1>2, <1>5, <1>13 DEF StackTypes
<1>15. /\ Len(all) = q + local_count' /\ local_count' \in Nat /\ q <= Len(all)
  BY <1>1, <1>11, <1>13, <1>14
<1>16. Truncate(all, q) = Q
  <2>1. q \in 0 .. Len(all) /\ q \in 0 .. Len(P)
    BY <1>13, <1>14, <1>15
  <2>2. /\ Truncate(all, q) \in Seq(Types) /\ Len(Truncate(all, q)) = q
        /\ \A i \in 1 .. q : Truncate(all, q)[i] = all[i]
    BY <1>11, <2>1, TruncateFacts
  <2>3. \A i \in 1 .. q : Truncate(P, q)[i] = P[i]
    BY <1>9, <2>1, TruncateFacts
  <2>4. PICK low : low = Truncate(all, q)
    OBVIOUS
  <2>5. \A i \in 1 .. q : i \in 1 .. Len(P)
    BY <1>13, <1>14
  <2>6. /\ low \in Seq(Types) /\ Len(low) = Len(Q)
        /\ \A i \in 1 .. Len(low) : low[i] = Q[i]
    BY <1>5, <1>11, <1>13, <2>2, <2>3, <2>4, <2>5
  <2>7. low = Q
    BY <1>6, <2>6, SeqEqual
  <2>8. QED
    BY <2>4, <2>7
<1>17. LocalsBelow'
  <2>1. decls_left' = 0 \/ func_offset'[current_func'] = Len(istream') + 1
    BY <1>1, <1>5
  <2>2. Funcs[current_func'].params = Q
    BY <1>1, <1>4
  <2>3. QED
    BY <1>12, <1>13, <1>15, <1>16, <2>1, <2>2 DEF LocalsBelow
<1>18. \A d \in 1 .. Len(label_stack') :
         /\ d = 1 /\ label_stack'[d].label_type = "func"
         /\ Fix(depth_fixups', d) = Fix(depth_fixups, d)
         /\ Arm(label_stack', d) = {}
         /\ label_stack'[d].offset = INVALID
  <2>1. Len(label_stack') = 1 /\ depth_fixups' = depth_fixups
    BY <1>3 DEF Declares
  <2>2. label_stack[1].offset = INVALID /\ label_stack[1].label_type = "func"
    BY <1>2, <1>3 DEF CurrentLast, FunctionLabel
  <2>3. label_stack'[1].offset = INVALID /\ label_stack'[1].label_type = "func"
    BY <2>2 DEF Declares
  <2>4. QED
    BY <2>1, <2>3 DEF Arm
<1>19. \A c \in Fix(depth_fixups, 1) : Len(istream) + 1 <= c
  BY <1>2, <1>3, <1>5 DEF CurrentLast
<1>20. PromisesKept
  <2>1. \A c \in 1 .. Len(istream) : c \notin Fix(depth_fixups, 1)
    BY <1>2, <1>19
  <2>2. QED
    BY <1>18, <2>1 DEF PromisesKept
<1>21. LoopsKept
  BY <1>18 DEF LoopsKept
<1>22. CurrentLast'
  <2>1. PICK start : start = func_offset[current_func]
    OBVIOUS
  <2>2. /\ start # INVALID /\ start = func_offset'[current_func']
        /\ \A f \in DOMAIN Funcs : f # current_func' => func_offset'[f] < start
        /\ label_stack'[1].sig = Funcs[current_func'].results
    BY <1>2, <2>1 DEF CurrentLast, Declares
  <2>3. \A d \in 1 .. Len(label_stack') :
          \A c \in Fix(depth_fixups', d) \cup Arm(label_stack', d) : start <= c
    BY <1>5, <1>18, <1>19, <2>1
  <2>4. QED
    BY <1>18, <2>2, <2>3 DEF CurrentLast
<1>23. NextTypes = Q
  <2>1. decls_left # 0
    BY <1>1, <1>2 DEF StackTypes
  <2>2. QED
    BY <1>1, <1>4, <2>1 DEF NextTypes
<1>24. QED
  BY <1>4, <1>5, <1>6, <1>8, <1>11, <1>12, <1>13, <1>15, <1>16, <1>17, <1>20, <1>21, <1>22, <1>23

\* The limit the last local declaration raises leaves the rest of the label.
LEMMA RaisedLabel ==
  ASSUME NEW ls \in Seq(Labels), Len(ls) > 0, NEW k \in Nat
  PROVE  /\ Len(Raised(ls, k)) = Len(ls)
         /\ Raised(ls, k)[1].label_type = ls[1].label_type
         /\ Raised(ls, k)[1].sig = ls[1].sig
         /\ Raised(ls, k)[1].offset = ls[1].offset
         /\ Raised(ls, k)[1].fixup_offset = ls[1].fixup_offset
<1> DEFINE new == Raised(ls, k)
<1>1. Len(new) = Len(ls) /\ Len(ls) \in Nat /\ 1 \in 1 .. Len(ls)
  BY DEF Raised
<1>2. ls[1] \in Labels
  BY <1>1
<1>3. new[1] = [ls[1] EXCEPT !.type_stack_limit = ls[1].type_stack_limit + k]
  BY <1>1 DEF Raised
<1>4. QED
  BY <1>1, <1>2, <1>3 DEF Labels

\* OnLocalDecl declares count locals of one type.
LEMMA LocalDeclares ==
  ASSUME IInv, FInv, WInv, NEW count \in 0 .. MaxLocals, NEW type \in Types,
         OnLocalDecl(count, type)
  PROVE  /\ \E P, more : Declares(P, more)
         /\ decls_left \in Nat
         /\ decls_left' \in 0 .. MaxDecls
<1> DEFINE more == [i \in 1 .. count |-> type]
           P == param_and_local_types
<1>1. /\ status = "reading" /\ current_func # 0 /\ decls_left > 0
      /\ UNCHANGED <<depth_fixups, func_offset, current_func, next_func, status,
                     unchecked>>
      /\ decls_left' = decls_left - 1
      /\ param_and_local_types' = P \o more
      /\ type_stack' = type_stack \o more
      /\ local_count' = local_count + count
  BY DEF OnLocalDecl
<1>2. /\ StackTypes /\ LabelsOrdered /\ FunctionLabel /\ Typed(type_stack)
      /\ P \in Seq(Types) /\ label_stack \in Seq(Labels) /\ Len(label_stack) > 0
      /\ local_count \in Nat /\ decls_left \in Nat /\ count \in Nat
  <2>1. /\ StackTypes /\ LabelsOrdered /\ FunctionLabel /\ Typed(type_stack)
    BY <1>1 DEF IInv
  <2>2. count \in Nat
    BY CompilerAssumption
  <2>3. QED
    BY <2>1, <2>2 DEF StackTypes, LabelsOrdered
<1>3. more \in Seq(Types) /\ Len(more) = count
  BY <1>2
<1> HIDE DEF more
<1>4. /\ Len(label_stack') = Len(label_stack)
      /\ label_stack'[1].label_type = label_stack[1].label_type
      /\ label_stack'[1].sig = label_stack[1].sig
      /\ label_stack'[1].offset = label_stack[1].offset
      /\ label_stack'[1].fixup_offset = label_stack[1].fixup_offset
  <2>1. CASE decls_left = 1
    <3>1. PICK k \in Nat : k = local_count'
      BY <1>1, <1>2
    <3>2. label_stack' = Raised(label_stack, k)
      BY <2>1, <3>1 DEF OnLocalDecl, Raised
    <3>3. QED
      BY <1>2, <3>2, RaisedLabel
  <2>2. CASE decls_left # 1
    BY <2>2 DEF OnLocalDecl
  <2>3. QED
    BY <2>1, <2>2
<1>5. Declares(P, more)
  BY <1>1, <1>2, <1>3, <1>4 DEF Declares
<1>6. decls_left' \in 0 .. MaxDecls
  <2>1. decls_left \in 0 .. MaxDecls /\ MaxDecls \in Nat
    BY CompilerAssumption DEF WInv
  <2>2. QED
    BY <1>1, <2>1
<1>7. QED
  BY <1>2, <1>5, <1>6

\* A declaration that others follow emits nothing.
LEMMA OtherDeclTyped ==
  ASSUME IInv, FInv, WInv, TInv, NEW count \in 0 .. MaxLocals, NEW type \in Types,
         OnLocalDecl(count, type), decls_left # 1
  PROVE  WInv' /\ TInv'
<1>1. PICK P, more : Declares(P, more)
  BY LocalDeclares
<1>2. decls_left \in Nat /\ decls_left' \in 0 .. MaxDecls
  BY LocalDeclares
<1>3. UNCHANGED <<istream, typing>>
  BY DEF OnLocalDecl
<1>4. /\ istream' \in Seq(Cells) /\ Len(istream') = Len(istream) /\ Len(istream) \in Nat
      /\ Grows(istream, istream') /\ Extends
      /\ CellsOK(Len(istream) + 1) /\ FlowsFrom(Len(istream) + 1)
      /\ PatchesKept
  BY <1>3, Nothing
<1>5. /\ LocalsBelow' /\ CurrentLast' /\ PromisesKept /\ LoopsKept
      /\ NextTypes = Funcs[current_func].params
  BY <1>1, <1>4, DeclFacts
<1>6. /\ status = "reading" /\ current_func # 0 /\ decls_left' = decls_left - 1
      /\ UNCHANGED <<func_offset, current_func, next_func, status, unchecked>>
  BY <1>1 DEF Declares
<1>7. NextTypes' = NextTypes
  <2>1. decls_left' # 0
    BY <1>2, <1>6
  <2>2. QED
    BY <1>5, <1>6, <2>1 DEF NextTypes
<1>8. Continues
  BY <1>4, <1>7 DEF Continues
<1>9. Progresses
  BY <1>2, <1>3, <1>6 DEF Progresses, WInv
<1>10. WInv'
  BY <1>4, <1>5, <1>9, StepShaped
<1>11. istream \in Seq(Cells)
  BY DEF FInv
<1>12. ReachesKept /\ SameKept /\ InKept
  BY <1>4, <1>6, <1>8, <1>11, ReachesStays
<1>13. EntriesKept
  BY <1>6 DEF EntriesKept
<1>14. FlowKept
  BY <1>4, <1>5, <1>12, <1>13 DEF FlowKept
<1>15. TInv'
  <2>1. unchecked \subseteq unchecked'
    BY <1>6
  <2>2. QED
    BY <1>4, <1>8, <1>14, <2>1, StepTyped
<1>16. QED
  BY <1>10, <1>15

\* The last one allocates the locals above the params.
LEMMA LastDeclTyped ==
  ASSUME IInv, FInv, WInv, TInv, NEW count \in 0 .. MaxLocals, NEW type \in Types,
         OnLocalDecl(count, type), decls_left = 1
  PROVE  WInv' /\ TInv'
<1>1. PICK P, more : Declares(P, more)
  BY LocalDeclares
<1>2. decls_left' = 0 /\ decls_left' \in 0 .. MaxDecls
  BY <1>1, LocalDeclares DEF Declares
<1>3. PICK all, Q : all = P \o more /\ Q = Funcs[current_func].params
  OBVIOUS
<1>4. /\ LocalsBelow' /\ CurrentLast' /\ PromisesKept /\ LoopsKept
      /\ type_stack' = P \o more /\ P \o more \in Seq(Types)
      /\ Funcs[current_func].params \in Seq(Types)
      /\ Truncate(P \o more, Len(Funcs[current_func].params))
           = Funcs[current_func].params
      /\ Len(P \o more) = Len(Funcs[current_func].params) + local_count'
      /\ local_count' \in Nat
      /\ func_offset[current_func] = Len(istream) + 1
      /\ NextTypes = Funcs[current_func].params
  BY <1>1, <1>2, DeclFacts
<1>5. PICK k \in Nat : k = local_count'
  BY <1>4
<1>6. /\ type_stack' = all /\ all \in Seq(Types) /\ Q \in Seq(Types)
      /\ Truncate(all, Len(Q)) = Q /\ Len(all) = Len(Q) + k
      /\ NextTypes = Q
  BY <1>3, <1>4, <1>5
<1>7. /\ status = "reading" /\ current_func # 0
      /\ UNCHANGED <<func_offset, current_func, next_func, status, unchecked>>
  BY <1>1 DEF Declares
<1> DEFINE cell == Cell("alloca", 0, k, 0)
<1>8. istream' = istream \o <<cell>> /\ typing' = typing \o <<Q>>
  <2>1. /\ istream' = istream \o <<Cell("alloca", 0, local_count', 0)>>
        /\ typing' = typing \o <<Truncate(type_stack', Len(Funcs[current_func].params))>>
    BY DEF OnLocalDecl, emit
  <2>2. QED
    BY <1>3, <1>5, <1>6, <2>1
<1>9. istream \in Seq(Cells) /\ Len(istream) \in Nat
  BY DEF FInv
<1>10. /\ cell \in Cells /\ cell.op = "alloca" /\ cell.a = k
  <2>1. "alloca" \in CellOps /\ 0 \in Nat
    BY OpNames
  <2>2. QED
    BY <2>1, CellFacts
<1> HIDE DEF cell
<1>11. Emitted({}, 0, <<cell>>, <<Q>>)
  <2>1. Q \in Seq(Types \cup {ANY})
    BY <1>6
  <2>2. /\ <<cell>> \in Seq(Cells) /\ Len(<<cell>>) = 1
        /\ <<Q>> \in Seq(Seq(Types \cup {ANY})) /\ Len(<<Q>>) = 1
    BY <1>10, <2>1, OneFacts
  <2>3. istream' = Patched(istream, {}, 0) \o <<cell>>
    BY <1>8, <1>9, PatchedNone
  <2>4. 0 \in Nat
    OBVIOUS
  <2>5. QED
    BY <1>8, <2>2, <2>3, <2>4, PatchEmits
<1>12. /\ Len(<<cell>>) = 1 /\ <<cell>>[1] = cell /\ <<Q>>[1] = Q
  OBVIOUS
<1>13. Grows(istream, istream') /\ Extends
  <2>1. /\ Len(<<cell>>) \in Nat
        /\ Len(<<cell>>) > 0 => <<cell>>[1].op \notin {"data", "entry"}
        /\ \A c \in {} : c \in 1 .. Len(istream) => istream[c].op \in BranchOps
    BY <1>10, <1>12
  <2>2. QED
    BY <1>11, <2>1, EmittedKeeps
<1>14. PICK n \in Nat : n = Len(istream) + 1
  BY <1>9
<1>15. /\ istream' \in Seq(Cells) /\ Len(istream') = n
       /\ istream'[n] = cell /\ typing'[n] = Q
       /\ typing' \in Seq(Seq(Types \cup {ANY})) /\ Len(typing') = Len(istream')
       /\ \A c \in 1 .. Len(istream) : istream'[c].target = istream[c].target
  BY <1>11, <1>12, <1>14 DEF Emitted
<1>16. \A c \in 1 .. Len(istream') : c >= Len(istream) + 1 => c = n
  BY <1>9, <1>14, <1>15
<1>17. CellsOK(Len(istream) + 1)
  <2>1. CellOK(istream', n)
    BY <1>10, <1>15 DEF CellOK
  <2>2. QED
    BY <1>16, <2>1 DEF CellsOK
<1>18. Continues
  <2>1. Len(istream) < Len(istream')
    BY <1>9, <1>14, <1>15
  <2>2. QED
    BY <1>6, <1>14, <1>15, <2>1 DEF Continues
<1>19. Progresses
  BY <1>2, <1>7, <1>15 DEF Progresses, WInv
<1>20. WInv'
  BY <1>4, <1>13, <1>15, <1>17, <1>19, StepShaped
<1>21. ReachesKept /\ SameKept /\ InKept
  BY <1>7, <1>9, <1>13, <1>15, <1>18, ReachesStays
<1>22. EntriesKept
  BY <1>7 DEF EntriesKept
<1>23. PatchesKept
  BY <1>15 DEF PatchesKept
<1>24. ASSUME NEW t, t = n + 1
       PROVE  Reaches(n, t, all)'
  <2>1. t \in Nat /\ ~(t <= Len(istream')) /\ func_offset[current_func] <= t
        /\ Len(istream) < n
    BY <1>4, <1>9, <1>14, <1>15, <1>24
  <2>2. Same(n, t)'
    BY <1>7, <2>1, NewSame
  <2>3. Leads(istream', t)
    BY <1>15, <1>24, <2>1 DEF Leads
  <2>4. NextTypes' = all
    BY <1>2, <1>6, <1>7 DEF NextTypes
  <2>5. QED
    BY <2>1, <2>2, <2>3, <2>4 DEF Reaches, At, TypesAt
<1>25. Flow(n)'
  <2>1. PICK t : t = n + 1
    OBVIOUS
  <2>2. istream'[n].op = "alloca" /\ istream'[n].a = k /\ "alloca" \in Straight
    BY <1>10, <1>15 DEF Straight
  <2>3. "alloca" \notin {"br", "br_unless", "br_table", "return"}
    OBVIOUS
  <2>4. Effect("alloca", k, istream'[n].b, Q, all)
    BY <1>6 DEF Effect
  <2>5. Falls(n, Q)'
    BY <1>6, <1>24, <2>1, <2>2, <2>4 DEF Falls
  <2>6. QED
    BY <1>15, <2>2, <2>3, <2>5 DEF Flow
<1>26. FlowsFrom(Len(istream) + 1)
  BY <1>16, <1>25 DEF FlowsFrom
<1>27. FlowKept
  BY <1>4, <1>21, <1>22, <1>23, <1>26 DEF FlowKept
<1>28. TInv'
  <2>1. unchecked \subseteq unchecked'
    BY <1>7
  <2>2. QED
    BY <1>13, <1>15, <1>18, <1>27, <2>1, StepTyped
<1>29. QED
  BY <1>20, <1>28

\* A declaration of locals.
LEMMA LocalDeclTyped ==
  ASSUME IInv, FInv, WInv, TInv, NEW count \in 0 .. MaxLocals, NEW type \in Types,
         OnLocalDecl(count, type)
  PROVE  WInv' /\ TInv'
BY OtherDeclTyped, LastDeclTyped

\* What holds of checked modules depends on what was compiled only.
LEMMA SameTyped ==
  ASSUME TInv, unchecked \subseteq unchecked' \cup {"host"},
         UNCHANGED <<istream, type_stack, label_stack, depth_fixups, func_offset,
                     current_func, decls_left, typing>>
  PROVE  TInv'
<1>1. SUFFICES ASSUME unchecked' \subseteq {"host"}
               PROVE  /\ \A c \in 1 .. Len(istream') : Flow(c)'
                      /\ EntriesTyped'
                      /\ current_func' # 0 => LoopsTyped'
  BY DEF TInv
<1>2. /\ \A c \in 1 .. Len(istream) : Flow(c)
      /\ EntriesTyped /\ (current_func # 0 => LoopsTyped)
  BY <1>1 DEF TInv
<1>3. NextTypes' = NextTypes
  BY DEF NextTypes
<1>4. \A t, T : At(t, T) => At(t, T)'
  BY <1>3 DEF At, TypesAt
<1>5. \A c, t : Same(c, t) => Same(c, t)'
  BY DEF Same
<1>6. \A d : /\ Below(d)' = Below(d) /\ LabelTypes(d)' = LabelTypes(d)
             /\ ArmTypes(d)' = ArmTypes(d)
  BY DEF Below, LabelTypes, ArmTypes
<1>7. \A c, t, T : Reaches(c, t, T) => Reaches(c, t, T)'
  BY <1>4, <1>5 DEF Reaches
<1>8. \A c, T : Goes(c, T) => Goes(c, T)'
  BY <1>6, <1>7 DEF Goes, Pending
<1>9. \A c, e, ts : Enters(c, e, ts) => Enters(c, e, ts)'
  BY <1>5, <1>8 DEF Enters
<1>10. \A c, ts : Falls(c, ts) => Falls(c, ts)'
  BY <1>7 DEF Falls
<1>11. \A f, c : In(f, c)' => In(f, c)
  BY DEF In
<1>12. ASSUME NEW c \in 1 .. Len(istream') PROVE Flow(c)'
  <2>1. Flow(c)
    BY <1>2
  <2>2. QED
    BY <1>7, <1>8, <1>9, <1>10, <1>11, <2>1 DEF Flow
<1>13. EntriesTyped'
  BY <1>2, <1>4 DEF EntriesTyped
<1>14. current_func' # 0 => LoopsTyped'
  BY <1>2, <1>4, <1>6 DEF LoopsTyped
<1>15. QED
  BY <1>12, <1>13, <1>14

\* Nothing but the status changes at the end of a module.
LEMMA EndModuleTyped ==
  ASSUME IInv, FInv, WInv, TInv, EndModule
  PROVE  WInv' /\ TInv'
<1>1. /\ status = "reading" /\ current_func = 0 /\ status' = "loaded"
      /\ next_func # Len(Funcs) + 1 => "bodies" \in unchecked'
      /\ unchecked \subseteq unchecked'
      /\ unchecked' \subseteq unchecked \cup {"bodies"}
  BY DEF EndModule
<1>2. UNCHANGED <<istream, type_stack, label_stack, depth_fixups, func_offset,
                  func_fixups, current_func, next_func, decls_left,
                  local_count, param_and_local_types, typing>>
  BY DEF EndModule
<1>3. WInv'
  <2>1. unchecked' \subseteq Conditions
    BY <1>1 DEF WInv, Conditions
  <2>2. \A c \in 1 .. Len(istream') : CellOK(istream', c)
    BY <1>2 DEF WInv
  <2>3. QED
    BY <1>1, <1>2, <2>1, <2>2 DEF WInv
<1>4. TInv'
  BY <1>1, <1>2, SameTyped
<1>5. QED
  BY <1>3, <1>4

\* Nor by a stuttering step.
LEMMA StutterTyped ==
  ASSUME WInv, TInv, UNCHANGED compilerVars
  PROVE  WInv' /\ TInv'
<1>1. UNCHANGED <<istream, type_stack, label_stack, depth_fixups, func_offset,
                  func_fixups, current_func, next_func, decls_left,
                  local_count, param_and_local_types, typing, status, unchecked>>
  BY DEF compilerVars
<1>2. WInv'
  BY <1>1 DEF WInv, CellOK, LocalsBelow, CurrentLast
<1>3. TInv'
  BY <1>1, SameTyped
<1>4. QED
  BY <1>2, <1>3

\* Both hold of the empty module.
LEMMA InitTyped == Init => WInv /\ TInv
<1> SUFFICES ASSUME Init PROVE WInv /\ TInv
  OBVIOUS
<1>1. /\ istream = <<>> /\ typing = <<>> /\ current_func = 0 /\ decls_left = 0
      /\ next_func = NumImports + 1 /\ status = "reading" /\ unchecked = {}
      /\ func_offset = [f \in DOMAIN Funcs |-> INVALID]
  BY DEF Init
<1>2. Len(istream) = 0 /\ Len(typing) = 0 /\ typing \in Seq(Seq(Types \cup {ANY}))
  BY <1>1
<1>3. NumImports + 1 \in 0 .. Len(Funcs) + 1 /\ 0 \in 0 .. MaxDecls
  BY CompilerAssumption
<1>4. WInv
  BY <1>1, <1>2, <1>3 DEF WInv
<1>5. TInv
  BY <1>1, <1>2 DEF TInv, EntriesTyped
<1>6. QED
  BY <1>4, <1>5

\* Every callback of the reader preserves both.
LEMMA StepTInv ==
  IInv /\ FInv /\ WInv /\ TInv /\ [ReadStep]_compilerVars => WInv' /\ TInv'
<1> SUFFICES ASSUME IInv, FInv, WInv, TInv, [ReadStep]_compilerVars
             PROVE  WInv' /\ TInv'
  OBVIOUS
<1>1. ASSUME NEW n \in 0 .. MaxDecls, BeginFunctionBody(n) PROVE WInv' /\ TInv'
  BY <1>1, BeginTyped
<1>2. ASSUME NEW n \in 0 .. MaxLocals, NEW t \in Types, OnLocalDecl(n, t)
      PROVE  WInv' /\ TInv'
  BY <1>2, LocalDeclTyped
<1>3. ASSUME NEW sig \in Sigs, OnBlock(sig) \/ OnLoop(sig) \/ OnIf(sig)
      PROVE  WInv' /\ TInv'
  BY <1>3, BlockTyped, IfTyped
<1>4. ASSUME NEW depth \in 0 .. Len(label_stack), OnBr(depth) \/ OnBrIf(depth)
      PROVE  WInv' /\ TInv'
  BY <1>4, BrTyped, BrIfTyped
<1>5. ASSUME NEW n \in 1 .. MaxTargets + 1,
             NEW targets \in [1 .. n -> 0 .. Len(label_stack)],
             OnBrTable(targets)
      PROVE  WInv' /\ TInv'
  BY <1>5, BrTableTyped
<1>6. ASSUME NEW f \in DOMAIN Funcs, OnCall(f) \/ OnCallIndirect(f)
      PROVE  WInv' /\ TInv'
  BY <1>6, CallTyped, CallIndirectTyped
<1>7. ASSUME NEW i \in 1 .. Len(param_and_local_types) + 1,
             OnGetLocal(i) \/ OnSetLocal(i) \/ OnTeeLocal(i)
      PROVE  WInv' /\ TInv'
  BY <1>7, LocalTyped, TeeTyped
<1>8. CASE \/ EndFunctionBody \/ EndModule \/ OnElse \/ OnEnd \/ OnReturn
           \/ OnUnreachable \/ OnDrop \/ OnSelect
  BY <1>8, EndFunctionTyped, EndModuleTyped, ElseTyped, EndTyped, ReturnTyped,
     UnreachableCallbackTyped, DropTyped, SelectTyped
<1>9. CASE \/ \E op \in Opcodes : OnOpcode(op)
           \/ \E t \in Types : OnConst(t)
           \/ \E g \in 1 .. Len(Globals) + 1 : OnGetGlobal(g) \/ OnSetGlobal(g)
  BY <1>9, OpcodeTyped, ConstTyped, GlobalTyped
<1>10. CASE UNCHANGED compilerVars
  BY <1>10, StutterTyped
<1>11. QED
  BY <1>1, <1>2, <1>3, <1>4, <1>5, <1>6, <1>7, <1>8, <1>9, <1>10 DEF ReadStep

\* In every module the compiler accepts and every prefix of one, an
\* instruction is reached with the types emit had recorded for it: wherever an
\* instruction continues (behind itself, at the target a fixup patched into it,
\* at an entry of its table, after the call it returns from), the types it
\* leaves are the types recorded there, unless on_if, on_else or on_br_if left
\* something unchecked.
THEOREM TypingInductive == CompilerSpec => [](IInv /\ FInv /\ WInv /\ TInv)
<1>1. Init => IInv /\ FInv /\ WInv /\ TInv
  BY InitIInv, InitFInv, InitTyped
<1>2. (IInv /\ FInv /\ WInv /\ TInv) /\ [ReadStep]_compilerVars
        => (IInv /\ FInv /\ WInv /\ TInv)'
  BY StepIInv, StepFInv, StepTInv
<1>3. QED
  BY <1>1, <1>2, PTL DEF CompilerSpec

=============================================================================
