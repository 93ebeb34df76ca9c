---------------------------- MODULE MemoryProofs -----------------------------
(***************************************************************************)
(* Proof that the accesses of a linear memory reach exactly the bytes      *)
(* their unbounded addresses name, for every word size and page size.      *)
(***************************************************************************)
EXTENDS Memory, TLAPS

\* The allocation has the size byte_size says, which fits the word.
Allocated ==
  /\ byte_size \in 0 .. Word - 1
  /\ DOMAIN data = 0 .. byte_size - 1
  /\ DOMAIN shadow = 0 .. 2 * Word - 1
  /\ data = [a \in DOMAIN data |-> data[a]]
  /\ shadow = [a \in DOMAIN shadow |-> shadow[a]]

Pages == page_limits \in [initial : Nat, has_max : BOOLEAN, max : Nat]

\* The bytes of a memory are byte values.
ByteValues == \A a \in DOMAIN data : data[a] \in Bytes

\* Before its declaration a memory has no bytes and nothing was stored.
Undeclared == status = "reading" => \A a \in DOMAIN shadow : shadow[a] = 0

IInv ==
  /\ Pages
  /\ Allocated
  /\ ByteValues
  /\ Undeclared
  /\ HoldsStores
  /\ AccessesInside

-----------------------------------------------------------------------------
\* The word size is a positive number.
LEMMA WordFacts == Word \in Nat /\ Word > 0 /\ PageSize \in Nat /\ MaxPages \in Nat
<1>1. PageSize \in Nat /\ MaxPages \in Nat /\ PageSize > 0 /\ MaxPages > 0
  BY MemoryAssumption
<1>2. \A p, m \in Nat : p > 0 /\ m > 0 => p * m \in Nat /\ p * m > 0
  OBVIOUS
<1>3. QED
  BY <1>1, <1>2, MemoryAssumption

\* Reduction modulo the word.
LEMMA ModFacts ==
  ASSUME NEW x \in Nat
  PROVE  /\ x % Word \in 0 .. Word - 1
         /\ x < Word => x % Word = x
BY WordFacts

\* memcpy keeps the bytes of a memory, writes byte values, and writes nowhere
\* but in its range.
LEMMA WrittenFacts ==
  ASSUME NEW m, NEW address \in Nat, NEW src \in Seq(Bytes)
  PROVE  /\ DOMAIN Written(m, address, src) = DOMAIN m
         /\ Written(m, address, src)
              = [a \in DOMAIN m |-> Written(m, address, src)[a]]
         /\ \A a \in DOMAIN m :
              Written(m, address, src)[a] =
                IF a \in address .. address + Len(src) - 1
                THEN src[a - address + 1] ELSE m[a]
         /\ \A a \in address .. address + Len(src) - 1 :
              src[a - address + 1] \in Bytes
BY DEF Written

\* What an instruction or a data segment writes is a sequence of bytes.
LEMMA SourceFacts ==
  ASSUME NEW src \in Sources \cup {<<>>}
  PROVE  src \in Seq(Bytes) /\ Len(src) \in Nat
<1>1. CASE src = <<>>
  BY <1>1
<1>2. CASE src \in Sources
  <2>1. PICK w \in Widths : src \in [1 .. w -> Bytes]
    BY <1>2 DEF Sources
  <2>2. w \in Nat
    BY MemoryAssumption
  <2>3. QED
    BY <2>1, <2>2
<1>3. QED
  BY <1>1, <1>2

\* A write inside the allocation, made to the memory and to its unbounded
\* history at the same address, preserves the invariant.
LEMMA WritePreserves ==
  ASSUME IInv, Pages', status # "reading", status' # "reading",
         NEW address \in Nat, NEW src \in Seq(Bytes),
         Len(src) = 0 \/ address + Len(src) <= byte_size,
         data' = Written(data, address, src),
         shadow' = Written(shadow, address, src),
         loaded' = <<>> \/ loaded' = loaded,
         UNCHANGED byte_size
  PROVE  IInv'
<1>1. Allocated /\ ByteValues /\ HoldsStores /\ AccessesInside
  BY DEF IInv
<1>2. /\ DOMAIN data' = DOMAIN data
      /\ data' = [a \in DOMAIN data' |-> data'[a]]
      /\ \A a \in DOMAIN data :
           data'[a] = IF a \in address .. address + Len(src) - 1
                      THEN src[a - address + 1] ELSE data[a]
  BY WrittenFacts
<1>3. /\ DOMAIN shadow' = DOMAIN shadow
      /\ shadow' = [a \in DOMAIN shadow' |-> shadow'[a]]
      /\ \A a \in DOMAIN shadow :
           shadow'[a] = IF a \in address .. address + Len(src) - 1
                        THEN src[a - address + 1] ELSE shadow[a]
  BY WrittenFacts
<1>4. \A a \in address .. address + Len(src) - 1 : src[a - address + 1] \in Bytes
  BY WrittenFacts
<1>5. DOMAIN data \subseteq DOMAIN shadow
  BY <1>1, WordFacts DEF Allocated
<1>6. address .. address + Len(src) - 1 \subseteq DOMAIN data
  BY SMTT(30), <1>1, WordFacts DEF Allocated
<1>7. Allocated'
  BY <1>1, <1>2, <1>3 DEF Allocated
<1>8. ByteValues'
  BY <1>1, <1>2, <1>4 DEF ByteValues
<1>9. HoldsStores'
  BY <1>1, <1>2, <1>3, <1>5 DEF HoldsStores
<1>10. AccessesInside'
  <2>1. \A k \in DOMAIN loaded' : loaded'[k] # OUTSIDE
    BY <1>1 DEF AccessesInside
  <2>2. \A a \in DOMAIN shadow' : shadow'[a] # 0 => a \in DOMAIN data'
    BY <1>1, <1>2, <1>3, <1>6 DEF AccessesInside
  <2>3. QED
    BY <2>1, <2>2 DEF AccessesInside
<1>11. QED
  BY <1>7, <1>8, <1>9, <1>10 DEF IInv, Undeclared

\* A step that leaves the bytes alone.
LEMMA NoWritePreserves ==
  ASSUME IInv, Pages', status' # "reading" \/ status' = status,
         loaded' = <<>> \/ loaded' = loaded,
         UNCHANGED <<byte_size, data, shadow>>
  PROVE  IInv'
<1>1. Allocated' /\ ByteValues' /\ HoldsStores'
  BY DEF IInv, Allocated, ByteValues, HoldsStores
<1>2. AccessesInside'
  BY DEF IInv, AccessesInside
<1>3. Undeclared'
  BY DEF IInv, Undeclared
<1>4. QED
  BY <1>1, <1>2, <1>3 DEF IInv

\* A memory of n bytes that has every byte of the old one and is clear above.
LEMMA ResizePreserves ==
  ASSUME IInv, Pages', status' # "reading", NEW n \in 0 .. Word - 1, byte_size <= n,
         byte_size' = n,
         data' = [a \in 0 .. n - 1 |-> IF a < byte_size THEN data[a] ELSE 0],
         loaded' = <<>> \/ loaded' = loaded,
         UNCHANGED shadow
  PROVE  IInv'
<1>1. Allocated /\ ByteValues /\ HoldsStores /\ AccessesInside
  BY DEF IInv
<1>2. Allocated'
  BY <1>1 DEF Allocated
<1>3. ByteValues'
  BY <1>1, MemoryAssumption DEF Allocated, ByteValues
<1>4. HoldsStores'
  <2>1. SUFFICES ASSUME NEW a \in 0 .. n - 1
                 PROVE  data'[a] = shadow[a]
    BY DEF HoldsStores
  <2>2. CASE a < byte_size
    BY <2>2, <1>1 DEF Allocated, HoldsStores
  <2>3. CASE ~(a < byte_size)
    <3>1. a \in DOMAIN shadow /\ a \notin DOMAIN data
      BY <2>3, <1>1, WordFacts DEF Allocated
    <3>2. QED
      BY <2>3, <3>1, <1>1 DEF AccessesInside
  <2>4. QED
    BY <2>2, <2>3
<1>5. AccessesInside'
  BY <1>1 DEF Allocated, AccessesInside
<1>6. QED
  BY <1>2, <1>3, <1>4, <1>5 DEF IInv, Undeclared

-----------------------------------------------------------------------------
(* One lemma per action.                                                   *)

\* The declaration allocates cleared bytes.
LEMMA OnMemoryPreserves ==
  ASSUME IInv, NEW limits \in LimitsSet, OnMemory(limits)
  PROVE  IInv'
<1>1. CASE ~LimitsOk(limits)
  BY <1>1, NoWritePreserves DEF OnMemory, resultVars, IInv, Pages
<1>2. CASE LimitsOk(limits)
  <2>1. limits.initial \in Nat /\ limits.initial * PageSize \in Nat
    <3>1. limits.initial \in Nat
      BY WordFacts DEF LimitsSet, Uint32
    <3>2. QED
      BY <3>1, WordFacts
  <2>2. /\ byte_size' \in 0 .. Word - 1
        /\ data' = Zeroed(byte_size')
        /\ status = "reading" /\ status' = "loading"
        /\ loaded' = loaded /\ shadow' = shadow
    BY <1>2, <2>1, ModFacts DEF OnMemory, resultVars
  <2>3. Allocated'
    BY <2>2 DEF IInv, Allocated, Zeroed
  <2>4. ByteValues'
    BY <2>2, MemoryAssumption DEF ByteValues, Zeroed
  <2>5. HoldsStores'
    BY <2>2, <2>3, WordFacts DEF IInv, Undeclared, HoldsStores, Zeroed, Allocated
  <2>6. AccessesInside'
    BY <2>2 DEF IInv, Undeclared, AccessesInside
  <2>7. Pages'
    BY <1>2, WordFacts DEF OnMemory, Pages, LimitsSet, Uint32
  <2>8. QED
    BY <2>2, <2>3, <2>4, <2>5, <2>6, <2>7 DEF IInv, Undeclared
<1>3. QED
  BY <1>1, <1>2

\* A data segment is written where it fits or not at all.
LEMMA DataSegmentPreserves ==
  ASSUME IInv, NEW address \in Uint32, NEW src \in Sources \cup {<<>>},
         OnDataSegmentData(address, src)
  PROVE  IInv'
<1>1. address \in Nat /\ src \in Seq(Bytes) /\ Len(src) \in Nat
  BY SourceFacts, WordFacts DEF Uint32
<1>2. byte_size \in Nat
  BY WordFacts DEF IInv, Allocated
<1>3. CASE Len(src) > 0 /\ address + Len(src) > byte_size
  BY <1>3, NoWritePreserves DEF OnDataSegmentData, resultVars, IInv, Pages
<1>4. CASE ~(Len(src) > 0 /\ address + Len(src) > byte_size)
  <2>1. Len(src) = 0 \/ address + Len(src) <= byte_size
    BY <1>1, <1>2, <1>4
  <2>2. /\ data' = Written(data, address, src)
        /\ shadow' = Written(shadow, address, src)
        /\ status = "loading" /\ status' = status
        /\ loaded' = loaded /\ byte_size' = byte_size /\ Pages'
    BY <1>4 DEF OnDataSegmentData, resultVars, IInv, Pages
  <2>3. QED
    BY <1>1, <2>1, <2>2, WritePreserves
<1>5. QED
  BY <1>3, <1>4

\* An access in bounds has an address below the word: its truncation to 32
\* bits is the address itself.
LEMMA InBoundsFacts ==
  ASSUME Allocated, NEW address \in Uint32, NEW offset \in Uint32,
         NEW width \in Nat, width > 0,
         InBounds(EffectiveAddress(address, offset), width)
  PROVE  /\ address + offset \in Nat
         /\ address + offset + width <= byte_size
         /\ EffectiveAddress(address, offset) % Word = address + offset
<1>1. address \in Nat /\ offset \in Nat /\ byte_size \in Nat /\ byte_size < Word
  BY WordFacts DEF Uint32, Allocated
<1>2. address + offset + width <= byte_size
  BY DEF InBounds, EffectiveAddress
<1>3. address + offset < Word /\ address + offset \in Nat
  BY <1>1, <1>2, WordFacts
<1>4. QED
  BY <1>2, <1>3, ModFacts DEF EffectiveAddress

\* A load that does not trap reads bytes of the memory.
LEMMA LoadPreserves ==
  ASSUME IInv, NEW address \in Uint32, NEW offset \in Uint32,
         NEW width \in Widths, LOAD(address, offset, width)
  PROVE  IInv'
<1> DEFINE ea == EffectiveAddress(address, offset)
<1>1. width \in Nat /\ width > 0
  BY MemoryAssumption
<1>2. CASE ~InBounds(ea, width)
  BY <1>2, NoWritePreserves DEF LOAD, IInv, Pages
<1>3. CASE InBounds(ea, width)
  <2>1. /\ address + offset \in Nat
        /\ address + offset + width <= byte_size
        /\ ea % Word = address + offset
    BY <1>1, <1>3, InBoundsFacts DEF IInv
  <2>2. /\ loaded' = [k \in 1 .. width |-> Byte(address + offset + k - 1)]
        /\ UNCHANGED <<status, page_limits, byte_size, data, shadow>>
    <3>1. loaded' = [k \in 1 .. width |-> Byte((ea % Word) + k - 1)]
      BY <1>3 DEF LOAD
    <3>2. QED
      BY <3>1, <2>1 DEF LOAD
  <2>3. ASSUME NEW k \in 1 .. width
        PROVE  Byte(address + offset + k - 1) # OUTSIDE
    <3>1. address + offset + k - 1 \in 0 .. byte_size - 1
      <4>1. byte_size \in Nat /\ k \in Nat /\ 1 <= k /\ k <= width
        BY <1>1, WordFacts DEF IInv, Allocated
      <4>2. \A m \in Nat : m + width <= byte_size =>
              m + k - 1 \in 0 .. byte_size - 1
        BY <4>1, <1>1
      <4>3. QED
        BY <4>2, <2>1
    <3>2. data[address + offset + k - 1] \in Bytes
      BY <3>1 DEF IInv, Allocated, ByteValues
    <3>3. OUTSIDE \notin Bytes
      BY MemoryAssumption DEF OUTSIDE
    <3>4. QED
      BY <3>1, <3>2, <3>3 DEF Byte, IInv, Allocated
  <2>4. AccessesInside'
    BY <2>2, <2>3 DEF IInv, AccessesInside
  <2>5. QED
    BY <2>2, <2>4 DEF IInv, Pages, Allocated, ByteValues, Undeclared,
                      HoldsStores
<1>4. QED
  BY <1>2, <1>3

\* A store that does not trap writes bytes of the memory.
LEMMA StorePreserves ==
  ASSUME IInv, NEW address \in Uint32, NEW offset \in Uint32,
         NEW src \in Sources, STORE(address, offset, src)
  PROVE  IInv'
<1> DEFINE ea == EffectiveAddress(address, offset)
<1>1. src \in Seq(Bytes) /\ Len(src) \in Nat /\ Len(src) > 0
  <2>1. PICK w \in Widths : src \in [1 .. w -> Bytes]
    BY DEF Sources
  <2>2. w \in Nat /\ w > 0
    BY MemoryAssumption
  <2>3. QED
    BY <2>1, <2>2
<1>2. CASE ~InBounds(ea, Len(src))
  BY <1>2, NoWritePreserves DEF STORE, IInv, Pages
<1>3. CASE InBounds(ea, Len(src))
  <2>1. /\ address + offset \in Nat
        /\ address + offset + Len(src) <= byte_size
        /\ ea % Word = address + offset
    BY <1>1, <1>3, InBoundsFacts DEF IInv
  <2>2. /\ data' = Written(data, address + offset, src)
        /\ shadow' = Written(shadow, address + offset, src)
        /\ status = "running" /\ status' = status
        /\ loaded' = <<>> /\ byte_size' = byte_size /\ Pages'
    BY <1>3, <2>1 DEF STORE, IInv, Pages
  <2>3. QED
    BY <1>1, <2>1, <2>2, WritePreserves
<1>4. QED
  BY <1>2, <1>3

\* A memory that grows keeps its bytes and gets cleared ones.
LEMMA GrowPreserves ==
  ASSUME IInv, NEW grow_pages \in Uint32, GROW_MEMORY(grow_pages)
  PROVE  IInv'
<1> DEFINE new_page_size == (page_limits.initial + grow_pages) % Word
           new_byte_size == (new_page_size * PageSize) % Word
<1>1. page_limits.initial + grow_pages \in Nat
  BY WordFacts DEF IInv, Pages, Uint32
<1>2. new_page_size \in Nat /\ new_page_size * PageSize \in Nat
  BY <1>1, ModFacts, WordFacts
<1>3. CASE GrowRefused(new_page_size) \/ new_byte_size < byte_size
  <2>1. /\ status' # "reading"
        /\ Pages'
        /\ loaded' = <<>> \/ loaded' = loaded
        /\ UNCHANGED <<byte_size, data, shadow>>
    BY <1>3 DEF GROW_MEMORY, PushPages, resultVars, IInv, Pages
  <2>2. QED
    BY <2>1, NoWritePreserves
<1>4. CASE ~GrowRefused(new_page_size) /\ ~(new_byte_size < byte_size)
  <2>1. /\ byte_size' = new_byte_size
        /\ data' = GrownData(new_byte_size)
        /\ status' # "reading"
        /\ loaded' = <<>> /\ shadow' = shadow
    BY <1>4 DEF GROW_MEMORY, PushPages
  <2>2. new_byte_size \in 0 .. Word - 1
    BY <1>2, ModFacts
  <2>3. Pages'
    <3>1. page_limits' = [page_limits EXCEPT !.initial = new_page_size]
      BY <1>4 DEF GROW_MEMORY
    <3> HIDE DEF new_page_size
    <3>2. QED
      BY <3>1, <1>2 DEF IInv, Pages
  <2>4. byte_size <= new_byte_size
    BY <1>4, <2>2, WordFacts DEF IInv, Allocated
  <2> HIDE DEF new_byte_size
  <2>5. QED
    BY <2>1, <2>2, <2>3, <2>4, ResizePreserves DEF GrownData
<1>5. QED
  BY <1>3, <1>4

-----------------------------------------------------------------------------
\* Before the declaration there is no memory.
LEMMA InitIInv == Init => IInv
BY WordFacts DEF Init, IInv, Pages, Allocated, ByteValues, Undeclared,
                 HoldsStores, AccessesInside, Zeroed

\* Every step preserves the inductive invariant.
LEMMA StepIInv == IInv /\ [Next]_memoryVars => IInv'
<1> SUFFICES ASSUME IInv, [Next]_memoryVars
             PROVE  IInv'
  OBVIOUS
<1>1. CASE EndModule \/ CURRENT_MEMORY \/ Ended \/ UNCHANGED memoryVars
  <2>1. /\ status' # "reading" \/ status' = status
        /\ loaded' = <<>> \/ loaded' = loaded
        /\ UNCHANGED <<page_limits, byte_size, data, shadow>>
    BY <1>1 DEF EndModule, CURRENT_MEMORY, PushPages, Ended, memoryVars,
                resultVars
  <2>2. QED
    BY <2>1, NoWritePreserves DEF IInv, Pages
<1>2. CASE \E limits \in LimitsSet : OnMemory(limits)
  BY <1>2, OnMemoryPreserves
<1>3. CASE \E address \in Uint32, src \in Sources \cup {<<>>} :
             OnDataSegmentData(address, src)
  BY <1>3, DataSegmentPreserves
<1>4. CASE \E address \in Uint32, offset \in Uint32 :
             \/ \E width \in Widths : LOAD(address, offset, width)
             \/ \E src \in Sources : STORE(address, offset, src)
  BY <1>4, LoadPreserves, StorePreserves
<1>5. CASE \E grow_pages \in Uint32 : GROW_MEMORY(grow_pages)
  BY <1>5, GrowPreserves
<1>6. QED
  BY <1>1, <1>2, <1>3, <1>4, <1>5 DEF Next

\* For every word size, page size and access width: each byte of the memory is
\* what was last stored at its address, as summed without a bound, or clear.
THEOREM HoldsStoresAlways == Spec => []HoldsStores
<1>1. IInv => HoldsStores
  BY DEF IInv
<1>2. QED
  BY <1>1, InitIInv, StepIInv, PTL DEF Spec

\* For every word size, page size and access width: an access that does not
\* trap is inside the allocation.
THEOREM AccessesInsideAlways == Spec => []AccessesInside
<1>1. IInv => AccessesInside
  BY DEF IInv
<1>2. QED
  BY <1>1, InitIInv, StepIInv, PTL DEF Spec

-----------------------------------------------------------------------------
(* Types.                                                                  *)

\* The part of the type invariant that IInv does not give.
ResultTypes ==
  /\ status \in {"reading", "loading", "running", "rejected", "undefined"}
  /\ page_limits \in LimitsSet
  /\ loaded \in Seq(Bytes \cup {OUTSIDE})
  /\ pushed \in Uint32
  /\ trapped \in BOOLEAN
  /\ wrapped \in BOOLEAN

\* A byte read is a byte value, or marked as outside the memory.
LEMMA ByteFacts ==
  ASSUME ByteValues, NEW a
  PROVE  Byte(a) \in Bytes \cup {OUTSIDE}
BY DEF ByteValues, Byte

\* LOAD pushes a sequence of bytes; a comparison of sizes is a Boolean.
LEMMA LoadTypes ==
  ASSUME IInv, ResultTypes, NEW address \in Uint32, NEW offset \in Uint32,
         NEW width \in Widths, LOAD(address, offset, width)
  PROVE  ResultTypes'
<1> DEFINE ea == EffectiveAddress(address, offset)
<1>1. width \in Nat
  BY MemoryAssumption
<1>2. trapped' \in BOOLEAN
  BY DEF LOAD, InBounds
<1>3. loaded' \in Seq(Bytes \cup {OUTSIDE})
  <2>1. CASE trapped'
    BY <2>1 DEF LOAD
  <2>2. CASE ~trapped'
    <3>1. loaded' = [k \in 1 .. width |-> Byte((ea % Word) + k - 1)]
      BY <2>2 DEF LOAD
    <3>2. \A k \in 1 .. width : Byte((ea % Word) + k - 1) \in Bytes \cup {OUTSIDE}
      BY ByteFacts DEF IInv
    <3> HIDE DEF ea
    <3>3. QED
      BY <1>1, <3>1, <3>2
  <2>3. QED
    BY <2>1, <2>2
<1>4. pushed' = 0 /\ UNCHANGED <<status, page_limits, wrapped>>
  BY DEF LOAD
<1>5. 0 \in Uint32
  BY WordFacts DEF Uint32
<1>6. QED
  BY <1>2, <1>3, <1>4, <1>5 DEF ResultTypes

\* An instruction that pushes a page count leaves results of their types.
LEMMA PushTypes ==
  ASSUME ResultTypes, NEW n \in Uint32, PushPages(n), status' = status,
         page_limits' = page_limits \/ page_limits' \in LimitsSet,
         wrapped' \in BOOLEAN
  PROVE  ResultTypes'
<1>1. loaded' \in Seq(Bytes \cup {OUTSIDE})
  BY DEF PushPages
<1>2. trapped' \in BOOLEAN /\ pushed' \in Uint32
  BY DEF PushPages
<1>3. QED
  BY <1>1, <1>2 DEF ResultTypes

\* Growth pushes a page count or -1, both of the width of a word.
LEMMA GrowTypes ==
  ASSUME ResultTypes, NEW grow_pages \in Uint32, GROW_MEMORY(grow_pages)
  PROVE  ResultTypes'
<1> DEFINE new_page_size == (page_limits.initial + grow_pages) % Word
           new_byte_size == (new_page_size * PageSize) % Word
<1>1. page_limits.initial \in Uint32 /\ page_limits \in LimitsSet
  BY DEF ResultTypes, LimitsSet
<1>2. page_limits.initial + grow_pages \in Nat
  BY <1>1, WordFacts DEF Uint32
<1>3. new_page_size \in Uint32
  BY <1>2, ModFacts DEF Uint32
<1>4. NEG_1 \in Uint32
  BY WordFacts DEF NEG_1, Uint32
<1>5. wrapped' \in BOOLEAN
  BY DEF GROW_MEMORY, ResultTypes
<1>6. \/ PushPages(NEG_1) /\ UNCHANGED <<status, page_limits>>
      \/ status' = "undefined" /\ UNCHANGED <<page_limits, resultVars>>
      \/ /\ page_limits' = [page_limits EXCEPT !.initial = new_page_size]
         /\ PushPages(page_limits.initial)
         /\ UNCHANGED status
  BY DEF GROW_MEMORY
<1> HIDE DEF new_page_size
<1>7. [page_limits EXCEPT !.initial = new_page_size] \in LimitsSet
  BY <1>1, <1>3 DEF LimitsSet
<1>8. CASE PushPages(NEG_1) /\ UNCHANGED <<status, page_limits>>
  BY <1>4, <1>5, <1>8, PushTypes
<1>9. CASE status' = "undefined" /\ UNCHANGED <<page_limits, resultVars>>
  BY <1>5, <1>9 DEF ResultTypes, resultVars
<1>10. CASE /\ page_limits' = [page_limits EXCEPT !.initial = new_page_size]
            /\ PushPages(page_limits.initial)
            /\ UNCHANGED status
  BY <1>1, <1>5, <1>7, <1>10, PushTypes
<1>11. QED
  BY <1>6, <1>8, <1>9, <1>10

\* Every step keeps the types of what it assigns.
LEMMA StepTypes == IInv /\ ResultTypes /\ [Next]_memoryVars => ResultTypes'
<1> SUFFICES ASSUME IInv, ResultTypes, [Next]_memoryVars
             PROVE  ResultTypes'
  OBVIOUS
<1>1. 0 \in Uint32
  BY WordFacts DEF Uint32
<1>2. ASSUME NEW limits \in LimitsSet, OnMemory(limits)
      PROVE  ResultTypes'
  BY <1>2 DEF OnMemory, ResultTypes, resultVars
<1>3. ASSUME NEW address \in Uint32, NEW src \in Sources \cup {<<>>},
             OnDataSegmentData(address, src)
      PROVE  ResultTypes'
  BY <1>3 DEF OnDataSegmentData, ResultTypes, resultVars
<1>4. CASE EndModule
  BY <1>4 DEF EndModule, ResultTypes, resultVars
<1>5. ASSUME NEW address \in Uint32, NEW offset \in Uint32, NEW src \in Sources,
             STORE(address, offset, src)
      PROVE  ResultTypes'
  <2>1. trapped' \in BOOLEAN /\ loaded' = <<>> /\ pushed' = 0
    BY <1>5 DEF STORE, InBounds
  <2>2. UNCHANGED <<status, page_limits, wrapped>>
    BY <1>5 DEF STORE
  <2>3. loaded' \in Seq(Bytes \cup {OUTSIDE}) /\ pushed' \in Uint32
    BY <1>1, <2>1
  <2>4. QED
    BY <2>1, <2>2, <2>3 DEF ResultTypes
<1>6. CASE CURRENT_MEMORY
  <2>1. /\ PushPages(page_limits.initial)
        /\ UNCHANGED <<status, page_limits, wrapped>>
    BY <1>6 DEF CURRENT_MEMORY
  <2>2. page_limits.initial \in Uint32 /\ wrapped \in BOOLEAN
    BY DEF ResultTypes, LimitsSet
  <2>3. QED
    BY <2>1, <2>2, PushTypes
<1>7. CASE Ended \/ UNCHANGED memoryVars
  BY <1>7 DEF Ended, memoryVars, ResultTypes, resultVars
<1>8. CASE \E address \in Uint32, offset \in Uint32 :
             \/ \E width \in Widths : LOAD(address, offset, width)
             \/ \E src \in Sources : STORE(address, offset, src)
  BY <1>5, <1>8, LoadTypes
<1>9. CASE \E grow_pages \in Uint32 : GROW_MEMORY(grow_pages)
  BY <1>9, GrowTypes
<1>10. CASE \/ \E limits \in LimitsSet : OnMemory(limits)
            \/ \E address \in Uint32, src \in Sources \cup {<<>>} :
                 OnDataSegmentData(address, src)
  BY <1>2, <1>3, <1>10
<1>11. QED
  BY <1>4, <1>6, <1>7, <1>8, <1>9, <1>10 DEF Next

\* For every instance, the variables have their types: the allocation has
\* byte_size bytes, and page counts, sizes and pushed values fit a word.
THEOREM TypesAlways == Spec => []TypeOK
<1>1. Init => ResultTypes
  <2> SUFFICES ASSUME Init
               PROVE  ResultTypes
    OBVIOUS
  <2>1. 0 \in Uint32
    BY WordFacts DEF Uint32
  <2>2. [initial |-> 0, has_max |-> FALSE, max |-> 0] \in LimitsSet
    BY <2>1 DEF LimitsSet
  <2>3. loaded \in Seq(Bytes \cup {OUTSIDE}) /\ pushed \in Uint32
    BY <2>1 DEF Init
  <2>4. trapped \in BOOLEAN /\ wrapped \in BOOLEAN
    BY DEF Init
  <2>5. QED
    BY <2>2, <2>3, <2>4 DEF Init, ResultTypes
<1>2. IInv /\ ResultTypes => TypeOK
  <2> SUFFICES ASSUME IInv, ResultTypes
               PROVE  TypeOK
    OBVIOUS
  <2>1. byte_size \in Uint32
    BY DEF IInv, Allocated, Uint32
  <2>2. data \in [0 .. byte_size - 1 -> Bytes]
    BY DEF IInv, Allocated, ByteValues
  <2>3. ASSUME NEW a \in DOMAIN shadow
        PROVE  shadow[a] \in Bytes
    <3>1. CASE a \in DOMAIN data
      BY <3>1 DEF IInv, HoldsStores, ByteValues
    <3>2. CASE a \notin DOMAIN data
      BY <2>3, <3>2, MemoryAssumption DEF IInv, AccessesInside
    <3>3. QED
      BY <3>1, <3>2
  <2>4. shadow \in [0 .. 2 * Word - 1 -> Bytes]
    BY <2>3 DEF IInv, Allocated
  <2>5. QED
    BY <2>1, <2>2, <2>4 DEF ResultTypes, TypeOK
<1>3. QED
  BY <1>1, <1>2, InitIInv, StepIInv, StepTypes, PTL DEF Spec

-----------------------------------------------------------------------------
(* When GROW_MEMORY is defined.                                            *)

\* The page count respects the declared maximum from the declaration on, and
\* unless a sum wrapped the memory has no more bytes than its pages.
PagesInv ==
  /\ Pages
  /\ byte_size \in Nat
  /\ status \in {"loading", "running"} => page_limits.initial <= MaxPageSize
  /\ ~wrapped => byte_size <= page_limits.initial * PageSize
  /\ status = "undefined" => wrapped
  /\ wrapped \in BOOLEAN

\* Multiplication by a natural number is monotonic.
LEMMA TimesMonotonic ==
  ASSUME NEW p \in Nat, NEW a \in Nat, NEW b \in Nat, a <= b
  PROVE  a * p <= b * p /\ a * p \in Nat
OBVIOUS

\* Reduction never makes a number larger.
LEMMA ModAtMost ==
  ASSUME NEW x \in Nat
  PROVE  x % Word <= x
BY ModFacts, WordFacts

\* A step that leaves the size of the memory alone.
LEMMA SizeUnchanged ==
  ASSUME PagesInv, UNCHANGED <<page_limits, byte_size>>,
         wrapped' \in BOOLEAN, wrapped => wrapped',
         status' = "running" => status \in {"loading", "running"},
         status' = "loading" => status = "loading",
         status' = "undefined" => status = "undefined" \/ wrapped'
  PROVE  PagesInv'
BY DEF PagesInv, Pages, MaxPageSize

\* GROW_MEMORY.
LEMMA GrowPagesInv ==
  ASSUME PagesInv, NEW grow_pages \in Uint32, GROW_MEMORY(grow_pages)
  PROVE  PagesInv'
<1> DEFINE old == page_limits.initial
           new == (old + grow_pages) % Word
           bytes == (new * PageSize) % Word
<1>1. old \in Nat /\ grow_pages \in Nat /\ old + grow_pages \in Nat
  BY WordFacts DEF PagesInv, Pages, Uint32
<1>2. new \in Nat /\ new * PageSize \in Nat /\ bytes \in Nat
  BY <1>1, ModFacts, WordFacts
<1>3. /\ status = "running"
      /\ wrapped' = (wrapped \/ old + grow_pages >= Word)
  BY DEF GROW_MEMORY
<1>4. wrapped' \in BOOLEAN /\ (wrapped => wrapped')
  BY <1>3 DEF PagesInv
<1>5. ~wrapped' => new = old + grow_pages /\ old <= new /\ ~wrapped
  <2>1. ~wrapped' => ~wrapped /\ ~(old + grow_pages >= Word)
    BY <1>3, Zenon
  <2>2. ~(old + grow_pages >= Word) => new = old + grow_pages /\ old <= new
    BY <1>1, ModFacts, WordFacts
  <2>3. QED
    BY <2>1, <2>2, Zenon
<1>6. ~wrapped' => byte_size <= new * PageSize
  <2>1. SUFFICES ASSUME ~wrapped'
                 PROVE  byte_size <= new * PageSize
    OBVIOUS
  <2>2. byte_size <= old * PageSize
    BY <2>1, <1>5 DEF PagesInv
  <2>3. old * PageSize <= new * PageSize /\ old * PageSize \in Nat
    BY <2>1, <1>1, <1>2, <1>5, TimesMonotonic, WordFacts
  <2>4. byte_size \in Nat
    BY DEF PagesInv
  <2> HIDE DEF new, old
  <2>5. QED
    BY <2>2, <2>3, <2>4, <1>2
<1>7. CASE GrowRefused(new)
  <2>1. UNCHANGED <<status, page_limits, byte_size>>
    BY <1>7 DEF GROW_MEMORY
  <2>2. QED
    BY <1>3, <1>4, <2>1, SizeUnchanged
<1>8. CASE ~GrowRefused(new) /\ bytes < byte_size
  <2>1. status' = "undefined" /\ UNCHANGED <<page_limits, byte_size>>
    BY <1>8 DEF GROW_MEMORY
  <2>2. wrapped'
    <3>1. SUFFICES ASSUME ~wrapped'
                   PROVE  FALSE
      BY <1>4
    <3>2. new * PageSize < Word
      BY <1>8, <1>2, WordFacts DEF GrowRefused
    <3>3. bytes = new * PageSize
      BY <3>2, <1>2, ModFacts
    <3>4. byte_size \in Nat
      BY DEF PagesInv
    <3> HIDE DEF new, bytes
    <3>5. QED
      BY <3>1, <3>3, <3>4, <1>2, <1>6, <1>8
  <2>3. QED
    BY <1>4, <2>1, <2>2, SizeUnchanged
<1>9. CASE ~GrowRefused(new) /\ ~(bytes < byte_size)
  <2>1. /\ page_limits' = [page_limits EXCEPT !.initial = new]
        /\ byte_size' = bytes
        /\ status' = "running"
    BY <1>3, <1>9 DEF GROW_MEMORY
  <2>2. new <= MaxPageSize
    <3>1. MaxPageSize \in Nat
      BY WordFacts DEF MaxPageSize, PagesInv, Pages
    <3>2. QED
      BY <3>1, <1>2, <1>9 DEF GrowRefused
  <2>3. bytes <= new * PageSize
    BY <1>2, ModAtMost
  <2> HIDE DEF new, bytes
  <2>4. Pages' /\ page_limits'.initial = new /\ MaxPageSize' = MaxPageSize
    BY <2>1, <1>2 DEF PagesInv, Pages, MaxPageSize
  <2>5. QED
    BY <1>2, <1>4, <2>1, <2>2, <2>3, <2>4 DEF PagesInv
<1>10. QED
  BY <1>7, <1>8, <1>9

\* The declaration.
LEMMA OnMemoryPagesInv ==
  ASSUME PagesInv, NEW limits \in LimitsSet, OnMemory(limits)
  PROVE  PagesInv'
<1>1. limits \in [initial : Nat, has_max : BOOLEAN, max : Nat]
  BY WordFacts DEF LimitsSet, Uint32
<1>2. CASE ~LimitsOk(limits)
  <2>1. /\ UNCHANGED <<page_limits, byte_size, wrapped>>
        /\ status' = "rejected"
    BY <1>2 DEF OnMemory
  <2>2. QED
    BY <2>1 DEF PagesInv, Pages
<1>3. CASE LimitsOk(limits)
  <2>1. /\ page_limits' = limits /\ status' = "loading" /\ wrapped' = wrapped
        /\ byte_size' = (limits.initial * PageSize) % Word
    BY <1>3 DEF OnMemory
  <2>2. limits.initial * PageSize \in Nat
    BY <1>1, WordFacts
  <2>3. byte_size' \in Nat /\ byte_size' <= limits.initial * PageSize
    BY <2>1, <2>2, ModFacts, ModAtMost, WordFacts
  <2>4. limits.initial <= MaxPageSize'
    BY <1>1, <1>3, <2>1 DEF LimitsOk, MaxPageSize
  <2>5. QED
    BY <1>1, <2>1, <2>3, <2>4 DEF PagesInv, Pages
<1>4. QED
  BY <1>2, <1>3

\* For every word and page size: the page count never exceeds its maximum, and
\* GROW_MEMORY is undefined only after a sum of page counts wrapped.
THEOREM DefinedUnlessWrappedAlways == Spec => []DefinedUnlessWrapped
<1>1. Init => PagesInv
  <2> SUFFICES ASSUME Init
               PROVE  PagesInv
    OBVIOUS
  <2>1. Pages /\ page_limits.initial = 0 /\ byte_size = 0
    BY DEF Init, Pages
  <2>2. byte_size <= page_limits.initial * PageSize
    BY <2>1, WordFacts
  <2>3. wrapped \in BOOLEAN /\ status = "reading"
    BY DEF Init
  <2>4. QED
    BY <2>1, <2>2, <2>3 DEF PagesInv
<1>2. PagesInv /\ [Next]_memoryVars => PagesInv'
  <2> SUFFICES ASSUME PagesInv, [Next]_memoryVars
               PROVE  PagesInv'
    OBVIOUS
  <2>1. CASE \E limits \in LimitsSet : OnMemory(limits)
    BY <2>1, OnMemoryPagesInv
  <2>2. CASE \E grow_pages \in Uint32 : GROW_MEMORY(grow_pages)
    BY <2>2, GrowPagesInv
  <2>3. CASE \/ \E address \in Uint32, src \in Sources \cup {<<>>} :
                  OnDataSegmentData(address, src)
             \/ EndModule
             \/ \E address \in Uint32, offset \in Uint32 :
                  \/ \E width \in Widths : LOAD(address, offset, width)
                  \/ \E src \in Sources : STORE(address, offset, src)
             \/ CURRENT_MEMORY
             \/ Ended
             \/ UNCHANGED memoryVars
    <3>1. /\ UNCHANGED <<page_limits, byte_size, wrapped>>
          /\ \/ status' = status
             \/ status' = "rejected"
             \/ status = "loading" /\ status' = "running"
      BY <2>3 DEF OnDataSegmentData, EndModule, LOAD, STORE, CURRENT_MEMORY,
                  Ended, memoryVars
    <3>2. QED
      BY <3>1, SizeUnchanged DEF PagesInv
  <2>4. QED
    BY <2>1, <2>2, <2>3 DEF Next
<1>3. PagesInv => DefinedUnlessWrapped
  BY DEF PagesInv, DefinedUnlessWrapped
<1>4. QED
  BY <1>1, <1>2, <1>3, PTL DEF Spec

=============================================================================
