------------------------------- MODULE Memory --------------------------------
(***************************************************************************)
(* A linear memory: its declaration (read_memory, on_memory), its data     *)
(* segments, and the LOAD, STORE, CURRENT_MEMORY and GROW_MEMORY           *)
(* instructions.  Word stands for 2^32: page counts, byte sizes and        *)
(* operands are uint32_t, the sums of LOAD and STORE uint64_t.  The        *)
(* allocator is libc's; running out of memory ends the process and is left *)
(* out.                                                                    *)
(***************************************************************************)
EXTENDS Integers, Sequences

CONSTANTS Word,      \* 2^32
          PageSize,  \* WASM_PAGE_SIZE
          MaxPages,  \* WASM_MAX_PAGES
          Widths,    \* sizes of the memory types, in bytes
          Bytes      \* byte values, 0 among them

VARIABLES status,       \* reading, loading, running, rejected or undefined
          page_limits,  \* the memory's page_limits
          byte_size,
          data,         \* the allocated bytes
          loaded,       \* the bytes the last instruction loaded
          pushed,       \* the page count the last instruction pushed, or 0
          trapped,      \* the last instruction trapped
          shadow,       \* history: the bytes stored, by unbounded address
          wrapped       \* history: a sum of page counts wrapped

resultVars == <<loaded, pushed, trapped>>
memoryVars == <<status, page_limits, byte_size, data, resultVars, shadow,
                wrapped>>

Uint32 == 0 .. Word - 1

ASSUME MemoryAssumption ==
  /\ PageSize \in Nat \ {0}
  /\ MaxPages \in Nat \ {0}
  /\ Word = PageSize * MaxPages
  /\ Widths \subseteq Nat \ {0}
  /\ 0 \in Bytes
  /\ Bytes \subseteq Nat

NEG_1 == Word - 1

\* wasm_alloc_zero of n bytes.
Zeroed(n) == [a \in 0 .. n - 1 |-> 0]

-----------------------------------------------------------------------------
(* Declaration and data segments.                                          *)

\* The limits read_memory accepts.
LimitsOk(limits) ==
  /\ limits.initial <= MaxPages
  /\ limits.has_max => limits.max <= MaxPages /\ limits.initial <= limits.max

OnMemory(limits) ==
  /\ status = "reading"
  /\ IF LimitsOk(limits)
     THEN /\ status' = "loading"
          /\ page_limits' = limits
          /\ byte_size' = (limits.initial * PageSize) % Word
          /\ data' = Zeroed(byte_size')
          /\ UNCHANGED <<resultVars, shadow, wrapped>>
     ELSE /\ status' = "rejected"
          /\ UNCHANGED <<page_limits, byte_size, data, resultVars, shadow,
                         wrapped>>

\* memcpy of src to address in a memory m.
Written(m, address, src) ==
  [a \in DOMAIN m |->
     IF a \in address .. address + Len(src) - 1 THEN src[a - address + 1]
     ELSE m[a]]

OnDataSegmentData(address, src) ==
  /\ status = "loading"
  /\ IF Len(src) > 0 /\ address + Len(src) > byte_size
     THEN /\ status' = "rejected"
          /\ UNCHANGED <<data, shadow>>
     ELSE /\ data' = Written(data, address, src)
          /\ shadow' = Written(shadow, address, src)
          /\ UNCHANGED status
  /\ UNCHANGED <<page_limits, byte_size, resultVars, wrapped>>

EndModule ==
  /\ status = "loading"
  /\ status' = "running"
  /\ UNCHANGED <<page_limits, byte_size, data, resultVars, shadow, wrapped>>

-----------------------------------------------------------------------------
(* Instructions.                                                           *)

\* Mutant of EffectiveAddress: the sum is made in 32 bits.
EffectiveAddress32(address, offset) == (address + offset) % Word

\* (uint64_t)POP_I32() + read_u32(&pc)
EffectiveAddress(address, offset) == address + offset

\* Mutant of InBounds: the width is forgotten.
InBoundsOfFirst(ea, width) == ea <= byte_size

InBounds(ea, width) == ea + width <= byte_size

\* A byte that is not the memory's.
OUTSIDE == -1

Byte(a) == IF a \in DOMAIN data THEN data[a] ELSE OUTSIDE

\* The bytes of an access are those at the 32-bit truncation of its address.
LOAD(address, offset, width) ==
  LET ea == EffectiveAddress(address, offset)
  IN  /\ status = "running"
      /\ trapped' = ~InBounds(ea, width)
      /\ loaded' = IF trapped' THEN <<>>
                   ELSE [k \in 1 .. width |-> Byte((ea % Word) + k - 1)]
      /\ pushed' = 0
      /\ UNCHANGED <<status, page_limits, byte_size, data, shadow, wrapped>>

STORE(address, offset, src) ==
  LET ea == EffectiveAddress(address, offset)
  IN  /\ status = "running"
      /\ trapped' = ~InBounds(ea, Len(src))
      /\ loaded' = <<>>
      /\ pushed' = 0
      /\ IF trapped'
         THEN UNCHANGED <<data, shadow>>
         ELSE /\ data' = Written(data, ea % Word, src)
              /\ shadow' = Written(shadow, address + offset, src)
      /\ UNCHANGED <<status, page_limits, byte_size, wrapped>>

\* An instruction that pushes a page count.
PushPages(n) == pushed' = n /\ loaded' = <<>> /\ trapped' = FALSE

CURRENT_MEMORY ==
  /\ status = "running"
  /\ PushPages(page_limits.initial)
  /\ UNCHANGED <<status, page_limits, byte_size, data, shadow, wrapped>>

MaxPageSize == IF page_limits.has_max THEN page_limits.max ELSE MaxPages

\* Mutant of GrowRefused: the size in bytes is not looked at.
GrowRefusedByPages(new_page_size) == new_page_size > MaxPageSize

\* The two PUSH_NEG_1_AND_BREAK_IF.
GrowRefused(new_page_size) ==
  \/ new_page_size > MaxPageSize
  \/ new_page_size * PageSize > Word - 1

\* Mutant of GrownData: the allocation keeps its size.
GrownDataOldSize(new_byte_size) == data

\* wasm_realloc and memset.
GrownData(new_byte_size) ==
  [a \in 0 .. new_byte_size - 1 |-> IF a < byte_size THEN data[a] ELSE 0]

\* The sum of page counts wraps.  A wrapped sum is below the old page count:
\* the memory is reallocated to fewer bytes, and the memset starts at the old
\* size and clears new - old bytes modulo 2^32, outside the allocation.
GROW_MEMORY(grow_pages) ==
  LET old_page_size == page_limits.initial
      new_page_size == (old_page_size + grow_pages) % Word
      new_byte_size == (new_page_size * PageSize) % Word
  IN  /\ status = "running"
      /\ wrapped' = (wrapped \/ old_page_size + grow_pages >= Word)
      /\ IF GrowRefused(new_page_size)
         THEN /\ PushPages(NEG_1)
              /\ UNCHANGED <<status, page_limits, byte_size, data>>
         ELSE IF new_byte_size < byte_size
         THEN /\ status' = "undefined"
              /\ UNCHANGED <<page_limits, byte_size, data, resultVars>>
         ELSE /\ data' = GrownData(new_byte_size)
              /\ page_limits' = [page_limits EXCEPT !.initial = new_page_size]
              /\ byte_size' = new_byte_size
              /\ PushPages(old_page_size)
              /\ UNCHANGED status
      /\ UNCHANGED shadow

-----------------------------------------------------------------------------
LimitsSet == [initial : Uint32, has_max : BOOLEAN, max : Uint32]

\* What a memory instruction or a data segment may write.
Sources == UNION {[1 .. w -> Bytes] : w \in Widths}

Init ==
  /\ status = "reading"
  /\ page_limits = [initial |-> 0, has_max |-> FALSE, max |-> 0]
  /\ byte_size = 0
  /\ data = Zeroed(0)
  /\ loaded = <<>>
  /\ pushed = 0
  /\ trapped = FALSE
  /\ shadow = Zeroed(2 * Word)
  /\ wrapped = FALSE

\* The process ends when the module is rejected; nothing is known of what
\* follows undefined behaviour.
Ended == status \in {"rejected", "undefined"} /\ UNCHANGED memoryVars

Next ==
  \/ \E limits \in LimitsSet : OnMemory(limits)
  \/ \E address \in Uint32, src \in Sources \cup {<<>>} :
       OnDataSegmentData(address, src)
  \/ EndModule
  \/ \E address \in Uint32, offset \in Uint32 :
       \/ \E width \in Widths : LOAD(address, offset, width)
       \/ \E src \in Sources : STORE(address, offset, src)
  \/ CURRENT_MEMORY
  \/ \E grow_pages \in Uint32 : GROW_MEMORY(grow_pages)
  \/ Ended

Spec == Init /\ [][Next]_memoryVars

-----------------------------------------------------------------------------
(* Properties.                                                             *)

TypeOK ==
  /\ status \in {"reading", "loading", "running", "rejected", "undefined"}
  /\ page_limits \in LimitsSet
  /\ byte_size \in Uint32
  /\ data \in [0 .. byte_size - 1 -> Bytes]
  /\ loaded \in Seq(Bytes \cup {OUTSIDE})
  /\ pushed \in Uint32
  /\ trapped \in BOOLEAN
  /\ shadow \in [0 .. 2 * Word - 1 -> Bytes]
  /\ wrapped \in BOOLEAN

\* The memory holds at each address what was last stored there by the full,
\* unbounded sum of operand and immediate, and zero where nothing was: no
\* access wraps around, none that passes the check reaches outside the
\* allocation, and the bytes of new pages are clear.
HoldsStores == \A a \in DOMAIN data : data[a] = shadow[a]

\* An access that does not trap is inside the memory: no load read, and no
\* store or data segment wrote, a byte the memory does not have.
AccessesInside ==
  /\ \A a \in DOMAIN shadow : shadow[a] # 0 => a \in DOMAIN data
  /\ \A k \in DOMAIN loaded : loaded[k] # OUTSIDE

\* The page count never exceeds the maximum, and unless a sum of page counts
\* wrapped, what GROW_MEMORY does is defined: a memory can be driven to the
\* last page that fits its byte size without touching bytes outside it.
DefinedUnlessWrapped ==
  /\ status = "running" => page_limits.initial <= MaxPageSize
  /\ status = "undefined" => wrapped

=============================================================================
