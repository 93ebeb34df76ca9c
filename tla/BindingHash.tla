------------------------------ MODULE BindingHash ------------------------------
(* binding-hash.c: an array of entries, each in the chain of the slot its name
   hashes to or in the free list, which shares the next pointers; the array is
   doubled when no entry is free.  A pointer is a slot, NULL or a slot number
   from 0.  An entry with no name is taken to be free (wasm_hash_entry_is_free):
   the names here are not empty. *)
EXTENDS Integers, FiniteSets

CONSTANTS Names,
          HashValues,       \* the values of hash_name
          InitialCapacity,  \* INITIAL_HASH_CAPACITY
          MaxSize           \* bound on the bindings inserted

NULL == -1
NoName == ""

ASSUME CapacityAssumption == InitialCapacity \in Nat \ {0} /\ MaxSize \in Nat

ASSUME NamesAssumption == NoName \notin Names /\ HashValues \subseteq Nat

VARIABLES hash_name,  \* the hash value of each name: any function of the name
          hash,       \* [capacity, size, free_head, entries]
          found,      \* history: the answer to the last search
          asserts     \* FALSE when an assertion of hash_new_entry has failed

vars == <<hash_name, hash, found, asserts>>

EmptyHash == [capacity |-> 0, size |-> 0, free_head |-> NULL, entries |-> <<>>]

Slots(h) == 0 .. h.capacity - 1
hash_main_entry(h, n) == hash_name[n] % h.capacity
wasm_hash_entry_is_free(h, s) == h.entries[s].name = NoName

Used(h) == {s \in Slots(h) : ~wasm_hash_entry_is_free(h, s)}

\* The n-th entry along the next pointers from s
Along(h, s) ==
  LET at[n \in 0 .. h.capacity] ==
        IF n = 0 THEN s ELSE IF at[n - 1] = NULL THEN NULL ELSE h.entries[at[n - 1]].next
  IN at

(* ------------------------------- a new entry ------------------------------- *)
SetNext(h, s, next) == [h EXCEPT !.entries[s].next = next]
SetPrev(h, s, prev) == IF s = NULL THEN h ELSE [h EXCEPT !.entries[s].prev = prev]

PopFree(h) ==
  LET next == h.entries[h.free_head].next
  IN SetPrev([h EXCEPT !.free_head = next], next, NULL)

\* mutant: the entry before the removed one keeps pointing to it
UnlinkFreeKeepsPrev(h, s) ==
  LET e == h.entries[s]
      h1 == SetPrev(h, e.next, e.prev)
  IN SetNext(IF e.prev # NULL THEN h1 ELSE [h1 EXCEPT !.free_head = e.next], s, NULL)

UnlinkFree(h, s) ==
  LET e == h.entries[s]
      h1 == SetPrev(h, e.next, e.prev)
      h2 == IF e.prev # NULL THEN SetNext(h1, e.prev, e.next) ELSE [h1 EXCEPT !.free_head = e.next]
  IN SetNext(h2, s, NULL)

Claim(h, s, n) == [h EXCEPT !.entries[s].name = n, !.entries[s].index = 0, !.entries[s].prev = NULL]

\* The entry in slot s is in its main position: the new one is second in its chain.
Chained(h, s, free, n) ==
  Claim(SetNext(SetNext(h, free, h.entries[s].next), s, free), free, n)

\* It is not: it moves to the free entry, and the one before it in its chain
\* points there.
Moved(h, s, free, n) ==
  LET chain == Along(h, hash_main_entry(h, h.entries[s].name))
      before == chain[CHOOSE i \in DOMAIN chain :
                        chain[i] # NULL /\ h.entries[chain[i]].next = s]
      h1 == SetNext(h, before, free)
  IN Claim(SetNext([h1 EXCEPT !.entries[free] = h1.entries[s]], s, NULL), s, n)

\* The state after the call and the slot of the new entry, or a failed assertion.
hash_new_entry(h, n) ==
  LET s == hash_main_entry(h, n)
      free == h.free_head
      other == hash_main_entry(h, h.entries[s].name)
  IN CASE wasm_hash_entry_is_free(h, s) ->
            [h |-> Claim(UnlinkFree(h, s), s, n), slot |-> s, ok |-> TRUE]
       [] ~wasm_hash_entry_is_free(h, s) /\ free = NULL -> [h |-> h, slot |-> s, ok |-> FALSE]
       [] OTHER ->
            IF other = s THEN [h |-> Chained(PopFree(h), s, free, n), slot |-> free, ok |-> TRUE]
            ELSE IF wasm_hash_entry_is_free(h, other) THEN [h |-> h, slot |-> s, ok |-> FALSE]
            ELSE [h |-> Moved(PopFree(h), s, free, n), slot |-> s, ok |-> TRUE]

(* --------------------------------- operations ------------------------------ *)
\* The free list runs from the last entry to the first.
FreshEntries(capacity) ==
  [s \in 0 .. capacity - 1 |->
     [name |-> NoName, index |-> 0, next |-> s - 1,
      prev |-> IF s = capacity - 1 THEN NULL ELSE s + 1]]

\* The new hash with the entry of slot s of h in it too.
Copied(acc, h, s) ==
  LET new == hash_new_entry(acc, h.entries[s].name)
  IN IF wasm_hash_entry_is_free(h, s) THEN acc
     ELSE [new.h EXCEPT !.entries[new.slot].index = h.entries[s].index]

\* A hash of the bindings in the first n entries of h; its size stays 0.
Rehashed(h, capacity, n) ==
  LET fresh == [capacity |-> capacity, size |-> 0, free_head |-> capacity - 1,
                entries |-> FreshEntries(capacity)]
      copied[i \in 0 .. n] == IF i = 0 THEN fresh ELSE Copied(copied[i - 1], h, i - 1)
  IN copied[n]

\* mutant: size is taken for the number of entries
hash_resizeBySize(h, capacity) == Rehashed(h, capacity, h.size)

hash_resize(h, capacity) == Rehashed(h, capacity, h.capacity)

ReadyHash(h) ==
  LET h1 == IF h.size = 0 THEN hash_resize(h, InitialCapacity) ELSE h
  IN IF h1.free_head = NULL THEN hash_resize(h1, h1.capacity * 2) ELSE h1

Bound == Cardinality(Used(hash))

\* The caller stores the index in the binding that is returned.
wasm_insert_binding(n) ==
  LET new == hash_new_entry(ReadyHash(hash), n)
  IN /\ Bound < MaxSize
     /\ hash' = IF new.ok THEN [new.h EXCEPT !.size = @ + 1, !.entries[new.slot].index = Bound]
                ELSE hash
     /\ asserts' = (asserts /\ new.ok)
     /\ UNCHANGED <<hash_name, found>>

(* The first entry is compared before it is looked at whether it is free; a free
   one leads along the free list, whose entries are free.  In a chain that led back to
   itself the search would not end. *)
FindIndex(h, n) ==
  LET chain == Along(h, hash_main_entry(h, n))
      Visited(i) == /\ chain[i] # NULL
                    /\ \A j \in 1 .. i : ~wasm_hash_entry_is_free(h, chain[j])
      hits == {i \in 0 .. h.capacity - 1 : Visited(i) /\ h.entries[chain[i]].name = n}
  IN IF h.capacity = 0 \/ hits = {} THEN -1
     ELSE h.entries[chain[CHOOSE i \in hits : \A j \in hits : i <= j]].index

wasm_find_binding_index_by_name(n) ==
  /\ found' = [name |-> n, index |-> FindIndex(hash, n)]
  /\ UNCHANGED <<hash_name, hash, asserts>>

(* The index of the binding is used as the slot of its entry.  The only caller,
   wasm_reset_interpreter_environment_to_mark, asks for names that are not bound
   (Environment, BindingsBelowMark), which is the guard here. *)
wasm_remove_binding(n) ==
  LET i == FindIndex(hash, n)
  IN /\ \A s \in Used(hash) : hash.entries[s].name # n
     /\ hash' = IF i = -1 THEN hash
                ELSE [hash EXCEPT !.entries[i] = [name |-> NoName, index |-> 0,
                                                  next |-> NULL, prev |-> NULL]]
     /\ UNCHANGED <<hash_name, found, asserts>>

Init ==
  /\ hash_name \in [Names -> HashValues]
  /\ hash = EmptyHash /\ found = [name |-> NoName, index |-> -1] /\ asserts = TRUE

Next ==
  \E n \in Names : \/ wasm_insert_binding(n)
                   \/ wasm_find_binding_index_by_name(n)
                   \/ wasm_remove_binding(n)

Spec == Init /\ [][Next]_vars

(* -------------------------------- properties ------------------------------- *)
(* The free list holds the free entries, each once, and is linked both ways:
   an entry that is claimed in the middle of the list, popped from its head or
   handed over by a resize leaves the list whole. *)
FreeListWhole ==
  LET free == Slots(hash) \ Used(hash)
      list == Along(hash, hash.free_head)
      listed == {i \in DOMAIN list : list[i] # NULL}
  IN hash.capacity > 0 =>
       /\ {list[i] : i \in listed} = free
       /\ Cardinality(listed) = Cardinality(free)
       /\ \A i \in listed : hash.entries[list[i]].prev = IF i = 0 THEN NULL ELSE list[i - 1]

(* Chains do not mix: from the main slot of a used entry's name the next pointers
   lead to it through used entries that all have that main slot, so moving an
   entry out of the slot of another never cuts a chain; and no assertion of
   hash_new_entry fails. *)
ChainsApart ==
  /\ asserts
  /\ \A s \in Used(hash) :
       LET main == hash_main_entry(hash, hash.entries[s].name)
           chain == Along(hash, main)
       IN \E i \in DOMAIN chain :
            /\ chain[i] = s
            /\ \A j \in 0 .. i : /\ chain[j] \in Used(hash)
                                 /\ hash_main_entry(hash, hash.entries[chain[j]].name) = main

(* Each entry is in the free list, once and linked both ways, or in the chain of
   its own name's slot, whatever was claimed, moved or copied before. *)
EntriesLinked == FreeListWhole /\ ChainsApart

\* the bindings of the abstract collection
Abs == INSTANCE Bindings
         WITH bindings <- {[name |-> hash.entries[s].name, index |-> hash.entries[s].index] :
                             s \in Used(hash)}

(* The hash is the collection of Bindings: an insertion adds one binding and
   keeps the others, also when it moves an entry or doubles the array, a search finds
   a binding of the name exactly when there is one, and removing a name that is
   not bound changes nothing. *)
ImplementsBindings == Abs!Spec
================================================================================
