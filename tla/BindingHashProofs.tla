--------------------------- MODULE BindingHashProofs ---------------------------
(***************************************************************************)
(* The chained array of binding-hash.c is whole after any insertion, move  *)
(* and resize, and implements the collection of Bindings, for every set of *)
(* names, every hash function and every first capacity.                    *)
(***************************************************************************)
EXTENDS BindingHash, FiniteSetTheorems, WellFoundedInduction, TLAPS

\* A set of natural numbers has a smallest one.
LEMMA Smallest ==
  ASSUME NEW S, S \subseteq Nat, S # {}
  PROVE  \E x \in S : \A y \in S : x <= y
<1> DEFINE R == {ss \in Nat \X Nat : ss[1] < ss[2]}
<1>1. IsWellFoundedOn(R, Nat)
  BY NatLessThanWellFounded DEF OpToRel
<1>2. \A x, y \in Nat : y < x => <<y, x>> \in R
  OBVIOUS
<1> HIDE DEF R
<1>3. PICK x \in S : \A y \in S : ~(<<y, x>> \in R)
  BY <1>1, WFMin
<1>4. ASSUME NEW y \in S PROVE x <= y
  <2>1. x \in Nat /\ y \in Nat
    OBVIOUS
  <2>2. ~(y < x)
    BY <1>2, <1>3, <2>1
  <2>3. QED
    BY <2>1, <2>2
<1>5. QED
  BY <1>4

-----------------------------------------------------------------------------
(* Following the next pointers.                                            *)

After(E, t) == IF t = NULL THEN NULL ELSE E[t].next

PathAt(at, E, s, i) == IF i = 0 THEN s ELSE After(E, at[i - 1])

\* at is the path along the next pointers of E from s, of n steps.
IsPath(at, E, s, n) == at = [i \in 0 .. n |-> PathAt(at, E, s, i)]

\* A path starts at s, and each later place is the next pointer of the one
\* before.
LEMMA PathFacts ==
  ASSUME NEW at, NEW E, NEW s, NEW n \in Nat, IsPath(at, E, s, n)
  PROVE  /\ DOMAIN at = 0 .. n
         /\ at[0] = s
         /\ \A i \in 0 .. n : i # 0 => i - 1 \in 0 .. n /\ at[i] = After(E, at[i - 1])
<1>1. \A i \in 0 .. n : at[i] = PathAt(at, E, s, i)
  BY DEF IsPath
<1>2. 0 \in 0 .. n
  OBVIOUS
<1>3. DOMAIN at = 0 .. n
  BY DEF IsPath
<1>4. at[0] = s
  BY <1>1, <1>2 DEF PathAt
<1>5. ASSUME NEW i \in 0 .. n, i # 0
      PROVE  i - 1 \in 0 .. n /\ at[i] = After(E, at[i - 1])
  <2>1. at[i] = After(E, at[i - 1])
    BY <1>1, <1>5 DEF PathAt
  <2>2. i - 1 \in 0 .. n
    BY <1>5
  <2>3. QED
    BY <2>1, <2>2
<1>6. QED
  BY <1>3, <1>4, <1>5

\* There is one of every length.
LEMMA PathExists ==
  ASSUME NEW E, NEW s, NEW n \in Nat
  PROVE  \E at : IsPath(at, E, s, n)
<1> DEFINE Good(k) == \E at : IsPath(at, E, s, k)
           Bad == {k \in Nat : ~Good(k)}
<1>1. SUFFICES ASSUME Bad # {} PROVE FALSE
  OBVIOUS
<1>2. Bad \subseteq Nat /\ \A k \in Nat : k \notin Bad => Good(k)
  OBVIOUS
<1>3. \A k \in Bad : ~Good(k)
  OBVIOUS
<1> HIDE DEF Bad
<1>4. PICK k \in Bad : \A j \in Bad : k <= j
  BY <1>1, <1>2, Smallest
<1>5. k \in Nat
  BY <1>2
<1>6. CASE k = 0
  <2> DEFINE at == [i \in 0 .. 0 |-> s]
  <2>1. IsPath(at, E, s, 0)
    BY DEF IsPath, PathAt
  <2>2. QED
    BY <1>3, <1>4, <1>6, <2>1
<1>7. CASE k # 0
  <2>1. k - 1 \in Nat /\ ~(k <= k - 1)
    BY <1>5, <1>7
  <2>2. Good(k - 1)
    BY <1>2, <1>4, <2>1
  <2>3. PICK g : IsPath(g, E, s, k - 1)
    BY <2>2
  <2>4. \A i \in 0 .. k - 1 : g[i] = PathAt(g, E, s, i)
    BY <2>3 DEF IsPath
  <2>5. PICK x : x = After(E, g[k - 1])
    OBVIOUS
  <2> DEFINE at == [i \in 0 .. k |-> IF i = k THEN x ELSE g[i]]
  <2>6. /\ at[k] = x /\ \A i \in 0 .. k - 1 : at[i] = g[i]
        /\ at = [i \in 0 .. k |-> at[i]]
    BY <1>5
  <2> HIDE DEF at
  <2>7. \A i \in 0 .. k : at[i] = PathAt(at, E, s, i)
    <3>1. SUFFICES ASSUME NEW i \in 0 .. k PROVE at[i] = PathAt(at, E, s, i)
      OBVIOUS
    <3>2. CASE i = k
      <4>1. k - 1 \in 0 .. k - 1
        BY <2>1
      <4>2. at[k - 1] = g[k - 1]
        BY <2>6, <4>1
      <4>3. QED
        BY <1>7, <2>5, <2>6, <3>2, <4>2 DEF PathAt
    <3>3. CASE i # k
      <4>1. i \in 0 .. k - 1 /\ (i # 0 => i - 1 \in 0 .. k - 1)
        BY <1>5, <3>3
      <4>2. at[i] = g[i] /\ (i # 0 => at[i - 1] = g[i - 1])
        BY <2>6, <4>1
      <4>3. g[i] = PathAt(g, E, s, i)
        BY <2>4, <4>1
      <4>4. QED
        BY <4>2, <4>3 DEF PathAt
    <3>4. QED
      BY <3>2, <3>3
  <2>8. IsPath(at, E, s, k)
    BY <2>6, <2>7 DEF IsPath
  <2>9. QED
    BY <1>3, <1>4, <2>8
<1>8. QED
  BY <1>6, <1>7

\* Along follows the entries of a hash for as many steps as it has slots.
LEMMA AlongIsPath ==
  ASSUME NEW h, NEW s, h.capacity \in Nat
  PROVE  IsPath(Along(h, s), h.entries, s, h.capacity)
<1>1. PICK E : E = h.entries
  OBVIOUS
<1>2. PICK n \in Nat : n = h.capacity
  OBVIOUS
<1>3. PICK f : IsPath(f, E, s, n)
  BY PathExists
<1>4. PICK g : g = CHOOSE at : IsPath(at, E, s, n)
  OBVIOUS
<1>5. IsPath(g, E, s, n)
  BY <1>3, <1>4
<1>6. Along(h, s) = CHOOSE at : IsPath(at, h.entries, s, h.capacity)
  BY Zenon DEF Along, IsPath, PathAt, After
<1>7. QED
  BY <1>1, <1>2, <1>4, <1>5, <1>6

\* The next pointers of A stay in A and rise in rank.
Orders(A, E, r) ==
  \A t \in A : /\ r[t] \in Nat
               /\ E[t].next = NULL \/ (E[t].next \in A /\ r[t] < r[E[t].next])

\* A path that starts in A stays there until it ends.
LEMMA PathStays ==
  ASSUME NEW at, NEW E, NEW s, NEW n \in Nat, IsPath(at, E, s, n),
         NEW A, NEW r, Orders(A, E, r), s \in A \cup {NULL}, NULL \notin A
  PROVE  \A i \in 0 .. n : at[i] \in A \cup {NULL}
<1> DEFINE Bad == {i \in 0 .. n : at[i] \notin A \cup {NULL}}
<1>1. SUFFICES ASSUME Bad # {} PROVE FALSE
  OBVIOUS
<1>2. Bad \subseteq Nat /\ Bad \subseteq 0 .. n
      /\ \A i \in 0 .. n : i \notin Bad => at[i] \in A \cup {NULL}
  OBVIOUS
<1>3. \A i \in Bad : at[i] \notin A \cup {NULL}
  OBVIOUS
<1> HIDE DEF Bad
<1>4. PICK i \in Bad : \A j \in Bad : i <= j
  BY <1>1, <1>2, Smallest
<1>5. i \in 0 .. n /\ i # 0
  <2>1. i \in 0 .. n
    BY <1>2
  <2>2. at[0] = s
    BY PathFacts
  <2>3. QED
    BY <1>3, <1>4, <2>1, <2>2
<1>6. i - 1 \in 0 .. n /\ at[i] = After(E, at[i - 1])
  BY <1>5, PathFacts
<1>7. i - 1 \notin Bad
  BY <1>4, <1>5
<1>8. at[i - 1] \in A \cup {NULL}
  BY <1>2, <1>6, <1>7
<1>9. at[i] \in A \cup {NULL}
  BY <1>6, <1>8 DEF After, Orders
<1>10. QED
  BY <1>3, <1>9

\* Along it the rank rises, so it is at no slot twice.
LEMMA PathRises ==
  ASSUME NEW at, NEW E, NEW s, NEW n \in Nat, IsPath(at, E, s, n),
         NEW A, NEW r, Orders(A, E, r), s \in A \cup {NULL}, NULL \notin A,
         NEW i \in 0 .. n, NEW j \in 0 .. n, i < j, at[j] # NULL
  PROVE  at[i] # NULL /\ r[at[i]] < r[at[j]]
<1> DEFINE Good(k) == at[k] # NULL => at[i] # NULL /\ r[at[i]] < r[at[k]]
           Bad == {k \in 0 .. n : i < k /\ ~Good(k)}
<1>1. SUFFICES ASSUME Bad # {} PROVE FALSE
  OBVIOUS
<1>2. Bad \subseteq Nat /\ (\A k \in Bad : k \in 0 .. n /\ i < k)
      /\ \A k \in 0 .. n : i < k /\ k \notin Bad => Good(k)
  OBVIOUS
<1>3. \A k \in Bad : ~Good(k)
  OBVIOUS
<1> HIDE DEF Bad
<1>4. PICK k \in Bad : \A l \in Bad : k <= l
  BY <1>1, <1>2, Smallest
<1>5. k \in 0 .. n /\ i < k /\ k # 0
  BY <1>2
<1>6. k - 1 \in 0 .. n /\ at[k] = After(E, at[k - 1])
  BY <1>5, PathFacts
<1>7. at[k] # NULL
  BY <1>3, <1>4
<1>8. at[k - 1] # NULL /\ at[k - 1] \in A
  <2>1. at[k - 1] \in A \cup {NULL}
    BY <1>6, PathStays
  <2>2. QED
    BY <1>6, <1>7, <2>1 DEF After
<1>9. r[at[k - 1]] \in Nat /\ r[at[k]] \in Nat /\ r[at[k - 1]] < r[at[k]]
  BY <1>6, <1>7, <1>8 DEF After, Orders
<1>10. k - 1 = i \/ Good(k - 1)
  <2>1. k - 1 = i \/ i < k - 1
    BY <1>5
  <2>2. k - 1 \notin Bad
    BY <1>4, <1>5
  <2>3. QED
    BY <1>2, <1>6, <2>1, <2>2
<1>11. at[i] # NULL /\ r[at[i]] <= r[at[k - 1]] /\ r[at[i]] \in Nat
  <2>1. at[i] \in A \cup {NULL}
    BY PathStays
  <2>2. at[i] # NULL => r[at[i]] \in Nat
    BY <2>1 DEF Orders
  <2>3. CASE k - 1 = i
    BY <1>8, <1>9, <2>2, <2>3
  <2>4. CASE Good(k - 1)
    BY <1>8, <1>9, <2>2, <2>4
  <2>5. QED
    BY <1>10, <2>3, <2>4
<1>12. Good(k)
  BY <1>9, <1>11
<1>13. QED
  BY <1>3, <1>12

\* So in n slots it has ended after n steps.
LEMMA PathEnds ==
  ASSUME NEW at, NEW E, NEW s, NEW n \in Nat, IsPath(at, E, s, n),
         NEW A, NEW r, Orders(A, E, r), s \in A \cup {NULL}, A \subseteq 0 .. n - 1
  PROVE  at[n] = NULL
<1>0. NULL \notin A
  BY DEF NULL
<1>1. SUFFICES ASSUME at[n] # NULL PROVE FALSE
  OBVIOUS
<1>2. n \in 0 .. n
  OBVIOUS
<1>3. \A i \in 0 .. n : at[i] \in A
  <2>1. SUFFICES ASSUME NEW i \in 0 .. n PROVE at[i] \in A
    OBVIOUS
  <2>2. at[i] \in A \cup {NULL}
    BY <1>0, PathStays
  <2>3. i < n \/ i = n
    OBVIOUS
  <2>4. at[i] # NULL
    <3>1. CASE i = n
      BY <1>1, <3>1
    <3>2. CASE i < n
      BY <1>0, <1>1, <1>2, <3>2, PathRises
    <3>3. QED
      BY <2>3, <3>1, <3>2
  <2>5. QED
    BY <2>2, <2>4
<1>4. at \in [0 .. n -> A]
  BY <1>3 DEF IsPath
<1>5. IsFiniteSet(0 .. n) /\ Cardinality(0 .. n) = n + 1
  BY FS_Interval
<1>6. IsFiniteSet(0 .. n - 1) /\ Cardinality(0 .. n - 1) = n
  <2>1. 0 \in Int /\ n - 1 \in Int
    OBVIOUS
  <2>2. /\ IsFiniteSet(0 .. n - 1)
        /\ Cardinality(0 .. n - 1) = IF 0 > n - 1 THEN 0 ELSE (n - 1) - 0 + 1
    BY <2>1, FS_Interval
  <2>3. QED
    BY <2>2
<1>7. IsFiniteSet(A) /\ Cardinality(A) <= n
  BY <1>6, FS_Subset
<1>8. Cardinality(A) \in Nat
  BY <1>7, FS_CardinalityType
<1>9. Cardinality(A) < Cardinality(0 .. n)
  BY <1>5, <1>7, <1>8
<1>10. PICK i, j \in 0 .. n : i # j /\ at[i] = at[j]
  BY <1>4, <1>5, <1>7, <1>9, FS_PigeonHole
<1>11. \A k, l \in 0 .. n : k < l => r[at[k]] < r[at[l]]
  BY <1>0, <1>1, <1>3, PathRises
<1>12. i < j \/ j < i
  BY <1>10
<1>13. r[at[i]] \in Nat
  BY <1>3 DEF Orders
<1>14. QED
  BY <1>10, <1>11, <1>12, <1>13

\* A slot of A is the start or follows another.
Follows(A, E, s) == \A t \in A : t = s \/ \E p \in A : E[p].next = t

\* at passes every slot of A in n steps.
Passes(at, A, n) == \A t \in A : \E i \in 0 .. n - 1 : at[i] = t

\* It passes every slot that is its start or follows another.
LEMMA PathCovers ==
  ASSUME NEW at, NEW E, NEW s, NEW n \in Nat, IsPath(at, E, s, n),
         NEW A, NEW r, Orders(A, E, r), s \in A \cup {NULL}, A \subseteq 0 .. n - 1,
         Follows(A, E, s)
  PROVE  Passes(at, A, n)
<1>0. NULL \notin A
  BY DEF NULL
<1> DEFINE Good(t) == \E i \in 0 .. n - 1 : at[i] = t
           Bad == {t \in A : ~Good(t)}
           Ranks == {r[t] : t \in Bad}
<1>1. SUFFICES ASSUME Bad # {} PROVE FALSE
  BY DEF Passes
<1>2. Ranks \subseteq Nat /\ Ranks # {}
  BY <1>1 DEF Orders
<1>3. PICK x \in Ranks : \A y \in Ranks : x <= y
  BY <1>2, Smallest
<1>4. PICK t \in Bad : \A u \in Bad : r[t] <= r[u]
  <2>1. PICK t \in Bad : x = r[t]
    BY <1>3
  <2>2. \A u \in Bad : r[u] \in Ranks
    OBVIOUS
  <2> HIDE DEF Bad, Ranks
  <2>3. \A u \in Bad : r[t] <= r[u]
    BY <1>3, <2>1, <2>2
  <2>4. QED
    BY <2>3
<1>5. t \in A /\ ~Good(t) /\ \A u \in A : ~Good(u) => r[t] <= r[u]
  BY <1>4
<1> HIDE DEF Bad, Ranks
<1>6. at[0] = s /\ at[n] = NULL
  <2>1. at[0] = s
    BY PathFacts
  <2>2. at[n] = NULL
    BY PathEnds
  <2>3. QED
    BY <2>1, <2>2
<1>7. n # 0 /\ 0 \in 0 .. n - 1
  BY <1>5
<1>8. t # s
  BY <1>5, <1>6, <1>7
<1>9. PICK p \in A : E[p].next = t
  BY <1>5, <1>8 DEF Follows
<1>10. r[p] \in Nat /\ r[t] \in Nat /\ r[p] < r[t]
  BY <1>0, <1>5, <1>9 DEF Orders
<1>11. Good(p)
  BY <1>5, <1>10
<1>12. PICK i \in 0 .. n - 1 : at[i] = p
  BY <1>11
<1>13. i + 1 \in 0 .. n /\ i + 1 # 0 /\ (i + 1) - 1 = i
  BY <1>12
<1>14. at[i + 1] = After(E, at[i])
  BY <1>13, PathFacts
<1>15. at[i + 1] = t /\ t # NULL
  BY <1>0, <1>5, <1>9, <1>12, <1>14 DEF After
<1>16. i + 1 # n
  BY <1>6, <1>15
<1>17. i + 1 \in 0 .. n - 1
  BY <1>13, <1>16
<1>18. QED
  BY <1>5, <1>15, <1>17

-----------------------------------------------------------------------------
(* What the assignments of hash_new_entry change.                          *)

Entries == [name : Names \cup {NoName}, index : Int, next : Int, prev : Int]

\* The hashes of c slots.
Hashes(c) ==
  [capacity : {c}, size : Nat, free_head : Int, entries : [0 .. c - 1 -> Entries]]

\* The fields of a hash of c slots and of its entries.
LEMMA HashFacts ==
  ASSUME NEW c \in Nat, NEW h \in Hashes(c)
  PROVE  /\ h.capacity = c /\ h.size \in Nat /\ h.free_head \in Int
         /\ Slots(h) = 0 .. c - 1
         /\ DOMAIN h.entries = 0 .. c - 1
         /\ \A t \in 0 .. c - 1 :
              /\ h.entries[t] \in Entries
              /\ h.entries[t].name \in Names \cup {NoName}
              /\ h.entries[t].index \in Int
              /\ h.entries[t].next \in Int
              /\ h.entries[t].prev \in Int
<1>1. /\ h.capacity = c /\ h.size \in Nat /\ h.free_head \in Int
      /\ h.entries \in [0 .. c - 1 -> Entries]
  BY DEF Hashes
<1>2. Slots(h) = 0 .. c - 1
  BY <1>1 DEF Slots
<1>3. ASSUME NEW t \in 0 .. c - 1
      PROVE  /\ h.entries[t] \in Entries
             /\ h.entries[t].name \in Names \cup {NoName}
             /\ h.entries[t].index \in Int
             /\ h.entries[t].next \in Int
             /\ h.entries[t].prev \in Int
  <2>1. PICK e \in Entries : e = h.entries[t]
    BY <1>1
  <2>2. /\ e.name \in Names \cup {NoName} /\ e.index \in Int
        /\ e.next \in Int /\ e.prev \in Int
    BY DEF Entries
  <2>3. QED
    BY <2>1, <2>2
<1>4. QED
  BY <1>1, <1>2, <1>3

\* The hash with another array or another head of the free list.
WithEntries(h, E) == [h EXCEPT !.entries = E]
WithHead(h, s) == [h EXCEPT !.free_head = s]

\* Another array changes nothing else.
LEMMA WithEntriesFacts ==
  ASSUME NEW c \in Nat, NEW h \in Hashes(c), NEW E \in [0 .. c - 1 -> Entries]
  PROVE  /\ WithEntries(h, E) \in Hashes(c)
         /\ WithEntries(h, E).entries = E
         /\ WithEntries(h, E).free_head = h.free_head
         /\ WithEntries(h, E).size = h.size
BY DEF WithEntries, Hashes

\* Another head of the free list changes nothing else.
LEMMA WithHeadFacts ==
  ASSUME NEW c \in Nat, NEW h \in Hashes(c), NEW s \in Int
  PROVE  /\ WithHead(h, s) \in Hashes(c)
         /\ WithHead(h, s).entries = h.entries
         /\ WithHead(h, s).free_head = s
         /\ WithHead(h, s).size = h.size
BY DEF WithHead, Hashes

\* The array with another entry.
WithEntry(E, s, e) == [E EXCEPT ![s] = e]

\* Another entry changes no other slot.
LEMMA WithEntryFacts ==
  ASSUME NEW c \in Nat, NEW E \in [0 .. c - 1 -> Entries], NEW s \in 0 .. c - 1,
         NEW e \in Entries
  PROVE  /\ WithEntry(E, s, e) \in [0 .. c - 1 -> Entries]
         /\ \A t \in 0 .. c - 1 : WithEntry(E, s, e)[t] = IF t = s THEN e ELSE E[t]
BY DEF WithEntry

\* An entry with another field.
WithNext(e, x) == [e EXCEPT !.next = x]
WithPrev(e, x) == [e EXCEPT !.prev = x]
WithIndex(e, x) == [e EXCEPT !.index = x]
Claimed(e, n) == [e EXCEPT !.name = n, !.index = 0, !.prev = NULL]

\* Another field changes no other field.
LEMMA FieldFacts ==
  ASSUME NEW e \in Entries
  PROVE  /\ \A x \in Int :
              /\ WithNext(e, x) \in Entries
              /\ WithNext(e, x).name = e.name /\ WithNext(e, x).index = e.index
              /\ WithNext(e, x).next = x /\ WithNext(e, x).prev = e.prev
         /\ \A x \in Int :
              /\ WithPrev(e, x) \in Entries
              /\ WithPrev(e, x).name = e.name /\ WithPrev(e, x).index = e.index
              /\ WithPrev(e, x).next = e.next /\ WithPrev(e, x).prev = x
         /\ \A x \in Int :
              /\ WithIndex(e, x) \in Entries
              /\ WithIndex(e, x).name = e.name /\ WithIndex(e, x).index = x
              /\ WithIndex(e, x).next = e.next /\ WithIndex(e, x).prev = e.prev
         /\ \A n \in Names :
              /\ Claimed(e, n) \in Entries
              /\ Claimed(e, n).name = n /\ Claimed(e, n).index = 0
              /\ Claimed(e, n).next = e.next /\ Claimed(e, n).prev = NULL
<1>1. ASSUME NEW x \in Int
      PROVE  /\ WithNext(e, x) \in Entries
             /\ WithNext(e, x).name = e.name /\ WithNext(e, x).index = e.index
             /\ WithNext(e, x).next = x /\ WithNext(e, x).prev = e.prev
  BY DEF WithNext, Entries
<1>2. ASSUME NEW x \in Int
      PROVE  /\ WithPrev(e, x) \in Entries
             /\ WithPrev(e, x).name = e.name /\ WithPrev(e, x).index = e.index
             /\ WithPrev(e, x).next = e.next /\ WithPrev(e, x).prev = x
  BY DEF WithPrev, Entries
<1>3. ASSUME NEW x \in Int
      PROVE  /\ WithIndex(e, x) \in Entries
             /\ WithIndex(e, x).name = e.name /\ WithIndex(e, x).index = x
             /\ WithIndex(e, x).next = e.next /\ WithIndex(e, x).prev = e.prev
  BY DEF WithIndex, Entries
<1>4. ASSUME NEW n \in Names
      PROVE  /\ Claimed(e, n) \in Entries
             /\ Claimed(e, n).name = n /\ Claimed(e, n).index = 0
             /\ Claimed(e, n).next = e.next /\ Claimed(e, n).prev = NULL
  <2>0. NULL \in Int
    BY DEF NULL
  <2>1. Claimed(e, n) \in Entries
    <3>1. PICK a \in Entries : a = [e EXCEPT !.name = n]
      BY DEF Entries
    <3>2. PICK b \in Entries : b = WithIndex(a, 0)
      <4>1. PICK z \in Int : z = 0
        OBVIOUS
      <4>2. WithIndex(a, z) \in Entries
        BY DEF WithIndex, Entries
      <4>3. QED
        BY <4>1, <4>2
    <3>3. WithPrev(b, NULL) \in Entries
      BY <2>0 DEF WithPrev, Entries
    <3>4. WithPrev(b, NULL) = Claimed(e, n)
      BY <3>1, <3>2 DEF Claimed, WithIndex, WithPrev
    <3>5. QED
      BY <3>3, <3>4
  <2>2. Claimed(e, n).name = n /\ Claimed(e, n).next = e.next
    BY DEF Claimed, Entries
  <2>3. Claimed(e, n).index = 0 /\ Claimed(e, n).prev = NULL
    BY DEF Claimed, Entries
  <2>4. QED
    BY <2>1, <2>2, <2>3
<1>5. QED
  BY <1>1, <1>2, <1>3, <1>4

\* An assignment to a field of one entry.
\* g is h with another next pointer in s.
NextIs(c, h, s, x, g) ==
  /\ g \in Hashes(c) /\ g.free_head = h.free_head /\ g.size = h.size
  /\ \A t \in 0 .. c - 1 :
       /\ g.entries[t].name = h.entries[t].name
       /\ g.entries[t].index = h.entries[t].index
       /\ g.entries[t].prev = h.entries[t].prev
       /\ g.entries[t].next = IF t = s THEN x ELSE h.entries[t].next

\* SetNext changes one next pointer.
LEMMA SetNextFacts ==
  ASSUME NEW c \in Nat, NEW h \in Hashes(c), NEW s \in 0 .. c - 1, NEW x \in Int,
         NEW g, g = SetNext(h, s, x)
  PROVE  NextIs(c, h, s, x, g)
<1>1. PICK E \in [0 .. c - 1 -> Entries] : E = h.entries
  BY DEF Hashes
<1>2. g = WithEntries(h, WithEntry(E, s, WithNext(E[s], x)))
  BY <1>1 DEF SetNext, WithEntries, WithEntry, WithNext
<1>3. PICK e \in Entries : /\ e = WithNext(E[s], x)
                         /\ e.name = E[s].name /\ e.index = E[s].index
                         /\ e.prev = E[s].prev /\ e.next = x
  <2>1. E[s] \in Entries
    OBVIOUS
  <2>2. PICK o \in Entries : o = E[s]
    BY <2>1
  <2>3. /\ WithNext(o, x) \in Entries
        /\ WithNext(o, x).name = o.name /\ WithNext(o, x).index = o.index
        /\ WithNext(o, x).prev = o.prev /\ WithNext(o, x).next = x
    BY FieldFacts
  <2>4. QED
    BY <2>2, <2>3
<1>4. PICK D \in [0 .. c - 1 -> Entries] :
        /\ D = WithEntry(E, s, e)
        /\ \A t \in 0 .. c - 1 : D[t] = IF t = s THEN e ELSE E[t]
  <2>1. /\ WithEntry(E, s, e) \in [0 .. c - 1 -> Entries]
        /\ \A t \in 0 .. c - 1 : WithEntry(E, s, e)[t] = IF t = s THEN e ELSE E[t]
    BY WithEntryFacts
  <2>2. QED
    BY <2>1
<1>5. g \in Hashes(c) /\ g.entries = D /\ g.free_head = h.free_head /\ g.size = h.size
  <2>1. /\ WithEntries(h, D) \in Hashes(c) /\ WithEntries(h, D).entries = D
        /\ WithEntries(h, D).free_head = h.free_head /\ WithEntries(h, D).size = h.size
    BY WithEntriesFacts
  <2>2. QED
    BY <1>2, <1>3, <1>4, <2>1
<1>6. \A t \in 0 .. c - 1 : D[t] = IF t = s THEN e ELSE E[t]
  BY <1>4
<1>7. /\ e.name = E[s].name /\ e.index = E[s].index
      /\ e.prev = E[s].prev /\ e.next = x
  BY <1>3
<1>8. QED
  BY <1>1, <1>5, <1>6, <1>7 DEF NextIs

\* g is h with another prev pointer in s, if s is a slot.
PrevIs(c, h, s, x, g) ==
  /\ g \in Hashes(c) /\ g.free_head = h.free_head /\ g.size = h.size
  /\ \A t \in 0 .. c - 1 :
       /\ g.entries[t].name = h.entries[t].name
       /\ g.entries[t].index = h.entries[t].index
       /\ g.entries[t].next = h.entries[t].next
       /\ g.entries[t].prev = IF t = s THEN x ELSE h.entries[t].prev

\* SetPrev changes one prev pointer.
LEMMA SetPrevFacts ==
  ASSUME NEW c \in Nat, NEW h \in Hashes(c), NEW s \in 0 .. c - 1, NEW x \in Int,
         NEW g, g = SetPrev(h, s, x)
  PROVE  PrevIs(c, h, s, x, g)
<1>0. s # NULL
  BY DEF NULL
<1>1. PICK E \in [0 .. c - 1 -> Entries] : E = h.entries
  BY DEF Hashes
<1>2. g = WithEntries(h, WithEntry(E, s, WithPrev(E[s], x)))
  BY <1>0, <1>1 DEF SetPrev, WithEntries, WithEntry, WithPrev
<1>3. PICK e \in Entries : /\ e = WithPrev(E[s], x)
                         /\ e.name = E[s].name /\ e.index = E[s].index
                         /\ e.next = E[s].next /\ e.prev = x
  <2>1. E[s] \in Entries
    OBVIOUS
  <2>2. PICK o \in Entries : o = E[s]
    BY <2>1
  <2>3. /\ WithPrev(o, x) \in Entries
        /\ WithPrev(o, x).name = o.name /\ WithPrev(o, x).index = o.index
        /\ WithPrev(o, x).next = o.next /\ WithPrev(o, x).prev = x
    BY FieldFacts
  <2>4. QED
    BY <2>2, <2>3
<1>4. PICK D \in [0 .. c - 1 -> Entries] :
        /\ D = WithEntry(E, s, e)
        /\ \A t \in 0 .. c - 1 : D[t] = IF t = s THEN e ELSE E[t]
  <2>1. /\ WithEntry(E, s, e) \in [0 .. c - 1 -> Entries]
        /\ \A t \in 0 .. c - 1 : WithEntry(E, s, e)[t] = IF t = s THEN e ELSE E[t]
    BY WithEntryFacts
  <2>2. QED
    BY <2>1
<1>5. g \in Hashes(c) /\ g.entries = D /\ g.free_head = h.free_head /\ g.size = h.size
  <2>1. /\ WithEntries(h, D) \in Hashes(c) /\ WithEntries(h, D).entries = D
        /\ WithEntries(h, D).free_head = h.free_head /\ WithEntries(h, D).size = h.size
    BY WithEntriesFacts
  <2>2. QED
    BY <1>2, <1>3, <1>4, <2>1
<1>6. \A t \in 0 .. c - 1 : D[t] = IF t = s THEN e ELSE E[t]
  BY <1>4
<1>7. /\ e.name = E[s].name /\ e.index = E[s].index
      /\ e.next = E[s].next /\ e.prev = x
  BY <1>3
<1>8. QED
  BY <1>1, <1>5, <1>6, <1>7 DEF PrevIs

\* g is h with the name n in s.
ClaimIs(c, h, s, n, g) ==
  /\ g \in Hashes(c) /\ g.free_head = h.free_head /\ g.size = h.size
  /\ \A t \in 0 .. c - 1 :
       /\ g.entries[t].next = h.entries[t].next
       /\ g.entries[t].name = IF t = s THEN n ELSE h.entries[t].name
       /\ g.entries[t].index = IF t = s THEN 0 ELSE h.entries[t].index
       /\ g.entries[t].prev = IF t = s THEN NULL ELSE h.entries[t].prev

\* Claim changes the name, the index and the prev pointer of one slot.
LEMMA ClaimFacts ==
  ASSUME NEW c \in Nat, NEW h \in Hashes(c), NEW s \in 0 .. c - 1, NEW n \in Names,
         NEW g, g = Claim(h, s, n)
  PROVE  ClaimIs(c, h, s, n, g)
<1>1. PICK E \in [0 .. c - 1 -> Entries] : E = h.entries
  BY DEF Hashes
<1>2. g = WithEntries(h, WithEntry(E, s, Claimed(E[s], n)))
  <2>1. E \in [0 .. c - 1 -> Entries] /\ E[s] \in Entries
    OBVIOUS
  <2>2. Claim(h, s, n) = [h EXCEPT !.entries = [E EXCEPT ![s] =
                            [E[s] EXCEPT !.name = n, !.index = 0, !.prev = NULL]]]
    BY <1>1, <2>1 DEF Claim, Hashes, Entries
  <2>3. QED
    BY <2>2 DEF WithEntries, WithEntry, Claimed
<1>3. PICK e \in Entries : /\ e = Claimed(E[s], n)
                         /\ e.name = n /\ e.index = 0
                         /\ e.next = E[s].next /\ e.prev = NULL
  <2>1. E[s] \in Entries
    OBVIOUS
  <2>2. PICK o \in Entries : o = E[s]
    BY <2>1
  <2>3. /\ Claimed(o, n) \in Entries
        /\ Claimed(o, n).name = n /\ Claimed(o, n).index = 0
        /\ Claimed(o, n).next = o.next /\ Claimed(o, n).prev = NULL
    BY FieldFacts
  <2>4. QED
    BY <2>2, <2>3
<1>4. PICK D \in [0 .. c - 1 -> Entries] :
        /\ D = WithEntry(E, s, e)
        /\ \A t \in 0 .. c - 1 : D[t] = IF t = s THEN e ELSE E[t]
  <2>1. /\ WithEntry(E, s, e) \in [0 .. c - 1 -> Entries]
        /\ \A t \in 0 .. c - 1 : WithEntry(E, s, e)[t] = IF t = s THEN e ELSE E[t]
    BY WithEntryFacts
  <2>2. QED
    BY <2>1
<1>5. g \in Hashes(c) /\ g.entries = D /\ g.free_head = h.free_head /\ g.size = h.size
  <2>1. /\ WithEntries(h, D) \in Hashes(c) /\ WithEntries(h, D).entries = D
        /\ WithEntries(h, D).free_head = h.free_head /\ WithEntries(h, D).size = h.size
    BY WithEntriesFacts
  <2>2. QED
    BY <1>2, <1>3, <1>4, <2>1
<1>6. \A t \in 0 .. c - 1 : D[t] = IF t = s THEN e ELSE E[t]
  BY <1>4
<1>7. /\ e.name = n /\ e.index = 0
      /\ e.next = E[s].next /\ e.prev = NULL
  BY <1>3
<1>8. QED
  BY <1>1, <1>5, <1>6, <1>7 DEF ClaimIs

\* The entry that next or prev names, if there is one.
Link(c) == 0 .. c - 1 \cup {NULL}

\* SetPrev of no slot changes nothing.
LEMMA SetPrevLink ==
  ASSUME NEW c \in Nat, NEW h \in Hashes(c), NEW s \in Link(c), NEW x \in Int,
         NEW g, g = SetPrev(h, s, x)
  PROVE  PrevIs(c, h, s, x, g)
<1>1. CASE s \in 0 .. c - 1
  BY <1>1, SetPrevFacts
<1>2. CASE s = NULL
  <2>1. g = h
    BY <1>2 DEF SetPrev
  <2>2. \A t \in 0 .. c - 1 : t # s
    BY <1>2 DEF NULL
  <2>3. QED
    BY <2>1, <2>2 DEF PrevIs
<1>3. QED
  BY <1>1, <1>2 DEF Link

\* The head of the free list is taken.
\* g is h without the head of its free list, which x follows.
PopIs(c, h, x, g) ==
  /\ g \in Hashes(c) /\ g.free_head = x /\ g.size = h.size
  /\ \A t \in 0 .. c - 1 :
       /\ g.entries[t].name = h.entries[t].name
       /\ g.entries[t].index = h.entries[t].index
       /\ g.entries[t].next = h.entries[t].next
       /\ g.entries[t].prev = IF t = x THEN NULL ELSE h.entries[t].prev

\* PopFree moves the head of the free list to the next entry.
LEMMA PopFreeFacts ==
  ASSUME NEW c \in Nat, NEW h \in Hashes(c), h.free_head \in 0 .. c - 1,
         NEW x, x = h.entries[h.free_head].next, x \in Link(c),
         NEW g, g = PopFree(h)
  PROVE  PopIs(c, h, x, g)
<1>1. NULL \in Int /\ x \in Int
  BY DEF NULL, Link
<1>2. PICK h1 : h1 = WithHead(h, x)
  OBVIOUS
<1>3. /\ h1 \in Hashes(c) /\ h1.entries = h.entries /\ h1.free_head = x
      /\ h1.size = h.size
  BY <1>1, <1>2, WithHeadFacts
<1>4. g = SetPrev(h1, x, NULL)
  BY <1>2 DEF PopFree, WithHead
<1>5. /\ g \in Hashes(c) /\ g.free_head = h1.free_head /\ g.size = h1.size
      /\ \A t \in 0 .. c - 1 :
           /\ g.entries[t].name = h1.entries[t].name
           /\ g.entries[t].index = h1.entries[t].index
           /\ g.entries[t].next = h1.entries[t].next
           /\ g.entries[t].prev = IF t = x THEN NULL ELSE h1.entries[t].prev
  <2>1. PrevIs(c, h1, x, NULL, g)
    BY <1>1, <1>3, <1>4, SetPrevLink
  <2>2. QED
    BY <2>1 DEF PrevIs
<1>6. QED
  BY <1>3, <1>5 DEF PopIs

\* An entry is taken out of the middle of the free list.
\* g is h without s in its free list, between p and x.
UnlinkIs(c, h, s, x, p, g) ==
  /\ g \in Hashes(c) /\ g.size = h.size
  /\ g.free_head = IF p = NULL THEN x ELSE h.free_head
  /\ \A t \in 0 .. c - 1 :
       /\ g.entries[t].name = h.entries[t].name
       /\ g.entries[t].index = h.entries[t].index
       /\ g.entries[t].next = IF t = s THEN NULL
                              ELSE IF t = p THEN x ELSE h.entries[t].next
       /\ g.entries[t].prev = IF t = x THEN p ELSE h.entries[t].prev

\* UnlinkFree joins the neighbours of s.
LEMMA UnlinkFreeFacts ==
  ASSUME NEW c \in Nat, NEW h \in Hashes(c), NEW s \in 0 .. c - 1,
         NEW x, x = h.entries[s].next, x \in Link(c),
         NEW p, p = h.entries[s].prev, p \in Link(c), p # s, x # s,
         NEW g, g = UnlinkFree(h, s)
  PROVE  UnlinkIs(c, h, s, x, p, g)
<1>1. NULL \in Int /\ x \in Int /\ p \in Int
  BY DEF NULL, Link
<1>2. PICK h1 : h1 = SetPrev(h, x, p)
  OBVIOUS
<1>3. /\ h1 \in Hashes(c) /\ h1.free_head = h.free_head /\ h1.size = h.size
      /\ \A t \in 0 .. c - 1 :
           /\ h1.entries[t].name = h.entries[t].name
           /\ h1.entries[t].index = h.entries[t].index
           /\ h1.entries[t].next = h.entries[t].next
           /\ h1.entries[t].prev = IF t = x THEN p ELSE h.entries[t].prev
  <2>1. PrevIs(c, h, x, p, h1)
    BY <1>1, <1>2, SetPrevLink
  <2>2. QED
    BY <2>1 DEF PrevIs
<1>4. PICK h2 : h2 = IF p # NULL THEN SetNext(h1, p, x) ELSE WithHead(h1, x)
  OBVIOUS
<1>5. g = SetNext(h2, s, NULL)
  BY <1>2, <1>4 DEF UnlinkFree, WithHead
<1>6. /\ h2 \in Hashes(c) /\ h2.size = h1.size
      /\ h2.free_head = IF p = NULL THEN x ELSE h1.free_head
      /\ \A t \in 0 .. c - 1 :
           /\ h2.entries[t].name = h1.entries[t].name
           /\ h2.entries[t].index = h1.entries[t].index
           /\ h2.entries[t].next = IF t = p THEN x ELSE h1.entries[t].next
           /\ h2.entries[t].prev = h1.entries[t].prev
  <2>1. CASE p = NULL
    <3>1. h2 = WithHead(h1, x)
      BY <1>4, <2>1
    <3>2. /\ h2 \in Hashes(c) /\ h2.entries = h1.entries /\ h2.free_head = x
          /\ h2.size = h1.size
      <4>1. x \in Int /\ h1 \in Hashes(c)
        BY <1>1, <1>3
      <4>2. /\ WithHead(h1, x) \in Hashes(c)
            /\ WithHead(h1, x).entries = h1.entries
            /\ WithHead(h1, x).free_head = x
            /\ WithHead(h1, x).size = h1.size
        BY <4>1 DEF WithHead, Hashes
      <4>3. QED
        BY <3>1, <4>2, ZenonT(30)
    <3>3. \A t \in 0 .. c - 1 : t # p
      BY <2>1 DEF NULL
    <3>4. QED
      BY <2>1, <3>2, <3>3
  <2>2. CASE p # NULL
    <3>1. h2 = SetNext(h1, p, x) /\ p \in 0 .. c - 1
      BY <1>4, <2>2 DEF Link
    <3>2. /\ h2 \in Hashes(c) /\ h2.free_head = h1.free_head /\ h2.size = h1.size
          /\ \A t \in 0 .. c - 1 :
               /\ h2.entries[t].name = h1.entries[t].name
               /\ h2.entries[t].index = h1.entries[t].index
               /\ h2.entries[t].prev = h1.entries[t].prev
               /\ h2.entries[t].next = IF t = p THEN x ELSE h1.entries[t].next
      <4>1. NextIs(c, h1, p, x, h2)
        BY <1>1, <1>3, <3>1, SetNextFacts
      <4>2. QED
        BY <4>1 DEF NextIs
    <3>3. QED
      BY <2>2, <3>2
  <2>3. QED
    BY <2>1, <2>2
<1>7. /\ g \in Hashes(c) /\ g.free_head = h2.free_head /\ g.size = h2.size
      /\ \A t \in 0 .. c - 1 :
           /\ g.entries[t].name = h2.entries[t].name
           /\ g.entries[t].index = h2.entries[t].index
           /\ g.entries[t].prev = h2.entries[t].prev
           /\ g.entries[t].next = IF t = s THEN NULL ELSE h2.entries[t].next
  <2>1. NextIs(c, h2, s, NULL, g)
    BY <1>1, <1>5, <1>6, SetNextFacts
  <2>2. QED
    BY <2>1 DEF NextIs
<1>8. QED
  BY <1>3, <1>6, <1>7 DEF UnlinkIs

\* The new entry is second in a chain.
\* g is h with n in f, second in the chain of s.
ChainedIs(c, h, s, f, n, g) ==
  /\ g \in Hashes(c) /\ g.free_head = h.free_head /\ g.size = h.size
  /\ \A t \in 0 .. c - 1 :
       /\ g.entries[t].name = IF t = f THEN n ELSE h.entries[t].name
       /\ g.entries[t].index = IF t = f THEN 0 ELSE h.entries[t].index
       /\ g.entries[t].prev = IF t = f THEN NULL ELSE h.entries[t].prev
       /\ g.entries[t].next = IF t = s THEN f
                              ELSE IF t = f THEN h.entries[s].next
                              ELSE h.entries[t].next

\* Chained puts f between s and what followed it.
LEMMA ChainedFacts ==
  ASSUME NEW c \in Nat, NEW h \in Hashes(c), NEW s \in 0 .. c - 1,
         NEW f \in 0 .. c - 1, f # s, NEW n \in Names, NEW g, g = Chained(h, s, f, n)
  PROVE  ChainedIs(c, h, s, f, n, g)
<1>1. f \in Int /\ h.entries[s].next \in Int
  BY HashFacts
<1>2. PICK h1 : h1 = SetNext(h, f, h.entries[s].next)
  OBVIOUS
<1>3. /\ h1 \in Hashes(c) /\ h1.free_head = h.free_head /\ h1.size = h.size
      /\ \A t \in 0 .. c - 1 :
           /\ h1.entries[t].name = h.entries[t].name
           /\ h1.entries[t].index = h.entries[t].index
           /\ h1.entries[t].prev = h.entries[t].prev
           /\ h1.entries[t].next = IF t = f THEN h.entries[s].next ELSE h.entries[t].next
  <2>1. NextIs(c, h, f, h.entries[s].next, h1)
    BY <1>1, <1>2, SetNextFacts
  <2>2. QED
    BY <2>1 DEF NextIs
<1>4. PICK h2 : h2 = SetNext(h1, s, f)
  OBVIOUS
<1>5. /\ h2 \in Hashes(c) /\ h2.free_head = h1.free_head /\ h2.size = h1.size
      /\ \A t \in 0 .. c - 1 :
           /\ h2.entries[t].name = h1.entries[t].name
           /\ h2.entries[t].index = h1.entries[t].index
           /\ h2.entries[t].prev = h1.entries[t].prev
           /\ h2.entries[t].next = IF t = s THEN f ELSE h1.entries[t].next
  <2>1. NextIs(c, h1, s, f, h2)
    BY <1>1, <1>3, <1>4, SetNextFacts
  <2>2. QED
    BY <2>1 DEF NextIs
<1>6. g = Claim(h2, f, n)
  BY <1>2, <1>4 DEF Chained
<1>7. /\ g \in Hashes(c) /\ g.free_head = h2.free_head /\ g.size = h2.size
      /\ \A t \in 0 .. c - 1 :
           /\ g.entries[t].next = h2.entries[t].next
           /\ g.entries[t].name = IF t = f THEN n ELSE h2.entries[t].name
           /\ g.entries[t].index = IF t = f THEN 0 ELSE h2.entries[t].index
           /\ g.entries[t].prev = IF t = f THEN NULL ELSE h2.entries[t].prev
  <2>1. ClaimIs(c, h2, f, n, g)
    BY <1>5, <1>6, ClaimFacts
  <2>2. QED
    BY <2>1 DEF ClaimIs
<1>8. QED
  BY <1>3, <1>5, <1>7 DEF ChainedIs

\* The slot whose next entry leaves it, as Moved looks for it.
Before(h, s) ==
  LET chain == Along(h, hash_main_entry(h, h.entries[s].name))
  IN chain[CHOOSE i \in DOMAIN chain : chain[i] # NULL /\ h.entries[chain[i]].next = s]

\* The entry of s moves to f.
\* g is h with n in s, whose entry is in f now, after b.
MovedIs(c, h, s, f, n, b, g) ==
  /\ g \in Hashes(c) /\ g.free_head = h.free_head /\ g.size = h.size
  /\ \A t \in 0 .. c - 1 :
       /\ g.entries[t].name = IF t = s THEN n
                              ELSE h.entries[IF t = f THEN s ELSE t].name
       /\ g.entries[t].index = IF t = s THEN 0
                               ELSE h.entries[IF t = f THEN s ELSE t].index
       /\ g.entries[t].prev = IF t = s THEN NULL
                              ELSE h.entries[IF t = f THEN s ELSE t].prev
       /\ g.entries[t].next = IF t = s THEN NULL ELSE IF t = b THEN f
                              ELSE h.entries[IF t = f THEN s ELSE t].next

\* Moved copies the entry of s to f and links b to it.
LEMMA MovedFacts ==
  ASSUME NEW c \in Nat, NEW h \in Hashes(c), NEW s \in 0 .. c - 1,
         NEW f \in 0 .. c - 1, f # s, NEW n \in Names,
         NEW b \in 0 .. c - 1, b = Before(h, s), b # s, b # f,
         NEW g, g = Moved(h, s, f, n)
  PROVE  MovedIs(c, h, s, f, n, b, g)
<1>1. f \in Int /\ NULL \in Int
  BY DEF NULL
<1>2. PICK h1 : h1 = SetNext(h, b, f)
  OBVIOUS
<1>3. /\ h1 \in Hashes(c) /\ h1.free_head = h.free_head /\ h1.size = h.size
      /\ \A t \in 0 .. c - 1 :
           /\ h1.entries[t].name = h.entries[t].name
           /\ h1.entries[t].index = h.entries[t].index
           /\ h1.entries[t].prev = h.entries[t].prev
           /\ h1.entries[t].next = IF t = b THEN f ELSE h.entries[t].next
  <2>1. NextIs(c, h, b, f, h1)
    BY <1>1, <1>2, SetNextFacts
  <2>2. QED
    BY <2>1 DEF NextIs
<1>4. PICK E \in [0 .. c - 1 -> Entries] : E = h1.entries
  BY <1>3 DEF Hashes
<1>5. PICK D \in [0 .. c - 1 -> Entries] :
        /\ D = WithEntry(E, f, E[s])
        /\ \A t \in 0 .. c - 1 : D[t] = IF t = f THEN E[s] ELSE E[t]
  <2>1. PICK e \in Entries : e = E[s]
    OBVIOUS
  <2>2. /\ WithEntry(E, f, e) \in [0 .. c - 1 -> Entries]
        /\ \A t \in 0 .. c - 1 : WithEntry(E, f, e)[t] = IF t = f THEN e ELSE E[t]
    BY SMTT(30), WithEntryFacts
  <2>3. QED
    BY <2>1, <2>2
<1>6. PICK h2 : h2 = WithEntries(h1, D)
  OBVIOUS
<1>7. /\ h2 \in Hashes(c) /\ h2.entries = D
      /\ h2.free_head = h1.free_head /\ h2.size = h1.size
  BY <1>3, <1>6, WithEntriesFacts
<1>8. PICK h3 : h3 = SetNext(h2, s, NULL)
  OBVIOUS
<1>9. /\ h3 \in Hashes(c) /\ h3.free_head = h2.free_head /\ h3.size = h2.size
      /\ \A t \in 0 .. c - 1 :
           /\ h3.entries[t].name = h2.entries[t].name
           /\ h3.entries[t].index = h2.entries[t].index
           /\ h3.entries[t].prev = h2.entries[t].prev
           /\ h3.entries[t].next = IF t = s THEN NULL ELSE h2.entries[t].next
  <2>1. NextIs(c, h2, s, NULL, h3)
    BY <1>1, <1>7, <1>8, SetNextFacts
  <2>2. QED
    BY <2>1 DEF NextIs
<1>10. g = Claim(h3, s, n)
  BY <1>2, <1>4, <1>5, <1>6, <1>8 DEF Moved, Before, WithEntries, WithEntry
<1>11. /\ g \in Hashes(c) /\ g.free_head = h3.free_head /\ g.size = h3.size
       /\ \A t \in 0 .. c - 1 :
            /\ g.entries[t].next = h3.entries[t].next
            /\ g.entries[t].name = IF t = s THEN n ELSE h3.entries[t].name
            /\ g.entries[t].index = IF t = s THEN 0 ELSE h3.entries[t].index
            /\ g.entries[t].prev = IF t = s THEN NULL ELSE h3.entries[t].prev
  <2>1. ClaimIs(c, h3, s, n, g)
    BY <1>9, <1>10, ClaimFacts
  <2>2. QED
    BY <2>1 DEF ClaimIs
<1>12. \A t \in 0 .. c - 1 : h2.entries[t] = h1.entries[IF t = f THEN s ELSE t]
  BY <1>4, <1>5, <1>7
<1>13. QED
  <2>1. SUFFICES ASSUME NEW t \in 0 .. c - 1
                 PROVE  /\ g.entries[t].name = IF t = s THEN n
                                               ELSE h.entries[IF t = f THEN s ELSE t].name
                        /\ g.entries[t].index = IF t = s THEN 0
                                                ELSE h.entries[IF t = f THEN s ELSE t].index
                        /\ g.entries[t].prev = IF t = s THEN NULL
                                               ELSE h.entries[IF t = f THEN s ELSE t].prev
                        /\ g.entries[t].next = IF t = s THEN NULL ELSE IF t = b THEN f
                                               ELSE h.entries[IF t = f THEN s ELSE t].next
    BY <1>3, <1>7, <1>9, <1>11 DEF MovedIs
  <2>2. PICK u \in 0 .. c - 1 : u = IF t = f THEN s ELSE t
    OBVIOUS
  <2>3. h2.entries[t] = h1.entries[u]
    BY <1>12, <2>2
  <2>4. QED
    BY SMTT(30), <1>3, <1>9, <1>11, <2>2, <2>3

-----------------------------------------------------------------------------
(* The free list.                                                          *)

Free(h) == Slots(h) \ Used(h)

\* The free list leads both ways from its head through the free slots, which
\* r ranks in their order.
FreeLinked(h, r) ==
  /\ IF h.free_head = NULL THEN Free(h) = {}
     ELSE h.free_head \in Free(h) /\ h.entries[h.free_head].prev = NULL
  /\ \A t \in Free(h) :
       /\ r[t] \in Nat
       /\ \/ h.entries[t].next = NULL
          \/ /\ h.entries[t].next \in Free(h)
             /\ h.entries[h.entries[t].next].prev = t
             /\ r[t] < r[h.entries[t].next]
       /\ t # h.free_head => /\ h.entries[t].prev \in Free(h)
                             /\ h.entries[h.entries[t].prev].next = t

\* The free list of g is that of h without f, between p and x.
Takes(g, h, f, p, x) ==
  /\ f \in Free(h) /\ x = h.entries[f].next /\ p = h.entries[f].prev
  /\ Free(g) = Free(h) \ {f}
  /\ g.free_head = IF p = NULL THEN x ELSE h.free_head
  /\ \A t \in Free(g) :
       /\ g.entries[t].next = IF t = p THEN x ELSE h.entries[t].next
       /\ g.entries[t].prev = IF t = x THEN p ELSE h.entries[t].prev

NotASlot(h) == NULL \notin Free(h)

\* NULL is not in the free list.
LEMMA NullNotFree ==
  ASSUME NEW h, h.capacity \in Nat
  PROVE  NotASlot(h)
BY DEF NotASlot, Free, Slots, NULL

\* What follows and precedes an entry of the list.
LEMMA FreeNeighbours ==
  ASSUME NEW h, NEW r, NotASlot(h), FreeLinked(h, r), NEW f \in Free(h),
         NEW p, p = h.entries[f].prev, NEW x, x = h.entries[f].next
  PROVE  /\ h.free_head \in Free(h) /\ h.free_head # NULL
         /\ p = NULL <=> f = h.free_head
         /\ p # NULL => p \in Free(h) /\ h.entries[p].next = f /\ p # f /\ r[p] < r[f]
         /\ x # NULL => x \in Free(h) /\ h.entries[x].prev = f /\ x # f /\ r[f] < r[x]
         /\ x # h.free_head
<1>1. h.free_head \in Free(h) /\ h.free_head # NULL
      /\ h.entries[h.free_head].prev = NULL
  BY DEF FreeLinked
<1>2. r[f] \in Nat
  BY DEF FreeLinked
<1>3. f # h.free_head => p \in Free(h) /\ h.entries[p].next = f
  BY DEF FreeLinked
<1>4. p = NULL <=> f = h.free_head
  BY <1>1, <1>3 DEF NotASlot
<1>5. x # NULL => x \in Free(h) /\ h.entries[x].prev = f /\ x # f /\ r[f] < r[x]
  <2>1. x # NULL => x \in Free(h) /\ h.entries[x].prev = f /\ r[f] < r[x]
    BY DEF FreeLinked
  <2>2. QED
    BY <1>2, <2>1
<1>6. p # NULL => p \in Free(h) /\ h.entries[p].next = f /\ p # f /\ r[p] < r[f]
  <2>1. ASSUME p # NULL PROVE p \in Free(h) /\ h.entries[p].next = f
    BY <1>3, <1>4, <2>1
  <2>2. ASSUME p # NULL PROVE r[p] < r[f]
    BY <2>1, <2>2 DEF FreeLinked, NotASlot
  <2>3. QED
    BY <1>2, <2>1, <2>2
<1>7. x # h.free_head
  <2>1. f # NULL
    BY DEF NotASlot
  <2>2. QED
    BY <1>1, <1>5, <2>1
<1>8. QED
  BY <1>1, <1>4, <1>5, <1>6, <1>7

\* If nothing follows the head, it is the only free slot.
LEMMA FreeAlone ==
  ASSUME NEW h, NEW r, NotASlot(h), FreeLinked(h, r), NEW f \in Free(h),
         h.entries[f].next = NULL, h.free_head = f
  PROVE  Free(h) = {f}
<1> DEFINE Rest == Free(h) \ {f}
           Ranks == {r[t] : t \in Rest}
<1>1. SUFFICES ASSUME Rest # {} PROVE FALSE
  OBVIOUS
<1>2. Ranks \subseteq Nat /\ Ranks # {}
  BY <1>1 DEF FreeLinked
<1>3. PICK x \in Ranks : \A y \in Ranks : x <= y
  BY <1>2, Smallest
<1>4. PICK t \in Rest : x = r[t]
  OBVIOUS
<1>5. \A u \in Rest : r[u] \in Ranks
  OBVIOUS
<1>6. t \in Free(h) /\ t # f /\ \A u \in Free(h) : u # f => r[t] <= r[u]
  BY <1>3, <1>4, <1>5
<1> HIDE DEF Rest, Ranks
<1>7. PICK p : p = h.entries[t].prev
  OBVIOUS
<1>8. p \in Free(h) /\ h.entries[p].next = t /\ r[p] < r[t]
  BY <1>6, <1>7, FreeNeighbours
<1>9. r[p] \in Nat /\ r[t] \in Nat
  BY <1>6, <1>8 DEF FreeLinked
<1>10. p = f
  BY <1>6, <1>8, <1>9
<1>11. QED
  BY <1>6, <1>8, <1>10 DEF NotASlot

\* Taking an entry out leaves the list whole.
LEMMA TakenLinked ==
  ASSUME NEW h, NEW r, NotASlot(h), FreeLinked(h, r), NEW g, NotASlot(g),
         NEW f, NEW p, NEW x, Takes(g, h, f, p, x)
  PROVE  FreeLinked(g, r)
<1>1. /\ f \in Free(h) /\ x = h.entries[f].next /\ p = h.entries[f].prev
      /\ Free(g) = Free(h) \ {f}
      /\ g.free_head = IF p = NULL THEN x ELSE h.free_head
  BY DEF Takes
<1>2. \A t \in Free(g) :
        /\ g.entries[t].next = IF t = p THEN x ELSE h.entries[t].next
        /\ g.entries[t].prev = IF t = x THEN p ELSE h.entries[t].prev
  BY DEF Takes
<1>3. /\ h.free_head \in Free(h) /\ h.free_head # NULL
      /\ p = NULL <=> f = h.free_head
      /\ p # NULL => p \in Free(h) /\ h.entries[p].next = f /\ p # f /\ r[p] < r[f]
      /\ x # NULL => x \in Free(h) /\ h.entries[x].prev = f /\ x # f /\ r[f] < r[x]
      /\ x # h.free_head
  BY <1>1, FreeNeighbours
<1>4. IF g.free_head = NULL THEN Free(g) = {}
      ELSE g.free_head \in Free(g) /\ g.entries[g.free_head].prev = NULL
  <2>1. CASE p = NULL
    <3>1. CASE x = NULL
      <4>1. Free(h) = {f}
        BY <1>1, <1>3, <2>1, <3>1, FreeAlone
      <4>2. QED
        BY <1>1, <2>1, <3>1, <4>1
    <3>2. CASE x # NULL
      <4>1. x \in Free(g)
        BY <1>1, <1>3, <3>2
      <4>2. QED
        BY <1>1, <1>2, <2>1, <3>2, <4>1
    <3>3. QED
      BY <3>1, <3>2
  <2>2. CASE p # NULL
    <3>1. h.free_head \in Free(g)
      BY <1>1, <1>3, <2>2
    <3>2. h.entries[h.free_head].prev = NULL
      BY <1>3 DEF FreeLinked
    <3>3. QED
      BY <1>1, <1>2, <1>3, <2>2, <3>1, <3>2
  <2>3. QED
    BY <2>1, <2>2
<1>5. ASSUME NEW t \in Free(g), NEW y, y = g.entries[t].next
      PROVE  y = NULL \/ (y \in Free(g) /\ g.entries[y].prev = t /\ r[t] < r[y])
  <2>1. t \in Free(h) /\ t # f
    BY <1>1
  <2>2. CASE t = p
    <3>1. y = x
      BY <1>2, <1>5, <2>2
    <3>2. CASE x = NULL
      BY <3>1, <3>2
    <3>3. CASE x # NULL
      <4>1. y \in Free(g)
        BY <1>1, <1>3, <3>1, <3>3
      <4>2. g.entries[y].prev = t
        BY <1>2, <2>2, <3>1, <4>1
      <4>3. r[t] \in Nat /\ r[f] \in Nat /\ r[y] \in Nat
        BY <1>1, <2>1, <4>1 DEF FreeLinked
      <4>4. r[t] < r[f] /\ r[f] < r[y]
        <5>1. p # NULL
          BY <2>1, <2>2 DEF NotASlot
        <5>2. QED
          BY <1>3, <2>2, <3>1, <3>3, <5>1
      <4>5. QED
        BY <4>1, <4>2, <4>3, <4>4
    <3>4. QED
      BY <3>2, <3>3
  <2>3. CASE t # p
    <3>1. y = h.entries[t].next
      BY <1>2, <1>5, <2>3
    <3>2. CASE y = NULL
      BY <3>2
    <3>3. CASE y # NULL
      <4>1. y \in Free(h) /\ h.entries[y].prev = t /\ r[t] < r[y]
        BY <2>1, <3>1, <3>3, FreeNeighbours
      <4>2. y # f
        BY <1>1, <2>3, <4>1
      <4>3. y # x
        BY <1>3, <2>1, <3>3, <4>1
      <4>4. QED
        BY <1>1, <1>2, <4>1, <4>2, <4>3
    <3>4. QED
      BY <3>2, <3>3
  <2>4. QED
    BY <2>2, <2>3
<1>6. ASSUME NEW t \in Free(g), t # g.free_head, NEW q, q = g.entries[t].prev
      PROVE  q \in Free(g) /\ g.entries[q].next = t
  <2>1. t \in Free(h) /\ t # f
    BY <1>1
  <2>2. CASE t = x
    <3>1. p # NULL /\ q = p
      BY <1>1, <1>2, <1>6, <2>2
    <3>2. p \in Free(g)
      BY <1>1, <1>3, <3>1
    <3>3. QED
      BY <1>2, <2>2, <3>1, <3>2
  <2>3. CASE t # x
    <3>1. q = h.entries[t].prev
      BY <1>2, <1>6, <2>3
    <3>2. t # h.free_head
      BY <1>1, <1>3, <1>6, <2>1
    <3>3. q \in Free(h) /\ h.entries[q].next = t
      BY <2>1, <3>1, <3>2 DEF FreeLinked
    <3>4. q # f
      BY <1>1, <2>3, <3>3
    <3>5. q # p
      <4>1. CASE p = NULL
        BY <3>3, <4>1 DEF NotASlot
      <4>2. CASE p # NULL
        BY <1>3, <2>1, <3>3, <4>2
      <4>3. QED
        BY <4>1, <4>2
    <3>6. QED
      BY <1>1, <1>2, <3>3, <3>4, <3>5
  <2>4. QED
    BY <2>2, <2>3
<1>7. \A t \in Free(g) : r[t] \in Nat
  BY <1>1 DEF FreeLinked
<1>8. QED
  BY <1>4, <1>5, <1>6, <1>7 DEF FreeLinked

-----------------------------------------------------------------------------
(* The chains.                                                             *)

Main(h, t) == hash_main_entry(h, h.entries[t].name)

\* Each used slot is in the chain of its name's main slot, which holds an entry
\* that belongs there; d ranks the slots of a chain in their order.
ChainsLinked(h, d) ==
  /\ \A t \in Used(h) :
       /\ d[t] \in Nat
       /\ Main(h, t) \in Used(h) /\ Main(h, Main(h, t)) = Main(h, t)
       /\ \/ h.entries[t].next = NULL
          \/ /\ h.entries[t].next \in Used(h)
             /\ Main(h, h.entries[t].next) = Main(h, t)
             /\ d[t] < d[h.entries[t].next]
             /\ h.entries[t].next # Main(h, t)
       /\ t = Main(h, t) \/ \E p \in Used(h) : h.entries[p].next = t
  /\ \A p, q \in Used(h) :
       h.entries[p].next = h.entries[q].next /\ h.entries[p].next # NULL => p = q

\* The new entry is the first of its chain.
StartsChain(g, h, s) ==
  /\ Used(g) = Used(h) \cup {s} /\ s \notin Used(h)
  /\ Main(g, s) = s /\ g.entries[s].next = NULL
  /\ \A t \in Used(h) : Main(g, t) = Main(h, t) /\ g.entries[t].next = h.entries[t].next

\* Starting a chain leaves all chains linked.
LEMMA StartsLinked ==
  ASSUME NEW h, NEW d, ChainsLinked(h, d), NULL \notin Used(h),
         NEW g, NEW s, StartsChain(g, h, s)
  PROVE  \E e : ChainsLinked(g, e)
<1> DEFINE e == [t \in Used(g) |-> IF t = s THEN 0 ELSE d[t]]
<1>1. /\ Used(g) = Used(h) \cup {s} /\ s \notin Used(h)
      /\ Main(g, s) = s /\ g.entries[s].next = NULL
  BY DEF StartsChain
<1>2. \A t \in Used(h) : Main(g, t) = Main(h, t) /\ g.entries[t].next = h.entries[t].next
  BY DEF StartsChain
<1>3. e[s] = 0 /\ \A t \in Used(h) : e[t] = d[t]
  BY <1>1
<1> HIDE DEF e
<1>4. ASSUME NEW t \in Used(h), NEW x, x = h.entries[t].next
      PROVE  /\ e[t] \in Nat
             /\ Main(g, t) \in Used(g) /\ Main(g, Main(g, t)) = Main(g, t)
             /\ x = NULL \/ (/\ x \in Used(g) /\ Main(g, x) = Main(g, t)
                             /\ e[t] < e[x] /\ x # Main(g, t))
             /\ t = Main(g, t) \/ \E p \in Used(g) : g.entries[p].next = t
  <2>1. d[t] \in Nat /\ Main(h, t) \in Used(h) /\ Main(h, Main(h, t)) = Main(h, t)
    BY DEF ChainsLinked
  <2>2. x = NULL \/ (/\ x \in Used(h) /\ Main(h, x) = Main(h, t)
                     /\ d[t] < d[x] /\ x # Main(h, t))
    BY <1>4 DEF ChainsLinked
  <2>3. t = Main(h, t) \/ \E p \in Used(h) : h.entries[p].next = t
    BY DEF ChainsLinked
  <2>4. QED
    BY <1>1, <1>2, <1>3, <2>1, <2>2, <2>3
<1>5. ASSUME NEW p \in Used(g), NEW q \in Used(g),
             g.entries[p].next = g.entries[q].next, g.entries[p].next # NULL
      PROVE  p = q
  <2>1. p \in Used(h) /\ q \in Used(h)
    BY <1>1, <1>5
  <2>2. h.entries[p].next = h.entries[q].next /\ h.entries[p].next # NULL
    BY <1>2, <1>5, <2>1
  <2>3. QED
    BY <2>1, <2>2 DEF ChainsLinked
<1>6. ASSUME NEW t \in Used(g), NEW x, x = g.entries[t].next
      PROVE  /\ e[t] \in Nat
             /\ Main(g, t) \in Used(g) /\ Main(g, Main(g, t)) = Main(g, t)
             /\ x = NULL \/ (/\ x \in Used(g) /\ Main(g, x) = Main(g, t)
                             /\ e[t] < e[x] /\ x # Main(g, t))
             /\ t = Main(g, t) \/ \E p \in Used(g) : g.entries[p].next = t
  <2>1. CASE t = s
    BY <1>1, <1>3, <1>6, <2>1
  <2>2. CASE t # s
    <3>1. t \in Used(h) /\ x = h.entries[t].next
      BY <1>1, <1>2, <1>6, <2>2
    <3>2. QED
      BY <1>4, <3>1
  <2>3. QED
    BY <2>1, <2>2
<1>7. ChainsLinked(g, e)
  BY <1>5, <1>6 DEF ChainsLinked
<1>8. QED
  BY <1>7

\* The new entry f is second in the chain of s.
JoinsChain(g, h, s, f) ==
  /\ Used(g) = Used(h) \cup {f} /\ f \notin Used(h)
  /\ s \in Used(h) /\ Main(h, s) = s /\ Main(g, f) = s
  /\ g.entries[f].next = h.entries[s].next
  /\ \A t \in Used(h) : /\ Main(g, t) = Main(h, t)
                        /\ g.entries[t].next = IF t = s THEN f ELSE h.entries[t].next

\* Joining a chain leaves all chains linked.
LEMMA JoinsLinked ==
  ASSUME NEW h, NEW d, ChainsLinked(h, d), NULL \notin Used(h),
         NEW g, NEW s, NEW f, JoinsChain(g, h, s, f), f # NULL
  PROVE  \E e : ChainsLinked(g, e)
<1> DEFINE e == [t \in Used(g) |-> IF t = f THEN 2 * d[s] + 1 ELSE 2 * d[t]]
<1>1. /\ Used(g) = Used(h) \cup {f} /\ f \notin Used(h)
      /\ s \in Used(h) /\ Main(h, s) = s /\ Main(g, f) = s
      /\ g.entries[f].next = h.entries[s].next
  BY DEF JoinsChain
<1>2. \A t \in Used(h) : /\ Main(g, t) = Main(h, t)
                         /\ g.entries[t].next = IF t = s THEN f ELSE h.entries[t].next
  BY DEF JoinsChain
<1>3. e[f] = 2 * d[s] + 1 /\ \A t \in Used(h) : e[t] = 2 * d[t]
  BY <1>1
<1> HIDE DEF e
<1>4. ASSUME NEW t \in Used(h), NEW x, x = h.entries[t].next
      PROVE  /\ d[t] \in Nat
             /\ Main(h, t) \in Used(h) /\ Main(h, Main(h, t)) = Main(h, t)
             /\ x = NULL \/ (/\ x \in Used(h) /\ Main(h, x) = Main(h, t)
                             /\ d[t] < d[x] /\ x # Main(h, t))
             /\ t = Main(h, t) \/ \E p \in Used(h) : h.entries[p].next = t
  BY <1>4 DEF ChainsLinked
<1>5. ASSUME NEW p \in Used(h), NEW q \in Used(h),
             h.entries[p].next = h.entries[q].next, h.entries[p].next # NULL
      PROVE  p = q
  BY <1>5 DEF ChainsLinked
<1>6. ASSUME NEW t \in Used(g)
      PROVE  /\ e[t] \in Nat
             /\ Main(g, t) \in Used(g) /\ Main(g, Main(g, t)) = Main(g, t)
  <2>1. CASE t = f
    <3>1. d[s] \in Nat
      BY <1>1, <1>4
    <3>2. e[t] \in Nat
      BY <1>3, <2>1, <3>1
    <3>3. QED
      BY <1>1, <1>2, <2>1, <3>2
  <2>2. CASE t # f
    <3>1. t \in Used(h)
      BY <1>1, <2>2
    <3>2. d[t] \in Nat /\ Main(h, t) \in Used(h) /\ Main(h, Main(h, t)) = Main(h, t)
      BY <1>4, <3>1
    <3>3. e[t] \in Nat
      BY <1>3, <3>1, <3>2
    <3>4. QED
      BY <1>1, <1>2, <3>1, <3>2, <3>3
  <2>3. QED
    BY <2>1, <2>2
<1>7. ASSUME NEW t \in Used(g), NEW x, x = g.entries[t].next, x # NULL
      PROVE  x \in Used(g) /\ Main(g, x) = Main(g, t) /\ e[t] < e[x] /\ x # Main(g, t)
  <2>1. CASE t = f
    <3>1. x = h.entries[s].next
      BY <1>1, <1>7, <2>1
    <3>2. x \in Used(h) /\ Main(h, x) = Main(h, s) /\ d[s] < d[x] /\ x # Main(h, s)
      BY <1>1, <1>4, <1>7, <3>1
    <3>3. d[s] \in Nat /\ d[x] \in Nat
      BY <1>1, <1>4, <3>2
    <3>4. e[t] < e[x]
      BY <1>3, <2>1, <3>2, <3>3
    <3>5. QED
      BY <1>1, <1>2, <2>1, <3>2, <3>4
  <2>2. CASE t = s
    <3>1. x = f
      BY <1>1, <1>2, <1>7, <2>2
    <3>2. d[s] \in Nat
      BY <1>1, <1>4
    <3>3. e[s] < e[f]
      BY <1>1, <1>3, <3>2
    <3>4. QED
      BY <1>1, <1>2, <2>2, <3>1, <3>3
  <2>3. CASE t # f /\ t # s
    <3>1. t \in Used(h) /\ x = h.entries[t].next
      BY <1>1, <1>2, <1>7, <2>3
    <3>2. x \in Used(h) /\ Main(h, x) = Main(h, t) /\ d[t] < d[x] /\ x # Main(h, t)
      BY <1>4, <1>7, <3>1
    <3>3. d[t] \in Nat /\ d[x] \in Nat
      BY <1>4, <3>1, <3>2
    <3>4. e[t] < e[x]
      BY <1>3, <3>1, <3>2, <3>3
    <3>5. QED
      BY <1>1, <1>2, <3>1, <3>2, <3>4
  <2>4. QED
    BY <2>1, <2>2, <2>3
<1>8. ASSUME NEW t \in Used(g), t # Main(g, t)
      PROVE  \E p \in Used(g) : g.entries[p].next = t
  <2>1. CASE t = f
    BY <1>1, <1>2, <2>1
  <2>2. CASE t # f
    <3>1. t \in Used(h) /\ t # Main(h, t)
      BY <1>1, <1>2, <1>8, <2>2
    <3>2. PICK p \in Used(h) : h.entries[p].next = t
      BY <1>4, <3>1
    <3>3. CASE p = s
      BY <1>1, <3>2, <3>3
    <3>4. CASE p # s
      BY <1>1, <1>2, <3>2, <3>4
    <3>5. QED
      BY <3>3, <3>4
  <2>3. QED
    BY <2>1, <2>2
<1>9. ASSUME NEW p \in Used(g), NEW q \in Used(g),
             g.entries[p].next = g.entries[q].next, g.entries[p].next # NULL
      PROVE  p = q
  \* The entry of h whose next pointer it has, except s.
  <2> DEFINE o(t) == IF t = f THEN s ELSE t
  <2>1. CASE p = s \/ q = s
    <3>1. \A t \in Used(h) : h.entries[t].next # f
      BY <1>1, <1>4
    <3>2. g.entries[p].next = f /\ g.entries[q].next = f
      BY <1>1, <1>2, <1>9, <2>1
    <3>3. p = s
      BY <1>1, <1>2, <3>1, <3>2
    <3>4. q = s
      BY <1>1, <1>2, <3>1, <3>2
    <3>5. QED
      BY <3>3, <3>4
  <2>2. CASE p # s /\ q # s
    <3>1. /\ o(p) \in Used(h) /\ g.entries[p].next = h.entries[o(p)].next
          /\ o(q) \in Used(h) /\ g.entries[q].next = h.entries[o(q)].next
      BY <1>1, <1>2, <2>2
    <3>2. o(p) = o(q)
      <4> HIDE DEF o
      <4>1. QED
        BY <1>5, <1>9, <3>1
    <3>3. QED
      BY <2>2, <3>2
  <2>3. QED
    BY <2>1, <2>2
<1>10. ChainsLinked(g, e)
  BY <1>6, <1>7, <1>8, <1>9 DEF ChainsLinked
<1>11. QED
  BY <1>10

\* The entry of s moves to f, after b; the new one in s starts a chain.
MovesChain(g, h, s, f, b) ==
  /\ Used(g) = Used(h) \cup {f} /\ f \notin Used(h)
  /\ s \in Used(h) /\ Main(h, s) # s
  /\ b \in Used(h) /\ h.entries[b].next = s
  /\ Main(g, s) = s /\ Main(g, f) = Main(h, s)
  /\ g.entries[s].next = NULL /\ g.entries[f].next = h.entries[s].next
  /\ \A t \in Used(h) \ {s} :
       /\ Main(g, t) = Main(h, t)
       /\ g.entries[t].next = IF t = b THEN f ELSE h.entries[t].next

\* Moving an entry and starting a chain in its place leaves all chains linked.
LEMMA MovesLinked ==
  ASSUME NEW h, NEW d, ChainsLinked(h, d), NULL \notin Used(h),
         NEW g, NEW s, NEW f, NEW b, MovesChain(g, h, s, f, b), f # NULL
  PROVE  \E e : ChainsLinked(g, e)
<1> DEFINE e == [t \in Used(g) |-> IF t = f THEN d[s] ELSE d[t]]
<1>1. /\ Used(g) = Used(h) \cup {f} /\ f \notin Used(h)
      /\ s \in Used(h) /\ Main(h, s) # s
      /\ b \in Used(h) /\ h.entries[b].next = s
      /\ Main(g, s) = s /\ Main(g, f) = Main(h, s)
      /\ g.entries[s].next = NULL /\ g.entries[f].next = h.entries[s].next
  BY DEF MovesChain
<1>2. \A t \in Used(h) : t # s =>
        /\ Main(g, t) = Main(h, t)
        /\ g.entries[t].next = IF t = b THEN f ELSE h.entries[t].next
  BY DEF MovesChain
<1>3. e[f] = d[s] /\ \A t \in Used(h) : e[t] = d[t]
  BY <1>1
<1> HIDE DEF e
<1>4. ASSUME NEW t \in Used(h), NEW x, x = h.entries[t].next
      PROVE  /\ d[t] \in Nat
             /\ Main(h, t) \in Used(h) /\ Main(h, Main(h, t)) = Main(h, t)
             /\ x = NULL \/ (/\ x \in Used(h) /\ Main(h, x) = Main(h, t)
                             /\ d[t] < d[x] /\ x # Main(h, t))
             /\ t = Main(h, t) \/ \E p \in Used(h) : h.entries[p].next = t
  BY <1>4 DEF ChainsLinked
<1>5. ASSUME NEW p \in Used(h), NEW q \in Used(h),
             h.entries[p].next = h.entries[q].next, h.entries[p].next # NULL
      PROVE  p = q
  BY <1>5 DEF ChainsLinked
\* No entry has s for its main slot.
<1>6. ASSUME NEW t \in Used(h) PROVE Main(h, t) # s
  <2>1. Main(h, Main(h, t)) = Main(h, t)
    BY <1>4
  <2>2. QED
    BY <1>1, <2>1
<1>7. b # s
  <2>1. d[b] \in Nat /\ (h.entries[b].next # NULL => d[b] < d[h.entries[b].next])
    BY <1>1, <1>4
  <2>2. s # NULL
    BY <1>1
  <2>3. QED
    BY <1>1, <2>1, <2>2
<1>8. ASSUME NEW t \in Used(h), t # s
      PROVE  /\ Main(h, t) \in Used(h) /\ Main(h, t) # s
             /\ Main(g, t) = Main(h, t) /\ Main(g, Main(h, t)) = Main(h, t)
  <2>1. Main(h, t) \in Used(h) /\ Main(h, Main(h, t)) = Main(h, t) /\ Main(h, t) # s
    BY <1>4, <1>6
  <2>2. QED
    BY <1>2, <1>8, <2>1
<1>9. /\ Main(h, s) \in Used(h) /\ Main(h, s) # s
      /\ Main(g, Main(h, s)) = Main(h, s)
  <2>1. Main(h, s) \in Used(h) /\ Main(h, Main(h, s)) = Main(h, s)
    BY <1>1, <1>4
  <2>2. QED
    BY <1>1, <1>2, <2>1
<1>10. ASSUME NEW t \in Used(g)
       PROVE  /\ e[t] \in Nat
              /\ Main(g, t) \in Used(g) /\ Main(g, Main(g, t)) = Main(g, t)
  <2>1. CASE t = f
    <3>1. d[s] \in Nat
      BY <1>1, <1>4
    <3>2. QED
      BY <1>1, <1>3, <1>9, <2>1, <3>1
  <2>2. CASE t = s
    <3>1. d[s] \in Nat
      BY <1>1, <1>4
    <3>2. QED
      BY <1>1, <1>3, <2>2, <3>1
  <2>3. CASE t # f /\ t # s
    <3>1. t \in Used(h)
      BY <1>1, <2>3
    <3>2. d[t] \in Nat
      BY <1>4, <3>1
    <3>3. QED
      BY <1>1, <1>3, <1>8, <2>3, <3>1, <3>2
  <2>4. QED
    BY <2>1, <2>2, <2>3
<1>11. ASSUME NEW t \in Used(g), NEW x, x = g.entries[t].next, x # NULL
       PROVE  x \in Used(g) /\ Main(g, x) = Main(g, t) /\ e[t] < e[x] /\ x # Main(g, t)
  <2>1. CASE t = f
    <3>1. x = h.entries[s].next
      BY <1>1, <1>11, <2>1
    <3>2. x \in Used(h) /\ Main(h, x) = Main(h, s) /\ d[s] < d[x] /\ x # Main(h, s)
      BY <1>1, <1>4, <1>11, <3>1
    <3>3. d[s] \in Nat
      BY <1>1, <1>4
    <3>4. x # s
      BY <3>2, <3>3
    <3>5. Main(g, x) = Main(h, x) /\ e[x] = d[x]
      BY <1>3, <1>8, <3>2, <3>4
    <3>6. QED
      BY <1>1, <1>3, <2>1, <3>2, <3>5
  <2>2. CASE t = s
    BY <1>1, <1>11, <2>2
  <2>3. CASE t = b
    <3>1. x = f
      BY <1>1, <1>2, <1>7, <1>11, <2>3
    <3>2. Main(h, s) = Main(h, b) /\ d[b] < d[s]
      BY <1>1, <1>4
    <3>3. Main(g, b) = Main(h, b)
      BY <1>1, <1>2, <1>7
    <3>4. f # Main(h, s)
      BY <1>1, <1>9
    <3>5. QED
      BY <1>1, <1>3, <2>3, <3>1, <3>2, <3>3, <3>4
  <2>4. CASE t # f /\ t # s /\ t # b
    <3>1. t \in Used(h) /\ x = h.entries[t].next
      BY <1>1, <1>2, <1>11, <2>4
    <3>2. x \in Used(h) /\ Main(h, x) = Main(h, t) /\ d[t] < d[x] /\ x # Main(h, t)
      BY <1>4, <1>11, <3>1
    <3>3. x # s
      BY <1>1, <1>5, <1>11, <2>4, <3>1
    <3>4. QED
      BY <1>1, <1>2, <1>3, <2>4, <3>1, <3>2, <3>3
  <2>5. QED
    BY <2>1, <2>2, <2>3, <2>4
<1>12. ASSUME NEW t \in Used(g), t # Main(g, t)
       PROVE  \E p \in Used(g) : g.entries[p].next = t
  <2>1. CASE t = f
    <3>1. g.entries[b].next = f
      BY <1>1, <1>2, <1>7
    <3>2. QED
      BY <1>1, <2>1, <3>1
  <2>2. CASE t # f
    <3>1. t \in Used(h) /\ t # s /\ t # Main(h, t)
      BY <1>1, <1>2, <1>12, <2>2
    <3>2. PICK p \in Used(h) : h.entries[p].next = t
      BY <1>4, <3>1
    <3>3. CASE p = s
      <4>1. g.entries[f].next = t
        BY <1>1, <3>2, <3>3
      <4>2. QED
        BY <1>1, <4>1
    <3>4. CASE p # s
      <4>1. p # b
        BY <1>1, <3>1, <3>2
      <4>2. g.entries[p].next = t
        BY <1>2, <3>2, <3>4, <4>1
      <4>3. QED
        BY <1>1, <4>2
    <3>5. QED
      BY <3>3, <3>4
  <2>3. QED
    BY <2>1, <2>2
<1>13. ASSUME NEW p \in Used(g), NEW q \in Used(g),
              g.entries[p].next = g.entries[q].next, g.entries[p].next # NULL
       PROVE  p = q
  \* The entry of h whose next pointer it has, except b.
  <2> DEFINE o(t) == IF t = f THEN s ELSE t
  <2>0. p # s /\ q # s
    BY <1>1, <1>13
  <2>1. CASE p = b \/ q = b
    <3>1. \A t \in Used(h) : h.entries[t].next # f
      BY <1>1, <1>4
    <3>2. g.entries[b].next = f
      BY <1>1, <1>2, <1>7
    <3>3. g.entries[p].next = f /\ g.entries[q].next = f
      BY <1>13, <2>1, <3>2
    <3>4. \A t \in Used(g) : t # s /\ g.entries[t].next = f => t = b
      <4>1. SUFFICES ASSUME NEW t \in Used(g), t # s, g.entries[t].next = f
                     PROVE  t = b
        OBVIOUS
      <4>2. t # f
        BY <1>1, <3>1, <4>1
      <4>3. t \in Used(h)
        BY <1>1, <4>2
      <4>4. QED
        BY <1>2, <3>1, <4>1, <4>3
    <3>5. QED
      BY <2>0, <3>3, <3>4
  <2>2. CASE p # b /\ q # b
    <3>1. \A t \in Used(g) : t # s /\ t # b =>
            o(t) \in Used(h) /\ g.entries[t].next = h.entries[o(t)].next
      BY <1>1, <1>2
    <3>2. o(p) = o(q)
      <4> HIDE DEF o
      <4>1. /\ o(p) \in Used(h) /\ g.entries[p].next = h.entries[o(p)].next
            /\ o(q) \in Used(h) /\ g.entries[q].next = h.entries[o(q)].next
        BY <2>0, <2>2, <3>1
      <4>2. QED
        BY <1>5, <1>13, <4>1
    <3>3. QED
      BY <2>0, <2>2, <3>2
  <2>3. QED
    BY <2>1, <2>2
<1>14. ChainsLinked(g, e)
  BY <1>10, <1>11, <1>12, <1>13 DEF ChainsLinked
<1>15. QED
  BY <1>14

-----------------------------------------------------------------------------
(* A whole hash.                                                           *)

\* The free list and the chains of a hash of c slots are linked.
Whole(c, h) == /\ h \in Hashes(c)
               /\ \E r : FreeLinked(h, r)
               /\ \E d : ChainsLinked(h, d)

\* The used slots and the free ones.
Split(c, h) ==
  /\ Used(h) \subseteq 0 .. c - 1 /\ Free(h) \subseteq 0 .. c - 1
  /\ NULL \notin Used(h) /\ NotASlot(h)
  /\ \A t \in 0 .. c - 1 : /\ t \in Used(h) <=> h.entries[t].name # NoName
                           /\ t \in Used(h) <=> h.entries[t].name \in Names
                           /\ t \in Free(h) <=> h.entries[t].name = NoName

\* A slot is used or free, as its name says.
LEMMA SplitSlots ==
  ASSUME NEW c \in Nat, NEW h \in Hashes(c)
  PROVE  Split(c, h)
<1>1. Slots(h) = 0 .. c - 1 /\ \A t \in 0 .. c - 1 : h.entries[t].name \in Names \cup {NoName}
  BY HashFacts
<1>2. \A t : t \in Used(h) <=> t \in 0 .. c - 1 /\ h.entries[t].name # NoName
  BY <1>1 DEF Used, wasm_hash_entry_is_free
<1>3. \A t : t \in Free(h) <=> t \in 0 .. c - 1 /\ h.entries[t].name = NoName
  BY <1>1, <1>2 DEF Free
<1>4. NULL \notin 0 .. c - 1
  BY DEF NULL
<1>5. QED
  BY <1>1, <1>2, <1>3, <1>4, NamesAssumption DEF Split, NotASlot

\* The main slot of a name depends on the number of slots only.
LEMMA MainSlot ==
  ASSUME NEW c \in Nat, c # 0, NEW h \in Hashes(c), NEW n \in Names,
         hash_name \in [Names -> HashValues]
  PROVE  hash_main_entry(h, n) \in 0 .. c - 1
<1>1. hash_name[n] \in Nat
  BY NamesAssumption
<1>2. PICK v \in Nat : v = hash_name[n]
  BY <1>1
<1>3. v % c \in 0 .. c - 1
  BY SMT
<1>4. h.capacity = c
  BY HashFacts
<1>5. QED
  BY <1>2, <1>3, <1>4 DEF hash_main_entry

\* Entries of the same name have the same main slot.
LEMMA SameMain ==
  ASSUME NEW c \in Nat, NEW h \in Hashes(c), NEW g \in Hashes(c), NEW t, NEW u,
         g.entries[t].name = h.entries[u].name
  PROVE  Main(g, t) = Main(h, u)
<1>1. g.capacity = h.capacity
  BY HashFacts
<1>2. QED
  BY <1>1 DEF Main, hash_main_entry

\* The chains of an array with the same names and next pointers are as whole.
LEMMA SameChains ==
  ASSUME NEW c \in Nat, NEW h \in Hashes(c), NEW d, ChainsLinked(h, d),
         NEW g \in Hashes(c),
         \A t \in 0 .. c - 1 : /\ g.entries[t].name = h.entries[t].name
                               /\ g.entries[t].next = h.entries[t].next
  PROVE  Used(g) = Used(h) /\ ChainsLinked(g, d)
<1>1. Split(c, h) /\ Split(c, g)
  BY SplitSlots
<1>2. Used(g) = Used(h)
  BY <1>1 DEF Split
<1>3. \A t \in Used(h) : Main(g, t) = Main(h, t)
  <2>1. \A t \in Used(h) : g.entries[t].name = h.entries[t].name
    BY <1>1 DEF Split
  <2>2. QED
    BY <2>1, SameMain
<1>4. \A t \in Used(h) : g.entries[t].next = h.entries[t].next
  BY <1>1 DEF Split
<1>5. ASSUME NEW t \in Used(h), NEW y, y = h.entries[t].next
      PROVE  /\ d[t] \in Nat
             /\ Main(h, t) \in Used(h) /\ Main(h, Main(h, t)) = Main(h, t)
             /\ y = NULL \/ (/\ y \in Used(h) /\ Main(h, y) = Main(h, t)
                             /\ d[t] < d[y] /\ y # Main(h, t))
             /\ t = Main(h, t) \/ \E p \in Used(h) : h.entries[p].next = t
  BY <1>5 DEF ChainsLinked
<1>6. ASSUME NEW t \in Used(h), NEW y, y = g.entries[t].next
      PROVE  /\ d[t] \in Nat
             /\ Main(g, t) \in Used(h) /\ Main(g, Main(g, t)) = Main(g, t)
             /\ y = NULL \/ (/\ y \in Used(h) /\ Main(g, y) = Main(g, t)
                             /\ d[t] < d[y] /\ y # Main(g, t))
             /\ t = Main(g, t) \/ \E p \in Used(h) : g.entries[p].next = t
  <2>1. y = h.entries[t].next
    BY <1>4, <1>6
  <2>2. QED
    BY <1>3, <1>4, <1>5, <2>1
<1>7. \A p, q \in Used(h) :
        g.entries[p].next = g.entries[q].next /\ g.entries[p].next # NULL => p = q
  BY <1>4 DEF ChainsLinked
<1>8. QED
  BY <1>2, <1>6, <1>7 DEF ChainsLinked

\* The chain of a slot.
Chain(h, m) == {t \in Used(h) : Main(h, t) = m}

\* From the main slot the next pointers lead to every slot of the chain, through
\* slots of the chain.
LEMMA Reached ==
  ASSUME NEW c \in Nat, NEW h \in Hashes(c), NEW d, ChainsLinked(h, d),
         NEW s \in Used(h), NEW m, m = Main(h, s)
  PROVE  /\ DOMAIN Along(h, m) = 0 .. c
         /\ \E i \in 0 .. c - 1 : Along(h, m)[i] = s
         /\ \A i \in 0 .. c : Along(h, m)[i] \in Chain(h, m) \cup {NULL}
         /\ \A i, j \in 0 .. c : i < j /\ Along(h, m)[j] # NULL => Along(h, m)[i] # NULL
<1>1. PICK at : at = Along(h, m)
  OBVIOUS
<1>2. PICK E : E = h.entries
  OBVIOUS
<1>3. IsPath(at, E, m, c)
  <2>1. h.capacity = c
    BY HashFacts
  <2>2. IsPath(Along(h, m), h.entries, m, h.capacity)
    BY <2>1, AlongIsPath
  <2>3. QED
    BY <1>1, <1>2, <2>1, <2>2
<1>4. Split(c, h)
  BY SplitSlots
<1>5. PICK A : A = Chain(h, m)
  OBVIOUS
<1>6. A \subseteq Used(h) /\ A \subseteq 0 .. c - 1 /\ NULL \notin A /\ s \in A
  BY <1>4, <1>5 DEF Chain, Split
<1>7. m \in A
  <2>1. m \in Used(h) /\ Main(h, m) = m
    BY DEF ChainsLinked
  <2>2. QED
    BY <1>5, <2>1 DEF Chain
<1>8. \A t \in A : /\ Main(h, t) = m /\ d[t] \in Nat
                   /\ \/ E[t].next = NULL
                      \/ /\ E[t].next \in Used(h) /\ Main(h, E[t].next) = Main(h, t)
                         /\ d[t] < d[E[t].next]
                   /\ t = Main(h, t) \/ \E p \in Used(h) : E[p].next = t
  BY <1>2, <1>5 DEF Chain, ChainsLinked
<1>9. Orders(A, E, d)
  <2>1. ASSUME NEW t \in A, E[t].next # NULL PROVE E[t].next \in A
    BY <1>5, <1>8, <2>1 DEF Chain
  <2>2. QED
    BY <1>8, <2>1 DEF Orders
<1>10. Follows(A, E, m)
  <2>1. SUFFICES ASSUME NEW t \in A, t # m PROVE \E p \in A : E[p].next = t
    BY DEF Follows
  <2>2. PICK p \in Used(h) : E[p].next = t
    BY <1>8, <2>1
  <2>3. Main(h, t) = Main(h, p)
    BY <1>2, <1>6, <2>2 DEF ChainsLinked
  <2>4. p \in A
    BY <1>5, <1>8, <2>3 DEF Chain
  <2>5. QED
    BY <2>2, <2>4
<1>11. m \in A \cup {NULL}
  BY <1>7
<1>12. DOMAIN at = 0 .. c
  BY <1>3, PathFacts
<1>13. \A i \in 0 .. c : at[i] \in A \cup {NULL}
  BY <1>3, <1>6, <1>9, <1>11, PathStays
<1>14. \A t \in A : \E i \in 0 .. c - 1 : at[i] = t
  <2>1. A \subseteq 0 .. c - 1
    BY <1>6
  <2>2. Passes(at, A, c)
    BY <1>3, <1>9, <1>10, <1>11, <2>1, PathCovers
  <2>3. QED
    BY <2>2 DEF Passes
<1>15. \A i, j \in 0 .. c : i < j /\ at[j] # NULL => at[i] # NULL
  BY <1>3, <1>6, <1>9, <1>11, PathRises
<1>16. QED
  BY <1>1, <1>5, <1>6, <1>12, <1>13, <1>14, <1>15

\* Moved finds the slot before an entry that is not in its main slot.
LEMMA BeforeFound ==
  ASSUME NEW c \in Nat, NEW h \in Hashes(c), NEW d, ChainsLinked(h, d),
         NEW s \in Used(h), Main(h, s) # s, NEW b, b = Before(h, s)
  PROVE  b \in Used(h) /\ h.entries[b].next = s
<1>1. PICK m : m = Main(h, s)
  OBVIOUS
<1>2. PICK at : at = Along(h, m)
  OBVIOUS
<1>3. PICK p \in Used(h) : h.entries[p].next = s
  BY DEF ChainsLinked
<1>4. Split(c, h)
  BY SplitSlots
<1>5. Main(h, p) = m
  BY <1>1, <1>3, <1>4 DEF ChainsLinked, Split
<1>6. /\ DOMAIN at = 0 .. c
      /\ \E i \in 0 .. c - 1 : at[i] = p
      /\ \A i \in 0 .. c : at[i] \in Chain(h, m) \cup {NULL}
  <2>1. /\ DOMAIN Along(h, m) = 0 .. c
        /\ \E i \in 0 .. c - 1 : Along(h, m)[i] = p
        /\ \A i \in 0 .. c : Along(h, m)[i] \in Chain(h, m) \cup {NULL}
    BY <1>5, Reached
  <2>2. QED
    BY <1>2, <2>1
<1>7. PICK j : j = CHOOSE i \in DOMAIN at : at[i] # NULL /\ h.entries[at[i]].next = s
  OBVIOUS
<1>8. j \in DOMAIN at /\ at[j] # NULL /\ h.entries[at[j]].next = s
  <2>1. PICK k \in 0 .. c - 1 : at[k] = p
    BY <1>6
  <2>2. k \in DOMAIN at
    BY <1>6, <2>1
  <2>3. p # NULL
    BY <1>4 DEF Split
  <2>4. \E i \in DOMAIN at : at[i] # NULL /\ h.entries[at[i]].next = s
    BY <1>3, <2>1, <2>2, <2>3
  <2>5. QED
    BY <1>7, <2>4
<1>9. b = at[j]
  BY <1>1, <1>2, <1>7 DEF Before, Main
<1>10. QED
  BY <1>6, <1>8, <1>9 DEF Chain

-----------------------------------------------------------------------------
(* A new entry.                                                            *)

\* g is h with the name n in slot s.  The slot x is used now: it holds the new
\* entry or the one that was in s.
Inserted(c, h, n, g, x, s) ==
  /\ Whole(c, g) /\ g.size = h.size
  /\ x \in 0 .. c - 1 /\ x \notin Used(h) /\ Used(g) = Used(h) \cup {x}
  /\ s \in Used(g) /\ g.entries[s].name = n
  /\ \A t \in Used(h) : t # s => /\ g.entries[t].name = h.entries[t].name
                                 /\ g.entries[t].index = h.entries[t].index
  /\ s # x => /\ s \in Used(h)
              /\ g.entries[x].name = h.entries[s].name
              /\ g.entries[x].index = h.entries[s].index

\* The main slot of the name is free.
LEMMA ClaimedInserted ==
  ASSUME NEW c \in Nat, NEW h, Whole(c, h), NEW n \in Names,
         NEW s \in Free(h), s = hash_main_entry(h, n),
         NEW g, g = Claim(UnlinkFree(h, s), s, n)
  PROVE  Inserted(c, h, n, g, s, s)
<1>1. h \in Hashes(c)
  BY DEF Whole
<1>2. PICK r : FreeLinked(h, r)
  BY DEF Whole
<1>3. PICK d : ChainsLinked(h, d)
  BY DEF Whole
<1>4. Split(c, h)
  BY <1>1, SplitSlots
<1>5. NotASlot(h) /\ s \in 0 .. c - 1 /\ NULL \notin Used(h)
  BY <1>4 DEF Split
<1>6. PICK p : p = h.entries[s].prev
  OBVIOUS
<1>7. PICK x : x = h.entries[s].next
  OBVIOUS
<1>8. /\ p = NULL <=> s = h.free_head
      /\ p # NULL => p \in Free(h) /\ h.entries[p].next = s /\ p # s /\ r[p] < r[s]
      /\ x # NULL => x \in Free(h) /\ h.entries[x].prev = s /\ x # s /\ r[s] < r[x]
  BY <1>2, <1>5, <1>6, <1>7, FreeNeighbours
<1>9. p \in Link(c) /\ x \in Link(c) /\ p # s /\ x # s
  <2>1. s # NULL
    BY <1>5 DEF NotASlot
  <2>2. QED
    BY <1>4, <1>8, <2>1 DEF Link, Split
<1>10. PICK u : u = UnlinkFree(h, s)
  OBVIOUS
<1>11. UnlinkIs(c, h, s, x, p, u)
  BY <1>1, <1>5, <1>6, <1>7, <1>9, <1>10, UnlinkFreeFacts
<1>12. /\ u \in Hashes(c) /\ u.size = h.size
       /\ u.free_head = IF p = NULL THEN x ELSE h.free_head
       /\ \A t \in 0 .. c - 1 :
            /\ u.entries[t].name = h.entries[t].name
            /\ u.entries[t].index = h.entries[t].index
            /\ u.entries[t].next = IF t = s THEN NULL
                                   ELSE IF t = p THEN x ELSE h.entries[t].next
            /\ u.entries[t].prev = IF t = x THEN p ELSE h.entries[t].prev
  BY <1>11 DEF UnlinkIs
<1>13. ClaimIs(c, u, s, n, g)
  BY <1>5, <1>10, <1>12, ClaimFacts
<1>14. /\ g \in Hashes(c) /\ g.free_head = u.free_head /\ g.size = u.size
       /\ \A t \in 0 .. c - 1 :
            /\ g.entries[t].next = u.entries[t].next
            /\ g.entries[t].name = IF t = s THEN n ELSE u.entries[t].name
            /\ g.entries[t].index = IF t = s THEN 0 ELSE u.entries[t].index
            /\ g.entries[t].prev = IF t = s THEN NULL ELSE u.entries[t].prev
  BY <1>13 DEF ClaimIs
<1>15. \A t \in 0 .. c - 1 :
         t # s => /\ g.entries[t].name = h.entries[t].name
                  /\ g.entries[t].index = h.entries[t].index
                  /\ g.entries[t].next = IF t = p THEN x ELSE h.entries[t].next
                  /\ g.entries[t].prev = IF t = x THEN p ELSE h.entries[t].prev
  BY <1>12, <1>14
<1>16. g.entries[s].name = n /\ g.entries[s].next = NULL
  BY <1>5, <1>12, <1>14
<1>17. Split(c, g)
  BY <1>14, SplitSlots
<1>18. Used(g) = Used(h) \cup {s} /\ s \notin Used(h) /\ Free(g) = Free(h) \ {s}
  <2>1. n # NoName /\ h.entries[s].name = NoName
    BY <1>4, <1>5, NamesAssumption DEF Split
  <2>2. \A t \in 0 .. c - 1 : t # s => g.entries[t].name = h.entries[t].name
    BY <1>15
  <2>3. QED
    BY <1>4, <1>5, <1>16, <1>17, <2>1, <2>2 DEF Split
<1>19. NotASlot(g)
  BY <1>17 DEF Split
<1>20. \E q : FreeLinked(g, q)
  <2>1. Takes(g, h, s, p, x)
    <3>1. g.free_head = IF p = NULL THEN x ELSE h.free_head
      BY <1>12, <1>14
    <3>2. \A t \in Free(g) : t \in 0 .. c - 1 /\ t # s
      BY <1>17, <1>18 DEF Split
    <3>3. QED
      BY <1>6, <1>7, <1>15, <1>18, <3>1, <3>2 DEF Takes
  <2>2. FreeLinked(g, r)
    BY <1>2, <1>5, <1>19, <2>1, TakenLinked
  <2>3. QED
    BY <2>2
<1>21. \E e : ChainsLinked(g, e)
  <2>1. Main(g, s) = s
    <3>1. g.capacity = h.capacity
      BY <1>1, <1>14, HashFacts
    <3>2. QED
      BY <1>16, <3>1 DEF Main, hash_main_entry
  <2>2. ASSUME NEW t \in Used(h)
        PROVE  Main(g, t) = Main(h, t) /\ g.entries[t].next = h.entries[t].next
    <3>1. t \in 0 .. c - 1 /\ t # s /\ t # p
      BY <1>4, <1>8, <1>18 DEF Split, Free
    <3>2. g.entries[t].name = h.entries[t].name
      BY <1>15, <3>1
    <3>3. g.entries[t].next = h.entries[t].next
      BY <1>15, <3>1
    <3>4. Main(g, t) = Main(h, t)
      BY <1>1, <1>14, <3>2, SameMain
    <3>5. QED
      BY <3>3, <3>4
  <2>3. StartsChain(g, h, s)
    BY <1>16, <1>18, <2>1, <2>2 DEF StartsChain
  <2>4. QED
    BY <1>3, <1>5, <2>3, StartsLinked
<1>22. Whole(c, g)
  BY <1>14, <1>20, <1>21 DEF Whole
<1>23. \A t \in Used(h) : t # s => /\ g.entries[t].name = h.entries[t].name
                                   /\ g.entries[t].index = h.entries[t].index
  BY <1>4, <1>15 DEF Split
<1>24. g.size = h.size
  BY <1>12, <1>14
<1>25. QED
  BY <1>5, <1>16, <1>18, <1>22, <1>23, <1>24 DEF Inserted

\* The head f of the free list, and h1, the hash without it.
Popped(c, h, r, d, f, x, h1) ==
  /\ h \in Hashes(c) /\ h1 \in Hashes(c) /\ FreeLinked(h, r) /\ ChainsLinked(h, d)
  /\ f = h.free_head /\ f \in Free(h) /\ f \in 0 .. c - 1 /\ f # NULL
  /\ f \notin Used(h) /\ x = h.entries[f].next /\ h.entries[f].prev = NULL
  /\ h1.free_head = x /\ h1.size = h.size
  /\ \A t \in 0 .. c - 1 :
       /\ h1.entries[t].name = h.entries[t].name
       /\ h1.entries[t].index = h.entries[t].index
       /\ h1.entries[t].next = h.entries[t].next
       /\ h1.entries[t].prev = IF t = x THEN NULL ELSE h.entries[t].prev

\* A whole hash with a free slot can be popped.
LEMMA PoppedFacts ==
  ASSUME NEW c \in Nat, NEW h, Whole(c, h), h.free_head # NULL,
         NEW h1, h1 = PopFree(h)
  PROVE  \E r, d, f, x : Popped(c, h, r, d, f, x, h1)
<1>1. h \in Hashes(c)
  BY DEF Whole
<1>2. PICK r : FreeLinked(h, r)
  BY DEF Whole
<1>3. PICK d : ChainsLinked(h, d)
  BY DEF Whole
<1>4. Split(c, h)
  BY <1>1, SplitSlots
<1>5. PICK f : f = h.free_head
  OBVIOUS
<1>6. f \in Free(h) /\ h.entries[f].prev = NULL
  BY <1>2, <1>5 DEF FreeLinked
<1>7. f \in 0 .. c - 1 /\ f # NULL /\ f \notin Used(h)
  BY <1>4, <1>5, <1>6 DEF Split, Free
<1>8. PICK x : x = h.entries[f].next
  OBVIOUS
<1>9. x \in Link(c)
  BY <1>2, <1>4, <1>6, <1>8 DEF Link, FreeLinked, Split
<1>10. PopIs(c, h, x, h1)
  BY <1>1, <1>5, <1>7, <1>8, <1>9, PopFreeFacts
<1>11. Popped(c, h, r, d, f, x, h1)
  BY <1>1, <1>2, <1>3, <1>5, <1>6, <1>7, <1>8, <1>10 DEF PopIs, Popped
<1>12. QED
  BY <1>11

\* A new list without its head, from the hash in which f is used.
LEMMA PoppedFreeLinked ==
  ASSUME NEW c \in Nat, NEW h, NEW r, NEW d, NEW f, NEW x, NEW h1,
         Popped(c, h, r, d, f, x, h1), NEW g \in Hashes(c),
         g.free_head = h1.free_head, Free(g) = Free(h) \ {f},
         \A t \in Free(g) : /\ g.entries[t].next = h1.entries[t].next
                            /\ g.entries[t].prev = h1.entries[t].prev
  PROVE  \E q : FreeLinked(g, q)
<1>1. /\ h \in Hashes(c) /\ FreeLinked(h, r)
      /\ f = h.free_head /\ f \in Free(h) /\ f # NULL
      /\ x = h.entries[f].next /\ h.entries[f].prev = NULL /\ h1.free_head = x
  BY DEF Popped
<1>2. Split(c, h) /\ Split(c, g)
  BY <1>1, SplitSlots
<1>3. NotASlot(h) /\ NotASlot(g) /\ Free(g) \subseteq 0 .. c - 1
  BY <1>2 DEF Split
<1>4. PICK p : p = NULL
  OBVIOUS
<1>5. ASSUME NEW t \in Free(g)
      PROVE  /\ g.entries[t].next = IF t = p THEN x ELSE h.entries[t].next
             /\ g.entries[t].prev = IF t = x THEN p ELSE h.entries[t].prev
  <2>1. t \in 0 .. c - 1 /\ t # p
    BY <1>3, <1>4 DEF NotASlot
  <2>2. /\ h1.entries[t].next = h.entries[t].next
        /\ h1.entries[t].prev = IF t = x THEN NULL ELSE h.entries[t].prev
    BY <2>1 DEF Popped
  <2>3. QED
    BY <1>4, <2>1, <2>2
<1>6. Takes(g, h, f, p, x)
  BY <1>1, <1>4, <1>5 DEF Takes
<1>7. FreeLinked(g, r)
  BY <1>1, <1>3, <1>6, TakenLinked
<1>8. QED
  BY <1>7

\* The main slot of the name holds an entry that belongs there.
LEMMA ChainedInserted ==
  ASSUME NEW c \in Nat, NEW h, Whole(c, h), h.free_head # NULL, NEW n \in Names,
         NEW s \in Used(h), s = hash_main_entry(h, n), Main(h, s) = s,
         NEW f, f = h.free_head, NEW g, g = Chained(PopFree(h), s, f, n)
  PROVE  Inserted(c, h, n, g, f, f)
<1>1. PICK h1 : h1 = PopFree(h)
  OBVIOUS
<1>2. PICK r, d, fo, x : Popped(c, h, r, d, fo, x, h1)
  BY <1>1, PoppedFacts
<1>3. fo = f
  BY <1>2 DEF Popped
<1>4. Popped(c, h, r, d, f, x, h1)
  BY <1>2, <1>3
<1>5. /\ h \in Hashes(c) /\ h1 \in Hashes(c) /\ ChainsLinked(h, d)
      /\ f \in Free(h) /\ f \in 0 .. c - 1 /\ f # NULL /\ f \notin Used(h)
      /\ h1.size = h.size
  BY <1>4 DEF Popped
<1>6. \A t \in 0 .. c - 1 :
        /\ h1.entries[t].name = h.entries[t].name
        /\ h1.entries[t].index = h.entries[t].index
        /\ h1.entries[t].next = h.entries[t].next
  BY <1>4 DEF Popped
<1>7. Split(c, h)
  BY <1>5, SplitSlots
<1>8. s \in 0 .. c - 1 /\ f # s /\ NULL \notin Used(h)
  BY <1>5, <1>7 DEF Split
<1>9. ChainedIs(c, h1, s, f, n, g)
  BY <1>1, <1>5, <1>8, ChainedFacts
<1>10. /\ g \in Hashes(c) /\ g.free_head = h1.free_head /\ g.size = h1.size
       /\ \A t \in 0 .. c - 1 :
            /\ g.entries[t].name = IF t = f THEN n ELSE h1.entries[t].name
            /\ g.entries[t].index = IF t = f THEN 0 ELSE h1.entries[t].index
            /\ g.entries[t].prev = IF t = f THEN NULL ELSE h1.entries[t].prev
            /\ g.entries[t].next = IF t = s THEN f
                                   ELSE IF t = f THEN h1.entries[s].next
                                   ELSE h1.entries[t].next
  BY <1>9 DEF ChainedIs
<1>11. Split(c, g)
  BY <1>10, SplitSlots
<1>12. Used(g) = Used(h) \cup {f} /\ Free(g) = Free(h) \ {f} /\ g.entries[f].name = n
  <2>1. n # NoName
    BY NamesAssumption
  <2>2. \A t \in 0 .. c - 1 :
          g.entries[t].name = IF t = f THEN n ELSE h.entries[t].name
    BY <1>6, <1>10
  <2>3. QED
    BY <1>5, <1>7, <1>11, <2>1, <2>2 DEF Split
<1>13. \E q : FreeLinked(g, q)
  <2>1. ASSUME NEW t \in Free(g)
        PROVE  /\ g.entries[t].next = h1.entries[t].next
               /\ g.entries[t].prev = h1.entries[t].prev
    <3>1. t \in 0 .. c - 1 /\ t # f /\ t # s
      BY <1>7, <1>8, <1>12 DEF Split, Free
    <3>2. QED
      BY <1>10, <3>1
  <2>2. g.free_head = h1.free_head /\ Free(g) = Free(h) \ {f} /\ g \in Hashes(c)
    BY <1>10, <1>12
  <2>3. QED
    BY <1>4, <2>1, <2>2, PoppedFreeLinked
<1>14. \E e : ChainsLinked(g, e)
  <2>1. Main(g, f) = s
    <3>1. g.capacity = h.capacity
      BY <1>5, <1>10, HashFacts
    <3>2. QED
      BY <1>12, <3>1 DEF Main, hash_main_entry
  <2>2. ASSUME NEW t \in Used(h)
        PROVE  /\ Main(g, t) = Main(h, t)
               /\ g.entries[t].next = IF t = s THEN f ELSE h.entries[t].next
    <3>1. t \in 0 .. c - 1 /\ t # f
      BY <1>5, <1>7 DEF Split
    <3>2. g.entries[t].name = h.entries[t].name
      BY <1>6, <1>10, <3>1
    <3>3. g.entries[t].next = IF t = s THEN f ELSE h.entries[t].next
      BY <1>6, <1>10, <3>1
    <3>4. Main(g, t) = Main(h, t)
      BY <1>5, <1>10, <3>2, SameMain
    <3>5. QED
      BY <3>3, <3>4
  <2>3. g.entries[f].next = h.entries[s].next
    BY <1>5, <1>6, <1>8, <1>10
  <2>4. JoinsChain(g, h, s, f)
    BY <1>5, <1>12, <2>1, <2>2, <2>3 DEF JoinsChain
  <2>5. QED
    BY <1>5, <1>8, <2>4, JoinsLinked
<1>15. Whole(c, g)
  BY <1>10, <1>13, <1>14 DEF Whole
<1>16. ASSUME NEW t \in Used(h)
       PROVE  /\ g.entries[t].name = h.entries[t].name
              /\ g.entries[t].index = h.entries[t].index
  <2>1. t \in 0 .. c - 1 /\ t # f
    BY <1>5, <1>7 DEF Split
  <2>2. QED
    BY <1>6, <1>10, <2>1
<1>17. g.size = h.size
  BY <1>5, <1>10
<1>18. QED
  BY <1>5, <1>12, <1>15, <1>16, <1>17 DEF Inserted

\* The main slot of the name holds an entry of another chain.
LEMMA MovedInserted ==
  ASSUME NEW c \in Nat, NEW h, Whole(c, h), h.free_head # NULL, NEW n \in Names,
         NEW s \in Used(h), s = hash_main_entry(h, n), Main(h, s) # s,
         NEW f, f = h.free_head, NEW g, g = Moved(PopFree(h), s, f, n)
  PROVE  Inserted(c, h, n, g, f, s)
<1>1. PICK h1 : h1 = PopFree(h)
  OBVIOUS
<1>2. PICK r, d, fo, x : Popped(c, h, r, d, fo, x, h1)
  BY <1>1, PoppedFacts
<1>3. fo = f
  BY <1>2 DEF Popped
<1>4. Popped(c, h, r, d, f, x, h1)
  BY <1>2, <1>3
<1>5. /\ h \in Hashes(c) /\ h1 \in Hashes(c) /\ ChainsLinked(h, d)
      /\ f \in Free(h) /\ f \in 0 .. c - 1 /\ f # NULL /\ f \notin Used(h)
      /\ h1.size = h.size
  BY <1>4 DEF Popped
<1>6. \A t \in 0 .. c - 1 :
        /\ h1.entries[t].name = h.entries[t].name
        /\ h1.entries[t].index = h.entries[t].index
        /\ h1.entries[t].next = h.entries[t].next
  BY <1>4 DEF Popped
<1>7. Split(c, h) /\ Split(c, h1)
  BY <1>5, SplitSlots
<1>8. s \in 0 .. c - 1 /\ f # s /\ NULL \notin Used(h)
  BY <1>5, <1>7 DEF Split
<1>9. Used(h1) = Used(h)
  BY <1>6, <1>7 DEF Split
<1>10. \A t \in Used(h) : Main(h1, t) = Main(h, t)
  <2>1. \A t \in Used(h) : h1.entries[t].name = h.entries[t].name
    BY <1>6, <1>7 DEF Split
  <2>2. QED
    BY <1>5, <2>1, SameMain
<1>11. ChainsLinked(h1, d)
  BY <1>5, <1>6, SameChains
<1>12. PICK b : b = Before(h1, s)
  OBVIOUS
<1>13. b \in Used(h) /\ h1.entries[b].next = s
  <2>1. s \in Used(h1) /\ Main(h1, s) # s
    BY <1>9, <1>10
  <2>2. b \in Used(h1) /\ h1.entries[b].next = s
    BY <1>5, <1>11, <1>12, <2>1, BeforeFound
  <2>3. QED
    BY <1>9, <2>2
<1>14. b \in 0 .. c - 1 /\ h.entries[b].next = s /\ b # f
  BY <1>5, <1>6, <1>7, <1>13 DEF Split
<1>15. b # s
  <2>1. s # NULL
    BY <1>8
  <2>2. d[b] \in Nat /\ d[b] < d[h.entries[b].next]
    BY <1>5, <1>13, <1>14, <2>1 DEF ChainsLinked
  <2>3. QED
    BY <1>14, <2>2
<1>16. MovedIs(c, h1, s, f, n, b, g)
  BY <1>1, <1>5, <1>8, <1>12, <1>14, <1>15, MovedFacts
<1>17. /\ g \in Hashes(c) /\ g.free_head = h1.free_head /\ g.size = h1.size
       /\ \A t \in 0 .. c - 1 :
            /\ g.entries[t].name = IF t = s THEN n
                                   ELSE h1.entries[IF t = f THEN s ELSE t].name
            /\ g.entries[t].index = IF t = s THEN 0
                                    ELSE h1.entries[IF t = f THEN s ELSE t].index
            /\ g.entries[t].prev = IF t = s THEN NULL
                                   ELSE h1.entries[IF t = f THEN s ELSE t].prev
            /\ g.entries[t].next = IF t = s THEN NULL ELSE IF t = b THEN f
                                   ELSE h1.entries[IF t = f THEN s ELSE t].next
  BY <1>16 DEF MovedIs
<1>18. /\ g.entries[s].name = n /\ g.entries[s].next = NULL
       /\ g.entries[f].name = h.entries[s].name
       /\ g.entries[f].index = h.entries[s].index
       /\ g.entries[f].next = h.entries[s].next
  BY <1>5, <1>6, <1>8, <1>14, <1>17
<1>19. \A t \in 0 .. c - 1 :
         t # s /\ t # f =>
           /\ g.entries[t].name = h.entries[t].name
           /\ g.entries[t].index = h.entries[t].index
           /\ g.entries[t].prev = h1.entries[t].prev
           /\ g.entries[t].next = IF t = b THEN f ELSE h1.entries[t].next
  BY <1>6, <1>17
<1>20. Split(c, g)
  BY <1>17, SplitSlots
<1>21. Used(g) = Used(h) \cup {f} /\ Free(g) = Free(h) \ {f}
  <2>1. n # NoName /\ h.entries[s].name # NoName
    BY <1>7, <1>8, NamesAssumption DEF Split
  <2>2. \A t \in 0 .. c - 1 : t # s /\ t # f => g.entries[t].name = h.entries[t].name
    BY <1>19
  <2>3. QED
    BY <1>5, <1>7, <1>8, <1>18, <1>20, <2>1, <2>2 DEF Split
<1>22. \E q : FreeLinked(g, q)
  <2>1. ASSUME NEW t \in Free(g)
        PROVE  /\ g.entries[t].next = h1.entries[t].next
               /\ g.entries[t].prev = h1.entries[t].prev
    <3>1. t \in 0 .. c - 1 /\ t # f /\ t # s /\ t # b
      BY <1>7, <1>8, <1>13, <1>21 DEF Split, Free
    <3>2. QED
      BY <1>19, <3>1
  <2>2. g.free_head = h1.free_head /\ Free(g) = Free(h) \ {f} /\ g \in Hashes(c)
    BY <1>17, <1>21
  <2>3. QED
    BY <1>4, <2>1, <2>2, PoppedFreeLinked
<1>23. \E e : ChainsLinked(g, e)
  <2>1. Main(g, s) = s
    <3>1. g.capacity = h.capacity
      BY <1>5, <1>17, HashFacts
    <3>2. QED
      BY <1>18, <3>1 DEF Main, hash_main_entry
  <2>2. Main(g, f) = Main(h, s)
    BY <1>5, <1>17, <1>18, SameMain
  <2>3. ASSUME NEW t \in Used(h) \ {s}
        PROVE  /\ Main(g, t) = Main(h, t)
               /\ g.entries[t].next = IF t = b THEN f ELSE h.entries[t].next
    <3>1. t \in 0 .. c - 1 /\ t # f /\ t # s
      BY <1>5, <1>7 DEF Split
    <3>2. g.entries[t].name = h.entries[t].name
      BY <1>19, <3>1
    <3>3. g.entries[t].next = IF t = b THEN f ELSE h.entries[t].next
      BY <1>6, <1>19, <3>1
    <3>4. Main(g, t) = Main(h, t)
      BY <1>5, <1>17, <3>2, SameMain
    <3>5. QED
      BY <3>3, <3>4
  <2>4. MovesChain(g, h, s, f, b)
    BY <1>5, <1>13, <1>14, <1>18, <1>21, <2>1, <2>2, <2>3 DEF MovesChain
  <2>5. QED
    BY <1>5, <1>8, <2>4, MovesLinked
<1>24. Whole(c, g)
  BY <1>17, <1>22, <1>23 DEF Whole
<1>25. ASSUME NEW t \in Used(h), t # s
       PROVE  /\ g.entries[t].name = h.entries[t].name
              /\ g.entries[t].index = h.entries[t].index
  <2>1. t \in 0 .. c - 1 /\ t # f
    BY <1>5, <1>7 DEF Split
  <2>2. QED
    BY <1>19, <1>25, <2>1
<1>26. g.size = h.size
  BY <1>5, <1>17
<1>27. QED
  BY <1>5, <1>18, <1>21, <1>24, <1>25, <1>26 DEF Inserted

\* A whole hash with a free slot takes the name: no assertion fails.
LEMMA NewEntry ==
  ASSUME NEW c \in Nat, c # 0, NEW h, Whole(c, h), h.free_head # NULL, NEW n \in Names,
         hash_name \in [Names -> HashValues], NEW new, new = hash_new_entry(h, n)
  PROVE  new.ok = TRUE /\ \E x : Inserted(c, h, n, new.h, x, new.slot)
<1>1. h \in Hashes(c)
  BY DEF Whole
<1>2. Split(c, h)
  BY <1>1, SplitSlots
<1>3. PICK s : s = hash_main_entry(h, n)
  OBVIOUS
<1>4. s \in 0 .. c - 1
  BY <1>1, <1>3, MainSlot
<1>5. PICK f : f = h.free_head
  OBVIOUS
<1>6. CASE s \in Free(h)
  <2>1. wasm_hash_entry_is_free(h, s)
    BY <1>2, <1>4, <1>6 DEF Split, wasm_hash_entry_is_free
  <2>2. new = [h |-> Claim(UnlinkFree(h, s), s, n), slot |-> s, ok |-> TRUE]
    BY <1>3, <2>1 DEF hash_new_entry
  <2>3. new.ok = TRUE /\ new.slot = s /\ new.h = Claim(UnlinkFree(h, s), s, n)
    BY <2>2
  <2>4. PICK g : g = new.h
    OBVIOUS
  <2>5. Inserted(c, h, n, g, s, s)
    BY <1>3, <1>6, <2>3, <2>4, ClaimedInserted
  <2>6. QED
    BY <2>3, <2>4, <2>5
<1>7. CASE s \in Used(h)
  <2>1. ~wasm_hash_entry_is_free(h, s)
    BY <1>2, <1>4, <1>7 DEF Split, wasm_hash_entry_is_free
  <2>2. PICK other : other = Main(h, s)
    OBVIOUS
  <2>3. ~wasm_hash_entry_is_free(h, other)
    <3>1. other \in Used(h)
      BY <1>7, <2>2 DEF Whole, ChainsLinked
    <3>2. QED
      BY <1>2, <3>1 DEF Split, wasm_hash_entry_is_free
  <2>4. new = IF other = s THEN [h |-> Chained(PopFree(h), s, f, n), slot |-> f, ok |-> TRUE]
              ELSE [h |-> Moved(PopFree(h), s, f, n), slot |-> s, ok |-> TRUE]
    BY <1>3, <1>5, <2>1, <2>2, <2>3 DEF hash_new_entry, Main
  <2>5. PICK g : g = new.h
    OBVIOUS
  <2>6. CASE other = s
    <3>1. new.ok = TRUE /\ new.slot = f /\ g = Chained(PopFree(h), s, f, n)
      BY <2>4, <2>5, <2>6
    <3>2. Inserted(c, h, n, g, f, f)
      BY <1>3, <1>5, <1>7, <2>2, <2>6, <3>1, ChainedInserted
    <3>3. QED
      BY <2>5, <3>1, <3>2
  <2>7. CASE other # s
    <3>1. new.ok = TRUE /\ new.slot = s /\ g = Moved(PopFree(h), s, f, n)
      BY <2>4, <2>5, <2>7
    <3>2. Inserted(c, h, n, g, f, s)
      BY <1>3, <1>5, <1>7, <2>2, <2>7, <3>1, MovedInserted
    <3>3. QED
      BY <2>5, <3>1, <3>2
  <2>8. QED
    BY <2>6, <2>7
<1>8. s \in Free(h) \/ s \in Used(h)
  BY <1>2, <1>4 DEF Split
<1>9. QED
  BY <1>6, <1>7, <1>8

\* So is the free list.
LEMMA SameFree ==
  ASSUME NEW c \in Nat, NEW h \in Hashes(c), NEW r, FreeLinked(h, r),
         NEW g \in Hashes(c), g.free_head = h.free_head,
         \A t \in 0 .. c - 1 : /\ g.entries[t].name = h.entries[t].name
                               /\ g.entries[t].next = h.entries[t].next
                               /\ g.entries[t].prev = h.entries[t].prev
  PROVE  FreeLinked(g, r)
<1>1. Split(c, h) /\ Split(c, g)
  BY SplitSlots
<1>2. Free(g) = Free(h)
  BY <1>1 DEF Split
<1>3. \A t \in Free(h) : /\ g.entries[t].next = h.entries[t].next
                         /\ g.entries[t].prev = h.entries[t].prev
  BY <1>1 DEF Split
<1>4. QED
  BY <1>2, <1>3 DEF FreeLinked

\* g is h with another index in s, and perhaps another size.
IndexIs(c, h, s, i, g) ==
  /\ g \in Hashes(c) /\ g.free_head = h.free_head
  /\ \A t \in 0 .. c - 1 :
       /\ g.entries[t].name = h.entries[t].name
       /\ g.entries[t].next = h.entries[t].next
       /\ g.entries[t].prev = h.entries[t].prev
       /\ g.entries[t].index = IF t = s THEN i ELSE h.entries[t].index

SetIndex(h, s, i) == [h EXCEPT !.entries[s].index = i]
SetSize(h, k) == [h EXCEPT !.size = k]

\* SetIndex changes one index.
LEMMA SetIndexFacts ==
  ASSUME NEW c \in Nat, NEW h \in Hashes(c), NEW s \in 0 .. c - 1, NEW i \in Int,
         NEW g, g = SetIndex(h, s, i)
  PROVE  IndexIs(c, h, s, i, g) /\ g.size = h.size
<1>1. PICK E \in [0 .. c - 1 -> Entries] : E = h.entries
  BY DEF Hashes
<1>2. g = WithEntries(h, WithEntry(E, s, WithIndex(E[s], i)))
  BY <1>1 DEF SetIndex, WithEntries, WithEntry, WithIndex
<1>3. PICK e \in Entries : /\ e = WithIndex(E[s], i)
                         /\ e.name = E[s].name /\ e.index = i
                         /\ e.prev = E[s].prev /\ e.next = E[s].next
  <2>1. E[s] \in Entries
    OBVIOUS
  <2>2. PICK o \in Entries : o = E[s]
    BY <2>1
  <2>3. /\ WithIndex(o, i) \in Entries
        /\ WithIndex(o, i).name = o.name /\ WithIndex(o, i).index = i
        /\ WithIndex(o, i).prev = o.prev /\ WithIndex(o, i).next = o.next
    BY FieldFacts
  <2>4. QED
    BY <2>2, <2>3
<1>4. PICK D \in [0 .. c - 1 -> Entries] :
        /\ D = WithEntry(E, s, e)
        /\ \A t \in 0 .. c - 1 : D[t] = IF t = s THEN e ELSE E[t]
  <2>1. /\ WithEntry(E, s, e) \in [0 .. c - 1 -> Entries]
        /\ \A t \in 0 .. c - 1 : WithEntry(E, s, e)[t] = IF t = s THEN e ELSE E[t]
    BY WithEntryFacts
  <2>2. QED
    BY <2>1
<1>5. g \in Hashes(c) /\ g.entries = D /\ g.free_head = h.free_head /\ g.size = h.size
  <2>1. /\ WithEntries(h, D) \in Hashes(c) /\ WithEntries(h, D).entries = D
        /\ WithEntries(h, D).free_head = h.free_head /\ WithEntries(h, D).size = h.size
    BY WithEntriesFacts
  <2>2. QED
    BY <1>2, <1>3, <1>4, <2>1
<1>6. \A t \in 0 .. c - 1 : D[t] = IF t = s THEN e ELSE E[t]
  BY <1>4
<1>7. /\ e.name = E[s].name /\ e.index = i
      /\ e.prev = E[s].prev /\ e.next = E[s].next
  BY <1>3
<1>8. QED
  BY <1>1, <1>5, <1>6, <1>7 DEF IndexIs

\* SetSize changes the size alone.
LEMMA SetSizeFacts ==
  ASSUME NEW c \in Nat, NEW h \in Hashes(c), NEW k \in Nat
  PROVE  /\ SetSize(h, k) \in Hashes(c) /\ SetSize(h, k).size = k
         /\ SetSize(h, k).entries = h.entries
         /\ SetSize(h, k).free_head = h.free_head
BY DEF SetSize, Hashes

-----------------------------------------------------------------------------
(* The bindings.                                                           *)

Pair(h, t) == [name |-> h.entries[t].name, index |-> h.entries[t].index]
BindingsOf(h) == {Pair(h, t) : t \in Used(h)}

\* No two entries have the same index.
Distinct(h) ==
  \A t, u \in Used(h) : h.entries[t].index = h.entries[u].index => t = u

\* A one-to-one function keeps the number of elements.
LEMMA OneToOne ==
  ASSUME NEW S, IsFiniteSet(S), NEW T, NEW f \in [S -> T],
         \A x, y \in S : f[x] = f[y] => x = y,
         \A z \in T : \E x \in S : f[x] = z
  PROVE  IsFiniteSet(T) /\ Cardinality(T) = Cardinality(S)
<1>1. f \in Injection(S, T)
  BY DEF Injection, IsInjective
<1>2. f \in Surjection(S, T)
  BY DEF Surjection
<1>3. QED
  BY <1>1, <1>2, FS_Surjection

\* A hash has a binding for each used slot.
LEMMA BindingsCount ==
  ASSUME NEW c \in Nat, NEW h \in Hashes(c), Distinct(h)
  PROVE  /\ IsFiniteSet(Used(h)) /\ Cardinality(Used(h)) \in Nat
         /\ Cardinality(Used(h)) <= c
         /\ IsFiniteSet(BindingsOf(h)) /\ Cardinality(BindingsOf(h)) = Cardinality(Used(h))
<1>1. Split(c, h)
  BY SplitSlots
<1>2. IsFiniteSet(0 .. c - 1) /\ Cardinality(0 .. c - 1) = c
  <2>1. 0 \in Int /\ c - 1 \in Int
    OBVIOUS
  <2>2. /\ IsFiniteSet(0 .. c - 1)
        /\ Cardinality(0 .. c - 1) = IF 0 > c - 1 THEN 0 ELSE (c - 1) - 0 + 1
    BY <2>1, FS_Interval
  <2>3. QED
    BY <2>2
<1>3. IsFiniteSet(Used(h)) /\ Cardinality(Used(h)) <= c
  <2>1. Used(h) \subseteq 0 .. c - 1
    BY <1>1 DEF Split
  <2>2. QED
    BY <1>2, <2>1, FS_Subset
<1>4. Cardinality(Used(h)) \in Nat
  BY <1>3, FS_CardinalityType
<1>5. PICK f : f = [t \in Used(h) |-> Pair(h, t)]
  OBVIOUS
<1>6. f \in [Used(h) -> BindingsOf(h)] /\ \A z \in BindingsOf(h) : \E x \in Used(h) : f[x] = z
  BY <1>5 DEF BindingsOf
<1>7. ASSUME NEW x \in Used(h), NEW y \in Used(h), f[x] = f[y] PROVE x = y
  <2>1. Pair(h, x) = Pair(h, y)
    BY <1>5, <1>7
  <2>2. h.entries[x].index = h.entries[y].index
    BY <2>1 DEF Pair
  <2>3. QED
    BY <2>2 DEF Distinct
<1>8. IsFiniteSet(BindingsOf(h)) /\ Cardinality(BindingsOf(h)) = Cardinality(Used(h))
  BY <1>3, <1>6, <1>7, OneToOne
<1>9. QED
  BY <1>3, <1>4, <1>8

\* g is h with a binding of n to i in one more slot.
Added(c, h, n, i, g) ==
  /\ Whole(c, g) /\ Distinct(g)
  /\ BindingsOf(g) = BindingsOf(h) \cup {[name |-> n, index |-> i]}
  /\ \E x \in 0 .. c - 1 : x \notin Used(h) /\ Used(g) = Used(h) \cup {x}

\* Giving the new entry an index of its own adds that binding and no other.
LEMMA IndexAdds ==
  ASSUME NEW c \in Nat, NEW h \in Hashes(c), Distinct(h), NEW n \in Names,
         NEW new, NEW x, NEW s, Inserted(c, h, n, new, x, s),
         NEW i \in Int, \A t \in Used(h) : h.entries[t].index # i,
         NEW g, IndexIs(c, new, s, i, g)
  PROVE  Added(c, h, n, i, g)
<1>1. /\ Whole(c, new)
      /\ x \in 0 .. c - 1 /\ x \notin Used(h) /\ Used(new) = Used(h) \cup {x}
      /\ s \in Used(new) /\ new.entries[s].name = n
  BY DEF Inserted
<1>2. \A t \in Used(h) : t # s => /\ new.entries[t].name = h.entries[t].name
                                  /\ new.entries[t].index = h.entries[t].index
  BY DEF Inserted
<1>3. s # x => /\ s \in Used(h)
               /\ new.entries[x].name = h.entries[s].name
               /\ new.entries[x].index = h.entries[s].index
  BY DEF Inserted
<1>4. /\ g \in Hashes(c) /\ g.free_head = new.free_head
      /\ \A t \in 0 .. c - 1 :
           /\ g.entries[t].name = new.entries[t].name
           /\ g.entries[t].next = new.entries[t].next
           /\ g.entries[t].prev = new.entries[t].prev
           /\ g.entries[t].index = IF t = s THEN i ELSE new.entries[t].index
  BY DEF IndexIs
<1>5. new \in Hashes(c)
  BY <1>1 DEF Whole
<1>6. PICK r : FreeLinked(new, r)
  BY <1>1 DEF Whole
<1>7. PICK d : ChainsLinked(new, d)
  BY <1>1 DEF Whole
<1>8. Used(g) = Used(new) /\ ChainsLinked(g, d)
  BY <1>4, <1>5, <1>7, SameChains
<1>9. FreeLinked(g, r)
  BY <1>4, <1>5, <1>6, SameFree
<1>10. Whole(c, g)
  BY <1>4, <1>8, <1>9 DEF Whole
<1>11. Used(g) = Used(h) \cup {x} /\ Used(g) \subseteq 0 .. c - 1
  <2>1. Split(c, g)
    BY <1>4, SplitSlots
  <2>2. QED
    BY <1>1, <1>8, <2>1 DEF Split
<1>12. g.entries[s].name = n /\ g.entries[s].index = i
  BY <1>1, <1>4, <1>8, <1>11
\* The slot of h in which an entry other than the new one was.
<1> DEFINE o(t) == IF t = x THEN s ELSE t
<1>13. ASSUME NEW t \in Used(g), t # s
       PROVE  /\ o(t) \in Used(h)
              /\ g.entries[t].name = h.entries[o(t)].name
              /\ g.entries[t].index = h.entries[o(t)].index
  <2>1. /\ g.entries[t].name = new.entries[t].name
        /\ g.entries[t].index = new.entries[t].index
    BY <1>4, <1>11, <1>13
  <2>2. CASE t = x
    BY <1>3, <1>13, <2>1, <2>2
  <2>3. CASE t # x
    BY <1>2, <1>11, <1>13, <2>1, <2>3
  <2>4. QED
    BY <2>2, <2>3
<1>14. ASSUME NEW t \in Used(h) PROVE \E u \in Used(g) : u # s /\ o(u) = t
  <2>1. CASE t = s
    BY <1>1, <1>11, <2>1
  <2>2. CASE t # s
    BY <1>1, <1>11, <2>2
  <2>3. QED
    BY <2>1, <2>2
<1>15. \A t, u \in Used(g) : t # s /\ u # s /\ o(t) = o(u) => t = u
  BY <1>11
<1> HIDE DEF o
<1>16. Distinct(g)
  <2>1. SUFFICES ASSUME NEW t \in Used(g), NEW u \in Used(g),
                        g.entries[t].index = g.entries[u].index
                 PROVE  t = u
    BY DEF Distinct
  <2>2. CASE t = s \/ u = s
    BY <1>12, <1>13, <2>1, <2>2
  <2>3. CASE t # s /\ u # s
    <3>1. o(t) = o(u)
      BY <1>13, <2>1, <2>3 DEF Distinct
    <3>2. QED
      BY <1>15, <2>3, <3>1
  <2>4. QED
    BY <2>2, <2>3
<1>17. BindingsOf(g) = BindingsOf(h) \cup {[name |-> n, index |-> i]}
  <2>1. Pair(g, s) = [name |-> n, index |-> i]
    BY <1>12 DEF Pair
  <2>2. \A t \in Used(g) : t # s => Pair(g, t) = Pair(h, o(t)) /\ o(t) \in Used(h)
    BY <1>13 DEF Pair
  <2>3. s \in Used(g)
    BY <1>1, <1>8
  <2>4. ASSUME NEW z \in BindingsOf(g)
        PROVE  z \in BindingsOf(h) \cup {[name |-> n, index |-> i]}
    <3>1. PICK t \in Used(g) : z = Pair(g, t)
      BY DEF BindingsOf
    <3>2. QED
      BY <2>1, <2>2, <3>1 DEF BindingsOf
  <2>5. ASSUME NEW z \in BindingsOf(h) PROVE z \in BindingsOf(g)
    <3>1. PICK t \in Used(h) : z = Pair(h, t)
      BY DEF BindingsOf
    <3>2. PICK u \in Used(g) : u # s /\ o(u) = t
      BY <1>14
    <3>3. QED
      BY <2>2, <3>1, <3>2 DEF BindingsOf
  <2>6. [name |-> n, index |-> i] \in BindingsOf(g)
    BY <2>1, <2>3 DEF BindingsOf
  <2>7. QED
    BY <2>4, <2>5, <2>6
<1>18. \E y \in 0 .. c - 1 : y \notin Used(h) /\ Used(g) = Used(h) \cup {y}
  BY <1>1, <1>11
<1>19. QED
  BY <1>10, <1>16, <1>17, <1>18 DEF Added

\* There is a free slot as long as not all are used.
LEMMA HeadFree ==
  ASSUME NEW c \in Nat, NEW h, Whole(c, h), Distinct(h), Cardinality(Used(h)) < c
  PROVE  h.free_head # NULL
<1>1. SUFFICES ASSUME h.free_head = NULL PROVE FALSE
  OBVIOUS
<1>2. h \in Hashes(c)
  BY DEF Whole
<1>3. Free(h) = {}
  BY <1>1 DEF Whole, FreeLinked
<1>4. Split(c, h)
  BY <1>2, SplitSlots
<1>5. Used(h) = 0 .. c - 1
  BY <1>3, <1>4 DEF Split
<1>6. Cardinality(0 .. c - 1) = c
  <2>1. 0 \in Int /\ c - 1 \in Int
    OBVIOUS
  <2>2. Cardinality(0 .. c - 1) = IF 0 > c - 1 THEN 0 ELSE (c - 1) - 0 + 1
    BY <2>1, FS_Interval
  <2>3. QED
    BY <2>2
<1>7. QED
  BY <1>5, <1>6

-----------------------------------------------------------------------------
(* A resize.                                                               *)

FreshHash(c) == [capacity |-> c, size |-> 0, free_head |-> c - 1, entries |-> FreshEntries(c)]

\* An array whose entries are all free is whole.
LEMMA FreshWhole ==
  ASSUME NEW c \in Nat, c # 0, NEW h, h = FreshHash(c)
  PROVE  Whole(c, h) /\ Used(h) = {}
<1>1. PICK E : E = FreshEntries(c)
  OBVIOUS
<1>2. /\ DOMAIN E = 0 .. c - 1 /\ E = [t \in 0 .. c - 1 |-> E[t]]
      /\ \A t \in 0 .. c - 1 :
           /\ E[t].name = NoName /\ E[t].next = t - 1
           /\ E[t].prev = IF t = c - 1 THEN NULL ELSE t + 1
  BY <1>1 DEF FreshEntries
<1>3. E \in [0 .. c - 1 -> Entries]
  <2>1. ASSUME NEW t \in 0 .. c - 1 PROVE E[t] \in Entries
    <3>1. PICK p : p = IF t = c - 1 THEN NULL ELSE t + 1
      OBVIOUS
    <3>2. PICK z \in Int : z = 0
      OBVIOUS
    <3>3. p \in Int /\ t - 1 \in Int
      BY <3>1 DEF NULL
    <3>4. E[t] = [name |-> NoName, index |-> z, next |-> t - 1, prev |-> p]
      BY <1>1, <3>1, <3>2 DEF FreshEntries
    <3>5. QED
      BY <3>2, <3>3, <3>4 DEF Entries
  <2>2. QED
    BY <1>2, <2>1
<1>4. h \in Hashes(c) /\ h.entries = E /\ h.free_head = c - 1
  <2>1. PICK z \in Nat : z = 0
    OBVIOUS
  <2>2. PICK k \in Int : k = c - 1
    OBVIOUS
  <2>3. h = [capacity |-> c, size |-> z, free_head |-> k, entries |-> E]
    BY <1>1, <2>1, <2>2 DEF FreshHash
  <2>4. h \in Hashes(c)
    BY <1>3, <2>3 DEF Hashes
  <2>5. QED
    BY <2>2, <2>3, <2>4
<1>5. Split(c, h)
  BY <1>4, SplitSlots
<1>6. Used(h) = {} /\ Free(h) = 0 .. c - 1
  <2>1. Used(h) \subseteq 0 .. c - 1 /\ Free(h) \subseteq 0 .. c - 1
    BY <1>5 DEF Split
  <2>2. \A t \in 0 .. c - 1 : t \notin Used(h) /\ t \in Free(h)
    <3>1. \A t \in 0 .. c - 1 : h.entries[t].name = NoName
      BY <1>2, <1>4
    <3>2. QED
      BY <1>5, <3>1 DEF Split
  <2>3. QED
    BY <2>1, <2>2
<1>7. PICK r : r = [t \in 0 .. c - 1 |-> c - t]
  OBVIOUS
<1>8. FreeLinked(h, r)
  <2>1. /\ c - 1 \in 0 .. c - 1 /\ c - 1 # NULL /\ E[c - 1].prev = NULL
    BY <1>2 DEF NULL
  <2>2. ASSUME NEW t \in 0 .. c - 1
        PROVE  r[t] \in Nat /\ r[t] = c - t
    BY <1>7
  <2>3. ASSUME NEW t \in 0 .. c - 1
        PROVE  \/ E[t].next = NULL
               \/ /\ E[t].next \in 0 .. c - 1
                  /\ E[E[t].next].prev = t
                  /\ r[t] < r[E[t].next]
    <3>1. E[t].next = t - 1
      BY <1>2
    <3>2. CASE t = 0
      BY <3>1, <3>2 DEF NULL
    <3>3. CASE t # 0
      <4>1. t - 1 \in 0 .. c - 1 /\ t - 1 # c - 1 /\ (t - 1) + 1 = t
        BY <3>3
      <4>2. E[t - 1].prev = t
        BY <1>2, <4>1
      <4>3. r[t] < r[t - 1]
        BY <2>2, <4>1
      <4>4. QED
        BY <3>1, <4>1, <4>2, <4>3
    <3>4. QED
      BY <3>2, <3>3
  <2>4. ASSUME NEW t \in 0 .. c - 1, t # c - 1
        PROVE  E[t].prev \in 0 .. c - 1 /\ E[E[t].prev].next = t
    <3>1. t + 1 \in 0 .. c - 1 /\ (t + 1) - 1 = t
      BY <2>4
    <3>2. E[t].prev = t + 1 /\ E[t + 1].next = (t + 1) - 1
      BY <1>2, <2>4, <3>1
    <3>3. QED
      BY <3>1, <3>2
  <2>5. QED
    BY ZenonT(30), <1>4, <1>6, <2>1, <2>2, <2>3, <2>4 DEF FreeLinked
<1>9. PICK d : d = [t \in 0 .. c - 1 |-> 0]
  OBVIOUS
<1>10. ChainsLinked(h, d)
  BY <1>6 DEF ChainsLinked
<1>11. QED
  BY <1>4, <1>6, <1>8, <1>10 DEF Whole

\* The hash after n entries of h.
CopyAt(at, fresh, h, i) == IF i = 0 THEN fresh ELSE Copied(at[i - 1], h, i - 1)

IsCopy(at, fresh, h, n) == at = [i \in 0 .. n |-> CopyAt(at, fresh, h, i)]

\* There is one for every number of entries.
LEMMA CopyExists ==
  ASSUME NEW fresh, NEW h, NEW n \in Nat
  PROVE  \E at : IsCopy(at, fresh, h, n)
<1> DEFINE Good(k) == \E at : IsCopy(at, fresh, h, k)
           Bad == {k \in Nat : ~Good(k)}
<1>1. SUFFICES ASSUME Bad # {} PROVE FALSE
  OBVIOUS
<1>2. Bad \subseteq Nat /\ \A k \in Nat : k \notin Bad => Good(k)
  OBVIOUS
<1>3. \A k \in Bad : ~Good(k)
  OBVIOUS
<1> HIDE DEF Bad
<1>4. PICK k \in Bad : \A j \in Bad : k <= j
  BY <1>1, <1>2, Smallest
<1>5. k \in Nat
  BY <1>2
<1>6. CASE k = 0
  <2> DEFINE at == [i \in 0 .. 0 |-> fresh]
  <2>1. IsCopy(at, fresh, h, 0)
    BY DEF IsCopy, CopyAt
  <2>2. QED
    BY <1>3, <1>4, <1>6, <2>1
<1>7. CASE k # 0
  <2>1. k - 1 \in Nat /\ ~(k <= k - 1)
    BY <1>5, <1>7
  <2>2. Good(k - 1)
    BY <1>2, <1>4, <2>1
  <2>3. PICK g : IsCopy(g, fresh, h, k - 1)
    BY <2>2
  <2>4. \A i \in 0 .. k - 1 : g[i] = CopyAt(g, fresh, h, i)
    BY <2>3 DEF IsCopy
  <2>5. PICK x : x = Copied(g[k - 1], h, k - 1)
    OBVIOUS
  <2> DEFINE at == [i \in 0 .. k |-> IF i = k THEN x ELSE g[i]]
  <2>6. /\ at[k] = x /\ \A i \in 0 .. k - 1 : at[i] = g[i]
        /\ at = [i \in 0 .. k |-> at[i]]
    BY <1>5
  <2> HIDE DEF at
  <2>7. \A i \in 0 .. k : at[i] = CopyAt(at, fresh, h, i)
    <3>1. SUFFICES ASSUME NEW i \in 0 .. k PROVE at[i] = CopyAt(at, fresh, h, i)
      OBVIOUS
    <3>2. CASE i = k
      <4>1. k - 1 \in 0 .. k - 1
        BY <2>1
      <4>2. at[k - 1] = g[k - 1]
        BY <2>6, <4>1
      <4>3. QED
        BY <1>7, <2>5, <2>6, <3>2, <4>2 DEF CopyAt
    <3>3. CASE i # k
      <4>1. i \in 0 .. k - 1 /\ (i # 0 => i - 1 \in 0 .. k - 1)
        BY <1>5, <3>3
      <4>2. at[i] = g[i] /\ (i # 0 => at[i - 1] = g[i - 1])
        BY <2>6, <4>1
      <4>3. g[i] = CopyAt(g, fresh, h, i)
        BY <2>4, <4>1
      <4>4. QED
        BY <4>2, <4>3 DEF CopyAt
    <3>4. QED
      BY <3>2, <3>3
  <2>8. IsCopy(at, fresh, h, k)
    BY <2>6, <2>7 DEF IsCopy
  <2>9. QED
    BY <1>3, <1>4, <2>8
<1>8. QED
  BY <1>6, <1>7

\* Rehashed is the last of them.
LEMMA RehashedIsCopy ==
  ASSUME NEW h, NEW c \in Nat, NEW n \in Nat
  PROVE  \E at : IsCopy(at, FreshHash(c), h, n) /\ Rehashed(h, c, n) = at[n]
<1>1. PICK fresh : fresh = FreshHash(c)
  OBVIOUS
<1>2. PICK f : IsCopy(f, fresh, h, n)
  BY CopyExists
<1>3. PICK g : g = CHOOSE at : IsCopy(at, fresh, h, n)
  OBVIOUS
<1>4. IsCopy(g, fresh, h, n)
  BY <1>2, <1>3
<1>5. Rehashed(h, c, n) = (CHOOSE at : IsCopy(at, FreshHash(c), h, n))[n]
  BY Zenon DEF Rehashed, FreshHash, IsCopy, CopyAt
<1>6. QED
  BY <1>1, <1>3, <1>4, <1>5

\* The used slots of h before slot i.
UsedBelow(h, i) == {t \in Used(h) : t < i}

\* acc has c slots and the bindings of the first i entries of h.
CopyIs(c, h, acc, i) ==
  /\ Whole(c, acc) /\ Distinct(acc) /\ Cardinality(Used(acc)) <= i
  /\ BindingsOf(acc) = {Pair(h, t) : t \in UsedBelow(h, i)}

\* Copying the next entry keeps what was copied.
LEMMA CopyOne ==
  ASSUME NEW c \in Nat, NEW b \in Nat, NEW h \in Hashes(b), Distinct(h),
         NEW i \in 0 .. b - 1, i < c, NEW acc, CopyIs(c, h, acc, i),
         hash_name \in [Names -> HashValues]
  PROVE  CopyIs(c, h, Copied(acc, h, i), i + 1)
<1>1. /\ Whole(c, acc) /\ Distinct(acc) /\ Cardinality(Used(acc)) <= i
      /\ BindingsOf(acc) = {Pair(h, t) : t \in UsedBelow(h, i)}
  BY DEF CopyIs
<1>2. acc \in Hashes(c)
  BY <1>1 DEF Whole
<1>3. Split(b, h)
  BY SplitSlots
<1>4. IsFiniteSet(Used(acc)) /\ Cardinality(Used(acc)) \in Nat
  BY <1>1, <1>2, BindingsCount
<1>5. \A t \in Used(h) : t \in Int
  BY <1>3 DEF Split
<1>6. CASE i \notin Used(h)
  <2>1. wasm_hash_entry_is_free(h, i)
    BY <1>3, <1>6 DEF Split, wasm_hash_entry_is_free
  <2>2. Copied(acc, h, i) = acc
    BY <2>1 DEF Copied
  <2>3. UsedBelow(h, i + 1) = UsedBelow(h, i)
    BY <1>5, <1>6 DEF UsedBelow
  <2>4. Cardinality(Used(acc)) <= i + 1
    BY <1>1, <1>4
  <2>5. QED
    BY <1>1, <2>2, <2>3, <2>4 DEF CopyIs
<1>7. CASE i \in Used(h)
  <2>1. ~wasm_hash_entry_is_free(h, i)
    BY <1>3, <1>7 DEF Split, wasm_hash_entry_is_free
  <2>2. PICK n : n = h.entries[i].name
    OBVIOUS
  <2>3. n \in Names
    BY <1>3, <1>7, <2>2 DEF Split
  <2>4. PICK x : x = h.entries[i].index
    OBVIOUS
  <2>5. x \in Int
    BY <2>4, HashFacts
  <2>6. PICK new : new = hash_new_entry(acc, n)
    OBVIOUS
  <2>7. acc.free_head # NULL
    <3>1. Cardinality(Used(acc)) < c
      BY <1>1, <1>4
    <3>2. QED
      BY <1>1, <3>1, HeadFree
  <2>8. PICK y : Inserted(c, acc, n, new.h, y, new.slot)
    <3>1. c # 0
      OBVIOUS
    <3>2. QED
      BY <1>1, <2>3, <2>6, <2>7, <3>1, NewEntry
  <2>9. PICK g, s : g = new.h /\ s = new.slot
    OBVIOUS
  <2>10. Inserted(c, acc, n, g, y, s)
    BY <2>8, <2>9
  <2>11. g \in Hashes(c) /\ s \in 0 .. c - 1
    <3>1. g \in Hashes(c) /\ s \in Used(g)
      BY <2>10 DEF Inserted, Whole
    <3>2. Split(c, g)
      BY <3>1, SplitSlots
    <3>3. QED
      BY <3>1, <3>2 DEF Split
  <2>12. PICK k : k = SetIndex(g, s, x)
    OBVIOUS
  <2>13. Copied(acc, h, i) = k
    BY <2>1, <2>2, <2>4, <2>6, <2>9, <2>12 DEF Copied, SetIndex
  <2>14. IndexIs(c, g, s, x, k)
    BY <2>5, <2>11, <2>12, SetIndexFacts
  <2>15. ASSUME NEW t \in Used(acc) PROVE acc.entries[t].index # x
    <3>1. Pair(acc, t) \in BindingsOf(acc)
      BY DEF BindingsOf
    <3>2. PICK u \in UsedBelow(h, i) : Pair(acc, t) = Pair(h, u)
      BY <1>1, <3>1
    <3>3. acc.entries[t].index = h.entries[u].index
      BY <3>2 DEF Pair
    <3>4. u \in Used(h) /\ u < i
      BY DEF UsedBelow
    <3>5. u # i
      BY <3>4
    <3>6. QED
      BY <1>7, <2>4, <3>3, <3>4, <3>5 DEF Distinct
  <2>16. Added(c, acc, n, x, k)
    BY <1>1, <1>2, <2>3, <2>5, <2>10, <2>14, <2>15, IndexAdds
  <2>17. UsedBelow(h, i + 1) = UsedBelow(h, i) \cup {i}
    <3>1. \A t \in Used(h) : t < i + 1 <=> t < i \/ t = i
      BY <1>5
    <3>2. PICK j : j = i + 1
      OBVIOUS
    <3>3. \A t : t \in UsedBelow(h, j) <=> t \in Used(h) /\ (t < i \/ t = i)
      BY <3>1, <3>2 DEF UsedBelow
    <3>4. \A t : t \in UsedBelow(h, j) <=> t \in UsedBelow(h, i) \/ t = i
      BY <1>7, <3>3 DEF UsedBelow
    <3>5. QED
      BY <3>2, <3>4
  <2>18. Pair(h, i) = [name |-> n, index |-> x]
    BY <2>2, <2>4 DEF Pair
  <2>19. BindingsOf(k) = {Pair(h, t) : t \in UsedBelow(h, i + 1)}
    <3>1. BindingsOf(k) = BindingsOf(acc) \cup {Pair(h, i)}
      BY <2>16, <2>18 DEF Added
    <3>2. {Pair(h, t) : t \in UsedBelow(h, i) \cup {i}}
            = {Pair(h, t) : t \in UsedBelow(h, i)} \cup {Pair(h, i)}
      OBVIOUS
    <3>3. QED
      BY <1>1, <2>17, <3>1, <3>2
  <2>20. Cardinality(Used(k)) <= i + 1
    <3>1. PICK z : z \notin Used(acc) /\ Used(k) = Used(acc) \cup {z}
      BY <2>16 DEF Added
    <3>2. Cardinality(Used(k)) = Cardinality(Used(acc)) + 1
      BY <1>4, <3>1, FS_AddElement
    <3>3. QED
      BY <1>1, <1>4, <3>2
  <2>21. Whole(c, k) /\ Distinct(k)
    BY <2>16 DEF Added
  <2>22. QED
    BY <2>13, <2>19, <2>20, <2>21 DEF CopyIs
<1>8. QED
  BY <1>6, <1>7

\* A resize to more slots keeps every binding and leaves a slot free.
LEMMA ResizeKeeps ==
  ASSUME NEW c \in Nat, NEW b \in Nat, b < c, NEW h \in Hashes(b), Distinct(h),
         hash_name \in [Names -> HashValues], NEW g, g = Rehashed(h, c, b)
  PROVE  /\ Whole(c, g) /\ Distinct(g) /\ BindingsOf(g) = BindingsOf(h)
         /\ g.free_head # NULL
<1>1. PICK at : IsCopy(at, FreshHash(c), h, b) /\ Rehashed(h, c, b) = at[b]
  BY RehashedIsCopy
<1>2. PICK fresh : fresh = FreshHash(c)
  OBVIOUS
<1>3. \A i \in 0 .. b : at[i] = CopyAt(at, fresh, h, i)
  BY <1>1, <1>2 DEF IsCopy
<1>4. Split(b, h)
  BY SplitSlots
<1>5. CopyIs(c, h, at[0], 0)
  <2>1. 0 \in 0 .. b
    OBVIOUS
  <2>2. at[0] = fresh
    BY <1>3, <2>1 DEF CopyAt
  <2>3. c # 0
    OBVIOUS
  <2>4. Whole(c, fresh) /\ Used(fresh) = {}
    BY <1>2, <2>3, FreshWhole
  <2>5. Cardinality(Used(fresh)) <= 0
    BY <2>4, FS_EmptySet
  <2>6. UsedBelow(h, 0) = {}
    BY <1>4 DEF UsedBelow, Split
  <2>7. QED
    BY <2>2, <2>4, <2>5, <2>6 DEF CopyIs, Distinct, BindingsOf
<1> DEFINE Bad == {i \in 0 .. b : ~CopyIs(c, h, at[i], i)}
<1>6. Bad = {}
  <2>1. SUFFICES ASSUME Bad # {} PROVE FALSE
    OBVIOUS
  <2>2. Bad \subseteq Nat /\ \A i \in 0 .. b : i \notin Bad => CopyIs(c, h, at[i], i)
    OBVIOUS
  <2>3. \A i \in Bad : i \in 0 .. b /\ ~CopyIs(c, h, at[i], i)
    OBVIOUS
  <2> HIDE DEF Bad
  <2>4. PICK i \in Bad : \A j \in Bad : i <= j
    BY <2>1, <2>2, Smallest
  <2>5. i \in 0 .. b /\ i # 0
    BY <1>5, <2>3
  <2>6. i - 1 \in 0 .. b /\ i - 1 \in 0 .. b - 1 /\ ~(i <= i - 1) /\ i - 1 < c
        /\ (i - 1) + 1 = i
    BY <2>5
  <2>7. CopyIs(c, h, at[i - 1], i - 1)
    BY <2>2, <2>4, <2>6
  <2>8. PICK j, acc : j = i - 1 /\ acc = at[i - 1]
    OBVIOUS
  <2>9. CopyIs(c, h, Copied(acc, h, j), j + 1)
    <3>1. j \in 0 .. b - 1 /\ j < c /\ CopyIs(c, h, acc, j)
      BY <2>6, <2>7, <2>8
    <3>2. QED
      BY <3>1, CopyOne
  <2>10. at[i] = Copied(acc, h, j)
    BY <1>3, <2>5, <2>8 DEF CopyAt
  <2>11. QED
    BY <2>3, <2>6, <2>8, <2>9, <2>10
<1>7. CopyIs(c, h, g, b)
  <2>1. b \in 0 .. b
    OBVIOUS
  <2>2. CopyIs(c, h, at[b], b)
    BY <1>6, <2>1
  <2>3. QED
    BY <1>1, <2>2
<1>8. UsedBelow(h, b) = Used(h)
  <2>1. \A t \in 0 .. b - 1 : t < b
    OBVIOUS
  <2>2. QED
    BY <1>4, <2>1 DEF UsedBelow, Split
<1>9. Whole(c, g) /\ Distinct(g) /\ BindingsOf(g) = BindingsOf(h)
  BY <1>7, <1>8 DEF CopyIs, BindingsOf
<1>10. g.free_head # NULL
  <2>1. g \in Hashes(c)
    BY <1>9 DEF Whole
  <2>2. Cardinality(Used(g)) \in Nat
    BY <1>9, <2>1, BindingsCount
  <2>3. Cardinality(Used(g)) < c
    BY <1>7, <2>2 DEF CopyIs
  <2>4. QED
    BY <1>9, <2>3, HeadFree
<1>11. QED
  BY <1>9, <1>10

-----------------------------------------------------------------------------
(* A search.                                                               *)

\* The next pointers from any slot lead to slots.
LEMMA AlongSlots ==
  ASSUME NEW c \in Nat, NEW h, Whole(c, h), NEW m \in 0 .. c - 1, NEW i \in 0 .. c
  PROVE  Along(h, m)[0] = m /\ Along(h, m)[i] \in 0 .. c - 1 \cup {NULL}
<1>1. h \in Hashes(c)
  BY DEF Whole
<1>2. PICK r : FreeLinked(h, r)
  BY DEF Whole
<1>3. PICK d : ChainsLinked(h, d)
  BY DEF Whole
<1>4. Split(c, h)
  BY <1>1, SplitSlots
<1>5. PICK at : at = Along(h, m)
  OBVIOUS
<1>6. PICK E : E = h.entries
  OBVIOUS
<1>7. IsPath(at, E, m, c)
  <2>1. h.capacity = c
    BY <1>1, HashFacts
  <2>2. IsPath(Along(h, m), h.entries, m, h.capacity)
    BY <2>1, AlongIsPath
  <2>3. QED
    BY <1>5, <1>6, <2>1, <2>2
<1>8. CASE m \in Used(h)
  <2>1. PICK A : A = Used(h)
    OBVIOUS
  <2>2. Orders(A, E, d)
    BY <1>3, <1>6, <2>1 DEF Orders, ChainsLinked
  <2>3. m \in A \cup {NULL} /\ NULL \notin A
    BY <1>4, <1>8, <2>1 DEF Split
  <2>4. at[i] \in A \cup {NULL}
    BY <1>7, <2>2, <2>3, PathStays
  <2>5. at[i] \in 0 .. c - 1 \cup {NULL}
    BY <1>4, <2>1, <2>4 DEF Split
  <2>6. at[0] = m
    BY <1>7, PathFacts
  <2>7. QED
    BY <1>5, <2>5, <2>6
<1>9. CASE m \in Free(h)
  <2>1. PICK A : A = Free(h)
    OBVIOUS
  <2>2. Orders(A, E, r)
    BY <1>2, <1>6, <2>1 DEF Orders, FreeLinked
  <2>3. m \in A \cup {NULL} /\ NULL \notin A
    BY <1>4, <1>9, <2>1 DEF Split, NotASlot
  <2>4. at[i] \in A \cup {NULL}
    BY <1>7, <2>2, <2>3, PathStays
  <2>5. at[i] \in 0 .. c - 1 \cup {NULL}
    BY <1>4, <2>1, <2>4 DEF Split
  <2>6. at[0] = m
    BY <1>7, PathFacts
  <2>7. QED
    BY <1>5, <2>5, <2>6
<1>10. m \in Used(h) \/ m \in Free(h)
  BY <1>4 DEF Split
<1>11. QED
  BY <1>8, <1>9, <1>10

\* What a search answers: the index of an entry with the name.
Answer(h, n, x) ==
  \/ x = -1 /\ \A t \in Used(h) : h.entries[t].name # n
  \/ \E t \in Used(h) : h.entries[t].name = n /\ x = h.entries[t].index

\* The places of the path at that a search passes, and those with the name.
Passed(h, at, i) ==
  at[i] # NULL /\ \A j \in 1 .. i : ~wasm_hash_entry_is_free(h, at[j])
HitsOf(h, at, n) ==
  {i \in 0 .. h.capacity - 1 : Passed(h, at, i) /\ h.entries[at[i]].name = n}

\* FindIndex answers with an entry of the name if there is one.
LEMMA FindAnswers ==
  ASSUME NEW c \in Nat, NEW h, Whole(c, h), NEW n \in Names,
         hash_name \in [Names -> HashValues], NEW x, x = FindIndex(h, n)
  PROVE  Answer(h, n, x)
<1>1. h \in Hashes(c)
  BY DEF Whole
<1>2. PICK d : ChainsLinked(h, d)
  BY DEF Whole
<1>3. Split(c, h) /\ h.capacity = c
  BY <1>1, SplitSlots, HashFacts
<1>4. CASE c = 0
  <2>1. x = -1
    BY <1>3, <1>4 DEF FindIndex
  <2>2. Used(h) = {}
    BY <1>3, <1>4 DEF Split
  <2>3. QED
    BY <2>1, <2>2 DEF Answer
<1>5. CASE c # 0
  <2>1. PICK m : m = hash_main_entry(h, n)
    OBVIOUS
  <2>2. m \in 0 .. c - 1
    BY <1>1, <1>5, <2>1, MainSlot
  <2>3. PICK at : at = Along(h, m)
    OBVIOUS
  <2>4. PICK Hits : Hits = HitsOf(h, at, n)
    OBVIOUS
  <2>5. x = IF h.capacity = 0 \/ Hits = {} THEN -1
            ELSE h.entries[at[CHOOSE i \in Hits : \A j \in Hits : i <= j]].index
    <3>1. FindIndex(h, n) =
            IF h.capacity = 0 \/ HitsOf(h, Along(h, hash_main_entry(h, n)), n) = {} THEN -1
            ELSE h.entries[Along(h, hash_main_entry(h, n))[
                   CHOOSE i \in HitsOf(h, Along(h, hash_main_entry(h, n)), n) :
                     \A j \in HitsOf(h, Along(h, hash_main_entry(h, n)), n) : i <= j]].index
      BY Zenon DEF FindIndex, HitsOf, Passed
    <3>2. QED
      BY <2>1, <2>3, <2>4, <3>1, Zenon
  <2>6. CASE Hits # {}
    <3>1. Hits \subseteq Nat /\ \A i \in Hits : i \in 0 .. c
      BY <1>3, <2>4 DEF HitsOf
    <3>2. \E i \in Hits : \A j \in Hits : i <= j
      BY <2>6, <3>1, Smallest
    <3>3. PICK k : k = CHOOSE i \in Hits : \A j \in Hits : i <= j
      OBVIOUS
    <3>4. k \in Hits
      BY <3>2, <3>3
    <3>5. at[k] # NULL /\ h.entries[at[k]].name = n /\ k \in 0 .. c
      BY <2>4, <3>1, <3>4 DEF HitsOf, Passed
    <3>6. at[k] \in 0 .. c - 1
      BY <2>2, <2>3, <3>5, AlongSlots
    <3>7. at[k] \in Used(h)
      BY <1>3, <3>5, <3>6 DEF Split
    <3>8. x = h.entries[at[k]].index
      BY <1>3, <1>5, <2>5, <2>6, <3>3
    <3>9. QED
      BY <3>5, <3>7, <3>8 DEF Answer
  <2>7. CASE Hits = {}
    <3>1. x = -1
      BY <2>5, <2>7
    <3>2. ASSUME NEW t \in Used(h), h.entries[t].name = n PROVE FALSE
      <4>1. m = Main(h, t)
        BY <2>1, <3>2 DEF Main
      <4>2. /\ \E i \in 0 .. c - 1 : Along(h, m)[i] = t
            /\ \A i \in 0 .. c : Along(h, m)[i] \in Chain(h, m) \cup {NULL}
            /\ \A i, j \in 0 .. c : i < j /\ Along(h, m)[j] # NULL
                                      => Along(h, m)[i] # NULL
        BY <1>1, <1>2, <4>1, Reached
      <4>3. PICK i \in 0 .. c - 1 : at[i] = t
        BY <2>3, <4>2
      <4>4. t # NULL
        BY <1>3 DEF Split
      <4>5. ASSUME NEW j \in 1 .. i PROVE ~wasm_hash_entry_is_free(h, at[j])
        <5>1. j \in 0 .. c /\ i \in 0 .. c /\ (j < i \/ j = i)
          OBVIOUS
        <5>2. at[j] # NULL
          BY <2>3, <4>2, <4>3, <4>4, <5>1
        <5>3. at[j] \in Used(h)
          BY <2>3, <4>2, <5>1, <5>2 DEF Chain
        <5>4. QED
          BY <1>3, <5>3 DEF Split, wasm_hash_entry_is_free
      <4>6. Passed(h, at, i)
        BY <4>3, <4>4, <4>5 DEF Passed
      <4>7. i \in Hits
        BY <1>3, <2>4, <3>2, <4>3, <4>6 DEF HitsOf
      <4>8. QED
        BY <2>7, <4>7
    <3>3. QED
      BY <3>1, <3>2 DEF Answer
  <2>8. QED
    BY <2>6, <2>7
<1>6. QED
  BY <1>4, <1>5

-----------------------------------------------------------------------------
(* The invariant.                                                          *)

\* Indexes count the bindings before.
Numbered(B) == \A x \in B : x.index \in Nat /\ x.index < Cardinality(B)

\* A hash of c slots that the operations build.
Sound(c, h) ==
  /\ Whole(c, h) /\ (c = 0 <=> h.size = 0)
  /\ Distinct(h) /\ Numbered(BindingsOf(h))

\* The hash is whole, and its bindings are numbered apart: a binding added while
\* the array is copied or an entry is moved is told from the others by its index.
HashInv ==
  /\ hash_name \in [Names -> HashValues] /\ asserts = TRUE
  /\ \E c \in Nat : Sound(c, hash)

\* The empty hash is sound.
LEMMA EmptySound == Sound(0, EmptyHash) /\ BindingsOf(EmptyHash) = {}
<1>1. PICK h : h = EmptyHash
  OBVIOUS
<1>2. PICK z \in Nat : z = 0
  OBVIOUS
<1>3. PICK u \in Int : u = NULL
  BY DEF NULL
<1>4. h = [capacity |-> z, size |-> z, free_head |-> u, entries |-> <<>>]
  BY <1>1, <1>2, <1>3 DEF EmptyHash
<1>5. <<>> \in [0 .. z - 1 -> Entries]
  <2>1. 0 .. z - 1 = {}
    BY <1>2
  <2>2. DOMAIN <<>> = {} /\ <<>> = [t \in {} |-> <<>>[t]]
    OBVIOUS
  <2>3. QED
    BY <2>1, <2>2
<1>6. h \in Hashes(z)
  BY <1>4, <1>5 DEF Hashes
<1>7. Split(z, h)
  BY <1>6, SplitSlots
<1>8. Used(h) = {} /\ Free(h) = {}
  BY <1>2, <1>7 DEF Split
<1>9. h.free_head = NULL /\ h.size = 0
  BY <1>2, <1>3, <1>4
<1>10. PICK r : FreeLinked(h, r)
  BY <1>8, <1>9 DEF FreeLinked
<1>11. PICK d : ChainsLinked(h, d)
  BY <1>8 DEF ChainsLinked
<1>12. Whole(z, h)
  BY <1>6, <1>10, <1>11 DEF Whole
<1>13. Distinct(h) /\ BindingsOf(h) = {}
  BY <1>8 DEF Distinct, BindingsOf
<1>14. Sound(z, h)
  BY <1>2, <1>9, <1>12, <1>13 DEF Sound, Numbered
<1>15. QED
  BY <1>1, <1>2, <1>13, <1>14

\* The invariant holds at first.
LEMMA InitHash == Init => HashInv
<1>1. SUFFICES ASSUME Init PROVE HashInv
  OBVIOUS
<1>2. hash = EmptyHash /\ hash_name \in [Names -> HashValues] /\ asserts = TRUE
  <2>1. Init
    BY <1>1
  <2>2. hash = EmptyHash
    BY <2>1, Zenon DEF Init
  <2>3. hash_name \in [Names -> HashValues]
    BY <2>1, Zenon DEF Init
  <2>4. asserts = TRUE
    BY <2>1, Zenon DEF Init
  <2>5. QED
    BY <2>2, <2>3, <2>4
<1>3. PICK h, z : h = EmptyHash /\ z = 0
  OBVIOUS
<1>4. Sound(z, h)
  BY <1>3, EmptySound
<1>5. hash = h /\ z \in Nat
  BY <1>2, <1>3
<1>6. Sound(z, hash)
  BY <1>4, <1>5
<1>7. QED
  BY <1>2, <1>5, <1>6 DEF HashInv

\* Before a new entry the hash has a free slot.
Prepared(c, h, g) ==
  /\ c # 0 /\ Whole(c, g) /\ Distinct(g) /\ BindingsOf(g) = BindingsOf(h)
  /\ g.free_head # NULL

\* ReadyHash finds or makes a free slot and keeps the bindings.
LEMMA ReadyPrepared ==
  ASSUME NEW b \in Nat, NEW h, Sound(b, h), hash_name \in [Names -> HashValues],
         NEW g, g = ReadyHash(h)
  PROVE  \E c \in Nat : Prepared(c, h, g)
<1>1. Whole(b, h) /\ (b = 0 <=> h.size = 0) /\ Distinct(h)
  BY DEF Sound
<1>2. h \in Hashes(b)
  BY <1>1 DEF Whole
<1>3. h.capacity = b
  BY <1>2, HashFacts
<1>4. CASE b = 0
  <2>1. PICK c \in Nat : c = InitialCapacity /\ c # 0
    BY CapacityAssumption
  <2>2. PICK k : k = Rehashed(h, c, b)
    OBVIOUS
  <2>3. Whole(c, k) /\ Distinct(k) /\ BindingsOf(k) = BindingsOf(h) /\ k.free_head # NULL
    <3>1. b < c
      BY <1>4, <2>1
    <3>2. QED
      BY <1>1, <1>2, <2>2, <3>1, ResizeKeeps
  <2>4. g = k
    BY <1>1, <1>3, <1>4, <2>1, <2>2, <2>3 DEF ReadyHash, hash_resize
  <2>5. QED
    BY <2>1, <2>3, <2>4 DEF Prepared
<1>5. CASE b # 0 /\ h.free_head # NULL
  <2>1. g = h
    BY <1>1, <1>5 DEF ReadyHash
  <2>2. QED
    BY <1>1, <1>5, <2>1 DEF Prepared
<1>6. CASE b # 0 /\ h.free_head = NULL
  <2>1. PICK c \in Nat : c = b * 2 /\ b < c /\ c # 0
    BY <1>6
  <2>2. PICK k : k = Rehashed(h, c, b)
    OBVIOUS
  <2>3. Whole(c, k) /\ Distinct(k) /\ BindingsOf(k) = BindingsOf(h) /\ k.free_head # NULL
    BY <1>1, <1>2, <2>1, <2>2, ResizeKeeps
  <2>4. g = k
    BY <1>1, <1>3, <1>6, <2>1, <2>2 DEF ReadyHash, hash_resize
  <2>5. QED
    BY <2>1, <2>3, <2>4 DEF Prepared
<1>7. QED
  BY <1>4, <1>5, <1>6

\* What the next hash holds after an insertion.
InsertedHash(h, n, g) ==
  /\ \E c \in Nat : Sound(c, g)
  /\ BindingsOf(g) = BindingsOf(h) \cup {[name |-> n, index |-> Cardinality(BindingsOf(h))]}

\* A binding numbered with the number of bindings keeps them numbered.
LEMMA NumberedMore ==
  ASSUME NEW B, IsFiniteSet(B), Numbered(B), NEW n, NEW k, k = Cardinality(B)
  PROVE  Numbered(B \cup {[name |-> n, index |-> k]})
<1>1. PICK b : b = [name |-> n, index |-> k]
  OBVIOUS
<1>2. b.index = k
  BY <1>1
<1>3. k \in Nat
  BY FS_CardinalityType
<1>4. b \notin B
  BY <1>2, <1>3 DEF Numbered
<1>5. Cardinality(B \cup {b}) = k + 1
  BY <1>4, FS_AddElement
<1>6. \A x \in B \cup {b} : x.index \in Nat /\ x.index < k + 1
  <2>1. \A x \in B : x.index \in Nat /\ x.index < k
    BY DEF Numbered
  <2>2. QED
    BY <1>2, <1>3, <2>1
<1>7. Numbered(B \cup {b})
  BY <1>5, <1>6 DEF Numbered
<1>8. QED
  BY <1>1, <1>7

\* An insertion into a sound hash fails no assertion and adds its binding.
LEMMA InsertSound ==
  ASSUME NEW b \in Nat, NEW h, Sound(b, h), hash_name \in [Names -> HashValues],
         NEW n \in Names, NEW new, new = hash_new_entry(ReadyHash(h), n),
         NEW k, k = Cardinality(Used(h)),
         NEW g, g = [new.h EXCEPT !.size = @ + 1, !.entries[new.slot].index = k]
  PROVE  new.ok = TRUE /\ InsertedHash(h, n, g)
<1>1. Whole(b, h) /\ Distinct(h) /\ Numbered(BindingsOf(h))
  BY DEF Sound
<1>2. h \in Hashes(b)
  BY <1>1 DEF Whole
<1>3. k \in Nat /\ IsFiniteSet(BindingsOf(h)) /\ Cardinality(BindingsOf(h)) = k
  BY <1>1, <1>2, BindingsCount
<1>4. PICK a : a = ReadyHash(h)
  OBVIOUS
<1>5. PICK c \in Nat : Prepared(c, h, a)
  BY <1>4, ReadyPrepared
<1>6. /\ c # 0 /\ Whole(c, a) /\ Distinct(a) /\ BindingsOf(a) = BindingsOf(h)
      /\ a.free_head # NULL
  BY <1>5 DEF Prepared
<1>7. a \in Hashes(c)
  BY <1>6 DEF Whole
<1>8. new.ok = TRUE /\ \E x : Inserted(c, a, n, new.h, x, new.slot)
  BY <1>4, <1>6, NewEntry
<1>9. PICK m, s : m = new.h /\ s = new.slot
  OBVIOUS
<1>10. PICK x : Inserted(c, a, n, m, x, s)
  BY <1>8, <1>9
<1>11. m \in Hashes(c) /\ s \in 0 .. c - 1
  <2>1. m \in Hashes(c) /\ s \in Used(m)
    BY <1>10 DEF Inserted, Whole
  <2>2. Split(c, m)
    BY <2>1, SplitSlots
  <2>3. QED
    BY <2>1, <2>2 DEF Split
<1>12. PICK y : y = SetIndex(m, s, k)
  OBVIOUS
<1>13. IndexIs(c, m, s, k, y) /\ y.size = m.size
  BY <1>3, <1>11, <1>12, SetIndexFacts
<1>14. PICK j : j = m.size + 1
  OBVIOUS
<1>15. j \in Nat /\ j # 0
  <2>1. m.size \in Nat
    BY <1>11, HashFacts
  <2>2. QED
    BY <1>14, <2>1
<1>16. g = SetSize(y, j)
  BY <1>9, <1>11, <1>12, <1>14 DEF SetSize, SetIndex, Hashes
<1>17. y \in Hashes(c)
  BY <1>13 DEF IndexIs
<1>18. /\ g \in Hashes(c) /\ g.size = j /\ g.entries = y.entries
       /\ g.free_head = y.free_head
  <2>1. /\ SetSize(y, j) \in Hashes(c) /\ SetSize(y, j).size = j
        /\ SetSize(y, j).entries = y.entries
        /\ SetSize(y, j).free_head = y.free_head
    BY <1>15, <1>17, SetSizeFacts
  <2>2. QED
    BY <1>16, <2>1
<1>19. IndexIs(c, m, s, k, g)
  BY <1>13, <1>18 DEF IndexIs
<1>20. ASSUME NEW t \in Used(a) PROVE a.entries[t].index # k
  <2>1. Pair(a, t) \in BindingsOf(h)
    BY <1>6 DEF BindingsOf
  <2>2. Pair(a, t).index < k /\ Pair(a, t).index \in Nat
    BY <1>1, <1>3, <2>1 DEF Numbered
  <2>3. Pair(a, t).index = a.entries[t].index
    BY DEF Pair
  <2>4. QED
    BY <1>3, <2>2, <2>3
<1>21. Added(c, a, n, k, g)
  BY <1>3, <1>6, <1>7, <1>10, <1>19, <1>20, IndexAdds
<1>22. Whole(c, g) /\ Distinct(g)
       /\ BindingsOf(g) = BindingsOf(h) \cup {[name |-> n, index |-> k]}
  BY <1>6, <1>21 DEF Added
<1>23. Numbered(BindingsOf(g))
  BY <1>1, <1>3, <1>22, NumberedMore
<1>24. Sound(c, g)
  BY <1>6, <1>15, <1>18, <1>22, <1>23 DEF Sound
<1>25. InsertedHash(h, n, g)
  BY <1>3, <1>22, <1>24 DEF InsertedHash
<1>26. QED
  BY <1>8, <1>25

\* The hash function stays.
LEMMA SoundKept ==
  ASSUME NEW CONSTANT c, NEW CONSTANT g, Sound(c, g), UNCHANGED hash_name
  PROVE  Sound(c, g)'
<1>1. \A t : Main(g, t)' = Main(g, t)
  BY DEF Main, hash_main_entry
<1>2. PICK d : ChainsLinked(g, d)
  BY DEF Sound, Whole
<1>3. ChainsLinked(g, d)'
  BY <1>1, <1>2 DEF ChainsLinked
<1>4. QED
  BY <1>3 DEF Sound, Whole

\* So does wasm_insert_binding.
LEMMA InsertStep ==
  ASSUME HashInv, NEW n \in Names, wasm_insert_binding(n)
  PROVE  HashInv' /\ InsertedHash(hash, n, hash') /\ UNCHANGED found
<1>1. hash_name \in [Names -> HashValues] /\ asserts = TRUE
  BY DEF HashInv
<1>2. PICK b \in Nat : Sound(b, hash)
  BY DEF HashInv
<1>3. PICK h : h = hash
  OBVIOUS
<1>4. PICK new : new = hash_new_entry(ReadyHash(h), n)
  OBVIOUS
<1>5. PICK k : k = Cardinality(Used(h))
  OBVIOUS
<1>6. PICK g : g = [new.h EXCEPT !.size = @ + 1, !.entries[new.slot].index = k]
  OBVIOUS
<1>7. new.ok = TRUE /\ InsertedHash(h, n, g)
  BY <1>1, <1>2, <1>3, <1>4, <1>5, <1>6, InsertSound
<1>8. /\ hash' = IF new.ok THEN g ELSE hash
      /\ asserts' = (asserts /\ new.ok) /\ UNCHANGED <<hash_name, found>>
  BY <1>3, <1>4, <1>5, <1>6 DEF wasm_insert_binding, Bound
<1>9. hash' = g /\ asserts' = TRUE
  BY <1>1, <1>7, <1>8
<1>10. \E c \in Nat : Sound(c, g)
  BY <1>7 DEF InsertedHash
<1>11. HashInv'
  <2>1. PICK c \in Nat : Sound(c, g)
    BY <1>10
  <2>2. Sound(c, g)'
    BY <1>8, <2>1, SoundKept
  <2>3. Sound(c, hash)'
    BY <1>9, <2>2
  <2>4. QED
    BY <1>1, <1>8, <1>9, <2>3 DEF HashInv
<1>12. QED
  BY <1>3, <1>7, <1>8, <1>9, <1>11

\* A search answers from the bindings, and a name that is not bound is not found.
LEMMA FindSound ==
  ASSUME NEW c \in Nat, NEW h, Sound(c, h), hash_name \in [Names -> HashValues],
         NEW n \in Names, NEW x, x = FindIndex(h, n)
  PROVE  IF \A b \in BindingsOf(h) : b.name # n THEN x = -1
         ELSE [name |-> n, index |-> x] \in BindingsOf(h)
<1>1. Whole(c, h)
  BY DEF Sound
<1>2. Answer(h, n, x)
  BY <1>1, FindAnswers
<1>3. ASSUME NEW t \in Used(h), h.entries[t].name = n
      PROVE  Pair(h, t) \in BindingsOf(h) /\ Pair(h, t).name = n
             /\ Pair(h, t) = [name |-> n, index |-> h.entries[t].index]
  BY <1>3 DEF Pair, BindingsOf
<1>4. ASSUME NEW b \in BindingsOf(h)
      PROVE  \E t \in Used(h) : b.name = h.entries[t].name
  BY DEF Pair, BindingsOf
<1>5. CASE x = -1 /\ \A t \in Used(h) : h.entries[t].name # n
  <2>1. \A b \in BindingsOf(h) : b.name # n
    BY <1>4, <1>5
  <2>2. QED
    BY <1>5, <2>1
<1>6. CASE \E t \in Used(h) : h.entries[t].name = n /\ x = h.entries[t].index
  <2>1. PICK t \in Used(h) : h.entries[t].name = n /\ x = h.entries[t].index
    BY <1>6
  <2>2. Pair(h, t) \in BindingsOf(h) /\ Pair(h, t).name = n
    BY <1>3, <2>1
  <2>3. [name |-> n, index |-> x] \in BindingsOf(h)
    BY <1>3, <2>1
  <2>4. QED
    BY <2>2, <2>3
<1>7. QED
  BY <1>2, <1>5, <1>6 DEF Answer

\* wasm_remove_binding of a name that is not bound changes nothing.
LEMMA RemoveStep ==
  ASSUME HashInv, NEW n \in Names, wasm_remove_binding(n)
  PROVE  UNCHANGED vars /\ \A b \in BindingsOf(hash) : b.name # n
<1>1. hash_name \in [Names -> HashValues]
  BY DEF HashInv
<1>2. PICK c \in Nat : Sound(c, hash)
  BY DEF HashInv
<1>3. PICK h : h = hash
  OBVIOUS
<1>4. PICK x : x = FindIndex(h, n)
  OBVIOUS
<1>5. \A t \in Used(h) : h.entries[t].name # n
  BY <1>3 DEF wasm_remove_binding
<1>6. Whole(c, h)
  BY <1>2, <1>3 DEF Sound
<1>7. Answer(h, n, x)
  BY <1>1, <1>4, <1>6, FindAnswers
<1>8. x = -1
  BY <1>5, <1>7 DEF Answer
<1>9. hash' = hash /\ UNCHANGED <<hash_name, found, asserts>>
  BY <1>3, <1>4, <1>8 DEF wasm_remove_binding
<1>10. \A b \in BindingsOf(hash) : b.name # n
  BY <1>3, <1>5 DEF BindingsOf, Pair
<1>11. QED
  BY <1>9, <1>10 DEF vars

\* A step that leaves the hash alone keeps the invariant.
LEMMA HashInvKept ==
  ASSUME HashInv, UNCHANGED <<hash_name, hash, asserts>>
  PROVE  HashInv'
<1>1. PICK c \in Nat : Sound(c, hash)
  BY DEF HashInv
<1>2. PICK g : g = hash
  OBVIOUS
<1>3. Sound(c, g)
  BY <1>1, <1>2
<1>4. Sound(c, g)'
  BY <1>3, SoundKept
<1>5. hash' = g
  BY <1>2
<1>6. Sound(c, hash)'
  BY <1>4, <1>5
<1>7. QED
  BY <1>6 DEF HashInv

\* Every step keeps the invariant.
LEMMA NextHash == HashInv /\ [Next]_vars => HashInv'
<1>1. SUFFICES ASSUME HashInv, [Next]_vars PROVE HashInv'
  OBVIOUS
<1>2. ASSUME NEW n \in Names, wasm_insert_binding(n) PROVE HashInv'
  BY <1>1, <1>2, InsertStep
<1>3. ASSUME NEW n \in Names, wasm_find_binding_index_by_name(n) PROVE HashInv'
  <2>1. UNCHANGED <<hash_name, hash, asserts>>
    BY <1>3 DEF wasm_find_binding_index_by_name
  <2>2. QED
    BY <1>1, <2>1, HashInvKept
<1>4. ASSUME NEW n \in Names, wasm_remove_binding(n) PROVE HashInv'
  <2>1. UNCHANGED <<hash_name, hash, asserts>>
    BY <1>1, <1>4, RemoveStep DEF vars
  <2>2. QED
    BY <1>1, <2>1, HashInvKept
<1>5. CASE UNCHANGED vars
  <2>1. UNCHANGED <<hash_name, hash, asserts>>
    BY <1>5 DEF vars
  <2>2. QED
    BY <1>1, <2>1, HashInvKept
<1>6. QED
  BY <1>1, <1>2, <1>3, <1>4, <1>5 DEF Next

-----------------------------------------------------------------------------
(* Every entry is linked.                                                  *)

\* The free list of a whole hash lists each free slot once.
ListedOnce(h) ==
  LET list == Along(h, h.free_head)
      listed == {i \in DOMAIN list : list[i] # NULL}
  IN /\ {list[i] : i \in listed} = Free(h)
     /\ Cardinality(listed) = Cardinality(Free(h))
     /\ \A i \in listed : h.entries[list[i]].prev = IF i = 0 THEN NULL ELSE list[i - 1]

\* From its head the free list is followed to its end through all free slots.
LEMMA FreeListed ==
  ASSUME NEW c \in Nat, NEW h, Whole(c, h)
  PROVE  ListedOnce(h)
<1>1. h \in Hashes(c)
  BY DEF Whole
<1>2. PICK r : FreeLinked(h, r)
  BY DEF Whole
<1>3. Split(c, h)
  BY <1>1, SplitSlots
<1>4. PICK s : s = h.free_head
  OBVIOUS
<1>5. PICK at : at = Along(h, s)
  OBVIOUS
<1>6. PICK E : E = h.entries
  OBVIOUS
<1>7. IsPath(at, E, s, c)
  <2>1. h.capacity = c
    BY <1>1, HashFacts
  <2>2. IsPath(Along(h, s), h.entries, s, h.capacity)
    BY <2>1, AlongIsPath
  <2>3. QED
    BY <1>5, <1>6, <2>1, <2>2
<1>8. PICK A : A = Free(h)
  OBVIOUS
<1>9. A \subseteq 0 .. c - 1 /\ NULL \notin A
  BY <1>3, <1>8 DEF Split, NotASlot
<1>10. s \in A \cup {NULL} /\ (s # NULL => E[s].prev = NULL)
  BY <1>2, <1>4, <1>6, <1>8 DEF FreeLinked
<1>11. Orders(A, E, r)
  BY <1>2, <1>6, <1>8 DEF Orders, FreeLinked
<1>12. \A t \in A : /\ E[t].next # NULL => E[E[t].next].prev = t
                    /\ r[t] \in Nat
  BY <1>2, <1>4, <1>6, <1>8 DEF FreeLinked
<1>12a. Follows(A, E, s)
  BY <1>2, <1>4, <1>6, <1>8 DEF FreeLinked, Follows
<1>13. /\ DOMAIN at = 0 .. c /\ at[0] = s
       /\ \A i \in 0 .. c : i # 0 => i - 1 \in 0 .. c /\ at[i] = After(E, at[i - 1])
  BY <1>7, PathFacts
<1>14. \A i \in 0 .. c : at[i] \in A \cup {NULL}
  BY <1>7, <1>9, <1>10, <1>11, PathStays
<1>15. \A t \in A : \E i \in 0 .. c - 1 : at[i] = t
  <2>1. s \in A \cup {NULL}
    BY <1>10
  <2>2. A \subseteq 0 .. c - 1
    BY <1>9
  <2>3. Passes(at, A, c)
    BY <1>7, <1>11, <1>12a, <2>1, <2>2, PathCovers
  <2>4. QED
    BY <2>3 DEF Passes
<1>16. PICK L : L = {i \in DOMAIN at : at[i] # NULL}
  OBVIOUS
<1>17. L \subseteq 0 .. c /\ \A i \in L : at[i] \in A
  BY <1>13, <1>14, <1>16
<1>18. \A z \in A : \E i \in L : at[i] = z
  <2>1. SUFFICES ASSUME NEW z \in A PROVE \E i \in L : at[i] = z
    OBVIOUS
  <2>2. PICK i \in 0 .. c - 1 : at[i] = z
    BY <1>15
  <2>3. i \in 0 .. c /\ at[i] # NULL
    BY <1>9, <2>2
  <2>4. QED
    BY <1>13, <1>16, <2>2, <2>3
<1>19. {at[i] : i \in L} = A
  BY <1>17, <1>18
<1>20. ASSUME NEW i \in L, NEW j \in L, at[i] = at[j] PROVE i = j
  <2>1. i \in 0 .. c /\ j \in 0 .. c /\ at[i] # NULL /\ at[j] # NULL
    BY <1>16, <1>17
  <2>2. r[at[i]] \in Nat
    BY <1>12, <1>17
  <2>3. \A k, l \in 0 .. c : k < l /\ at[l] # NULL => r[at[k]] < r[at[l]]
    BY <1>7, <1>9, <1>10, <1>11, PathRises
  <2>4. ~(i < j) /\ ~(j < i)
    BY <1>20, <2>1, <2>2, <2>3
  <2>5. QED
    BY <2>1, <2>4
<1>21. Cardinality(L) = Cardinality(A)
  <2>1. IsFiniteSet(L)
    <3>1. 0 \in Int /\ c \in Int
      OBVIOUS
    <3>2. IsFiniteSet(0 .. c)
      BY <3>1, FS_Interval
    <3>3. QED
      BY <1>17, <3>2, FS_Subset
  <2>2. PICK f : f = [i \in L |-> at[i]]
    OBVIOUS
  <2>3. f \in [L -> A] /\ \A z \in A : \E i \in L : f[i] = z
    BY <1>17, <1>18, <2>2
  <2>4. \A i, j \in L : f[i] = f[j] => i = j
    BY <1>20, <2>2
  <2>5. QED
    BY <2>1, <2>3, <2>4, OneToOne
<1>22. ASSUME NEW i \in L PROVE E[at[i]].prev = IF i = 0 THEN NULL ELSE at[i - 1]
  <2>1. CASE i = 0
    BY <1>10, <1>13, <1>16, <2>1
  <2>2. CASE i # 0
    <3>1. i - 1 \in 0 .. c /\ at[i] = After(E, at[i - 1]) /\ at[i] # NULL
      BY <1>13, <1>16, <1>17, <2>2
    <3>2. at[i - 1] \in A /\ at[i] = E[at[i - 1]].next
      BY <1>14, <3>1 DEF After
    <3>3. QED
      BY <1>12, <2>2, <3>1, <3>2
  <2>3. QED
    BY <2>1, <2>2
<1>23. ListedOnce(h)
  BY <1>4, <1>5, <1>6, <1>8, <1>16, <1>19, <1>21, <1>22 DEF ListedOnce
<1>24. QED
  BY <1>23

\* The chain of each used slot leads to it.
LeadsTo(h, s) ==
  LET main == Main(h, s)
      chain == Along(h, main)
  IN \E i \in DOMAIN chain :
       chain[i] = s /\ \A j \in 0 .. i : chain[j] \in Used(h) /\ Main(h, chain[j]) = main

\* A used slot is found in its chain.
LEMMA ChainsLead ==
  ASSUME NEW c \in Nat, NEW h, Whole(c, h), NEW s \in Used(h)
  PROVE  LeadsTo(h, s)
<1>1. h \in Hashes(c)
  BY DEF Whole
<1>2. PICK d : ChainsLinked(h, d)
  BY DEF Whole
<1>3. Split(c, h)
  BY <1>1, SplitSlots
<1>4. PICK m : m = Main(h, s)
  OBVIOUS
<1>5. /\ DOMAIN Along(h, m) = 0 .. c
      /\ \E i \in 0 .. c - 1 : Along(h, m)[i] = s
      /\ \A i \in 0 .. c : Along(h, m)[i] \in Chain(h, m) \cup {NULL}
      /\ \A i, j \in 0 .. c : i < j /\ Along(h, m)[j] # NULL => Along(h, m)[i] # NULL
  BY <1>1, <1>2, <1>4, Reached
<1>6. PICK at : at = Along(h, m)
  OBVIOUS
<1>7. PICK i \in 0 .. c - 1 : at[i] = s
  BY <1>5, <1>6
<1>8. s # NULL
  BY <1>3 DEF Split
<1>9. ASSUME NEW j \in 0 .. i PROVE at[j] \in Used(h) /\ Main(h, at[j]) = m
  <2>1. j \in 0 .. c /\ i \in 0 .. c /\ (j < i \/ j = i)
    OBVIOUS
  <2>2. at[j] # NULL
    BY <1>5, <1>6, <1>7, <1>8, <2>1
  <2>3. at[j] \in Chain(h, m)
    BY <1>5, <1>6, <2>1, <2>2
  <2>4. QED
    BY <2>3 DEF Chain
<1>10. i \in DOMAIN at
  BY <1>5, <1>6
<1>11. QED
  BY <1>4, <1>6, <1>7, <1>9, <1>10 DEF LeadsTo

\* The invariant implies EntriesLinked.
LEMMA HashInvLinked == HashInv => EntriesLinked
<1>1. SUFFICES ASSUME HashInv PROVE EntriesLinked
  OBVIOUS
<1>2. PICK c \in Nat : Sound(c, hash)
  BY <1>1 DEF HashInv
<1>3. Whole(c, hash)
  BY <1>2 DEF Sound
<1>4. ListedOnce(hash)
  BY <1>3, FreeListed
<1>5. FreeListWhole
  BY <1>4 DEF FreeListWhole, ListedOnce, Free
<1>6. \A s \in Used(hash) : LeadsTo(hash, s)
  BY <1>3, ChainsLead
<1>7. asserts
  BY <1>1 DEF HashInv
<1>8. ChainsApart
  BY <1>6, <1>7 DEF ChainsApart, LeadsTo, Main
<1>9. QED
  BY <1>5, <1>8 DEF EntriesLinked

(* After any operations each entry is in the free list, once and linked both *)
(* ways, or in the chain of its own name's slot (hash_new_entry,             *)
(* hash_resize), and no assertion of hash_new_entry has failed.              *)
THEOREM EntriesLinkedAlways == Spec => []EntriesLinked
<1>1. Spec => []HashInv
  BY InitHash, NextHash, PTL DEF Spec
<1>2. QED
  BY <1>1, HashInvLinked, PTL

-----------------------------------------------------------------------------
(* The refinement.                                                         *)

\* The empty hash is the empty collection.
LEMMA AbsInit == Init => Abs!Init
<1>1. SUFFICES ASSUME Init PROVE Abs!Init
  OBVIOUS
<1>2. hash = EmptyHash
  BY <1>1, Zenon DEF Init
<1>3. found = [name |-> NoName, index |-> -1]
  BY <1>1, Zenon DEF Init
<1>4. BindingsOf(hash) = {}
  BY <1>2, EmptySound
<1>5. QED
  BY <1>3, <1>4 DEF Abs!Init, Abs!NoAnswer, Abs!NotFound, NoName, BindingsOf, Pair

\* Cardinality in Bindings is Cardinality here.
LEMMA SameCardinality == \A S : Abs!Cardinality(S) = Cardinality(S)
BY Zenon DEF Abs!Cardinality, Cardinality

\* wasm_insert_binding is Insert.
LEMMA AbsInsert ==
  ASSUME HashInv, NEW n \in Names, wasm_insert_binding(n)
  PROVE  Abs!Insert(n)
<1>1. InsertedHash(hash, n, hash') /\ UNCHANGED found
  BY InsertStep
<1>2. BindingsOf(hash') = BindingsOf(hash) \cup
                            {[name |-> n, index |-> Cardinality(BindingsOf(hash))]}
  BY <1>1 DEF InsertedHash
<1>3. BindingsOf(hash)' = BindingsOf(hash')
  BY DEF BindingsOf, Pair, Used, Slots, wasm_hash_entry_is_free
<1>4. PICK B : B = BindingsOf(hash)
  OBVIOUS
<1>5. BindingsOf(hash)' = B \cup {[name |-> n, index |-> Cardinality(B)]}
  BY <1>2, <1>3, <1>4
<1>6. {[name |-> hash.entries[s].name, index |-> hash.entries[s].index] : s \in Used(hash)} = B
  BY <1>4 DEF BindingsOf, Pair
<1>7. {[name |-> hash.entries[s].name, index |-> hash.entries[s].index] : s \in Used(hash)}'
        = B \cup {[name |-> n, index |-> Cardinality(B)]}
  BY <1>5 DEF BindingsOf, Pair
<1>8. QED
  BY <1>1, <1>6, <1>7, SameCardinality, Zenon DEF Abs!Insert

\* wasm_find_binding_index_by_name is Find.
LEMMA AbsFind ==
  ASSUME HashInv, NEW n \in Names, wasm_find_binding_index_by_name(n)
  PROVE  Abs!Find(n)
<1>1. hash_name \in [Names -> HashValues]
  BY DEF HashInv
<1>2. PICK c \in Nat : Sound(c, hash)
  BY DEF HashInv
<1>3. PICK x : x = FindIndex(hash, n)
  OBVIOUS
<1>4. PICK B : B = BindingsOf(hash)
  OBVIOUS
<1>5. IF \A b \in B : b.name # n THEN x = -1 ELSE [name |-> n, index |-> x] \in B
  BY <1>1, <1>2, <1>3, <1>4, FindSound
<1>6. found' = [name |-> n, index |-> x] /\ UNCHANGED <<hash_name, hash, asserts>>
  BY <1>3 DEF wasm_find_binding_index_by_name
<1>7. PICK S : S = {b \in B : b.name = n}
  OBVIOUS
<1>8. IF S = {} THEN found' = [name |-> n, index |-> -1] ELSE found' \in S
  <2>1. CASE S = {}
    <3>1. \A b \in B : b.name # n
      BY <1>7, <2>1
    <3>2. QED
      BY <1>5, <1>6, <2>1, <3>1
  <2>2. CASE S # {}
    <3>1. ~\A b \in B : b.name # n
      BY <1>7, <2>2
    <3>2. [name |-> n, index |-> x] \in B
      BY <1>5, <3>1
    <3>3. [name |-> n, index |-> x].name = n
      OBVIOUS
    <3>4. QED
      BY <1>6, <1>7, <2>2, <3>2, <3>3
  <2>3. QED
    BY <2>1, <2>2
<1>9. Abs!Answers(n) = S
  BY <1>4, <1>7 DEF Abs!Answers, BindingsOf, Pair
<1>10. BindingsOf(hash)' = BindingsOf(hash)
  BY <1>6 DEF BindingsOf, Pair, Used, Slots, wasm_hash_entry_is_free
<1>11. QED
  BY <1>8, <1>9, <1>10 DEF Abs!Find, Abs!NotFound, BindingsOf, Pair

\* wasm_remove_binding is Remove.
LEMMA AbsRemove ==
  ASSUME HashInv, NEW n \in Names, wasm_remove_binding(n)
  PROVE  Abs!Remove(n)
<1>1. UNCHANGED vars /\ \A b \in BindingsOf(hash) : b.name # n
  BY RemoveStep
<1>2. PICK B : B = BindingsOf(hash)
  OBVIOUS
<1>3. Abs!Answers(n) = {b \in B : b.name = n}
  BY <1>2 DEF Abs!Answers, BindingsOf, Pair
<1>4. {b \in B : b.name = n} = {}
  BY <1>1, <1>2
<1>5. Abs!Answers(n) = {}
  BY <1>3, <1>4
<1>6. BindingsOf(hash)' = BindingsOf(hash) /\ UNCHANGED found
  BY <1>1 DEF vars, BindingsOf, Pair, Used, Slots, wasm_hash_entry_is_free
<1>7. QED
  BY <1>5, <1>6 DEF Abs!Remove, BindingsOf, Pair

\* The step of the collection, or none.
AbsStep == [Abs!Next]_<<BindingsOf(hash), found>>

\* Every step is one of the collection or leaves it alone.
LEMMA AbsNext == HashInv /\ [Next]_vars => AbsStep
<1>1. SUFFICES ASSUME HashInv, [Next]_vars PROVE AbsStep
  OBVIOUS
<1>2. ASSUME NEW n \in Names, wasm_insert_binding(n) PROVE Abs!Next
  <2>1. Abs!Insert(n)
    BY <1>1, <1>2, AbsInsert
  <2>2. QED
    BY <2>1 DEF Abs!Next
<1>3. ASSUME NEW n \in Names, wasm_find_binding_index_by_name(n) PROVE Abs!Next
  <2>1. Abs!Find(n)
    BY <1>1, <1>3, AbsFind
  <2>2. QED
    BY <2>1 DEF Abs!Next
<1>4. ASSUME NEW n \in Names, wasm_remove_binding(n) PROVE Abs!Next
  <2>1. Abs!Remove(n)
    BY <1>1, <1>4, AbsRemove
  <2>2. QED
    BY <2>1 DEF Abs!Next
<1>5. CASE UNCHANGED vars
  <2>1. UNCHANGED <<BindingsOf(hash), found>>
    BY <1>5 DEF vars, BindingsOf, Pair, Used, Slots, wasm_hash_entry_is_free
  <2>2. QED
    BY <2>1 DEF AbsStep
<1>6. QED
  BY <1>1, <1>2, <1>3, <1>4, <1>5 DEF Next, AbsStep

(* The hash is the collection of Bindings (wasm_insert_binding,              *)
(* wasm_find_binding_index_by_name, wasm_remove_binding): every operation is *)
(* one of the collection, whatever is moved or copied in the array.          *)
THEOREM ImplementsBindingsAlways == Spec => ImplementsBindings
<1>1. Spec => []HashInv
  BY InitHash, NextHash, PTL DEF Spec
<1>2. HashInv /\ [Next]_vars => [Abs!Next]_<<{[name |-> hash.entries[s].name,
        index |-> hash.entries[s].index] : s \in Used(hash)}, found>>
  BY AbsNext DEF AbsStep, BindingsOf, Pair
<1>3. QED
  BY <1>1, <1>2, AbsInit, PTL DEF Spec, ImplementsBindings, Abs!Spec

=============================================================================
