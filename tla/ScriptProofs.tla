---------------------------- MODULE ScriptProofs -----------------------------
(***************************************************************************)
(* A command acts on the module it was validated against and is counted as *)
(* passed when what it says is true, for every set of commands and every   *)
(* length of a script.                                                     *)
(***************************************************************************)
EXTENDS Script, FiniteSetTheorems, WellFoundedInduction, TLAPS

\* A set of natural numbers has a smallest one.
LEMMA Smallest ==
  ASSUME NEW S, S \subseteq Nat, S # {}
  PROVE  \E x \in S : \A y \in S : x <= y
<1> DEFINE R == {ss \in Nat \X Nat : ss[1] < ss[2]}
<1>1. IsWellFoundedOn(R, Nat)
  BY NatLessThanWellFounded DEF OpToRel
<1>2. \A x, y \in Nat : y < x => <<y, x>> \in R
  OBVIOUS
<1> HIDE DEF R
<1>3. PICK x \in S : \A y \in S : ~(<<y, x>> \in R)
  BY <1>1, WFMin
<1>4. ASSUME NEW y \in S PROVE x <= y
  <2>1. x \in Nat /\ y \in Nat
    OBVIOUS
  <2>2. ~(y < x)
    BY <1>2, <1>3, <2>1
  <2>3. QED
    BY <2>1, <2>2
<1>5. QED
  BY <1>4

-----------------------------------------------------------------------------
(* Strings, written with escapes and read again.                           *)

WrittenAt(at, s, i) == IF i = 0 THEN <<>> ELSE at[i - 1] \o Char(s[i])

Writes(at, s, n) == at = [i \in 0 .. n |-> WrittenAt(at, s, i)]

\* The characters of s are written one after the other.
LEMMA WritesExists ==
  ASSUME NEW s, NEW n \in Nat
  PROVE  \E at : Writes(at, s, n)
<1> DEFINE Good(k) == \E at : Writes(at, s, k)
           Bad == {k \in Nat : ~Good(k)}
<1>1. SUFFICES ASSUME Bad # {} PROVE FALSE
  OBVIOUS
<1>2. Bad \subseteq Nat /\ \A k \in Nat : k \notin Bad => Good(k)
  OBVIOUS
<1>3. \A k \in Bad : ~Good(k)
  OBVIOUS
<1> HIDE DEF Bad
<1>4. PICK k \in Bad : \A j \in Bad : k <= j
  BY <1>1, <1>2, Smallest
<1>5. k \in Nat
  BY <1>2
<1>6. CASE k = 0
  <2>1. PICK x : x = <<>>
    OBVIOUS
  <2> DEFINE at == [i \in 0 .. 0 |-> x]
  <2>2. Writes(at, s, 0)
    BY <2>1 DEF Writes, WrittenAt
  <2>3. QED
    BY <1>3, <1>4, <1>6, <2>2
<1>7. CASE k # 0
  <2>1. k - 1 \in Nat /\ ~(k <= k - 1)
    BY <1>5, <1>7
  <2>2. Good(k - 1)
    BY <1>2, <1>4, <2>1
  <2>3. PICK g : Writes(g, s, k - 1)
    BY <2>2
  <2>4. \A i \in 0 .. k - 1 : g[i] = WrittenAt(g, s, i)
    BY <2>3 DEF Writes
  <2>5. PICK x : x = g[k - 1] \o Char(s[k])
    OBVIOUS
  <2> DEFINE at == [i \in 0 .. k |-> IF i = k THEN x ELSE g[i]]
  <2>6. /\ at[k] = x /\ \A i \in 0 .. k - 1 : at[i] = g[i]
        /\ at = [i \in 0 .. k |-> at[i]]
    BY <1>5
  <2> HIDE DEF at
  <2>7. \A i \in 0 .. k : at[i] = WrittenAt(at, s, i)
    <3>1. SUFFICES ASSUME NEW i \in 0 .. k PROVE at[i] = WrittenAt(at, s, i)
      OBVIOUS
    <3>2. CASE i = k
      <4>1. k - 1 \in 0 .. k - 1
        BY <2>1
      <4>2. at[k - 1] = g[k - 1]
        BY <2>6, <4>1
      <4>3. QED
        BY <1>7, <2>5, <2>6, <3>2, <4>2 DEF WrittenAt
    <3>3. CASE i # k
      <4>1. i \in 0 .. k - 1 /\ (i # 0 => i - 1 \in 0 .. k - 1)
        BY <1>5, <3>3
      <4>2. at[i] = g[i] /\ (i # 0 => at[i - 1] = g[i - 1])
        BY <2>6, <4>1
      <4>3. g[i] = WrittenAt(g, s, i)
        BY <2>4, <4>1
      <4>4. QED
        BY <4>2, <4>3 DEF WrittenAt
    <3>4. QED
      BY <3>2, <3>3
  <2>8. Writes(at, s, k)
    BY <2>6, <2>7 DEF Writes
  <2>9. QED
    BY <1>3, <1>4, <2>8
<1>8. QED
  BY <1>6, <1>7

\* What is written is each time one character more.
LEMMA WritesFacts ==
  ASSUME NEW at, NEW s, NEW n \in Nat, Writes(at, s, n)
  PROVE  /\ at[0] = <<>>
         /\ \A i \in 1 .. n : at[i] = at[i - 1] \o Char(s[i])
<1>1. \A i \in 0 .. n : at[i] = WrittenAt(at, s, i)
  BY DEF Writes
<1>2. 0 \in 0 .. n /\ \A i \in 1 .. n : i \in 0 .. n /\ i # 0
  OBVIOUS
<1>3. at[0] = <<>>
  BY <1>1, <1>2 DEF WrittenAt
<1>4. \A i \in 1 .. n : at[i] = at[i - 1] \o Char(s[i])
  BY <1>1, <1>2 DEF WrittenAt
<1>5. QED
  BY <1>3, <1>4

\* write_escaped_string_slice writes them all.
LEMMA WriteWrites ==
  ASSUME NEW s, NEW n \in Nat, n = Len(s)
  PROVE  \E at : Writes(at, s, n) /\ write_escaped_string_slice(s) = at[n]
<1>1. PICK t : t = s
  OBVIOUS
<1>2. PICK f : Writes(f, t, n)
  BY WritesExists
<1>3. PICK g : g = CHOOSE at : Writes(at, t, n)
  OBVIOUS
<1>4. Writes(g, t, n)
  BY <1>2, <1>3
<1>5. write_escaped_string_slice(s) = (CHOOSE at : Writes(at, s, Len(s)))[Len(s)]
  BY Zenon DEF write_escaped_string_slice, Writes, WrittenAt
<1>6. QED
  BY <1>1, <1>3, <1>4, <1>5

Nothing == [out |-> <<>>, left |-> 0, code |-> 0]

ReadAt(at, s, i) == IF i = 0 THEN Nothing ELSE Read(at[i - 1], s[i])

Reading(at, s, n) == at = [i \in 0 .. n |-> ReadAt(at, s, i)]

\* The characters of s are read one after the other.
LEMMA ReadingExists ==
  ASSUME NEW s, NEW n \in Nat
  PROVE  \E at : Reading(at, s, n)
<1> DEFINE Good(k) == \E at : Reading(at, s, k)
           Bad == {k \in Nat : ~Good(k)}
<1>1. SUFFICES ASSUME Bad # {} PROVE FALSE
  OBVIOUS
<1>2. Bad \subseteq Nat /\ \A k \in Nat : k \notin Bad => Good(k)
  OBVIOUS
<1>3. \A k \in Bad : ~Good(k)
  OBVIOUS
<1> HIDE DEF Bad
<1>4. PICK k \in Bad : \A j \in Bad : k <= j
  BY <1>1, <1>2, Smallest
<1>5. k \in Nat
  BY <1>2
<1>6. CASE k = 0
  <2>1. PICK x : x = Nothing
    OBVIOUS
  <2> DEFINE at == [i \in 0 .. 0 |-> x]
  <2>2. Reading(at, s, 0)
    BY <2>1 DEF Reading, ReadAt
  <2>3. QED
    BY <1>3, <1>4, <1>6, <2>2
<1>7. CASE k # 0
  <2>1. k - 1 \in Nat /\ ~(k <= k - 1)
    BY <1>5, <1>7
  <2>2. Good(k - 1)
    BY <1>2, <1>4, <2>1
  <2>3. PICK g : Reading(g, s, k - 1)
    BY <2>2
  <2>4. \A i \in 0 .. k - 1 : g[i] = ReadAt(g, s, i)
    BY <2>3 DEF Reading
  <2>5. PICK x : x = Read(g[k - 1], s[k])
    OBVIOUS
  <2> DEFINE at == [i \in 0 .. k |-> IF i = k THEN x ELSE g[i]]
  <2>6. /\ at[k] = x /\ \A i \in 0 .. k - 1 : at[i] = g[i]
        /\ at = [i \in 0 .. k |-> at[i]]
    BY <1>5
  <2> HIDE DEF at
  <2>7. \A i \in 0 .. k : at[i] = ReadAt(at, s, i)
    <3>1. SUFFICES ASSUME NEW i \in 0 .. k PROVE at[i] = ReadAt(at, s, i)
      OBVIOUS
    <3>2. CASE i = k
      <4>1. k - 1 \in 0 .. k - 1
        BY <2>1
      <4>2. at[k - 1] = g[k - 1]
        BY <2>6, <4>1
      <4>3. QED
        BY <1>7, <2>5, <2>6, <3>2, <4>2 DEF ReadAt
    <3>3. CASE i # k
      <4>1. i \in 0 .. k - 1 /\ (i # 0 => i - 1 \in 0 .. k - 1)
        BY <1>5, <3>3
      <4>2. at[i] = g[i] /\ (i # 0 => at[i - 1] = g[i - 1])
        BY <2>6, <4>1
      <4>3. g[i] = ReadAt(g, s, i)
        BY <2>4, <4>1
      <4>4. QED
        BY <4>2, <4>3 DEF ReadAt
    <3>4. QED
      BY <3>2, <3>3
  <2>8. Reading(at, s, k)
    BY <2>6, <2>7 DEF Reading
  <2>9. QED
    BY <1>3, <1>4, <2>8
<1>8. QED
  BY <1>6, <1>7

\* What is read is each time one character more.
LEMMA ReadingFacts ==
  ASSUME NEW at, NEW s, NEW n \in Nat, Reading(at, s, n)
  PROVE  /\ at[0] = Nothing
         /\ \A i \in 1 .. n : at[i] = Read(at[i - 1], s[i])
<1>1. \A i \in 0 .. n : at[i] = ReadAt(at, s, i)
  BY DEF Reading
<1>2. 0 \in 0 .. n /\ \A i \in 1 .. n : i \in 0 .. n /\ i # 0
  OBVIOUS
<1>3. at[0] = Nothing
  BY <1>1, <1>2 DEF ReadAt
<1>4. \A i \in 1 .. n : at[i] = Read(at[i - 1], s[i])
  BY <1>1, <1>2 DEF ReadAt
<1>5. QED
  BY <1>3, <1>4

\* parse_string reads them all.
LEMMA ParseReads ==
  ASSUME NEW s, NEW n \in Nat, n = Len(s)
  PROVE  \E at : Reading(at, s, n) /\ parse_string(s) = at[n].out
<1>1. PICK t : t = s
  OBVIOUS
<1>2. PICK f : Reading(f, t, n)
  BY ReadingExists
<1>3. PICK g : g = CHOOSE at : Reading(at, t, n)
  OBVIOUS
<1>4. Reading(g, t, n)
  BY <1>2, <1>3
<1>5. parse_string(s) = (CHOOSE at : Reading(at, s, Len(s)))[Len(s)].out
  BY Zenon DEF parse_string, Nothing, Reading, ReadAt
<1>6. QED
  BY <1>1, <1>3, <1>4, <1>5

ValueAt(at, s, i) == IF i = 0 THEN 0 ELSE 10 * at[i - 1] + s[i]

Adds(at, s, n) == at = [i \in 0 .. n |-> ValueAt(at, s, i)]

\* The digits of s are added one after the other.
LEMMA AddsExists ==
  ASSUME NEW s, NEW n \in Nat
  PROVE  \E at : Adds(at, s, n)
<1> DEFINE Good(k) == \E at : Adds(at, s, k)
           Bad == {k \in Nat : ~Good(k)}
<1>1. SUFFICES ASSUME Bad # {} PROVE FALSE
  OBVIOUS
<1>2. Bad \subseteq Nat /\ \A k \in Nat : k \notin Bad => Good(k)
  OBVIOUS
<1>3. \A k \in Bad : ~Good(k)
  OBVIOUS
<1> HIDE DEF Bad
<1>4. PICK k \in Bad : \A j \in Bad : k <= j
  BY <1>1, <1>2, Smallest
<1>5. k \in Nat
  BY <1>2
<1>6. CASE k = 0
  <2>1. PICK x : x = 0
    OBVIOUS
  <2> DEFINE at == [i \in 0 .. 0 |-> x]
  <2>2. Adds(at, s, 0)
    BY <2>1 DEF Adds, ValueAt
  <2>3. QED
    BY <1>3, <1>4, <1>6, <2>2
<1>7. CASE k # 0
  <2>1. k - 1 \in Nat /\ ~(k <= k - 1)
    BY <1>5, <1>7
  <2>2. Good(k - 1)
    BY <1>2, <1>4, <2>1
  <2>3. PICK g : Adds(g, s, k - 1)
    BY <2>2
  <2>4. \A i \in 0 .. k - 1 : g[i] = ValueAt(g, s, i)
    BY <2>3 DEF Adds
  <2>5. PICK x : x = 10 * g[k - 1] + s[k]
    OBVIOUS
  <2> DEFINE at == [i \in 0 .. k |-> IF i = k THEN x ELSE g[i]]
  <2>6. /\ at[k] = x /\ \A i \in 0 .. k - 1 : at[i] = g[i]
        /\ at = [i \in 0 .. k |-> at[i]]
    BY <1>5
  <2> HIDE DEF at
  <2>7. \A i \in 0 .. k : at[i] = ValueAt(at, s, i)
    <3>1. SUFFICES ASSUME NEW i \in 0 .. k PROVE at[i] = ValueAt(at, s, i)
      OBVIOUS
    <3>2. CASE i = k
      <4>1. k - 1 \in 0 .. k - 1
        BY <2>1
      <4>2. at[k - 1] = g[k - 1]
        BY <2>6, <4>1
      <4>3. QED
        BY <1>7, <2>5, <2>6, <3>2, <4>2 DEF ValueAt
    <3>3. CASE i # k
      <4>1. i \in 0 .. k - 1 /\ (i # 0 => i - 1 \in 0 .. k - 1)
        BY <1>5, <3>3
      <4>2. at[i] = g[i] /\ (i # 0 => at[i - 1] = g[i - 1])
        BY <2>6, <4>1
      <4>3. g[i] = ValueAt(g, s, i)
        BY <2>4, <4>1
      <4>4. QED
        BY <4>2, <4>3 DEF ValueAt
    <3>4. QED
      BY <3>2, <3>3
  <2>8. Adds(at, s, k)
    BY <2>6, <2>7 DEF Adds
  <2>9. QED
    BY <1>3, <1>4, <2>8
<1>8. QED
  BY <1>6, <1>7

\* The value is each time one digit longer.
LEMMA AddsFacts ==
  ASSUME NEW at, NEW s, NEW n \in Nat, Adds(at, s, n)
  PROVE  /\ at[0] = 0
         /\ \A i \in 1 .. n : at[i] = 10 * at[i - 1] + s[i]
<1>1. \A i \in 0 .. n : at[i] = ValueAt(at, s, i)
  BY DEF Adds
<1>2. 0 \in 0 .. n /\ \A i \in 1 .. n : i \in 0 .. n /\ i # 0
  OBVIOUS
<1>3. at[0] = 0
  BY <1>1, <1>2 DEF ValueAt
<1>4. \A i \in 1 .. n : at[i] = 10 * at[i - 1] + s[i]
  BY <1>1, <1>2 DEF ValueAt
<1>5. QED
  BY <1>3, <1>4

\* parse_const adds them all.
LEMMA ConstAdds ==
  ASSUME NEW s, NEW n \in Nat, n = Len(s.value)
  PROVE  \E at : Adds(at, s.value, n) /\ parse_const(s) = [type |-> s.type, bits |-> at[n]]
<1>1. PICK t : t = s.value
  OBVIOUS
<1>2. PICK f : Adds(f, t, n)
  BY AddsExists
<1>3. PICK g : g = CHOOSE at : Adds(at, t, n)
  OBVIOUS
<1>4. Adds(g, t, n)
  BY <1>2, <1>3
<1>5. parse_const(s) = [type |-> s.type, bits |-> (CHOOSE at : Adds(at, s.value, Len(s.value)))[Len(s.value)]]
  BY Zenon DEF parse_const, Adds, ValueAt
<1>6. QED
  BY <1>1, <1>3, <1>4, <1>5

\* Two sequences put one after the other.
LEMMA ConcatFacts ==
  ASSUME NEW s \in Seq(Nat), NEW t \in Seq(Nat)
  PROVE  /\ s \o t \in Seq(Nat) /\ Len(s) \in Nat /\ Len(t) \in Nat /\ Len(s \o t) \in Nat
         /\ Len(s \o t) = Len(s) + Len(t) /\ Len(s) <= Len(s \o t)
         /\ \A j \in 1 .. Len(s) : (s \o t)[j] = s[j]
         /\ \A j \in 1 .. Len(t) : /\ Len(s) + j \in 1 .. Len(s \o t)
                                  /\ (s \o t)[Len(s) + j] = t[j]
OBVIOUS

\* One element more.
LEMMA AppendFacts ==
  ASSUME NEW S, NEW s \in Seq(S), NEW x \in S
  PROVE  /\ Append(s, x) \in Seq(S) /\ Len(s) \in Nat /\ Len(Append(s, x)) = Len(s) + 1
         /\ Append(s, x)[Len(s) + 1] = x
         /\ \A j \in 1 .. Len(s) : Append(s, x)[j] = s[j]
OBVIOUS

\* A byte is a small number.
LEMMA ByteFacts ==
  ASSUME NEW c \in Byte
  PROVE  c \in Nat /\ c \in Int /\ 0 <= c /\ c <= 255
BY DEF Byte

\* What is written for a character is a sequence of characters.
LEMMA CharTyped ==
  ASSUME NEW c \in Byte
  PROVE  Char(c) \in Seq(Nat) /\ Char(c) = IF c < 32 \/ c = Backslash \/ c = Quote
                                            THEN Escaped(c) ELSE <<c>>
<1>1. c \div 16 \in Nat /\ c % 16 \in Nat
  BY ByteFacts
<1>2. \A x \in Nat : HexChar(x) \in Nat
  BY DEF HexChar
<1>3. Escaped(c) \in Seq(Nat)
  BY <1>1, <1>2 DEF Escaped, Backslash
<1>4. <<c>> \in Seq(Nat)
  BY ByteFacts
<1>5. QED
  BY <1>3, <1>4 DEF Char

\* So is what is written for a string.
LEMMA WritesTyped ==
  ASSUME NEW s \in Strings, NEW w, NEW n \in Nat, n <= Len(s), Writes(w, s, n)
  PROVE  \A k \in 0 .. n : w[k] \in Seq(Nat)
<1> DEFINE Bad == {k \in 0 .. n : w[k] \notin Seq(Nat)}
<1>1. SUFFICES ASSUME Bad # {} PROVE FALSE
  OBVIOUS
<1>2. Bad \subseteq Nat /\ Bad \subseteq 0 .. n
      /\ \A k \in 0 .. n : k \notin Bad => w[k] \in Seq(Nat)
  OBVIOUS
<1>3. \A k \in Bad : w[k] \notin Seq(Nat)
  OBVIOUS
<1> HIDE DEF Bad
<1>4. PICK k \in Bad : \A j \in Bad : k <= j
  BY <1>1, <1>2, Smallest
<1>5. k \in 0 .. n
  BY <1>2
<1>6. w[0] = <<>> /\ \A i \in 1 .. n : w[i] = w[i - 1] \o Char(s[i])
  BY WritesFacts, Zenon
<1>7. <<>> \in Seq(Nat)
  OBVIOUS
<1>8. k # 0
  BY <1>3, <1>6, <1>7
<1>9. k - 1 \in 0 .. n /\ k \in 1 .. n /\ ~(k <= k - 1)
  BY <1>5, <1>8
<1>10. w[k - 1] \in Seq(Nat)
  BY <1>2, <1>4, <1>9
<1>11. s[k] \in Byte
  BY <1>9 DEF Strings
<1>12. Char(s[k]) \in Seq(Nat)
  BY <1>11, CharTyped
<1>13. w[k] \in Seq(Nat)
  <2>1. w[k] = w[k - 1] \o Char(s[k])
    BY <1>6, <1>9
  <2>2. QED
    BY <1>10, <1>12, <2>1, ConcatFacts, Zenon
<1>14. QED
  BY <1>3, <1>13

\* What was written before stays in front.
LEMMA WritesPrefix ==
  ASSUME NEW s \in Strings, NEW w, NEW n \in Nat, n <= Len(s), Writes(w, s, n)
  PROVE  \A k \in 0 .. n : /\ Len(w[k]) <= Len(w[n])
                           /\ \A j \in 1 .. Len(w[k]) : w[n][j] = w[k][j]
<1> DEFINE Good(k) == /\ Len(w[k]) <= Len(w[n])
                      /\ \A j \in 1 .. Len(w[k]) : w[n][j] = w[k][j]
           Bad == {d \in 0 .. n : ~Good(n - d)}
<1>1. ASSUME Bad # {} PROVE FALSE
  <2>1. Bad \subseteq Nat /\ Bad \subseteq 0 .. n
        /\ \A d \in 0 .. n : d \notin Bad => Good(n - d)
    OBVIOUS
  <2>2. \A d \in Bad : ~Good(n - d)
    OBVIOUS
  <2> HIDE DEF Bad
  <2>3. PICK d \in Bad : \A j \in Bad : d <= j
    BY <1>1, <2>1, Smallest
  <2>4. d \in 0 .. n
    BY <2>1
  <2>5. d # 0
    <3>1. Good(n) /\ n - 0 = n
      BY WritesTyped
    <3>2. QED
      BY <2>2, <3>1
  <2>6. PICK k : k = n - d
    OBVIOUS
  <2>7. k \in 0 .. n /\ k + 1 \in 1 .. n /\ k + 1 \in 0 .. n
        /\ d - 1 \in 0 .. n /\ n - (d - 1) = k + 1 /\ ~(d <= d - 1)
    BY <2>4, <2>5, <2>6
  <2>8. Good(k + 1)
    BY <2>1, <2>3, <2>7
  <2>9. w[k + 1] = w[k] \o Char(s[k + 1])
    <3>1. \A i \in 1 .. n : w[i] = w[i - 1] \o Char(s[i])
      BY WritesFacts, Zenon
    <3>2. (k + 1) - 1 = k
      BY <2>7
    <3>3. w[k + 1] = w[(k + 1) - 1] \o Char(s[k + 1])
      BY <2>7, <3>1, Zenon
    <3>4. QED
      BY <3>2, <3>3, Zenon
  <2>10. s[k + 1] \in Byte
    BY <2>7 DEF Strings
  <2>11. Char(s[k + 1]) \in Seq(Nat)
    BY <2>10, CharTyped
  <2>12. w[k] \in Seq(Nat)
    BY <2>7, WritesTyped
  <2>13. /\ Len(w[k]) \in Nat /\ Len(w[k]) <= Len(w[k + 1]) /\ Len(w[k + 1]) \in Nat
         /\ \A j \in 1 .. Len(w[k]) : w[k + 1][j] = w[k][j]
    <3>1. PICK a : a = w[k]
      OBVIOUS
    <3>2. PICK b : b = Char(s[k + 1])
      OBVIOUS
    <3>3. a \in Seq(Nat) /\ b \in Seq(Nat) /\ w[k + 1] = a \o b
      BY <2>9, <2>11, <2>12, <3>1, <3>2, Zenon
    <3>4. /\ Len(a) \in Nat /\ Len(a) <= Len(a \o b) /\ Len(a \o b) \in Nat
          /\ \A j \in 1 .. Len(a) : (a \o b)[j] = a[j]
      BY <3>3, ConcatFacts, Zenon
    <3>5. QED
      BY <3>1, <3>3, <3>4, Zenon
  <2>14. w[n] \in Seq(Nat)
    <3>1. n \in 0 .. n
      OBVIOUS
    <3>2. QED
      BY <3>1, WritesTyped
  <2>15. Len(w[n]) \in Nat
    BY <2>14
  <2>16. Good(k)
    BY <2>8, <2>13, <2>15
  <2>17. QED
    BY <2>2, <2>6, <2>16
<1>2. \A d \in 0 .. n : Good(n - d)
  BY <1>1
<1>3. ASSUME NEW k \in 0 .. n PROVE Good(k)
  <2>1. n - k \in 0 .. n /\ n - (n - k) = k
    OBVIOUS
  <2>2. QED
    BY <1>2, <2>1
<1>4. QED
  BY <1>3

State(out, left, code) == [out |-> out, left |-> left, code |-> code]

\* The fields of a state.
LEMMA StateFacts ==
  ASSUME NEW o, NEW l, NEW k
  PROVE  /\ State(o, l, k).out = o /\ State(o, l, k).left = l /\ State(o, l, k).code = k
BY DEF State

\* A plain character is read as itself.
LEMMA ReadPlain ==
  ASSUME NEW o, NEW k, NEW c \in Int, c # Backslash
  PROVE  Read(State(o, 0, k), c) = State(Append(o, c), 0, k)
<1>1. PICK acc : acc = State(o, 0, k)
  OBVIOUS
<1>2. acc.left = 0 /\ acc.out = o /\ acc.code = k
  BY <1>1, StateFacts
<1>3. Read(acc, c) = [out |-> Append(acc.out, c), left |-> 0, code |-> acc.code]
  BY <1>2 DEF Read
<1>4. QED
  BY <1>1, <1>2, <1>3, Zenon DEF State

\* An escape starts with a backslash and a character that does not count.
LEMMA ReadStart ==
  ASSUME NEW o, NEW k
  PROVE  Read(Read(State(o, 0, k), Backslash), 117) = State(o, 4, 0)
<1>1. Read(State(o, 0, k), Backslash) = State(o, 5, k)
  <2>1. PICK acc : acc = State(o, 0, k)
    OBVIOUS
  <2>2. acc.left = 0 /\ acc.out = o /\ acc.code = k
    BY <2>1, StateFacts
  <2>3. Read(acc, Backslash) = [out |-> acc.out, left |-> 5, code |-> acc.code]
    BY <2>2 DEF Read
  <2>4. QED
    BY <2>1, <2>2, <2>3, Zenon DEF State
<1>2. Read(State(o, 5, k), 117) = State(o, 4, 0)
  <2>1. PICK acc : acc = State(o, 5, k)
    OBVIOUS
  <2>2. acc.left = 5 /\ acc.out = o
    BY <2>1, StateFacts
  <2>3. Read(acc, 117) = [out |-> acc.out, left |-> 4, code |-> 0]
    BY <2>2 DEF Read
  <2>4. QED
    BY <2>1, <2>2, <2>3, Zenon DEF State
<1>3. QED
  BY <1>1, <1>2, Zenon

\* The value of a hexadecimal digit.
LEMMA HexDigit ==
  ASSUME NEW x \in 0 .. 15
  PROVE  HexChar(x) \in Nat /\ HexValue(HexChar(x)) = x
BY DEF HexChar, HexValue

\* One of the digits but the last.
LEMMA ReadDigit ==
  ASSUME NEW o, NEW k \in Int, NEW l \in 2 .. 4, NEW x \in 0 .. 15
  PROVE  Read(State(o, l, k), HexChar(x)) = State(o, l - 1, k * 16 + x)
<1>1. HexValue(HexChar(x)) = x
  BY HexDigit
<1>2. PICK c : c = HexChar(x)
  OBVIOUS
<1>3. l > 1 /\ l # 5 /\ HexValue(c) = x
  BY <1>1, <1>2
<1>4. Read(State(o, l, k), c) = State(o, l - 1, k * 16 + HexValue(c))
  <2>1. PICK acc : acc = State(o, l, k)
    OBVIOUS
  <2>2. acc.left = l /\ acc.code = k /\ acc.out = o
    BY <2>1, StateFacts
  <2>3. Read(acc, c) = [out |-> acc.out, left |-> l - 1, code |-> k * 16 + HexValue(c)]
    BY <1>3, <2>2 DEF Read
  <2>4. QED
    BY <2>1, <2>2, <2>3, Zenon DEF State
<1>5. QED
  BY <1>2, <1>3, <1>4, Zenon

\* The last one.
LEMMA ReadLast ==
  ASSUME NEW o, NEW k \in Int, NEW x \in 0 .. 15
  PROVE  Read(State(o, 1, k), HexChar(x)) = State(Append(o, k * 16 + x), 0, k)
<1>1. HexValue(HexChar(x)) = x
  BY HexDigit
<1>2. PICK c : c = HexChar(x)
  OBVIOUS
<1>3. Read(State(o, 1, k), c) = State(Append(o, k * 16 + HexValue(c)), 0, k)
  <2>1. PICK acc : acc = State(o, 1, k)
    OBVIOUS
  <2>2. acc.left = 1 /\ acc.code = k /\ acc.out = o
    BY <2>1, StateFacts
  <2>3. Read(acc, c) = [out |-> Append(acc.out, acc.code * 16 + HexValue(c)), left |-> 0,
                        code |-> acc.code]
    BY <2>2 DEF Read
  <2>4. QED
    BY <2>1, <2>2, <2>3, Zenon DEF State
<1>4. QED
  BY <1>1, <1>2, <1>3, Zenon

\* The six characters of an escape.
Six(acc, hi, lo) ==
  Read(Read(Read(Read(Read(Read(acc, Backslash), 117), 48), 48), HexChar(hi)), HexChar(lo))

\* An escape is read as its character.
LEMMA ReadEscape ==
  ASSUME NEW o, NEW k, NEW hi \in 0 .. 15, NEW lo \in 0 .. 15
  PROVE  Six(State(o, 0, k), hi, lo) = State(Append(o, hi * 16 + lo), 0, hi)
<1>1. Read(Read(State(o, 0, k), Backslash), 117) = State(o, 4, 0)
  BY ReadStart
<1>2. HexChar(0) = 48 /\ 0 \in 0 .. 15
  BY DEF HexChar
<1>3. Read(State(o, 4, 0), 48) = State(o, 3, 0)
  <2>1. Read(State(o, 4, 0), HexChar(0)) = State(o, 4 - 1, 0 * 16 + 0)
    <3>1. 4 \in 2 .. 4 /\ 0 \in Int
      OBVIOUS
    <3>2. QED
      BY <1>2, <3>1, ReadDigit, Zenon
  <2>2. 4 - 1 = 3 /\ 0 * 16 + 0 = 0
    OBVIOUS
  <2>3. QED
    BY <1>2, <2>1, <2>2, Zenon
<1>4. Read(State(o, 3, 0), 48) = State(o, 2, 0)
  <2>1. Read(State(o, 3, 0), HexChar(0)) = State(o, 3 - 1, 0 * 16 + 0)
    <3>1. 3 \in 2 .. 4 /\ 0 \in Int
      OBVIOUS
    <3>2. QED
      BY <1>2, <3>1, ReadDigit, Zenon
  <2>2. 3 - 1 = 2 /\ 0 * 16 + 0 = 0
    OBVIOUS
  <2>3. QED
    BY <1>2, <2>1, <2>2, Zenon
<1>5. Read(State(o, 2, 0), HexChar(hi)) = State(o, 1, hi)
  <2>1. Read(State(o, 2, 0), HexChar(hi)) = State(o, 2 - 1, 0 * 16 + hi)
    <3>1. 2 \in 2 .. 4 /\ 0 \in Int
      OBVIOUS
    <3>2. QED
      BY <3>1, ReadDigit, Zenon
  <2>2. 2 - 1 = 1 /\ 0 * 16 + hi = hi
    OBVIOUS
  <2>3. QED
    BY <2>1, <2>2, Zenon
<1>6. Read(State(o, 1, hi), HexChar(lo)) = State(Append(o, hi * 16 + lo), 0, hi)
  <2>1. hi \in Int
    OBVIOUS
  <2>2. QED
    BY <2>1, ReadLast, Zenon
<1>7. QED
  BY <1>1, <1>3, <1>4, <1>5, <1>6, Zenon DEF Six

\* A byte and its two digits.
LEMMA Digits ==
  ASSUME NEW c \in Byte
  PROVE  c \div 16 \in 0 .. 15 /\ c % 16 \in 0 .. 15 /\ c = (c \div 16) * 16 + (c % 16)
BY DEF Byte

\* The six characters of e, from place p + 1 of s on.
SixAt(s, p, hi, lo) ==
  /\ s[p + 1] = Backslash /\ s[p + 2] = 117 /\ s[p + 3] = 48 /\ s[p + 4] = 48
  /\ s[p + 5] = HexChar(hi) /\ s[p + 6] = HexChar(lo)

\* at reads s, which has the six characters of an escape from p + 1 on.
ReadsSix(at, s, n, p, hi, lo) ==
  Reading(at, s, n) /\ p + 6 <= n /\ SixAt(s, p, hi, lo)

\* Six characters are read one after the other.
LEMMA SixReads ==
  ASSUME NEW n \in Nat, NEW p \in Nat, NEW at, NEW s, NEW hi, NEW lo,
         ReadsSix(at, s, n, p, hi, lo)
  PROVE  at[p + 6] = Six(at[p], hi, lo)
<1> USE DEF ReadsSix
<1>0. \A i \in 1 .. n : at[i] = Read(at[i - 1], s[i])
  BY ReadingFacts
<1>1. /\ p + 1 \in 1 .. n /\ p + 2 \in 1 .. n /\ p + 3 \in 1 .. n /\ p + 4 \in 1 .. n
      /\ p + 5 \in 1 .. n /\ p + 6 \in 1 .. n
      /\ (p + 1) - 1 = p /\ (p + 2) - 1 = p + 1 /\ (p + 3) - 1 = p + 2
      /\ (p + 4) - 1 = p + 3 /\ (p + 5) - 1 = p + 4 /\ (p + 6) - 1 = p + 5
  OBVIOUS
<1>2. /\ at[p + 1] = Read(at[(p + 1) - 1], s[p + 1])
      /\ at[p + 2] = Read(at[(p + 2) - 1], s[p + 2])
      /\ at[p + 3] = Read(at[(p + 3) - 1], s[p + 3])
      /\ at[p + 4] = Read(at[(p + 4) - 1], s[p + 4])
      /\ at[p + 5] = Read(at[(p + 5) - 1], s[p + 5])
      /\ at[p + 6] = Read(at[(p + 6) - 1], s[p + 6])
  BY <1>0, <1>1, Zenon
<1>3. /\ at[p + 1] = Read(at[p], Backslash) /\ at[p + 2] = Read(at[p + 1], 117)
      /\ at[p + 3] = Read(at[p + 2], 48) /\ at[p + 4] = Read(at[p + 3], 48)
      /\ at[p + 5] = Read(at[p + 4], HexChar(hi)) /\ at[p + 6] = Read(at[p + 5], HexChar(lo))
  BY <1>1, <1>2, Zenon DEF SixAt
<1>4. QED
  BY <1>3 DEF Six

\* The characters of an escape.
LEMMA EscapeChars ==
  ASSUME NEW c \in Byte, c < 32 \/ c = Backslash \/ c = Quote
  PROVE  \E hi \in 0 .. 15, lo \in 0 .. 15 :
           /\ c = hi * 16 + lo
           /\ Char(c) = <<Backslash, 117, 48, 48, HexChar(hi), HexChar(lo)>>
<1>1. PICK hi \in 0 .. 15, lo \in 0 .. 15 : hi = c \div 16 /\ lo = c % 16 /\ c = hi * 16 + lo
  BY Digits, Zenon
<1>2. Char(c) = <<Backslash, 117, 48, 48, HexChar(hi), HexChar(lo)>>
  BY <1>1, Zenon DEF Char, Escaped
<1>3. QED
  BY <1>1, <1>2, Zenon

\* The escape e, from place p + 1 of s on.
Sixes(e, s, p, hi, lo) ==
  /\ e = <<Backslash, 117, 48, 48, HexChar(hi), HexChar(lo)>>
  /\ \A j \in 1 .. Len(e) : s[p + j] = e[j]

\* The places of six characters.
LEMMA SixChars ==
  ASSUME NEW hi, NEW lo, NEW e, NEW s, NEW p \in Nat
  PROVE  Sixes(e, s, p, hi, lo) => Len(e) = 6 /\ SixAt(s, p, hi, lo)
<1> USE DEF Sixes
<1> HAVE Sixes(e, s, p, hi, lo)
<1>1. /\ Len(e) = 6 /\ e[1] = Backslash /\ e[2] = 117 /\ e[3] = 48 /\ e[4] = 48
      /\ e[5] = HexChar(hi) /\ e[6] = HexChar(lo)
  OBVIOUS
<1>2. \A j \in 1 .. 6 : s[p + j] = e[j]
  BY <1>1
<1>3. /\ 1 \in 1 .. 6 /\ 2 \in 1 .. 6 /\ 3 \in 1 .. 6 /\ 4 \in 1 .. 6 /\ 5 \in 1 .. 6
      /\ 6 \in 1 .. 6
  OBVIOUS
<1>4. QED
  BY <1>1, <1>2, <1>3 DEF SixAt

\* at has read o, and s continues with what is written for c.
ReadsChar(at, s, n, p, o, k, c) ==
  /\ Reading(at, s, n) /\ at[p] = State(o, 0, k) /\ p + Len(Char(c)) <= n
  /\ \A j \in 1 .. Len(Char(c)) : s[p + j] = Char(c)[j]

\* at has then read c too.
HasRead(at, p, o, c) == \E d : at[p + Len(Char(c))] = State(Append(o, c), 0, d)

\* What was written for a character is read as that character.
LEMMA CharRead ==
  ASSUME NEW n \in Nat, NEW p \in Nat, NEW c \in Byte, NEW at, NEW s, NEW o, NEW k,
         ReadsChar(at, s, n, p, o, k, c)
  PROVE  HasRead(at, p, o, c)
<1> USE DEF ReadsChar, HasRead
<1>0. PICK e : e = Char(c)
  OBVIOUS
<1>1. \A i \in 1 .. n : at[i] = Read(at[i - 1], s[i])
  BY ReadingFacts
<1>2. CASE c < 32 \/ c = Backslash \/ c = Quote
  <2>1. PICK hi \in 0 .. 15, lo \in 0 .. 15 :
          /\ c = hi * 16 + lo
          /\ Char(c) = <<Backslash, 117, 48, 48, HexChar(hi), HexChar(lo)>>
    BY <1>2, EscapeChars, Zenon
  <2>2. \A j \in 1 .. Len(e) : s[p + j] = e[j]
    BY <1>0, Zenon
  <2>3. Len(e) = 6 /\ SixAt(s, p, hi, lo)
    <3>1. e = <<Backslash, 117, 48, 48, HexChar(hi), HexChar(lo)>>
      BY <1>0, <2>1, Zenon
    <3>2. QED
      <4>1. Sixes(e, s, p, hi, lo)
        BY <2>2, <3>1, Zenon DEF Sixes
      <4>2. QED
        BY <4>1, SixChars, Zenon
  <2>4. p + 6 <= n
    BY <1>0, <2>3, Zenon
  <2>5. at[p + 6] = Six(at[p], hi, lo)
    <3>1. ReadsSix(at, s, n, p, hi, lo)
      BY <2>3, <2>4, Zenon DEF ReadsSix
    <3>2. QED
      BY <3>1, SixReads, SMT
  <2>6. Six(State(o, 0, k), hi, lo) = State(Append(o, c), 0, hi)
    <3>1. c = hi * 16 + lo
      BY <2>1, Zenon
    <3>2. Six(State(o, 0, k), hi, lo) = State(Append(o, hi * 16 + lo), 0, hi)
      BY ReadEscape
    <3>3. QED
      BY <3>1, <3>2, Zenon
  <2>7. at[p + Len(Char(c))] = State(Append(o, c), 0, hi)
    BY <1>0, <2>3, <2>5, <2>6, Zenon
  <2>8. QED
    BY <2>7, Zenon
<1>3. CASE ~(c < 32 \/ c = Backslash \/ c = Quote)
  <2>1. e = <<c>>
    BY <1>0, <1>3 DEF Char
  <2>2. Len(e) = 1 /\ e[1] = c /\ 1 \in 1 .. 1
    BY <2>1
  <2>3. s[p + 1] = c /\ p + 1 <= n
    BY <1>0, <2>2, Zenon
  <2>4. p + 1 \in 1 .. n /\ (p + 1) - 1 = p
    BY <2>3
  <2>5. at[p + 1] = Read(State(o, 0, k), c)
    BY <1>1, <2>3, <2>4, Zenon
  <2>6. c \in Int /\ c # Backslash
    <3>1. c \in Int
      BY ByteFacts
    <3>2. QED
      BY <1>3, <3>1, Zenon
  <2>7. Read(State(o, 0, k), c) = State(Append(o, c), 0, k)
    BY <2>6, ReadPlain, Zenon
  <2>8. at[p + Len(Char(c))] = State(Append(o, c), 0, k)
    BY <1>0, <2>2, <2>5, <2>7, Zenon
  <2>9. QED
    BY <2>8, Zenon
<1>4. QED
  BY <1>2, <1>3, Zenon

\* Sequences with the same elements are the same.
LEMMA SameSeq ==
  ASSUME NEW S, NEW s \in Seq(S), NEW T, NEW t \in Seq(T), Len(s) = Len(t),
         \A j \in 1 .. Len(s) : s[j] = t[j]
  PROVE  s = t
OBVIOUS

\* A string that was written is read as it was.
LEMMA StringRead ==
  ASSUME NEW s \in Strings
  PROVE  parse_string(write_escaped_string_slice(s)) = s
<1>0. Len(s) \in Nat
  BY DEF Strings
<1>1. PICK n \in Nat : n = Len(s)
  BY <1>0
<1>2. PICK w : Writes(w, s, n) /\ write_escaped_string_slice(s) = w[n]
  BY <1>1, WriteWrites
<1>3. PICK t : t = w[n]
  OBVIOUS
<1>4. n <= Len(s) /\ \A k \in 0 .. n : w[k] \in Seq(Nat)
  <2>1. n <= Len(s)
    BY <1>1
  <2>2. QED
    BY <1>2, <2>1, WritesTyped
<1>5. t \in Seq(Nat) /\ n \in 0 .. n
  BY <1>3, <1>4
<1>6. PICK m \in Nat : m = Len(t)
  BY <1>5
<1>7. PICK r : Reading(r, t, m) /\ parse_string(t) = r[m].out
  BY <1>6, ParseReads
<1>8. \A k \in 0 .. n : Len(w[k]) <= m /\ \A j \in 1 .. Len(w[k]) : t[j] = w[k][j]
  <2>1. \A k \in 0 .. n : Len(w[k]) <= Len(w[n]) /\ \A j \in 1 .. Len(w[k]) : w[n][j] = w[k][j]
    BY <1>2, <1>4, WritesPrefix
  <2>2. QED
    BY <1>3, <1>6, <2>1, Zenon
<1> DEFINE Begins(k, o) == o \in Seq(Int) /\ Len(o) = k /\ \A j \in 1 .. k : o[j] = s[j]
           Good(k) == \E o, d : Begins(k, o) /\ r[Len(w[k])] = State(o, 0, d)
           Bad == {k \in 0 .. n : ~Good(k)}
<1>9. ASSUME Bad # {} PROVE FALSE
  <2>1. Bad \subseteq Nat /\ Bad \subseteq 0 .. n
        /\ \A d \in 0 .. n : d \notin Bad => Good(d)
    OBVIOUS
  <2>2. \A d \in Bad : ~Good(d)
    OBVIOUS
  <2> HIDE DEF Bad
  <2>3. PICK k \in Bad : \A j \in Bad : k <= j
    BY <1>9, <2>1, Smallest
  <2>4. k \in 0 .. n
    BY <2>1
  <2>5. k # 0
    <3>1. w[0] = <<>>
      BY <1>2, WritesFacts
    <3>2. Len(w[0]) = 0
      BY <3>1
    <3>3. r[0] = State(<<>>, 0, 0)
      BY <1>7, ReadingFacts DEF Nothing, State
    <3>4. Begins(0, <<>>)
      OBVIOUS
    <3>5. Good(0)
      BY <3>2, <3>3, <3>4, Zenon
    <3>6. QED
      BY <2>2, <3>5, Zenon
  <2>6. PICK i : i = k - 1
    OBVIOUS
  <2>7. i \in 0 .. n /\ k \in 1 .. n /\ k = i + 1 /\ i \in Nat /\ ~(k <= i)
    BY <2>4, <2>5, <2>6
  <2>8. Good(i)
    BY <2>1, <2>3, <2>7
  <2>9. PICK c : c = s[k]
    OBVIOUS
  <2>10. c \in Byte
    BY <1>1, <2>7, <2>9 DEF Strings
  <2>11. PICK p : p = Len(w[i])
    OBVIOUS
  <2>12. w[k] = w[i] \o Char(c)
    <3>1. \A l \in 1 .. n : w[l] = w[l - 1] \o Char(s[l])
      BY <1>2, WritesFacts
    <3>2. QED
      BY <2>6, <2>7, <2>9, <3>1, Zenon
  <2>13. Char(c) \in Seq(Nat) /\ w[i] \in Seq(Nat)
    BY <1>4, <2>7, <2>10, CharTyped, Zenon
  <2>14. p \in Nat /\ Len(Char(c)) \in Nat /\ Len(w[k]) = p + Len(Char(c))
         /\ \A j \in 1 .. Len(Char(c)) : p + j \in 1 .. Len(w[k]) /\ w[k][p + j] = Char(c)[j]
    BY <2>11, <2>12, <2>13, ConcatFacts
  <2>15. p + Len(Char(c)) <= m /\ \A j \in 1 .. Len(Char(c)) : t[p + j] = Char(c)[j]
    BY <1>8, <2>4, <2>14, Zenon
  <2>16. PICK o, d : Begins(i, o) /\ r[p] = State(o, 0, d)
    BY <2>8, <2>11, Zenon
  <2>17. PICK q : q = p + Len(Char(c))
    OBVIOUS
  <2>18. PICK e : r[q] = State(Append(o, c), 0, e)
    <3>1. p \in Nat /\ Reading(r, t, m) /\ p + Len(Char(c)) <= m
      BY <1>7, <2>14, <2>15, Zenon
    <3>2. \E e : r[p + Len(Char(c))] = State(Append(o, c), 0, e)
      <4>1. r[p] = State(o, 0, d)
        BY <2>16
      <4>2. QED
        <5>1. ReadsChar(r, t, m, p, o, d, c)
          BY <2>15, <3>1, <4>1, Zenon DEF ReadsChar
        <5>2. HasRead(r, p, o, c)
          <6>1. m \in Nat /\ p \in Nat
            BY <1>6, <3>1
          <6>2. QED
            BY <2>10, <5>1, <6>1, CharRead, SMT
        <5>3. QED
          BY <5>2, Zenon DEF HasRead
    <3>3. QED
      BY <2>17, <3>2, Zenon
  <2>19. Begins(k, Append(o, c))
    <3>1. PICK f : f = Append(o, c)
      OBVIOUS
    <3>2. o \in Seq(Int) /\ Len(o) = i /\ \A j \in 1 .. i : o[j] = s[j]
      BY <2>16
    <3>3. c \in Int
      BY <2>10, ByteFacts
    <3>4. f \in Seq(Int) /\ Len(f) = i + 1 /\ f[i + 1] = c /\ \A j \in 1 .. i : f[j] = o[j]
      BY <3>1, <3>2, <3>3, AppendFacts
    <3>5. \A j \in 1 .. k : f[j] = s[j]
      BY <2>7, <2>9, <3>2, <3>4
    <3>6. QED
      BY <2>7, <3>1, <3>4, <3>5, Zenon
  <2>20. Good(k)
    BY <2>14, <2>17, <2>18, <2>19, Zenon
  <2>21. QED
    BY <2>2, <2>20, Zenon
<1>10. Good(n)
  BY <1>5, <1>9
<1>11. PICK o, d : Begins(n, o) /\ r[m] = State(o, 0, d)
  BY <1>3, <1>6, <1>10, Zenon
<1>12. o = s
  <2>1. s \in Seq(Byte)
    BY DEF Strings
  <2>2. o \in Seq(Int) /\ Len(o) = Len(s) /\ \A j \in 1 .. Len(o) : o[j] = s[j]
    BY <1>1, <1>11
  <2>3. QED
    BY <2>1, <2>2, SameSeq
<1>13. r[m].out = s
  BY <1>11, <1>12 DEF State
<1>14. QED
  BY <1>2, <1>3, <1>7, <1>13

-----------------------------------------------------------------------------
(* What a lookup finds.                                                    *)

\* A bounded set of natural numbers has a largest one.
LEMMA Largest ==
  ASSUME NEW n \in Nat, NEW S, S \subseteq 0 .. n, S # {}
  PROVE  \E x \in S : \A y \in S : y <= x
<1> DEFINE D == {d \in 0 .. n : n - d \in S}
<1>1. D \subseteq Nat
  OBVIOUS
<1>2. PICK z \in S : TRUE
  OBVIOUS
<1>3. n - z \in D
  OBVIOUS
<1>4. \A d \in D : d \in 0 .. n /\ n - d \in S
  OBVIOUS
<1>5. \A y \in S : y \in 0 .. n /\ n - y \in D
  OBVIOUS
<1> HIDE DEF D
<1>6. PICK d \in D : \A e \in D : d <= e
  <2>1. D # {}
    BY <1>3
  <2>2. QED
    BY <1>1, <2>1, Smallest, Zenon
<1>7. d \in 0 .. n /\ n - d \in S
  BY <1>4
<1>8. ASSUME NEW y \in S PROVE y <= n - d
  <2>1. y \in 0 .. n /\ n - y \in D
    BY <1>5
  <2>2. d <= n - y
    BY <1>6, <2>1, Zenon
  <2>3. QED
    BY <1>7, <2>1, <2>2
<1>9. QED
  BY <1>7, <1>8, Zenon

\* The modules before a command.
ModulesBefore(s, p) == {i \in 1 .. p - 1 : s[i].type = "module"}

\* m is the last of the modules before p.
LastIs(s, p, m) ==
  /\ m \in ModulesBefore(s, p)
  /\ \A k \in ModulesBefore(s, p) : k <= m

\* LastModule is the last one.
LEMMA LastModuleIs ==
  ASSUME NEW s, NEW p \in Nat \ {0}, s[p].type # "module"
  PROVE  \/ ModulesBefore(s, p) = {} /\ LastModule(s, p) = None
         \/ LastIs(s, p, LastModule(s, p))
<1> DEFINE B == {j \in 1 .. p : s[j].type = "module"}
<1>1. B = ModulesBefore(s, p)
  <2>1. ASSUME NEW j PROVE j \in B <=> j \in ModulesBefore(s, p)
    <3>1. j \in 1 .. p /\ j # p <=> j \in 1 .. p - 1
      OBVIOUS
    <3>2. QED
      BY <3>1 DEF ModulesBefore
  <2>2. QED
    BY <2>1
<1>2. LastModule(s, p) = IF B = {} THEN None ELSE CHOOSE j \in B : \A k \in B : k <= j
  BY Zenon DEF LastModule
<1>3. B \subseteq 0 .. p
  OBVIOUS
<1> HIDE DEF B
<1>4. CASE B = {}
  BY <1>1, <1>2, <1>4, Zenon
<1>5. CASE B # {}
  <2>1. \E x \in B : \A y \in B : y <= x
    BY <1>3, <1>5, Largest
  <2>2. PICK m : m = CHOOSE j \in B : \A k \in B : k <= j
    OBVIOUS
  <2>3. m \in B /\ \A k \in B : k <= m
    BY <2>1, <2>2, Zenon
  <2>4. LastIs(s, p, m)
    BY <1>1, <2>3, Zenon DEF LastIs
  <2>5. QED
    BY <1>2, <1>5, <2>2, <2>4, Zenon
<1>6. QED
  BY <1>4, <1>5, Zenon

\* What a lookup gives.
FoundIs(b, name, r) ==
  \/ Hits(b, name) = {} /\ r = None
  \/ \E i \in MayFind(b, name) : r = b[i].index

\* A binding that heads the chain of the name, and the last one of the name.
Leads(b, name, i) == \A j \in Chain(b, name) : i <= j
LastHit(b, name, i) == \A j \in Hits(b, name) : j <= i

\* What a lookup may find is a binding of the name.
LEMMA MayFindHits ==
  ASSUME NEW b, NEW name, NEW i \in MayFind(b, name)
  PROVE  i \in Hits(b, name)
<1>1. PICK H : H = Hits(b, name)
  OBVIOUS
<1>2. PICK head : head = {k \in H : \A j \in Chain(b, name) : k <= j}
  OBVIOUS
<1>3. PICK last : last = {k \in H : \A j \in H : j <= k}
  OBVIOUS
<1>4. MayFind(b, name) = IF Cardinality(DOMAIN b) > INITIAL_HASH_CAPACITY THEN H
                         ELSE IF head # {} THEN head ELSE last
  BY <1>1, <1>2, <1>3, Zenon DEF MayFind
<1>5. head \subseteq H /\ last \subseteq H
  BY <1>2, <1>3, Zenon
<1>6. i \in H
  BY <1>4, <1>5, Zenon
<1>7. QED
  BY <1>1, <1>6, Zenon

\* In a table without a resize a lookup finds the head of the chain, when it has
\* the name, and else the last binding of the name.
LEMMA SmallTable ==
  ASSUME NEW b, NEW name, ~(Cardinality(DOMAIN b) > INITIAL_HASH_CAPACITY),
         NEW i \in MayFind(b, name)
  PROVE  \/ Leads(b, name, i)
         \/ LastHit(b, name, i) /\ \A k \in Hits(b, name) : ~Leads(b, name, k)
<1>1. PICK head : head = {k \in Hits(b, name) : \A j \in Chain(b, name) : k <= j}
  OBVIOUS
<1>2. PICK last : last = {k \in Hits(b, name) : \A j \in Hits(b, name) : j <= k}
  OBVIOUS
<1>3. MayFind(b, name) = IF head # {} THEN head ELSE last
  BY <1>1, <1>2, Zenon DEF MayFind
<1>4. CASE head # {}
  <2>1. i \in head
    BY <1>3, <1>4, Zenon
  <2>2. QED
    BY <1>1, <2>1, Zenon DEF Leads
<1>5. CASE head = {}
  <2>1. i \in last
    BY <1>3, <1>5, Zenon
  <2>2. LastHit(b, name, i)
    BY <1>2, <2>1, Zenon DEF LastHit
  <2>3. \A k \in Hits(b, name) : ~Leads(b, name, k)
    BY <1>1, <1>5, Zenon DEF Leads
  <2>4. QED
    BY <2>2, <2>3, Zenon
<1>6. QED
  BY <1>4, <1>5, Zenon

\* A lookup finds a binding of the name if there is one.
LEMMA LookupFinds ==
  ASSUME NEW n \in Nat, NEW b, NEW name, DOMAIN b \subseteq 1 .. n
  PROVE  FoundIs(b, name, wasm_find_binding_index_by_name(b, name))
<1>1. PICK M : M = MayFind(b, name)
  OBVIOUS
<1>2. PICK x : x = CHOOSE i \in MayFind(b, name) :
                       Relinked(b, name) \in MayFind(b, name) => i = Relinked(b, name)
  OBVIOUS
<1>3. wasm_find_binding_index_by_name(b, name)
        = IF MayFind(b, name) = {} THEN None ELSE b[x].index
  <2>1. wasm_find_binding_index_by_name(b, name)
          = IF MayFind(b, name) = {} THEN None
            ELSE b[CHOOSE i \in MayFind(b, name) :
                     Relinked(b, name) \in MayFind(b, name) => i = Relinked(b, name)].index
    BY Zenon DEF wasm_find_binding_index_by_name
  <2>2. QED
    BY <1>2, <2>1, Zenon
<1>4. CASE M = {}
  <2>1. PICK H : H = Hits(b, name)
    OBVIOUS
  <2>2. H \subseteq Nat /\ H \subseteq 0 .. n
    BY <2>1 DEF Hits
  <2>3. PICK head : head = {i \in H : \A j \in Chain(b, name) : i <= j}
    OBVIOUS
  <2>4. PICK last : last = {i \in H : \A j \in H : j <= i}
    OBVIOUS
  <2>5. M = IF Cardinality(DOMAIN b) > INITIAL_HASH_CAPACITY THEN H
            ELSE IF head # {} THEN head ELSE last
    BY <1>1, <2>1, <2>3, <2>4, Zenon DEF MayFind
  <2>6. H = {} \/ last = {}
    BY <1>4, <2>5, Zenon
  <2>7. ASSUME H # {} PROVE FALSE
    <3>1. PICK m \in H : \A y \in H : y <= m
      BY <2>2, <2>7, Largest
    <3>2. m \in last
      BY <2>4, <3>1, Zenon
    <3>3. QED
      BY <2>6, <2>7, <3>2, Zenon
  <2>8. Hits(b, name) = {}
    BY <2>1, <2>7, Zenon
  <2>9. wasm_find_binding_index_by_name(b, name) = None
    BY <1>1, <1>3, <1>4, Zenon
  <2>10. QED
    BY <2>8, <2>9, Zenon DEF FoundIs
<1>5. CASE M # {}
  <2>1. \E i \in MayFind(b, name) : Relinked(b, name) \in MayFind(b, name) => i = Relinked(b, name)
    BY <1>1, <1>5, Zenon
  <2>2. x \in MayFind(b, name)
    BY <1>2, <2>1, Zenon
  <2>3. wasm_find_binding_index_by_name(b, name) = b[x].index
    BY <1>1, <1>3, <1>5, Zenon
  <2>4. QED
    BY <2>2, <2>3, Zenon DEF FoundIs
<1>6. QED
  BY <1>4, <1>5, Zenon

-----------------------------------------------------------------------------
(* The files of the modules.                                               *)

\* The commands that write a file.
Writers(s) == {i \in DOMAIN s : s[i].type \in {"module"} \cup RawCommands}

\* The number of a file is the number of files before it.
LEMMA NumbersGrow ==
  ASSUME NEW s \in Seq(Commands), NEW i \in Writers(s), NEW j \in Writers(s), i < j
  PROVE  num_modules(s, i) \in Nat /\ num_modules(s, j) \in Nat
         /\ num_modules(s, i) < num_modules(s, j)
<1> DEFINE W(k) == {l \in 1 .. k - 1 : s[l].type \in {"module"} \cup RawCommands}
<1>1. i \in Nat /\ j \in Nat /\ i >= 1 /\ s[i].type \in {"module"} \cup RawCommands
  BY DEF Writers
<1>2. num_modules(s, i) = Cardinality(W(i)) /\ num_modules(s, j) = Cardinality(W(j))
  BY Zenon DEF num_modules
<1>3. IsFiniteSet(W(i)) /\ IsFiniteSet(W(j))
  <2>1. IsFiniteSet(1 .. i - 1) /\ IsFiniteSet(1 .. j - 1)
    <3>1. 1 \in Int /\ i - 1 \in Int /\ j - 1 \in Int
      BY <1>1
    <3>2. QED
      BY <3>1, FS_Interval, Zenon
  <2>2. W(i) \subseteq 1 .. i - 1 /\ W(j) \subseteq 1 .. j - 1
    OBVIOUS
  <2>3. QED
    BY <2>1, <2>2, FS_Subset, Zenon
<1>4. W(i) \cup {i} \subseteq W(j) /\ i \notin W(i)
  BY <1>1
<1> HIDE DEF W
<1>5. Cardinality(W(i) \cup {i}) = Cardinality(W(i)) + 1
  BY <1>3, <1>4, FS_AddElement, Zenon
<1>6. Cardinality(W(i) \cup {i}) <= Cardinality(W(j))
  BY <1>3, <1>4, FS_Subset, Zenon
<1>7. Cardinality(W(i)) \in Nat /\ Cardinality(W(j)) \in Nat
  BY <1>3, FS_CardinalityType, Zenon
<1>8. QED
  BY <1>2, <1>5, <1>6, <1>7

\* No two files have the same number.
LEMMA FileOfCommand ==
  ASSUME script \in Seq(Commands), NEW i \in Writers(script)
  PROVE  write_commands[num_modules(script, i)] = [cmd |-> i, text |-> script[i].module]
<1> DEFINE W == Writers(script)
           Same(n) == {l \in W : num_modules(script, l) = n}
           Latest(n) == CHOOSE l \in Same(n) : \A j \in Same(n) : j <= l
<1>1. write_commands = [n \in {num_modules(script, l) : l \in W} |->
                          [cmd |-> Latest(n), text |-> script[Latest(n)].module]]
  BY Zenon DEF write_commands, Writers
<1>2. PICK n : n = num_modules(script, i)
  OBVIOUS
<1>3. n \in {num_modules(script, l) : l \in W}
  BY <1>2
<1>4. write_commands[n] = [cmd |-> Latest(n), text |-> script[Latest(n)].module]
  BY <1>1, <1>3, Zenon
<1>5. Same(n) = {i}
  <2>1. ASSUME NEW l \in W, num_modules(script, l) = n PROVE l = i
    <3>1. l \in Nat /\ i \in Nat
      BY DEF Writers
    <3>2. CASE l < i
      <4>1. num_modules(script, l) < num_modules(script, i) /\ num_modules(script, l) \in Nat
        BY <3>2, NumbersGrow
      <4>2. QED
        BY <1>2, <2>1, <4>1
    <3>3. CASE i < l
      <4>1. num_modules(script, i) < num_modules(script, l) /\ num_modules(script, i) \in Nat
        BY <3>3, NumbersGrow
      <4>2. QED
        BY <1>2, <2>1, <4>1
    <3>4. QED
      BY <3>1, <3>2, <3>3
  <2>2. QED
    BY <1>2, <2>1
<1>6. \A j \in Same(n) : j <= i
  BY <1>5 DEF Writers
<1>7. Latest(n) = i
  <2> HIDE DEF Same
  <2>1. Latest(n) \in Same(n)
    BY <1>5, <1>6, Zenon
  <2>2. QED
    BY <1>5, <2>1, Zenon
<1>8. QED
  BY <1>2, <1>4, <1>7, Zenon

-----------------------------------------------------------------------------
(* The modules and the bindings of the environment.                        *)

EnvModules == [cmd : Int, name : Strings]
EnvBindings == [name : Strings, index : Int]

\* A module after the host's for each module command that did not fail.
ModulesMatch(ms, s, p) ==
  /\ Len(ms) >= 1
  /\ ms[1] = [cmd |-> 0, name |-> NoName]
  /\ \A k \in 2 .. Len(ms) : /\ ms[k].cmd \in ModulesBefore(s, p)
                             /\ ms[k].name = s[ms[k].cmd].module.name
  /\ \A k, l \in 2 .. Len(ms) : k < l => ms[k].cmd < ms[l].cmd

\* No module command has failed.
AllModules(ms, s, p) == \A i \in ModulesBefore(s, p) : \E k \in 2 .. Len(ms) : ms[k].cmd = i

\* A binding for each module with a name, in the same order.
BindingsMatch(bs, ms) ==
  /\ \A b \in 1 .. Len(bs) : /\ bs[b].name # NoName
                             /\ bs[b].index \in 1 .. Len(ms) - 1
                             /\ ms[bs[b].index + 1].name = bs[b].name
  /\ \A b, c \in 1 .. Len(bs) : b < c => bs[b].index < bs[c].index
  /\ \A k \in 2 .. Len(ms) : ms[k].name # NoName =>
       \E b \in 1 .. Len(bs) : bs[b].index = k - 1

\* The modules before the next command.
LEMMA BeforeNext ==
  ASSUME NEW s, NEW p \in Nat \ {0}
  PROVE  /\ s[p].type = "module" => ModulesBefore(s, p + 1) = ModulesBefore(s, p) \cup {p}
         /\ s[p].type # "module" => ModulesBefore(s, p + 1) = ModulesBefore(s, p)
BY DEF ModulesBefore

\* A module more.
LEMMA AddModule ==
  ASSUME NEW ms \in Seq(EnvModules), NEW s, NEW p \in Nat \ {0}, s[p].type = "module",
         ModulesMatch(ms, s, p), NEW m \in EnvModules, m.cmd = p, m.name = s[p].module.name
  PROVE  /\ ModulesMatch(Append(ms, m), s, p + 1)
         /\ AllModules(ms, s, p) => AllModules(Append(ms, m), s, p + 1)
<1>1. PICK a : a = Append(ms, m)
  OBVIOUS
<1>2. /\ Len(ms) \in Nat /\ Len(a) = Len(ms) + 1 /\ a[Len(ms) + 1] = m
      /\ \A j \in 1 .. Len(ms) : a[j] = ms[j]
  BY <1>1, AppendFacts
<1>3. ModulesBefore(s, p + 1) = ModulesBefore(s, p) \cup {p}
  BY BeforeNext
<1>4. Len(ms) >= 1 /\ Len(a) >= 1 /\ a[1] = [cmd |-> 0, name |-> NoName]
  BY <1>2 DEF ModulesMatch
<1>5. ASSUME NEW k \in 2 .. Len(a)
      PROVE  a[k].cmd \in ModulesBefore(s, p + 1) /\ a[k].name = s[a[k].cmd].module.name
  <2>1. CASE k = Len(a)
    BY <1>2, <1>3, <2>1
  <2>2. CASE k # Len(a)
    <3>1. k \in 2 .. Len(ms) /\ a[k] = ms[k]
      BY <1>2, <2>2
    <3>2. QED
      BY <1>3, <3>1 DEF ModulesMatch
  <2>3. QED
    BY <2>1, <2>2
<1>6. ASSUME NEW k \in 2 .. Len(a), NEW l \in 2 .. Len(a), k < l
      PROVE  a[k].cmd < a[l].cmd
  <2>1. k \in 2 .. Len(ms) /\ a[k] = ms[k]
    BY <1>2, <1>6
  <2>2. CASE l = Len(a)
    <3>1. a[k].cmd \in ModulesBefore(s, p)
      BY <2>1 DEF ModulesMatch
    <3>2. a[k].cmd < p
      BY <3>1 DEF ModulesBefore
    <3>3. QED
      BY <1>2, <2>2, <3>2
  <2>3. CASE l # Len(a)
    <3>1. l \in 2 .. Len(ms) /\ a[l] = ms[l]
      BY <1>2, <2>3
    <3>2. QED
      BY <1>6, <2>1, <3>1 DEF ModulesMatch
  <2>4. QED
    BY <2>2, <2>3
<1>7. ModulesMatch(a, s, p + 1)
  BY <1>4, <1>5, <1>6, Zenon DEF ModulesMatch
<1>8. ASSUME AllModules(ms, s, p), NEW i \in ModulesBefore(s, p + 1)
      PROVE  \E k \in 2 .. Len(a) : a[k].cmd = i
  <2>1. CASE i = p
    <3>1. Len(a) \in 2 .. Len(a)
      BY <1>2, <1>4
    <3>2. a[Len(a)].cmd = i
      BY <1>2, <2>1
    <3>3. QED
      BY <3>1, <3>2, Zenon
  <2>2. CASE i # p
    <3>1. PICK k \in 2 .. Len(ms) : ms[k].cmd = i
      BY <1>3, <1>8, <2>2 DEF AllModules
    <3>2. k \in 2 .. Len(a) /\ a[k] = ms[k]
      BY <1>2
    <3>3. QED
      BY <3>1, <3>2, Zenon
  <2>3. QED
    BY <2>1, <2>2
<1>9. AllModules(ms, s, p) => AllModules(a, s, p + 1)
  BY <1>8, Zenon DEF AllModules
<1>10. QED
  BY <1>1, <1>7, <1>9, Zenon

\* A command that makes no module.
LEMMA SkipModule ==
  ASSUME NEW ms, NEW s, NEW p \in Nat \ {0}, ModulesMatch(ms, s, p)
  PROVE  /\ ModulesMatch(ms, s, p + 1)
         /\ AllModules(ms, s, p) /\ s[p].type # "module" => AllModules(ms, s, p + 1)
<1>1. ModulesBefore(s, p) \subseteq ModulesBefore(s, p + 1)
  BY DEF ModulesBefore
<1>2. s[p].type # "module" => ModulesBefore(s, p + 1) = ModulesBefore(s, p)
  BY BeforeNext
<1>3. ModulesMatch(ms, s, p + 1)
  BY <1>1, Zenon DEF ModulesMatch
<1>4. QED
  BY <1>2, <1>3, Zenon DEF AllModules

\* A binding more, or none for a module without a name.
LEMMA AddBinding ==
  ASSUME NEW bs \in Seq(EnvBindings), NEW ms \in Seq(EnvModules), BindingsMatch(bs, ms),
         Len(ms) >= 1, NEW m \in EnvModules, NEW b \in EnvBindings,
         b.name = m.name, b.index = Len(ms)
  PROVE  /\ m.name # NoName => BindingsMatch(Append(bs, b), Append(ms, m))
         /\ m.name = NoName => BindingsMatch(bs, Append(ms, m))
<1>1. PICK a : a = Append(ms, m)
  OBVIOUS
<1>2. /\ Len(ms) \in Nat /\ Len(a) = Len(ms) + 1 /\ a[Len(ms) + 1] = m
      /\ \A j \in 1 .. Len(ms) : a[j] = ms[j]
  BY <1>1, AppendFacts
<1>3. PICK c : c = Append(bs, b)
  OBVIOUS
<1>4. /\ Len(bs) \in Nat /\ Len(c) = Len(bs) + 1 /\ c[Len(bs) + 1] = b
      /\ \A j \in 1 .. Len(bs) : c[j] = bs[j]
  BY <1>3, AppendFacts
<1>5. ASSUME NEW i \in 1 .. Len(bs)
      PROVE  /\ bs[i].name # NoName /\ bs[i].index \in 1 .. Len(a) - 1
             /\ a[bs[i].index + 1].name = bs[i].name /\ bs[i].index < Len(ms)
  <2>1. /\ bs[i].name # NoName /\ bs[i].index \in 1 .. Len(ms) - 1
        /\ ms[bs[i].index + 1].name = bs[i].name
    BY DEF BindingsMatch
  <2>2. bs[i].index + 1 \in 1 .. Len(ms)
    BY <1>2, <2>1
  <2>3. a[bs[i].index + 1] = ms[bs[i].index + 1]
    BY <1>2, <2>2, Zenon
  <2>4. QED
    BY <1>2, <2>1, <2>3
<1>6. ASSUME NEW k \in 2 .. Len(ms), a[k].name # NoName
      PROVE  \E i \in 1 .. Len(bs) : bs[i].index = k - 1
  <2>1. a[k] = ms[k]
    BY <1>2
  <2>2. QED
    BY <1>6, <2>1, Zenon DEF BindingsMatch
<1>7. ASSUME m.name = NoName PROVE BindingsMatch(bs, a)
  <2>1. ASSUME NEW k \in 2 .. Len(a), a[k].name # NoName
        PROVE  \E i \in 1 .. Len(bs) : bs[i].index = k - 1
    <3>1. k # Len(a)
      BY <1>2, <1>7, <2>1
    <3>2. k \in 2 .. Len(ms)
      BY <1>2, <3>1
    <3>3. QED
      BY <1>6, <2>1, <3>2, Zenon
  <2>2. \A i, j \in 1 .. Len(bs) : i < j => bs[i].index < bs[j].index
    BY DEF BindingsMatch
  <2>3. QED
    BY <1>5, <2>1, <2>2, Zenon DEF BindingsMatch
<1>8. ASSUME m.name # NoName PROVE BindingsMatch(c, a)
  <2>1. ASSUME NEW i \in 1 .. Len(c)
        PROVE  /\ c[i].name # NoName /\ c[i].index \in 1 .. Len(a) - 1
               /\ a[c[i].index + 1].name = c[i].name
    <3>1. CASE i = Len(c)
      <4>1. c[i] = b /\ a[b.index + 1] = m /\ b.index \in 1 .. Len(a) - 1
        BY <1>2, <1>4, <3>1
      <4>2. QED
        BY <1>8, <4>1
    <3>2. CASE i # Len(c)
      <4>1. i \in 1 .. Len(bs) /\ c[i] = bs[i]
        BY <1>4, <3>2
      <4>2. QED
        BY <1>5, <4>1
    <3>3. QED
      BY <3>1, <3>2
  <2>2. ASSUME NEW i \in 1 .. Len(c), NEW j \in 1 .. Len(c), i < j
        PROVE  c[i].index < c[j].index
    <3>1. i \in 1 .. Len(bs) /\ c[i] = bs[i]
      BY <1>4, <2>2
    <3>2. CASE j = Len(c)
      <4>1. c[j] = b
        BY <1>4, <3>2
      <4>2. bs[i].index < Len(ms)
        BY <1>5, <3>1, Zenon
      <4>3. QED
        BY <3>1, <4>1, <4>2
    <3>3. CASE j # Len(c)
      <4>1. j \in 1 .. Len(bs) /\ c[j] = bs[j]
        BY <1>4, <3>3
      <4>2. QED
        BY <2>2, <3>1, <4>1 DEF BindingsMatch
    <3>4. QED
      BY <3>2, <3>3
  <2>3. ASSUME NEW k \in 2 .. Len(a), a[k].name # NoName
        PROVE  \E i \in 1 .. Len(c) : c[i].index = k - 1
    <3>1. CASE k = Len(a)
      <4>1. Len(c) \in 1 .. Len(c) /\ c[Len(c)].index = k - 1
        BY <1>2, <1>4, <3>1
      <4>2. QED
        BY <4>1, Zenon
    <3>2. CASE k # Len(a)
      <4>1. k \in 2 .. Len(ms)
        BY <1>2, <3>2
      <4>2. PICK i \in 1 .. Len(bs) : bs[i].index = k - 1
        BY <1>6, <2>3, <4>1, Zenon
      <4>3. i \in 1 .. Len(c) /\ c[i] = bs[i]
        BY <1>4
      <4>4. QED
        BY <4>2, <4>3, Zenon
    <3>3. QED
      BY <3>1, <3>2
  <2>4. QED
    BY <2>1, <2>2, <2>3, Zenon DEF BindingsMatch
<1>9. QED
  BY <1>1, <1>3, <1>7, <1>8, Zenon

-----------------------------------------------------------------------------
(* The two tables of names agree.                                          *)

\* The modules of a script with a name.
ModulesNamed(name) ==
  {i \in DOMAIN script : script[i].type = "module" /\ script[i].module.name = name}

\* The bindings of the script.
LEMMA ScriptBindings ==
  ASSUME script \in Seq(Commands)
  PROVE  /\ DOMAIN module_bindings \subseteq 1 .. Len(script)
         /\ \A i \in DOMAIN module_bindings : module_bindings[i].index = i
         /\ \A name : name # NoName => Hits(module_bindings, name) = ModulesNamed(name)
<1> DEFINE N == {i \in DOMAIN script : script[i].type = "module" /\ script[i].module.name # NoName}
<1>1. module_bindings = [i \in N |-> [name |-> script[i].module.name, index |-> i]]
  BY Zenon DEF module_bindings
<1>2. DOMAIN module_bindings = N
        /\ \A i \in N : /\ module_bindings[i].index = i
                        /\ module_bindings[i].name = script[i].module.name
  <2> HIDE DEF N
  <2>1. QED
    BY <1>1
<1>3. ASSUME NEW name, name # NoName PROVE Hits(module_bindings, name) = ModulesNamed(name)
  <2>1. ASSUME NEW i PROVE i \in Hits(module_bindings, name) <=> i \in ModulesNamed(name)
    <3>1. i \in Hits(module_bindings, name) <=> i \in N /\ module_bindings[i].name = name
      BY <1>2, Zenon DEF Hits
    <3>2. i \in N <=> i \in DOMAIN script /\ script[i].type = "module" /\ script[i].module.name # NoName
      OBVIOUS
    <3>3. i \in N => module_bindings[i].name = script[i].module.name
      BY <1>2, Zenon
    <3>4. i \in ModulesNamed(name) <=>
            i \in DOMAIN script /\ script[i].type = "module" /\ script[i].module.name = name
      BY Zenon DEF ModulesNamed
    <3> HIDE DEF N
    <3>5. QED
      BY <1>3, <3>1, <3>2, <3>3, <3>4, Zenon
  <2>2. QED
    BY <2>1
<1>4. N \subseteq 1 .. Len(script)
  OBVIOUS
<1>5. QED
  BY <1>2, <1>3, <1>4, Zenon

\* The module that a name of the script stands for.
LEMMA NameMeans ==
  ASSUME script \in Seq(Commands), NEW name, name # NoName,
         NEW x, FoundIs(module_bindings, name, x)
  PROVE  \/ ModulesNamed(name) = {} /\ x = None
         \/ x \in ModulesNamed(name) /\ x \in MayFind(module_bindings, name)
<1>1. Hits(module_bindings, name) = ModulesNamed(name)
      /\ \A i \in DOMAIN module_bindings : module_bindings[i].index = i
  BY ScriptBindings, Zenon
<1>2. CASE Hits(module_bindings, name) = {} /\ x = None
  BY <1>1, <1>2, Zenon
<1>3. CASE \E i \in MayFind(module_bindings, name) : x = module_bindings[i].index
  <2>1. PICK i \in MayFind(module_bindings, name) : x = module_bindings[i].index
    BY <1>3, Zenon
  <2>2. i \in Hits(module_bindings, name)
    BY MayFindHits, Zenon
  <2>3. i \in DOMAIN module_bindings
    BY <2>2, Zenon DEF Hits
  <2>4. x = i
    BY <1>1, <2>1, <2>3, Zenon
  <2>5. QED
    BY <1>1, <2>2, <2>4, Zenon
<1>4. QED
  BY <1>2, <1>3, Zenon DEF FoundIs

\* What is known of the environment before command p of the script.
EnvKnown(ms, bs, p) ==
  /\ p \in 1 .. Len(script)
  /\ ms \in Seq(EnvModules) /\ bs \in Seq(EnvBindings)
  /\ ModulesMatch(ms, script, p) /\ AllModules(ms, script, p) /\ BindingsMatch(bs, ms)

\* A module before the command is in the environment.
LEMMA ModuleIsThere ==
  ASSUME script \in Seq(Commands), NEW ms, NEW bs, NEW p, EnvKnown(ms, bs, p), NEW name,
         NEW x \in ModulesNamed(name), x < p
  PROVE  \E k \in 2 .. Len(ms) : ms[k].cmd = x /\ ms[k].name = name
<1>1. x \in 1 .. Len(script) /\ script[x].type = "module" /\ script[x].module.name = name
  BY DEF ModulesNamed
<1>2. p \in 1 .. Len(script)
  BY DEF EnvKnown
<1>3. x \in ModulesBefore(script, p)
  BY <1>1, <1>2 DEF ModulesBefore
<1>4. PICK k \in 2 .. Len(ms) : ms[k].cmd = x
  BY <1>3, Zenon DEF EnvKnown, AllModules
<1>5. ms[k].name = script[ms[k].cmd].module.name
  BY Zenon DEF EnvKnown, ModulesMatch
<1>6. QED
  BY <1>1, <1>4, <1>5, Zenon

\* A named module of the environment is one of the script.
LEMMA ModuleWasThere ==
  ASSUME script \in Seq(Commands), NEW ms, NEW bs, NEW p, EnvKnown(ms, bs, p),
         NEW k \in 2 .. Len(ms)
  PROVE  ms[k].cmd \in ModulesNamed(ms[k].name)
<1>1. ms[k].cmd \in ModulesBefore(script, p) /\ ms[k].name = script[ms[k].cmd].module.name
  BY Zenon DEF EnvKnown, ModulesMatch
<1>2. p \in 1 .. Len(script)
  BY DEF EnvKnown
<1>3. ms[k].cmd \in 1 .. p - 1 /\ script[ms[k].cmd].type = "module"
  BY <1>1, Zenon DEF ModulesBefore
<1>4. 1 .. p - 1 \subseteq DOMAIN script
  BY <1>2
<1>5. ms[k].cmd \in DOMAIN script
  BY <1>3, <1>4, Zenon
<1>6. QED
  BY <1>1, <1>3, <1>5, Zenon DEF ModulesNamed

\* A binding of the environment is one of a module of the script.
LEMMA BindingMeans ==
  ASSUME script \in Seq(Commands), NEW ms, NEW bs, NEW p, EnvKnown(ms, bs, p),
         NEW b \in 1 .. Len(bs)
  PROVE  /\ bs[b].index \in Int /\ bs[b].index + 1 \in 2 .. Len(ms)
         /\ ms[bs[b].index + 1].cmd \in ModulesNamed(bs[b].name)
<1>1. /\ bs[b].index \in 1 .. Len(ms) - 1
      /\ ms[bs[b].index + 1].name = bs[b].name
  BY Zenon DEF EnvKnown, BindingsMatch
<1>2. Len(ms) \in Nat
  BY DEF EnvKnown
<1>3. bs[b].index \in Int /\ bs[b].index + 1 \in 2 .. Len(ms)
  BY <1>1, <1>2
<1>4. QED
  BY <1>1, <1>3, ModuleWasThere, Zenon

\* The bindings are in the order of the commands.
LEMMA BindingsOrdered ==
  ASSUME script \in Seq(Commands), NEW ms, NEW bs, NEW p, EnvKnown(ms, bs, p),
         NEW b \in 1 .. Len(bs), NEW c \in 1 .. Len(bs), b < c
  PROVE  ms[bs[b].index + 1].cmd < ms[bs[c].index + 1].cmd
<1>1. bs[b].index \in Int /\ bs[b].index + 1 \in 2 .. Len(ms)
  BY BindingMeans, Zenon
<1>2. bs[c].index \in Int /\ bs[c].index + 1 \in 2 .. Len(ms)
  BY BindingMeans, Zenon
<1>3. bs[b].index < bs[c].index
  BY Zenon DEF EnvKnown, BindingsMatch
<1>4. bs[b].index + 1 < bs[c].index + 1
  BY <1>1, <1>2, <1>3
<1>5. QED
  BY <1>1, <1>2, <1>4, Zenon DEF EnvKnown, ModulesMatch

\* A set of one element at most.
LEMMA OnlyOne ==
  ASSUME NEW S, IsFiniteSet(S), Cardinality(S) <= 1, NEW x \in S, NEW y \in S
  PROVE  x = y
<1>1. SUFFICES ASSUME x # y PROVE FALSE
  OBVIOUS
<1>2. Cardinality({x}) = 1 /\ IsFiniteSet({x})
  BY FS_Singleton, Zenon
<1>3. IsFiniteSet({x} \cup {y}) /\ Cardinality({x} \cup {y}) = Cardinality({x}) + 1
  <2>1. y \notin {x}
    BY <1>1
  <2>2. QED
    BY <1>2, <2>1, FS_AddElement, Zenon
<1>4. {x} \cup {y} \subseteq S
  OBVIOUS
<1>5. Cardinality({x} \cup {y}) <= Cardinality(S) /\ Cardinality(S) \in Nat
  BY <1>4, FS_Subset, FS_CardinalityType, Zenon
<1>6. QED
  BY <1>2, <1>3, <1>5

\* The bindings of the script and the modules of a name.
LEMMA ScriptNames ==
         /\ \A i : i \in DOMAIN module_bindings <=>
                     i \in DOMAIN script /\ script[i].type = "module" /\ script[i].module.name # NoName
         /\ \A i \in DOMAIN module_bindings : module_bindings[i].name = script[i].module.name
<1> DEFINE N == {i \in DOMAIN script : script[i].type = "module" /\ script[i].module.name # NoName}
<1>1. module_bindings = [i \in N |-> [name |-> script[i].module.name, index |-> i]]
  BY Zenon DEF module_bindings
<1>2. \A i : i \in N <=>
        i \in DOMAIN script /\ script[i].type = "module" /\ script[i].module.name # NoName
  OBVIOUS
<1>3. DOMAIN module_bindings = N /\ \A i \in N : module_bindings[i].name = script[i].module.name
  <2> HIDE DEF N
  <2>1. QED
    BY <1>1
<1>4. QED
  BY <1>2, <1>3, Zenon

\* The command that made a binding of the environment.
CmdOf(ms, bs, b) == ms[bs[b].index + 1].cmd

\* A binding of the script that was made before the command is in the environment.
LEMMA BindingIsThere ==
  ASSUME script \in Seq(Commands), NEW ms, NEW bs, NEW p, EnvKnown(ms, bs, p),
         NEW j \in DOMAIN module_bindings, j < p
  PROVE  \E b \in 1 .. Len(bs) : /\ bs[b].name = module_bindings[j].name
                                 /\ CmdOf(ms, bs, b) = j
<1>1. PICK name : name = module_bindings[j].name
  OBVIOUS
<1>2. name # NoName /\ j \in ModulesNamed(name)
  BY <1>1, ScriptNames, Zenon DEF ModulesNamed
<1>3. PICK k \in 2 .. Len(ms) : ms[k].cmd = j /\ ms[k].name = name
  BY <1>2, ModuleIsThere
<1>4. PICK b \in 1 .. Len(bs) : bs[b].index = k - 1
  BY <1>2, <1>3, Zenon DEF EnvKnown, BindingsMatch
<1>5. bs[b].index + 1 = k
  BY <1>4
<1>6. bs[b].name = name
  BY <1>3, <1>5, Zenon DEF EnvKnown, BindingsMatch
<1>7. QED
  BY <1>1, <1>3, <1>5, <1>6, Zenon DEF CmdOf

\* The bindings are in the order of the commands that made them.
LEMMA CommandsOrdered ==
  ASSUME script \in Seq(Commands), NEW ms, NEW bs, NEW p, EnvKnown(ms, bs, p),
         NEW b \in 1 .. Len(bs), NEW c \in 1 .. Len(bs), b < c
  PROVE  CmdOf(ms, bs, b) < CmdOf(ms, bs, c)
BY BindingsOrdered, Zenon DEF CmdOf

\* A binding of the environment was made by a command before.
LEMMA BindingWasThere ==
  ASSUME script \in Seq(Commands), NEW ms, NEW bs, NEW p, EnvKnown(ms, bs, p),
         NEW b \in 1 .. Len(bs)
  PROVE  /\ CmdOf(ms, bs, b) \in DOMAIN module_bindings
         /\ module_bindings[CmdOf(ms, bs, b)].name = bs[b].name
         /\ CmdOf(ms, bs, b) \in Int /\ p \in Int /\ CmdOf(ms, bs, b) < p
<1> DEFINE y == ms[bs[b].index + 1].cmd
<1>1. y \in ModulesNamed(bs[b].name) /\ bs[b].index + 1 \in 2 .. Len(ms)
  BY BindingMeans, Zenon
<1>2. bs[b].name # NoName
  BY Zenon DEF EnvKnown, BindingsMatch
<1>3. y \in DOMAIN script /\ script[y].type = "module" /\ script[y].module.name = bs[b].name
  BY <1>1, Zenon DEF ModulesNamed
<1>4. y \in DOMAIN module_bindings
  BY <1>2, <1>3, ScriptNames, Zenon
<1>5. module_bindings[y].name = bs[b].name
  BY <1>3, <1>4, ScriptNames, Zenon
<1>6. y \in ModulesBefore(script, p)
  BY <1>1, Zenon DEF EnvKnown, ModulesMatch
<1>7. y \in 1 .. p - 1
  BY <1>6, Zenon DEF ModulesBefore
<1>8. p \in Int
  BY DEF EnvKnown
<1>9. y \in Int /\ y < p
  BY <1>7, <1>8
<1>10. QED
  BY <1>4, <1>5, <1>8, <1>9, Zenon DEF CmdOf

\* The table of wasm-interp has no more bindings than the one of wast2wasm.
LEMMA FewerBindings ==
  ASSUME script \in Seq(Commands), NEW ms, NEW bs, NEW p, EnvKnown(ms, bs, p),
         Cardinality(DOMAIN module_bindings) <= INITIAL_HASH_CAPACITY
  PROVE  ~(Cardinality(DOMAIN bs) > INITIAL_HASH_CAPACITY)
<1>1. PICK T : T = DOMAIN module_bindings
  OBVIOUS
<1>2. IsFiniteSet(T)
  <2>1. T \subseteq 1 .. Len(script) /\ Len(script) \in Int /\ 1 \in Int
    BY <1>1, ScriptBindings
  <2>2. IsFiniteSet(1 .. Len(script))
    BY <2>1, FS_Interval, Zenon
  <2>3. QED
    BY <2>1, <2>2, FS_Subset, Zenon
<1>3. DOMAIN bs = 1 .. Len(bs) /\ Len(bs) \in Nat
  BY DEF EnvKnown
<1>4. PICK g : g = [b \in 1 .. Len(bs) |-> CmdOf(ms, bs, b)]
  OBVIOUS
<1>5. DOMAIN g = 1 .. Len(bs) /\ \A b \in 1 .. Len(bs) : g[b] = CmdOf(ms, bs, b)
  BY <1>4, Zenon
<1>6. \A b \in 1 .. Len(bs) : g[b] \in T /\ g[b] \in Int
  BY <1>1, <1>5, BindingWasThere
<1>7. ASSUME NEW b \in 1 .. Len(bs), NEW c \in 1 .. Len(bs), g[b] = g[c] PROVE b = c
  <2>1. b < c => g[b] < g[c]
    BY <1>5, CommandsOrdered, Zenon
  <2>2. c < b => g[c] < g[b]
    BY <1>5, CommandsOrdered, Zenon
  <2>3. b \in Int /\ c \in Int /\ g[b] \in Int /\ g[c] \in Int
    BY <1>6
  <2>4. QED
    BY <1>7, <2>1, <2>2, <2>3
<1>8. g \in [1 .. Len(bs) -> T]
  BY <1>4, <1>5, <1>6, Zenon
<1>9. g \in Injection(1 .. Len(bs), T)
  BY <1>7, <1>8, Zenon DEF Injection, IsInjective
<1>10. Cardinality(1 .. Len(bs)) <= Cardinality(T) /\ IsFiniteSet(1 .. Len(bs))
  BY <1>2, <1>9, FS_Injection, Zenon
<1>11. Cardinality(1 .. Len(bs)) \in Nat /\ Cardinality(T) \in Nat /\ INITIAL_HASH_CAPACITY \in Nat
  BY <1>2, <1>10, FS_CardinalityType, CapacityAssumption, Zenon
<1>12. Cardinality(T) <= INITIAL_HASH_CAPACITY
  BY <1>1, Zenon
<1>13. ~(Cardinality(1 .. Len(bs)) > INITIAL_HASH_CAPACITY)
  BY <1>10, <1>11, <1>12
<1>14. QED
  BY <1>3, <1>13, Zenon

\* The head of a chain of wast2wasm's is that of wasm-interp's, if it is there.
LEMMA SameHead ==
  ASSUME script \in Seq(Commands), NEW ms, NEW bs, NEW p, EnvKnown(ms, bs, p), NEW name,
         NEW b \in 1 .. Len(bs)
  PROVE  Leads(module_bindings, name, CmdOf(ms, bs, b)) <=> Leads(bs, name, b)
<1> DEFINE x == CmdOf(ms, bs, b)
<1>1. DOMAIN bs = 1 .. Len(bs)
  BY DEF EnvKnown
<1>2. x \in Int /\ p \in Int /\ x < p
  BY BindingWasThere
<1>3. ASSUME Leads(module_bindings, name, x), NEW c \in Chain(bs, name) PROVE b <= c
  <2>1. c \in 1 .. Len(bs) /\ MainSlot(bs[c].name) = MainSlot(name)
    BY <1>1, Zenon DEF Chain
  <2>2. PICK y : y = CmdOf(ms, bs, c)
    OBVIOUS
  <2>3. y \in DOMAIN module_bindings /\ module_bindings[y].name = bs[c].name /\ y \in Int
    <3>1. /\ CmdOf(ms, bs, c) \in DOMAIN module_bindings /\ CmdOf(ms, bs, c) \in Int
          /\ module_bindings[CmdOf(ms, bs, c)].name = bs[c].name
      BY <2>1, BindingWasThere
    <3>2. QED
      BY <2>2, <3>1, Zenon
  <2>4. y \in Chain(module_bindings, name)
    BY <2>1, <2>3, Zenon DEF Chain
  <2>5. x <= y
    BY <1>3, <2>4, Zenon DEF Leads
  <2>6. c < b => y < x
    BY <2>1, <2>2, CommandsOrdered, Zenon
  <2>7. b \in Int /\ c \in Int
    BY <2>1
  <2>8. QED
    BY <1>2, <2>3, <2>5, <2>6, <2>7
<1>4. ASSUME Leads(bs, name, b), NEW j \in Chain(module_bindings, name) PROVE x <= j
  <2>1. j \in DOMAIN module_bindings /\ MainSlot(module_bindings[j].name) = MainSlot(name)
    BY Zenon DEF Chain
  <2>2. j \in Int
    BY <2>1, ScriptBindings
  <2>3. CASE j < p
    <3>1. PICK c \in 1 .. Len(bs) : /\ bs[c].name = module_bindings[j].name
                                    /\ CmdOf(ms, bs, c) = j
      BY <2>1, <2>3, BindingIsThere
    <3>2. c \in Chain(bs, name)
      BY <1>1, <2>1, <3>1, Zenon DEF Chain
    <3>3. b <= c
      BY <1>4, <3>2, Zenon DEF Leads
    <3>4. b < c => x < j
      BY <3>1, CommandsOrdered, Zenon
    <3>5. b = c => x = j
      BY <3>1, Zenon
    <3>6. b \in Int /\ c \in Int
      OBVIOUS
    <3>7. QED
      BY <1>2, <2>2, <3>3, <3>4, <3>5, <3>6
  <2>4. CASE ~(j < p)
    BY <1>2, <2>2, <2>4
  <2>5. QED
    BY <2>3, <2>4, Zenon
<1>5. Leads(module_bindings, name, x) => Leads(bs, name, b)
  BY <1>3, Zenon DEF Leads
<1>6. Leads(bs, name, b) => Leads(module_bindings, name, x)
  BY <1>4, Zenon DEF Leads
<1>7. QED
  BY <1>5, <1>6, Zenon

\* In tables without a resize both tools find the same module, if it is there.
LEMMA SmallTablesAgree ==
  ASSUME script \in Seq(Commands), NEW ms, NEW bs, NEW p, EnvKnown(ms, bs, p),
         NEW name, name # NoName, Cardinality(DOMAIN module_bindings) <= INITIAL_HASH_CAPACITY,
         NEW b \in Hits(bs, name), CmdOf(ms, bs, b) \in MayFind(module_bindings, name),
         NEW c \in MayFind(bs, name)
  PROVE  CmdOf(ms, bs, c) = CmdOf(ms, bs, b)
<1> DEFINE x == CmdOf(ms, bs, b)
           y == CmdOf(ms, bs, c)
<1>1. DOMAIN bs = 1 .. Len(bs)
  BY DEF EnvKnown
<1>2. c \in Hits(bs, name)
  BY MayFindHits, Zenon
<1>3. /\ b \in 1 .. Len(bs) /\ bs[b].name = name
      /\ c \in 1 .. Len(bs) /\ bs[c].name = name
  BY <1>1, <1>2, Zenon DEF Hits
<1>4. b \in Int /\ c \in Int
  BY <1>3
<1>5. x \in Int /\ y \in Int /\ y \in DOMAIN module_bindings /\ module_bindings[y].name = name
  BY <1>3, BindingWasThere
<1>6. (b < c => x < y) /\ (c < b => y < x)
  BY <1>3, CommandsOrdered, Zenon
<1>7. b \in Chain(bs, name) /\ c \in Chain(bs, name)
  BY <1>1, <1>3, Zenon DEF Chain
<1>8. ~(Cardinality(DOMAIN module_bindings) > INITIAL_HASH_CAPACITY)
  <2>1. PICK n : n = Cardinality(DOMAIN module_bindings)
    OBVIOUS
  <2>2. n \in Nat
    <3>1. DOMAIN module_bindings \subseteq 1 .. Len(script) /\ Len(script) \in Int /\ 1 \in Int
      BY ScriptBindings
    <3>2. IsFiniteSet(1 .. Len(script))
      BY <3>1, FS_Interval, Zenon
    <3>3. IsFiniteSet(DOMAIN module_bindings)
      BY <3>1, <3>2, FS_Subset, Zenon
    <3>4. QED
      BY <2>1, <3>3, FS_CardinalityType, Zenon
  <2>3. n <= INITIAL_HASH_CAPACITY /\ INITIAL_HASH_CAPACITY \in Nat
    BY <2>1, CapacityAssumption, Zenon
  <2>4. ~(n > INITIAL_HASH_CAPACITY)
    BY <2>2, <2>3
  <2>5. QED
    BY <2>1, <2>4, Zenon
<1>9. ~(Cardinality(DOMAIN bs) > INITIAL_HASH_CAPACITY)
  BY FewerBindings, Zenon
<1>10. \/ Leads(module_bindings, name, x)
       \/ LastHit(module_bindings, name, x)
          /\ \A k \in Hits(module_bindings, name) : ~Leads(module_bindings, name, k)
  BY <1>8, SmallTable, Zenon
<1>11. \/ Leads(bs, name, c)
       \/ LastHit(bs, name, c) /\ \A k \in Hits(bs, name) : ~Leads(bs, name, k)
  BY <1>9, SmallTable, Zenon
<1>12. CASE Leads(module_bindings, name, x)
  <2>1. Leads(bs, name, b)
    BY <1>3, <1>12, SameHead, Zenon
  <2>2. Leads(bs, name, c)
    BY <1>11, <2>1, Zenon
  <2>3. b <= c /\ c <= b
    BY <1>7, <2>1, <2>2, Zenon DEF Leads
  <2>4. b = c
    BY <1>4, <2>3
  <2>5. QED
    BY <2>4, Zenon
<1>13. CASE LastHit(module_bindings, name, x)
            /\ \A k \in Hits(module_bindings, name) : ~Leads(module_bindings, name, k)
  <2>1. y \in Hits(module_bindings, name)
    BY <1>5, Zenon DEF Hits
  <2>2. y <= x
    BY <1>13, <2>1, Zenon DEF LastHit
  <2>3. ~Leads(bs, name, c)
    BY <1>3, <1>13, <2>1, SameHead, Zenon
  <2>4. b <= c
    BY <1>11, <2>3, Zenon DEF LastHit
  <2>5. b = c
    BY <1>4, <1>5, <1>6, <2>2, <2>4
  <2>6. QED
    BY <2>5, Zenon
<1>14. QED
  BY <1>10, <1>12, <1>13, Zenon

\* The modules of one name are finitely many.
LEMMA NamedFinite ==
  ASSUME script \in Seq(Commands), NEW name
  PROVE  IsFiniteSet(ModulesNamed(name))
<1>1. DOMAIN script = 1 .. Len(script) /\ 1 \in Int /\ Len(script) \in Int
  OBVIOUS
<1>2. IsFiniteSet(DOMAIN script)
  BY <1>1, FS_Interval, Zenon
<1>3. ModulesNamed(name) \subseteq DOMAIN script
  BY DEF ModulesNamed
<1>4. QED
  BY <1>2, <1>3, FS_Subset, Zenon

\* An action finds the module it was validated against.
LEMMA NameFinds ==
  ASSUME script \in Seq(Commands), NEW ms, NEW bs, NEW p, EnvKnown(ms, bs, p),
         NEW name, name # NoName,
         OneOfName(name) \/ Cardinality(DOMAIN module_bindings) <= INITIAL_HASH_CAPACITY,
         NEW x, FoundIs(module_bindings, name, x), x # None, x < p,
         NEW r, FoundIs(bs, name, r)
  PROVE  r \in Int /\ r # None /\ r + 1 \in 2 .. Len(ms) /\ ms[r + 1].cmd = x
<1>1. x \in ModulesNamed(name) /\ x \in MayFind(module_bindings, name)
  BY NameMeans, Zenon
<1>2. x \in DOMAIN module_bindings /\ module_bindings[x].name = name
  <2>1. x \in DOMAIN script /\ script[x].type = "module" /\ script[x].module.name = name
    BY <1>1, Zenon DEF ModulesNamed
  <2>2. x \in DOMAIN module_bindings
    BY <2>1, ScriptNames, Zenon
  <2>3. QED
    BY <2>1, <2>2, ScriptNames, Zenon
<1>3. PICK b \in 1 .. Len(bs) : bs[b].name = name /\ CmdOf(ms, bs, b) = x
  BY <1>2, BindingIsThere
<1>4. DOMAIN bs = 1 .. Len(bs)
  BY DEF EnvKnown
<1>5. b \in Hits(bs, name)
  BY <1>3, <1>4, Zenon DEF Hits
<1>6. PICK c \in MayFind(bs, name) : r = bs[c].index
  BY <1>5, Zenon DEF FoundIs
<1>7. c \in 1 .. Len(bs) /\ bs[c].name = name
  BY <1>4, <1>6, MayFindHits, Zenon DEF Hits
<1>8. PICK y : y = CmdOf(ms, bs, c)
  OBVIOUS
<1>9. y \in ModulesNamed(name) /\ bs[c].index \in Int /\ bs[c].index + 1 \in 2 .. Len(ms)
  BY <1>7, <1>8, BindingMeans, Zenon DEF CmdOf
<1>10. y = x
  <2>1. CASE OneOfName(name)
    <3>1. Cardinality(ModulesNamed(name)) <= 1
      BY <2>1, Zenon DEF OneOfName, ModulesNamed
    <3>2. QED
      BY <1>1, <1>9, <3>1, NamedFinite, OnlyOne, Zenon
  <2>2. CASE Cardinality(DOMAIN module_bindings) <= INITIAL_HASH_CAPACITY
    <3>1. CmdOf(ms, bs, b) \in MayFind(module_bindings, name)
      BY <1>1, <1>3, Zenon
    <3>2. CmdOf(ms, bs, c) = CmdOf(ms, bs, b)
      BY <1>5, <1>6, <2>2, <3>1, SmallTablesAgree
    <3>3. QED
      BY <1>3, <1>8, <3>2, Zenon
  <2>3. QED
    BY <2>1, <2>2, Zenon
<1>11. r \in Int /\ r + 1 \in 2 .. Len(ms)
  BY <1>6, <1>9, Zenon
<1>12. r # None
  <2>1. PICK q : q = r + 1
    OBVIOUS
  <2>2. q \in 2 .. Len(ms)
    BY <1>11, <2>1, Zenon
  <2>3. q >= 2
    BY <2>2
  <2>4. QED
    BY <1>11, <2>1, <2>3 DEF None
<1>13. QED
  BY <1>6, <1>8, <1>10, <1>11, <1>12, Zenon DEF CmdOf

\* The last module of the environment is the last one of the script.
LEMMA LastFinds ==
  ASSUME script \in Seq(Commands), NEW ms, NEW bs, NEW p, EnvKnown(ms, bs, p),
         script[p].type # "module"
  PROVE  \/ LastModule(script, p) = None /\ Len(ms) = 1
         \/ LastIs(script, p, LastModule(script, p)) /\ Len(ms) \in 2 .. Len(ms)
            /\ ms[Len(ms)].cmd = LastModule(script, p)
<1>1. p \in Nat \ {0} /\ ms \in Seq(EnvModules) /\ Len(ms) \in Nat
  BY DEF EnvKnown
<1>2. /\ Len(ms) >= 1
      /\ \A k \in 2 .. Len(ms) : ms[k].cmd \in ModulesBefore(script, p)
      /\ \A k, l \in 2 .. Len(ms) : k < l => ms[k].cmd < ms[l].cmd
      /\ \A i \in ModulesBefore(script, p) : \E k \in 2 .. Len(ms) : ms[k].cmd = i
  BY Zenon DEF EnvKnown, ModulesMatch, AllModules
<1>3. PICK x : x = LastModule(script, p)
  OBVIOUS
<1>4. \/ ModulesBefore(script, p) = {} /\ x = None
      \/ LastIs(script, p, x)
  <2>1. \/ ModulesBefore(script, p) = {} /\ LastModule(script, p) = None
        \/ LastIs(script, p, LastModule(script, p))
    BY <1>1, LastModuleIs, Zenon
  <2>2. QED
    BY <1>3, <2>1, Zenon
<1>5. CASE ModulesBefore(script, p) = {} /\ x = None
  <2>1. ~(2 \in 2 .. Len(ms))
    BY <1>2, <1>5, Zenon
  <2>2. Len(ms) = 1
    <3>1. Len(ms) \in Nat /\ Len(ms) >= 1
      BY <1>1, <1>2, Zenon
    <3>2. PICK l \in Nat : l = Len(ms)
      BY <3>1, Zenon
    <3>3. l >= 1 /\ ~(2 \in 2 .. l)
      BY <2>1, <3>1, <3>2, Zenon
    <3>4. QED
      BY <3>2, <3>3
  <2>3. QED
    BY <1>3, <1>5, <2>2, Zenon
<1>6. CASE LastIs(script, p, x)
  <2>1. x \in ModulesBefore(script, p) /\ \A i \in ModulesBefore(script, p) : i <= x
    BY <1>6, Zenon DEF LastIs
  <2>2. PICK k \in 2 .. Len(ms) : ms[k].cmd = x
    BY <1>2, <2>1, Zenon
  <2>3. Len(ms) \in 2 .. Len(ms)
    BY <1>1
  <2>4. ms[Len(ms)].cmd \in ModulesBefore(script, p)
    BY <1>2, <2>3, Zenon
  <2>5. ms[Len(ms)].cmd \in Int /\ x \in Int
    BY <2>1, <2>4 DEF ModulesBefore
  <2>6. ms[Len(ms)].cmd <= x
    BY <2>1, <2>4, Zenon
  <2>7. k < Len(ms) => x < ms[Len(ms)].cmd
    BY <1>2, <2>2, <2>3, Zenon
  <2>8. k = Len(ms)
    BY <1>1, <2>5, <2>6, <2>7
  <2>9. QED
    BY <1>3, <1>6, <2>2, <2>3, <2>8, Zenon
<1>7. QED
  BY <1>4, <1>5, <1>6, Zenon

\* The places of a name in the list of modules.
Places(ms, name) == {i \in DOMAIN ms : ms[i].name = name}

\* A register command finds the module of its name, when there is one only.
LEMMA RegisterFinds ==
  ASSUME script \in Seq(Commands),
         NEW ms, NEW bs, NEW p, EnvKnown(ms, bs, p), NEW name, name # NoName, OneOfName(name),
         NEW x, FoundIs(module_bindings, name, x), x < p
  PROVE  /\ Places(ms, name) = {} => x = None
         /\ \A k \in Places(ms, name) : ms[k].cmd = x
<1>1. \/ ModulesNamed(name) = {} /\ x = None
      \/ x \in ModulesNamed(name)
  BY NameMeans, Zenon
<1>2. ms \in Seq(EnvModules) /\ DOMAIN ms = 1 .. Len(ms) /\ Len(ms) \in Nat
  BY DEF EnvKnown
<1>3. ms[1].name = NoName
  BY DEF EnvKnown, ModulesMatch
<1>4. ASSUME Places(ms, name) = {}, x \in ModulesNamed(name) PROVE FALSE
  <2>1. PICK k \in 2 .. Len(ms) : ms[k].cmd = x /\ ms[k].name = name
    BY <1>4, ModuleIsThere
  <2>2. k \in DOMAIN ms
    BY <1>2
  <2>3. QED
    BY <1>4, <2>1, <2>2, Zenon DEF Places
<1>5. ASSUME NEW k \in Places(ms, name) PROVE ms[k].cmd = x
  <2>1. k \in 1 .. Len(ms) /\ ms[k].name = name
    BY <1>2, Zenon DEF Places
  <2>2. k # 1
    BY <1>3, <2>1, Zenon
  <2>3. k \in 2 .. Len(ms)
    BY <1>2, <2>1, <2>2
  <2>4. ms[k].cmd \in ModulesNamed(name)
    BY <2>1, <2>3, ModuleWasThere, Zenon
  <2>5. x \in ModulesNamed(name)
    BY <1>1, <2>4, Zenon
  <2>6. IsFiniteSet(ModulesNamed(name))
    <3>1. DOMAIN script = 1 .. Len(script) /\ 1 \in Int /\ Len(script) \in Int
      OBVIOUS
    <3>2. IsFiniteSet(DOMAIN script)
      BY <3>1, FS_Interval, Zenon
    <3>3. ModulesNamed(name) \subseteq DOMAIN script
      BY DEF ModulesNamed
    <3>4. QED
      BY <3>2, <3>3, FS_Subset, Zenon
  <2>7. Cardinality(ModulesNamed(name)) <= 1
    BY Zenon DEF OneOfName, ModulesNamed
  <2>8. QED
    BY <2>4, <2>5, <2>6, <2>7, OnlyOne, Zenon
<1>6. QED
  BY <1>1, <1>4, <1>5, Zenon

-----------------------------------------------------------------------------
(* The commands and what is written for them.                              *)

\* A command of the script.
LEMMA CommandTyped ==
  ASSUME script \in Seq(Commands), NEW i \in 1 .. Len(script)
  PROVE  /\ script[i].type \in {"module", "register"} \cup RawCommands \cup ActionCommands
         /\ script[i].type = "module" => script[i].module.name \in Strings
         /\ script[i].type = "register" => script[i].var \in Strings /\ script[i].as \in Strings
         /\ script[i].type \in ActionCommands =>
              /\ script[i].var \in Strings /\ script[i].action.field \in Strings
              /\ Constants(script[i].action.args)
         /\ script[i].type = "assert_return" => Constants(script[i].expected)
<1>1. script[i] \in Commands
  OBVIOUS
<1>2. QED
  BY <1>1, CommandsAssumption, Zenon

\* What is written for a module.
LEMMA ModuleWritten ==
  ASSUME NEW i, script[i].type = "module"
  PROVE  write_command(i) = [type |-> "module", name |-> write_escaped_string_slice(script[i].module.name),
                             filename |-> num_modules(script, i)]
<1>1. script[i].type # "register" /\ script[i].type \notin RawCommands
  BY DEF RawCommands
<1>2. QED
  BY <1>1 DEF write_command

\* What is written for a module that is expected to be bad.
LEMMA RawWritten ==
  ASSUME NEW i, script[i].type \in RawCommands
  PROVE  write_command(i) = [type |-> script[i].type, filename |-> num_modules(script, i)]
<1>1. script[i].type # "module" /\ script[i].type # "register"
  BY DEF RawCommands
<1>2. QED
  BY <1>1 DEF write_command

\* What is written for a register command.
LEMMA RegisterWritten ==
  ASSUME NEW i, script[i].type = "register"
  PROVE  write_command(i) = [type |-> "register", name |-> write_escaped_string_slice(script[i].var),
                             as |-> write_escaped_string_slice(script[i].as)]
<1>1. script[i].type # "module" /\ script[i].type \notin RawCommands
  BY DEF RawCommands
<1>2. QED
  BY <1>1 DEF write_command

\* The results an assertion expects.
Expected(i) == IF script[i].type = "assert_return" THEN write_const_vector(script[i].expected) ELSE <<>>

\* What is written for an action.
LEMMA ActionWritten ==
  ASSUME NEW i, script[i].type \in ActionCommands
  PROVE  write_command(i) = [type |-> script[i].type, action |-> write_action(i), expected |-> Expected(i)]
<1>1. script[i].type # "module" /\ script[i].type # "register" /\ script[i].type \notin RawCommands
  BY DEF RawCommands, ActionCommands
<1>2. QED
  BY <1>1 DEF write_command, Expected

\* The type of a command stays.
LEMMA TypeWritten ==
  ASSUME script \in Seq(Commands), NEW i \in 1 .. Len(script)
  PROVE  write_command(i).type = script[i].type
<1>1. CASE script[i].type = "module"
  BY <1>1, ModuleWritten
<1>2. CASE script[i].type \in RawCommands
  BY <1>2, RawWritten
<1>3. CASE script[i].type = "register"
  BY <1>3, RegisterWritten
<1>4. CASE script[i].type \in ActionCommands
  BY <1>4, ActionWritten
<1>5. QED
  BY <1>1, <1>2, <1>3, <1>4, CommandTyped

-----------------------------------------------------------------------------
(* What the validator has checked of an action.                            *)

\* The export that an action names.
Export(x, action) == script[x].module.exports[action.field]

\* A checked action.
LEMMA CheckedOk ==
  ASSUME NEW x, NEW action, NEW items, NEW ok, Checked(x, action, items, ok).ok
  PROVE  /\ x # None /\ action.field \in DOMAIN script[x].module.exports
         /\ Export(x, action).index \in DOMAIN items /\ ok[Export(x, action).index]
         /\ Checked(x, action, items, ok).types = items[Export(x, action).index]
<1>1. Error.ok = FALSE
  BY DEF Error
<1>2. ASSUME x = None \/ action.field \notin DOMAIN script[x].module.exports PROVE FALSE
  <2>1. Checked(x, action, items, ok) = Error
    BY <1>2, Zenon DEF Checked
  <2>2. QED
    BY <1>1, <2>1, Zenon
<1>3. PICK n : n = Export(x, action).index
  OBVIOUS
<1>4. Checked(x, action, items, ok)
        = IF n \in DOMAIN items /\ ok[n] THEN [ok |-> TRUE, types |-> items[n]] ELSE Error
  <2>1. Checked(x, action, items, ok)
          = IF Export(x, action).index \in DOMAIN items /\ ok[Export(x, action).index]
            THEN [ok |-> TRUE, types |-> items[Export(x, action).index]] ELSE Error
    BY <1>2, Zenon DEF Checked, Export
  <2>2. QED
    BY <1>3, <2>1, Zenon
<1>5. n \in DOMAIN items /\ ok[n]
  BY <1>1, <1>4, Zenon
<1>6. Checked(x, action, items, ok) = [ok |-> TRUE, types |-> items[n]]
  BY <1>4, <1>5, Zenon
<1>7. Checked(x, action, items, ok).types = items[n]
  BY <1>6
<1>8. QED
  BY <1>2, <1>3, <1>5, <1>7, Zenon

\* An invocation that is right.
FuncChecked(x, action, types) ==
  /\ x # None /\ action.field \in DOMAIN script[x].module.exports
  /\ Export(x, action).index \in DOMAIN script[x].module.funcs
  /\ script[x].module.funcs[Export(x, action).index].params = TypesOf(action.args)
  /\ types = script[x].module.funcs[Export(x, action).index].results

\* A get that is right.
GlobalChecked(x, action, types) ==
  /\ x # None /\ action.field \in DOMAIN script[x].module.exports
  /\ Export(x, action).index \in DOMAIN script[x].module.globals
  /\ types = <<script[x].module.globals[Export(x, action).index]>>

\* What check_invoke checks.
LEMMA InvokeOk ==
  ASSUME NEW x, NEW action, check_invoke(x, action).ok
  PROVE  FuncChecked(x, action, check_invoke(x, action).types)
<1> DEFINE funcs == IF x = None THEN <<>> ELSE script[x].module.funcs
           items == [i \in DOMAIN funcs |-> funcs[i].results]
           ok == [i \in DOMAIN funcs |-> funcs[i].params = TypesOf(action.args)]
<1>1. check_invoke(x, action) = Checked(x, action, items, ok)
  BY Zenon DEF check_invoke
<1>2. x # None => funcs = script[x].module.funcs
  BY Zenon
<1> HIDE DEF funcs
<1>3. DOMAIN items = DOMAIN funcs
      /\ \A i \in DOMAIN funcs : /\ items[i] = funcs[i].results
                                 /\ ok[i] <=> funcs[i].params = TypesOf(action.args)
  BY Zenon
<1> HIDE DEF items, ok
<1>4. /\ x # None /\ action.field \in DOMAIN script[x].module.exports
      /\ Export(x, action).index \in DOMAIN items /\ ok[Export(x, action).index]
      /\ check_invoke(x, action).types = items[Export(x, action).index]
  <2>1. Checked(x, action, items, ok).ok
    BY <1>1, Zenon
  <2>2. /\ x # None /\ action.field \in DOMAIN script[x].module.exports
        /\ Export(x, action).index \in DOMAIN items /\ ok[Export(x, action).index]
        /\ Checked(x, action, items, ok).types = items[Export(x, action).index]
    BY <2>1, CheckedOk, Zenon
  <2>3. QED
    BY <1>1, <2>2, Zenon
<1>5. QED
  BY <1>2, <1>3, <1>4, Zenon DEF FuncChecked

\* What check_get checks.
LEMMA GetOk ==
  ASSUME NEW x, NEW action, check_get(x, action).ok
  PROVE  GlobalChecked(x, action, check_get(x, action).types)
<1> DEFINE globals == IF x = None THEN <<>> ELSE script[x].module.globals
           items == [i \in DOMAIN globals |-> <<globals[i]>>]
           ok == [i \in DOMAIN globals |-> TRUE]
<1>1. check_get(x, action) = Checked(x, action, items, ok)
  BY Zenon DEF check_get
<1>2. x # None => globals = script[x].module.globals
  BY Zenon
<1> HIDE DEF globals
<1>3. DOMAIN items = DOMAIN globals /\ \A i \in DOMAIN globals : items[i] = <<globals[i]>>
  BY Zenon
<1> HIDE DEF items, ok
<1>4. /\ x # None /\ action.field \in DOMAIN script[x].module.exports
      /\ Export(x, action).index \in DOMAIN items
      /\ check_get(x, action).types = items[Export(x, action).index]
  <2>1. Checked(x, action, items, ok).ok
    BY <1>1, Zenon
  <2>2. /\ x # None /\ action.field \in DOMAIN script[x].module.exports
        /\ Export(x, action).index \in DOMAIN items /\ ok[Export(x, action).index]
        /\ Checked(x, action, items, ok).types = items[Export(x, action).index]
    BY <2>1, CheckedOk, Zenon
  <2>3. QED
    BY <1>1, <2>2, Zenon
<1>5. QED
  BY <1>2, <1>3, <1>4, Zenon DEF GlobalChecked

\* The module an action is about.
Module(i) == wasm_get_module_by_var(ModuleVar(i))

\* A checked action is an invocation or a get that is right.
ActionOk(i, types) ==
  IF script[i].action.type = "invoke" THEN FuncChecked(Module(i), script[i].action, types)
  ELSE GlobalChecked(Module(i), script[i].action, types)

\* An action of a script that was validated.
LEMMA ActionChecked ==
  ASSUME wasm_validate_script, NEW i \in DOMAIN script, script[i].type \in ActionCommands
  PROVE  /\ ActionOk(i, check_action(i).types)
         /\ script[i].type = "assert_return" => check_action(i).types = TypesOf(script[i].expected)
         /\ script[i].type = "assert_return_nan" => check_action(i).types \in {<<"f32">>, <<"f64">>}
<1>1. check_command(i)
  BY Zenon DEF wasm_validate_script
<1>2. script[i].type \in {"action", "assert_trap"} => check_action(i).ok
  <2>1. ASSUME script[i].type \in {"action", "assert_trap"} PROVE check_action(i).ok
    BY <1>1, <2>1 DEF check_command
  <2>2. QED
    BY <2>1
<1>3. script[i].type = "assert_return" =>
        check_action(i).ok /\ check_action(i).types = TypesOf(script[i].expected)
  BY <1>1 DEF check_command
<1>4. script[i].type = "assert_return_nan" =>
        check_action(i).ok /\ check_action(i).types \in {<<"f32">>, <<"f64">>}
  <2>1. ASSUME script[i].type = "assert_return_nan"
        PROVE  check_action(i).ok /\ check_action(i).types \in {<<"f32">>, <<"f64">>}
    <3>1. script[i].type # "module" /\ script[i].type \notin {"action", "assert_trap"}
          /\ script[i].type # "assert_return"
      BY <2>1
    <3>2. QED
      BY <1>1, <2>1, <3>1, Zenon DEF check_command
  <2>2. QED
    BY <2>1
<1>5. check_action(i).ok
  BY <1>2, <1>3, <1>4 DEF ActionCommands
<1>6. CASE script[i].action.type = "invoke"
  <2>1. check_action(i) = check_invoke(Module(i), script[i].action)
    BY <1>6, Zenon DEF check_action, Module
  <2>2. FuncChecked(Module(i), script[i].action, check_action(i).types)
    BY <1>5, <2>1, InvokeOk, Zenon
  <2>3. QED
    BY <1>3, <1>4, <1>6, <2>2, Zenon DEF ActionOk
<1>7. CASE script[i].action.type # "invoke"
  <2>1. check_action(i) = check_get(Module(i), script[i].action)
    BY <1>7, Zenon DEF check_action, Module
  <2>2. GlobalChecked(Module(i), script[i].action, check_action(i).types)
    BY <1>5, <2>1, GetOk, Zenon
  <2>3. QED
    BY <1>3, <1>4, <1>7, <2>2, Zenon DEF ActionOk
<1>8. QED
  BY <1>6, <1>7, Zenon

\* A checked action is about a module.
LEMMA ActionHasModule ==
  ASSUME NEW i, NEW types, ActionOk(i, types)
  PROVE  Module(i) # None
BY Zenon DEF ActionOk, FuncChecked, GlobalChecked

-----------------------------------------------------------------------------
(* What wasm-interp reads of an action.                                    *)

\* The bits of a constant, written in decimal and read again.
LEMMA ConstRead ==
  ASSUME NEW const, const.bits \in Bits
  PROVE  parse_const(write_const(const)) = [type |-> const.type, bits |-> const.bits]
<1>1. PICK b : b = const.bits
  OBVIOUS
<1>2. b \in 0 .. 99
  <2>1. b \in Bits
    BY <1>1, Zenon
  <2>2. QED
    BY <2>1, BitsAssumption, Zenon
<1>3. PICK s : s = write_const(const)
  OBVIOUS
<1>4. s.type = const.type /\ s.value = IF b >= 10 THEN <<b \div 10, b % 10>> ELSE <<b>>
  BY <1>1, <1>3 DEF write_const
<1>5. CASE b >= 10
  <2>1. s.value = <<b \div 10, b % 10>>
    BY <1>4, <1>5, Zenon
  <2>2. PICK v : v = s.value
    OBVIOUS
  <2>3. Len(v) = 2 /\ v[1] = b \div 10 /\ v[2] = b % 10
    BY <2>1, <2>2
  <2>4. 2 \in Nat /\ 2 = Len(s.value)
    BY <2>2, <2>3
  <2>5. PICK at : Adds(at, v, 2) /\ parse_const(s) = [type |-> s.type, bits |-> at[2]]
    BY <2>2, <2>4, ConstAdds, Zenon
  <2>6. at[0] = 0 /\ \A i \in 1 .. 2 : at[i] = 10 * at[i - 1] + v[i]
    <3>1. PICK n \in Nat : n = 2
      BY <2>4, Zenon
    <3>2. Adds(at, v, n)
      BY <2>5, <3>1, Zenon
    <3>3. at[0] = 0 /\ \A i \in 1 .. n : at[i] = 10 * at[i - 1] + v[i]
      BY <3>2, AddsFacts, Zenon
    <3>4. QED
      BY <3>1, <3>3, Zenon
  <2>7. at[1] = 10 * at[0] + v[1] /\ at[2] = 10 * at[1] + v[2]
    <3>1. 1 \in 1 .. 2 /\ 2 \in 1 .. 2 /\ 1 - 1 = 0 /\ 2 - 1 = 1
      OBVIOUS
    <3>2. QED
      BY <2>6, <3>1, Zenon
  <2>8. at[2] = b
    <3>1. b \div 10 \in Int /\ b % 10 \in Int /\ 10 * (b \div 10) + (b % 10) = b
      BY <1>2
    <3>2. PICK q \in Int, d \in Int : q = b \div 10 /\ d = b % 10 /\ 10 * q + d = b
      BY <3>1, Zenon
    <3>3. at[0] = 0 /\ at[1] = 10 * at[0] + q /\ at[2] = 10 * at[1] + d
      BY <2>3, <2>6, <2>7, <3>2, Zenon
    <3>4. at[1] = q
      BY <3>3
    <3>5. at[2] = 10 * q + d
      BY <3>3, <3>4, Zenon
    <3>6. QED
      BY <3>2, <3>5, Zenon
  <2>9. QED
    BY <1>1, <1>3, <1>4, <2>5, <2>8, Zenon
<1>6. CASE ~(b >= 10)
  <2>1. s.value = <<b>>
    BY <1>4, <1>6, Zenon
  <2>2. PICK v : v = s.value
    OBVIOUS
  <2>3. Len(v) = 1 /\ v[1] = b
    BY <2>1, <2>2
  <2>4. 1 \in Nat /\ 1 = Len(s.value)
    BY <2>2, <2>3
  <2>5. PICK at : Adds(at, v, 1) /\ parse_const(s) = [type |-> s.type, bits |-> at[1]]
    BY <2>2, <2>4, ConstAdds, Zenon
  <2>6. at[0] = 0 /\ \A i \in 1 .. 1 : at[i] = 10 * at[i - 1] + v[i]
    <3>1. PICK n \in Nat : n = 1
      BY <2>4, Zenon
    <3>2. Adds(at, v, n)
      BY <2>5, <3>1, Zenon
    <3>3. at[0] = 0 /\ \A i \in 1 .. n : at[i] = 10 * at[i - 1] + v[i]
      BY <3>2, AddsFacts, Zenon
    <3>4. QED
      BY <3>1, <3>3, Zenon
  <2>7. at[1] = b
    <3>1. 1 \in 1 .. 1 /\ 1 - 1 = 0
      OBVIOUS
    <3>2. at[1] = 10 * at[0] + v[1]
      BY <2>6, <3>1, Zenon
    <3>3. at[0] = 0 /\ v[1] = b /\ b \in Int
      BY <1>2, <2>3, <2>6
    <3>4. QED
      BY <3>2, <3>3
  <2>8. QED
    BY <1>1, <1>3, <1>4, <2>5, <2>7, Zenon
<1>7. QED
  BY <1>5, <1>6, Zenon

\* Constants that are read have the types and bits they were written with.
Same(a, b) ==
  /\ DOMAIN a = DOMAIN b /\ a = [k \in DOMAIN a |-> a[k]]
  /\ \A k \in DOMAIN a : a[k] = [type |-> b[k].type, bits |-> b[k].bits]

\* Constants, written and read again.
LEMMA ConstsRead ==
  ASSUME NEW consts, Constants(consts)
  PROVE  Same(parse_const_vector(write_const_vector(consts)), consts)
<1>1. PICK w : w = write_const_vector(consts)
  OBVIOUS
<1>2. w = [k \in DOMAIN consts |-> write_const(consts[k])]
  BY <1>1, Zenon DEF write_const_vector
<1>3. DOMAIN w = DOMAIN consts /\ \A k \in DOMAIN consts : w[k] = write_const(consts[k])
  BY <1>2, Zenon
<1>4. PICK r : r = parse_const_vector(w)
  OBVIOUS
<1>5. r = [k \in DOMAIN w |-> parse_const(w[k])]
  BY <1>4, Zenon DEF parse_const_vector
<1>6. DOMAIN r = DOMAIN w /\ \A k \in DOMAIN w : r[k] = parse_const(w[k])
  BY <1>5, Zenon
<1>7. r = [k \in DOMAIN r |-> r[k]]
  BY <1>5, <1>6, Zenon
<1>8. ASSUME NEW k \in DOMAIN r PROVE r[k] = [type |-> consts[k].type, bits |-> consts[k].bits]
  <2>1. k \in DOMAIN consts
    BY <1>3, <1>6, Zenon
  <2>2. consts[k].bits \in Bits
    BY <2>1, Zenon DEF Constants
  <2>3. parse_const(write_const(consts[k])) = [type |-> consts[k].type, bits |-> consts[k].bits]
    BY <2>2, ConstRead, Zenon
  <2>4. QED
    BY <1>3, <1>6, <2>1, <2>3, Zenon
<1>9. QED
  BY <1>1, <1>3, <1>4, <1>6, <1>7, <1>8, Zenon DEF Same

\* Their types are the same.
LEMMA SameTypes ==
  ASSUME NEW a, NEW b, Same(a, b)
  PROVE  TypesOf(a) = TypesOf(b)
<1>1. DOMAIN a = DOMAIN b /\ \A k \in DOMAIN a : a[k].type = b[k].type
  BY DEF Same
<1>2. QED
  BY <1>1 DEF TypesOf

\* The converted script.
Converted ==
  /\ json = [i \in DOMAIN script |-> write_command(i)]
  /\ files = write_commands
  /\ wasm_validate_script

\* A command that is run is the one that was written.
LEMMA CommandRead ==
  ASSUME script \in Seq(Commands), Converted
  PROVE  /\ json \in Seq({write_command(i) : i \in DOMAIN script}) /\ Len(json) = Len(script)
         /\ \A i \in 1 .. Len(script) : json[i] = write_command(i) /\ json[i].type = script[i].type
<1>1. json = [i \in 1 .. Len(script) |-> write_command(i)] /\ Len(script) \in Nat
      /\ DOMAIN script = 1 .. Len(script)
  BY DEF Converted
<1>2. \A i \in 1 .. Len(script) : json[i] = write_command(i)
  BY <1>1
<1>3. json \in Seq({write_command(i) : i \in DOMAIN script}) /\ Len(json) = Len(script)
  <2>1. \A i \in 1 .. Len(script) : write_command(i) \in {write_command(j) : j \in DOMAIN script}
    BY <1>1
  <2>2. QED
    BY <1>1, <2>1
<1>4. QED
  BY <1>2, <1>3, TypeWritten, Zenon

\* An action that is run is the one that was written.
LEMMA ActionRead ==
  ASSUME script \in Seq(Commands), Converted, pos \in 1 .. Len(script),
         script[pos].type \in ActionCommands
  PROVE  /\ Cmd.type = script[pos].type /\ Cmd.expected = Expected(pos)
         /\ parse_action.type = script[pos].action.type
         /\ parse_action.module_name = script[pos].var
         /\ parse_action.field_name = script[pos].action.field
         /\ Same(parse_action.args, script[pos].action.args)
<1>1. Cmd = write_command(pos)
  BY CommandRead, Zenon DEF Cmd
<1>2. Cmd = [type |-> script[pos].type, action |-> write_action(pos), expected |-> Expected(pos)]
  BY <1>1, ActionWritten, Zenon
<1>3. /\ Cmd.type = script[pos].type /\ Cmd.action = write_action(pos)
      /\ Cmd.expected = Expected(pos)
  BY <1>2
<1>4. PICK a : a = write_action(pos)
  OBVIOUS
<1>5. /\ a.type = script[pos].action.type
      /\ a.module = write_escaped_string_slice(script[pos].var)
      /\ a.field = write_escaped_string_slice(script[pos].action.field)
      /\ a.args = write_const_vector(script[pos].action.args)
  BY <1>4 DEF write_action
<1>6. Cmd.action = a
  BY <1>3, <1>4, Zenon
<1>7. parse_action = [type |-> a.type, module_name |-> parse_string(a.module),
                      field_name |-> parse_string(a.field), args |-> parse_const_vector(a.args)]
  BY <1>6, Zenon DEF parse_action
<1>8. /\ script[pos].var \in Strings /\ script[pos].action.field \in Strings
      /\ Constants(script[pos].action.args)
  BY CommandTyped, Zenon
<1>9. /\ parse_string(a.module) = script[pos].var
      /\ parse_string(a.field) = script[pos].action.field
      /\ Same(parse_const_vector(a.args), script[pos].action.args)
  BY <1>5, <1>8, StringRead, ConstsRead, Zenon
<1>10. /\ parse_action.type = a.type /\ parse_action.module_name = parse_string(a.module)
       /\ parse_action.field_name = parse_string(a.field)
       /\ parse_action.args = parse_const_vector(a.args)
  BY <1>7
<1>11. QED
  BY <1>3, <1>5, <1>9, <1>10, Zenon

\* The module that a command names, or the last one.
LEMMA ModuleMeans ==
  ASSUME script \in Seq(Commands), NEW i \in 1 .. Len(script)
  PROVE  /\ script[i].var = NoName => Module(i) = LastModule(script, i)
         /\ script[i].var # NoName => FoundIs(module_bindings, script[i].var, Module(i))
<1>1. CASE script[i].var = NoName
  <2>1. ModuleVar(i) = [name |-> NoName, index |-> LastModule(script, i)]
    BY <1>1, Zenon DEF ModuleVar
  <2>2. ModuleVar(i).name = NoName /\ ModuleVar(i).index = LastModule(script, i)
    BY <2>1
  <2>3. QED
    BY <1>1, <2>2, Zenon DEF Module, wasm_get_module_by_var
<1>2. CASE script[i].var # NoName
  <2>1. ModuleVar(i) = [name |-> script[i].var, index |-> None]
    BY <1>2, Zenon DEF ModuleVar
  <2>2. ModuleVar(i).name = script[i].var
    BY <2>1
  <2>3. Module(i) = wasm_find_binding_index_by_name(module_bindings, script[i].var)
    BY <1>2, <2>2, Zenon DEF Module, wasm_get_module_by_var
  <2>4. DOMAIN module_bindings \subseteq 1 .. Len(script) /\ Len(script) \in Nat
    BY ScriptBindings
  <2>5. FoundIs(module_bindings, script[i].var,
                wasm_find_binding_index_by_name(module_bindings, script[i].var))
    BY <2>4, LookupFinds, Zenon
  <2>6. QED
    BY <1>2, <2>3, <2>5, Zenon
<1>3. QED
  BY <1>1, <1>2, Zenon

\* The modules and bindings are known before the next command.
Known == EnvKnown(env.modules, env.bindings, pos)

\* An action is run on the module it was validated against.
LEMMA ActionFinds ==
  ASSUME script \in Seq(Commands), Converted, Known,
         script[pos].type \in ActionCommands, Module(pos) < pos, FoundAlike(pos)
  PROVE  /\ ActionModule # None /\ Module(pos) # 0
         /\ env.modules[ActionModule + 1].cmd = Module(pos)
<1>1. /\ pos \in 1 .. Len(script) /\ pos \in DOMAIN script
      /\ env.modules \in Seq(EnvModules) /\ env.bindings \in Seq(EnvBindings)
      /\ DOMAIN env.bindings \subseteq 1 .. Len(env.bindings) /\ Len(env.bindings) \in Nat
  BY DEF Known, EnvKnown
<1>2. parse_action.module_name = script[pos].var
  BY <1>1, ActionRead, Zenon
<1>3. Module(pos) # None
  BY <1>1, ActionChecked, ActionHasModule, Zenon DEF Converted
<1>4. script[pos].type # "module"
  BY DEF ActionCommands
<1>5. CASE script[pos].var = NoName
  <2>1. ActionModule = Len(env.modules) - 1
    BY <1>2, <1>5, Zenon DEF ActionModule
  <2>2. Module(pos) = LastModule(script, pos)
    BY <1>1, <1>5, ModuleMeans, Zenon
  <2>3. LastIs(script, pos, Module(pos)) /\ Len(env.modules) \in 2 .. Len(env.modules)
        /\ env.modules[Len(env.modules)].cmd = Module(pos)
    <3>1. EnvKnown(env.modules, env.bindings, pos)
      BY Zenon DEF Known
    <3>2. \/ LastModule(script, pos) = None
          \/ LastIs(script, pos, LastModule(script, pos))
             /\ Len(env.modules) \in 2 .. Len(env.modules)
             /\ env.modules[Len(env.modules)].cmd = LastModule(script, pos)
      BY <1>4, <3>1, LastFinds
    <3>3. QED
      BY <1>3, <2>2, <3>2, Zenon
  <2>4. Module(pos) \in 1 .. pos - 1
    BY <2>3, Zenon DEF LastIs, ModulesBefore
  <2>5. Module(pos) # 0
    BY <1>1, <2>4
  <2>6. ActionModule # None /\ ActionModule + 1 = Len(env.modules)
    BY <1>1, <2>1, <2>3 DEF None
  <2>7. QED
    BY <2>3, <2>5, <2>6, Zenon
<1>6. CASE script[pos].var # NoName
  <2>1. ActionModule = wasm_find_binding_index_by_name(env.bindings, script[pos].var)
    BY <1>2, <1>6, Zenon DEF ActionModule
  <2>2. FoundIs(env.bindings, script[pos].var, ActionModule)
    BY <1>1, <2>1, LookupFinds, Zenon
  <2>3. FoundIs(module_bindings, script[pos].var, Module(pos))
    BY <1>1, <1>6, ModuleMeans, Zenon
  <2>4. /\ ActionModule \in Int /\ ActionModule # None
        /\ env.modules[ActionModule + 1].cmd = Module(pos)
    <3>1. EnvKnown(env.modules, env.bindings, pos)
      BY Zenon DEF Known
    <3>2. \/ OneOfName(script[pos].var)
          \/ Cardinality(DOMAIN module_bindings) <= INITIAL_HASH_CAPACITY
      BY <1>6, Zenon DEF FoundAlike
    <3>3. QED
      BY <1>3, <1>6, <2>2, <2>3, <3>1, <3>2, NameFinds
  <2>5. Module(pos) \in ModulesNamed(script[pos].var)
    BY <1>3, <1>6, <2>3, NameMeans, Zenon
  <2>6. Module(pos) # 0
    BY <2>5 DEF ModulesNamed
  <2>7. QED
    BY <2>4, <2>6, Zenon
<1>7. QED
  BY <1>5, <1>6, Zenon

\* How a checked action may end.
EndsWell(r, types) ==
  \/ r = Ended("trap")
  \/ \E v \in Values(types) : r = [result |-> "ok", values |-> Typed(types, v)]

\* A checked action ends well.
LEMMA ActionEnds ==
  ASSUME script \in Seq(Commands), Converted, pos \in 1 .. Len(script),
         script[pos].type \in ActionCommands, Module(pos) # 0, KindMatches(pos),
         NEW r \in run_action(Module(pos))
  PROVE  EndsWell(r, check_action(pos).types)
<1>1. PICK x : x = Module(pos)
  OBVIOUS
<1>2. PICK a : a = script[pos].action
  OBVIOUS
<1>3. PICK types : types = check_action(pos).types
  OBVIOUS
<1>4. /\ parse_action.type = a.type /\ parse_action.field_name = a.field
      /\ TypesOf(parse_action.args) = TypesOf(a.args)
  BY <1>2, ActionRead, SameTypes, Zenon
<1>5. ActionOk(pos, types)
  <2>1. pos \in DOMAIN script
    OBVIOUS
  <2>2. ActionOk(pos, check_action(pos).types)
    BY <2>1, ActionChecked, Zenon DEF Converted
  <2>3. QED
    BY <1>3, <2>2, Zenon
<1>6. Export(x, a).kind = ExportKind(a)
  BY <1>1, <1>2, Zenon DEF KindMatches, Export, Module
<1>7. Exports(x) = script[x].module.exports
  BY <1>1, Zenon DEF Exports
<1>8. r \in run_action(x)
  BY <1>1, Zenon
<1>9. CASE a.type = "invoke"
  <2>1. FuncChecked(x, a, types)
    BY <1>1, <1>2, <1>5, <1>9, Zenon DEF ActionOk
  <2>2. Export(x, a).kind = "func"
    BY <1>6, <1>9, Zenon DEF ExportKind
  <2>3. PICK f : f = script[x].module.funcs[Export(x, a).index]
    OBVIOUS
  <2>4. r \in Invoked(x, a.field, parse_action.args)
    BY <1>4, <1>8, <1>9, Zenon DEF run_action
  <2>5. a.field \in DOMAIN Exports(x) /\ Exports(x)[a.field] = Export(x, a)
        /\ f.params = TypesOf(parse_action.args) /\ types = f.results
    BY <1>4, <1>7, <2>1, <2>3, Zenon DEF FuncChecked, Export
  <2>6. Invoked(x, a.field, parse_action.args) =
          {Ended("trap")} \cup {[result |-> "ok", values |-> Typed(f.results, v)] : v \in Values(f.results)}
    BY <2>2, <2>3, <2>5, Zenon DEF Invoked
  <2>7. EndsWell(r, types)
    BY <2>4, <2>5, <2>6, Zenon DEF EndsWell
  <2>8. QED
    BY <1>3, <2>7, Zenon
<1>10. CASE a.type # "invoke"
  <2>1. GlobalChecked(x, a, types)
    BY <1>1, <1>2, <1>5, <1>10, Zenon DEF ActionOk
  <2>2. Export(x, a).kind = "global"
    BY <1>6, <1>10, Zenon DEF ExportKind
  <2>3. PICK g : g = script[x].module.globals[Export(x, a).index]
    OBVIOUS
  <2>4. r \in get_global_export_by_name(x, a.field)
    BY <1>4, <1>8, <1>10, Zenon DEF run_action
  <2>5. a.field \in DOMAIN Exports(x) /\ Exports(x)[a.field] = Export(x, a) /\ types = <<g>>
    BY <1>7, <2>1, <2>3, Zenon DEF GlobalChecked, Export
  <2>6. get_global_export_by_name(x, a.field) =
          {[result |-> "ok", values |-> Typed(<<g>>, v)] : v \in Values(<<g>>)}
    BY <2>2, <2>3, <2>5, Zenon DEF get_global_export_by_name
  <2>7. EndsWell(r, types)
    BY <2>4, <2>5, <2>6, Zenon DEF EndsWell
  <2>8. QED
    BY <1>3, <2>7, Zenon
<1>11. QED
  BY <1>9, <1>10, Zenon

\* A call that returned values of those types.
Returned(r, types) ==
  /\ r.result = "ok" /\ DOMAIN r.values = DOMAIN types
  /\ r.values = [k \in DOMAIN types |-> r.values[k]]
  /\ \A k \in DOMAIN types : /\ r.values[k] = [type |-> types[k], bits |-> r.values[k].bits]
                             /\ r.values[k].type = types[k] /\ r.values[k].bits \in Bits

\* What ends well is a trap or has values of those types.
LEMMA EndsFacts ==
  ASSUME NEW r, NEW types, EndsWell(r, types)
  PROVE  \/ r.result = "trap" /\ r.values = <<>>
         \/ Returned(r, types)
<1>1. CASE r = Ended("trap")
  BY <1>1 DEF Ended
<1>2. CASE \E v \in Values(types) : r = [result |-> "ok", values |-> Typed(types, v)]
  <2>1. PICK v \in Values(types) : r = [result |-> "ok", values |-> Typed(types, v)]
    BY <1>2, Zenon
  <2>2. PICK w : w = Typed(types, v)
    OBVIOUS
  <2>3. r.result = "ok" /\ r.values = w
    BY <2>1, <2>2
  <2>4. w = [k \in DOMAIN types |-> [type |-> types[k], bits |-> v[k]]]
    BY <2>2, Zenon DEF Typed
  <2>5. DOMAIN w = DOMAIN types
        /\ \A k \in DOMAIN types : w[k] = [type |-> types[k], bits |-> v[k]]
    BY <2>4, Zenon
  <2>6. \A k \in DOMAIN types : v[k] \in Bits
    BY DEF Values
  <2>7. \A k \in DOMAIN types : w[k].type = types[k] /\ w[k].bits = v[k]
    BY <2>5
  <2>8. w = [k \in DOMAIN types |-> w[k]]
    BY <2>4, <2>5, Zenon
  <2>9. QED
    BY <2>3, <2>5, <2>6, <2>7, <2>8, Zenon DEF Returned
<1>3. QED
  BY <1>1, <1>2, Zenon DEF EndsWell

-----------------------------------------------------------------------------
(* The inductive invariant.                                                *)

EnvType ==
  [modules : Seq(EnvModules), bindings : Seq(EnvBindings), registered : Seq(EnvBindings)]

Tests == [passed : Int, total : Int]

\* The environment before the next command.
EnvOK ==
  /\ env \in EnvType
  /\ ModulesMatch(env.modules, script, pos)
  /\ BindingsMatch(env.bindings, env.modules)
  /\ ~failed => AllModules(env.modules, script, pos)

\* Command i was run as ActsOnChecked says.
RanRight(i) ==
  /\ script[i].type \in ActionCommands /\ Precedes(i) =>
       ran.cmd = Module(i) /\ ran.result \in {"ok", "trap"}
  /\ script[i].type = "register" /\ Precedes(i) /\ OneOfName(script[i].var) =>
       ran.cmd = IF ModuleVar(i) = [name |-> NoName, index |-> None] THEN 0 ELSE Module(i)
  /\ script[i].type \in RawCommands => ran.cmd = i

RunInv ==
  /\ script \in Seq(Commands)
  /\ phase \in {"text", "run", "undefined", "done", "rejected", "aborted"}
  /\ pos \in 1 .. Len(script) + 1 /\ (phase = "text" => pos = 1)
  /\ phase \in {"run", "undefined", "done"} => Converted
  /\ EnvOK /\ tests \in Tests
  /\ phase = "undefined" => failed \/ ~Precedes(pos)
  /\ phase = "run" /\ pos > 1 => RanRight(pos - 1)

\* The invariant implies ActsOnChecked.
LEMMA RunInvChecked ==
  ASSUME RunInv
  PROVE  ActsOnChecked
<1>1. phase = "undefined" => failed \/ ~Precedes(pos)
  BY DEF RunInv
<1>2. ASSUME phase = "run" /\ pos > 1 PROVE RanRight(pos - 1)
  BY <1>2 DEF RunInv
<1>3. QED
  BY <1>1, <1>2, Zenon DEF ActsOnChecked, RanRight, Module

\* The binding of a name and what is checked of an action, of the bindings and the
\* script they depend on.
BindingOf(b, name) ==
  LET hits == {i \in DOMAIN b : b[i].name = name}
      head == {i \in hits : \A j \in {k \in DOMAIN b : MainSlot(b[k].name) = MainSlot(name)} : i <= j}
      last == {i \in hits : \A j \in hits : j <= i}
      may == IF Cardinality(DOMAIN b) > INITIAL_HASH_CAPACITY THEN hits
             ELSE IF head # {} THEN head ELSE last
  IN IF may = {} THEN None
     ELSE b[CHOOSE i \in may : Relinked(b, name) \in may => i = Relinked(b, name)].index

CheckedOf(s, x, action, items, ok) ==
  IF x = None \/ action.field \notin DOMAIN s[x].module.exports THEN Error
  ELSE LET index == s[x].module.exports[action.field].index
       IN IF index \in DOMAIN items /\ ok[index]
          THEN [ok |-> TRUE, types |-> items[index]] ELSE Error

InvokeOf(s, x, action) ==
  LET funcs == IF x = None THEN <<>> ELSE s[x].module.funcs
  IN CheckedOf(s, x, action, [i \in DOMAIN funcs |-> funcs[i].results],
               [i \in DOMAIN funcs |-> funcs[i].params = TypesOf(action.args)])

GetOf(s, x, action) ==
  LET globals == IF x = None THEN <<>> ELSE s[x].module.globals
  IN CheckedOf(s, x, action, [i \in DOMAIN globals |-> <<globals[i]>>],
               [i \in DOMAIN globals |-> TRUE])

\* The names and numbers of a script do not change while it runs.
LEMMA ScriptStays ==
  ASSUME script' = script, NEW i
  PROVE  /\ Module(i)' = Module(i) /\ KindMatches(i)' = KindMatches(i) /\ FoundAlike(i)' = FoundAlike(i)
         /\ ModuleVar(i)' = ModuleVar(i)
         /\ \A name : OneOfName(name)' = OneOfName(name)
         /\ (Module(i) < i)' = (Module(i) < i)
<1>1. module_bindings' = module_bindings
  BY Zenon DEF module_bindings
<1>2. ModuleVar(i)' = ModuleVar(i)
  BY Zenon DEF ModuleVar, LastModule
<1>3. ASSUME NEW name
      PROVE  wasm_find_binding_index_by_name(module_bindings, name)'
               = wasm_find_binding_index_by_name(module_bindings, name)
  <2>1. wasm_find_binding_index_by_name(module_bindings, name) = BindingOf(module_bindings, name)
    BY Zenon DEF wasm_find_binding_index_by_name, MayFind, Chain, Hits, BindingOf
  <2>2. wasm_find_binding_index_by_name(module_bindings, name)' = BindingOf(module_bindings', name)
    BY Zenon DEF wasm_find_binding_index_by_name, MayFind, Chain, Hits, BindingOf
  <2>3. QED
    BY <1>1, <2>1, <2>2, Zenon
<1>4. Module(i)' = Module(i)
  BY <1>2, <1>3, Zenon DEF Module, wasm_get_module_by_var
<1>5. KindMatches(i)' = KindMatches(i)
  BY <1>4, Zenon DEF KindMatches, Module, ExportKind
<1>6. \A name : OneOfName(name)' = OneOfName(name)
  BY Zenon DEF OneOfName
<1>7. FoundAlike(i)' = FoundAlike(i)
  BY <1>1, Zenon DEF FoundAlike, OneOfName
<1>8. QED
  BY <1>2, <1>4, <1>5, <1>6, <1>7, Zenon

\* What is checked and written stays too.
LEMMA ConversionStays ==
  ASSUME script' = script
  PROVE  /\ \A i : write_command(i)' = write_command(i)
         /\ write_commands' = write_commands
         /\ wasm_validate_script' = wasm_validate_script
<1>1. \A i : ModuleVar(i)' = ModuleVar(i) /\ Module(i)' = Module(i)
  BY ScriptStays, Zenon
<1>2. \A i : write_command(i)' = write_command(i)
  BY Zenon DEF write_command, write_action
<1>3. write_commands' = write_commands
  BY Zenon DEF write_commands
<1>4. \A i : check_action(i)' = check_action(i)
  <2>1. \A x, a : check_invoke(x, a)' = check_invoke(x, a) /\ check_get(x, a)' = check_get(x, a)
    <3>1. \A x, a : check_invoke(x, a) = InvokeOf(script, x, a) /\ check_get(x, a) = GetOf(script, x, a)
      BY Zenon DEF check_invoke, check_get, Checked, InvokeOf, GetOf, CheckedOf
    <3>2. \A x, a : /\ check_invoke(x, a)' = InvokeOf(script', x, a)
                   /\ check_get(x, a)' = GetOf(script', x, a)
      BY Zenon DEF check_invoke, check_get, Checked, InvokeOf, GetOf, CheckedOf
    <3>3. QED
      BY <3>1, <3>2, Zenon
  <2>2. QED
    BY <1>1, <2>1, Zenon DEF check_action, Module
<1>5. \A i : check_command(i)' = check_command(i)
  BY <1>4, Zenon DEF check_command
<1>6. wasm_validate_script' = wasm_validate_script
  BY <1>5, Zenon DEF wasm_validate_script
<1>7. QED
  BY <1>2, <1>3, <1>6, Zenon

\* The list of commands stays too.
LEMMA ConvertedStays ==
  ASSUME script' = script, json' = json, files' = files, Converted
  PROVE  Converted'
BY ConversionStays, Zenon DEF Converted

-----------------------------------------------------------------------------
(* The steps.                                                              *)

\* The types of commands are different.
LEMMA TypesDiffer ==
  /\ \A t \in RawCommands : t # "module" /\ t # "register" /\ t \notin ActionCommands
  /\ \A t \in ActionCommands : t # "module" /\ t # "register" /\ t \notin RawCommands
  /\ "module" \notin ActionCommands /\ "module" \notin RawCommands
  /\ "register" \notin ActionCommands /\ "register" \notin RawCommands
BY DEF RawCommands, ActionCommands

\* What is known when a command is run.
LEMMA Running ==
  ASSUME RunInv, NEW t, Command(t)
  PROVE  /\ phase = "run" /\ pos \in 1 .. Len(script) /\ pos \in DOMAIN script /\ pos \in Nat
         /\ script \in Seq(Commands) /\ Converted
         /\ Cmd = write_command(pos) /\ script[pos].type = t
         /\ env \in EnvType /\ env.modules \in Seq(EnvModules) /\ env.bindings \in Seq(EnvBindings)
         /\ env.registered \in Seq(EnvBindings)
         /\ ~failed => Known
<1>1. phase = "run" /\ pos <= Len(json) /\ json[pos].type = t
  BY DEF Command
<1>2. script \in Seq(Commands) /\ Converted
      /\ pos \in 1 .. Len(script) + 1
  BY <1>1 DEF RunInv
<1>3. Len(json) = Len(script)
      /\ \A i \in 1 .. Len(script) : json[i] = write_command(i) /\ json[i].type = script[i].type
  BY <1>2, CommandRead, Zenon
<1>4. pos \in 1 .. Len(script) /\ pos \in DOMAIN script /\ pos \in Nat
  <2>1. pos <= Len(script)
    BY <1>1, <1>3, Zenon
  <2>2. QED
    BY <1>2, <2>1
<1>5. Cmd = write_command(pos) /\ script[pos].type = t
  BY <1>1, <1>3, <1>4, Zenon DEF Cmd
<1>6. env \in EnvType /\ env.modules \in Seq(EnvModules) /\ env.bindings \in Seq(EnvBindings)
      /\ env.registered \in Seq(EnvBindings)
  BY DEF RunInv, EnvOK, EnvType
<1>7. ~failed => Known
  BY <1>4, <1>6, Zenon DEF RunInv, EnvOK, Known, EnvKnown
<1>8. QED
  BY <1>1, <1>2, <1>4, <1>5, <1>6, <1>7, Zenon

\* What a command leaves to be shown.
LEMMA AdvanceKeeps ==
  ASSUME RunInv, phase = "run", pos \in 1 .. Len(script), Advance, EnvOK', tests' \in Tests,
         NEW p, p = pos, RanRight(p)'
  PROVE  RunInv'
<1>1. /\ pos' = pos + 1 /\ script' = script /\ phase' = phase
      /\ files' = files /\ json' = json
  BY DEF Advance
<1>2. /\ script \in Seq(Commands) /\ Converted
  BY DEF RunInv
<1>3. Converted'
  BY <1>1, <1>2, ConvertedStays, Zenon
<1>4. pos' \in 1 .. Len(script') + 1
  <2>1. pos + 1 \in 1 .. Len(script) + 1
    BY <1>2
  <2>2. QED
    BY <1>1, <2>1, Zenon
<1>5. pos' - 1 = p
  BY <1>1
<1>6. (phase = "run" /\ pos > 1 => RanRight(pos - 1))'
  <2>1. RanRight(pos - 1)'
    BY <1>5, Zenon DEF RanRight, Precedes, Module, KindMatches, FoundAlike
  <2>2. QED
    BY <2>1
<1>7. phase' = "run"
  BY <1>1, Zenon
<1>8. QED
  BY <1>1, <1>2, <1>3, <1>4, <1>6, <1>7 DEF RunInv

\* Adding and subtracting is counting.
LEMMA CountKeeps ==
  ASSUME tests \in Tests, NEW pass, Count(pass)
  PROVE  /\ tests' \in Tests /\ tests'.total = tests.total + 1
         /\ tests'.passed = tests.passed + (IF pass THEN 1 ELSE 0)
BY DEF Count, Tests

\* What makes the next environment right.
LEMMA EnvNext ==
  ASSUME env' \in EnvType, ModulesMatch(env'.modules, script', pos'),
         BindingsMatch(env'.bindings, env'.modules),
         ~failed' => AllModules(env'.modules, script', pos')
  PROVE  EnvOK'
BY Zenon DEF EnvOK, ModulesMatch, BindingsMatch, AllModules, ModulesBefore

\* The environment stays as it is.
LEMMA EnvStays ==
  ASSUME EnvOK, pos \in Nat \ {0}, script[pos].type # "module", script' = script, env' = env,
         failed' = failed, pos' = pos + 1
  PROVE  EnvOK'
<1>1. /\ env \in EnvType /\ ModulesMatch(env.modules, script, pos)
      /\ BindingsMatch(env.bindings, env.modules)
      /\ ~failed => AllModules(env.modules, script, pos)
  BY DEF EnvOK
<1>2. PICK ms : ms = env.modules
  OBVIOUS
<1>3. pos + 1 \in Nat
  OBVIOUS
<1>4. /\ ModulesMatch(ms, script, pos + 1)
      /\ AllModules(ms, script, pos) => AllModules(ms, script, pos + 1)
  BY <1>1, <1>2, SkipModule, Zenon
<1>5. /\ env' \in EnvType /\ ModulesMatch(env'.modules, script', pos')
      /\ BindingsMatch(env'.bindings, env'.modules)
      /\ ~failed' => AllModules(env'.modules, script', pos')
  BY <1>1, <1>2, <1>4, Zenon
<1>6. QED
  BY <1>5, EnvNext, Zenon

\* An environment with another list of modules and of bindings.
WithModules(e, ms, bs) == [e EXCEPT !.modules = ms, !.bindings = bs]

\* It is an environment, with those lists.
LEMMA EnvAfter ==
  ASSUME NEW e \in EnvType, NEW ms \in Seq(EnvModules), NEW bs \in Seq(EnvBindings)
  PROVE  /\ WithModules(e, ms, bs) \in EnvType
         /\ WithModules(e, ms, bs).modules = ms /\ WithModules(e, ms, bs).bindings = bs
BY DEF EnvType, WithModules

\* A module command.
LEMMA ModuleStep ==
  ASSUME RunInv, on_module_command
  PROVE  RunInv' /\ tests' = tests
<1> DEFINE name == parse_string(Cmd.name)
           ok == Reads(Text) /\ Text.start # "traps"
           modules == Append(env.modules, [cmd |-> files[Cmd.filename].cmd, name |-> name])
           bindings == IF name = NoName THEN env.bindings
                       ELSE Append(env.bindings, Bound(modules, name))
<1>1. /\ Command("module") /\ Advance /\ tests' = tests
      /\ failed' <=> failed \/ ~ok
      /\ env' = IF ~ok THEN env
                ELSE [env EXCEPT !.modules = modules,
                                 !.bindings = IF name = NoName THEN @ ELSE Append(@, Bound(modules, name))]
  BY Zenon DEF on_module_command
<1>2. (IF ~ok THEN env
       ELSE [env EXCEPT !.modules = modules,
                        !.bindings = IF name = NoName THEN @ ELSE Append(@, Bound(modules, name))])
      = IF ~ok THEN env ELSE [env EXCEPT !.modules = modules, !.bindings = bindings]
  BY Zenon
<1>3. /\ phase = "run" /\ pos \in 1 .. Len(script) /\ pos \in DOMAIN script /\ pos \in Nat
      /\ script \in Seq(Commands) /\ Converted
      /\ Cmd = write_command(pos) /\ script[pos].type = "module"
      /\ env \in EnvType /\ env.modules \in Seq(EnvModules) /\ env.bindings \in Seq(EnvBindings)
  BY <1>1, Running, Zenon
<1>4. /\ Cmd.name = write_escaped_string_slice(script[pos].module.name)
      /\ Cmd.filename = num_modules(script, pos)
  <2>1. Cmd = [type |-> "module", name |-> write_escaped_string_slice(script[pos].module.name),
               filename |-> num_modules(script, pos)]
    BY <1>3, ModuleWritten, Zenon
  <2>2. QED
    BY <2>1
<1>5. script[pos].module.name \in Strings /\ name = script[pos].module.name
  <2>1. script[pos].module.name \in Strings
    BY <1>3, CommandTyped, Zenon
  <2>2. QED
    BY <1>4, <2>1, StringRead, Zenon
<1>6. files[Cmd.filename].cmd = pos
  <2>1. pos \in Writers(script)
    BY <1>3 DEF Writers
  <2>2. files[Cmd.filename] = [cmd |-> pos, text |-> script[pos].module]
    BY <1>3, <1>4, <2>1, FileOfCommand, Zenon DEF Converted
  <2>3. QED
    BY <2>2
<1> DEFINE m == [cmd |-> pos, name |-> name]
           b == [name |-> name, index |-> Len(env.modules)]
<1>7. modules = Append(env.modules, m)
  BY <1>6, Zenon
<1>8. m \in EnvModules /\ m.cmd = pos /\ m.name = name /\ Len(env.modules) \in Nat
  BY <1>3, <1>5 DEF EnvModules
<1>9. b \in EnvBindings /\ b.name = name /\ b.index = Len(env.modules)
  BY <1>5, <1>8 DEF EnvBindings
<1>10. modules \in Seq(EnvModules) /\ Len(modules) = Len(env.modules) + 1
  <2> HIDE DEF m, modules
  <2>1. QED
    BY <1>3, <1>7, <1>8, AppendFacts
<1>11. Bound(modules, name) = b
  <2>1. Len(modules) - 1 = Len(env.modules)
    BY <1>8, <1>10
  <2>2. QED
    BY <2>1, Zenon DEF Bound
<1>12. bindings = IF name = NoName THEN env.bindings ELSE Append(env.bindings, b)
  BY <1>11, Zenon
<1>13. bindings \in Seq(EnvBindings)
  <2>1. Append(env.bindings, b) \in Seq(EnvBindings)
    <3> HIDE DEF b
    <3>1. QED
      BY <1>3, <1>9, AppendFacts, Zenon
  <2>2. QED
    BY <1>3, <1>12, <2>1, Zenon
<1> HIDE DEF ok, name, modules, bindings, m, b
<1>14. pos' = pos + 1 /\ script' = script
  BY <1>1 DEF Advance
<1>15. ASSUME ~ok PROVE EnvOK'
  <2>1. env' = env /\ failed'
    BY <1>1, <1>15, Zenon
  <2>2. /\ ModulesMatch(env.modules, script, pos) /\ BindingsMatch(env.bindings, env.modules)
    BY DEF RunInv, EnvOK
  <2>3. pos \in Nat \ {0}
    BY <1>3
  <2>4. ModulesMatch(env.modules, script, pos + 1)
    BY <2>2, <2>3, SkipModule, Zenon
  <2>5. ModulesMatch(env'.modules, script', pos') /\ BindingsMatch(env'.bindings, env'.modules)
        /\ env' \in EnvType
    BY <1>3, <1>14, <2>1, <2>2, <2>4, Zenon
  <2>6. QED
    BY <2>1, <2>5, EnvNext, Zenon
<1>16. ASSUME ok PROVE EnvOK'
  <2>1. env' = [env EXCEPT !.modules = modules, !.bindings = bindings] /\ (failed' <=> failed)
    BY <1>1, <1>2, <1>16, Zenon
  <2>2. env' \in EnvType /\ env'.modules = modules /\ env'.bindings = bindings
    <3>1. env' = WithModules(env, modules, bindings)
      BY <2>1, Zenon DEF WithModules
    <3>2. env \in EnvType /\ modules \in Seq(EnvModules) /\ bindings \in Seq(EnvBindings)
      BY <1>3, <1>10, <1>13, Zenon
    <3>3. QED
      <4>1. /\ WithModules(env, modules, bindings) \in EnvType
            /\ WithModules(env, modules, bindings).modules = modules
            /\ WithModules(env, modules, bindings).bindings = bindings
        BY <3>2, EnvAfter
      <4>2. QED
        BY <3>1, <4>1, Zenon
  <2>3. /\ ModulesMatch(env.modules, script, pos) /\ BindingsMatch(env.bindings, env.modules)
        /\ Len(env.modules) >= 1
    BY DEF RunInv, EnvOK, ModulesMatch
  <2>4. pos \in Nat \ {0}
    BY <1>3
  <2>5. /\ ModulesMatch(modules, script, pos + 1)
        /\ AllModules(env.modules, script, pos) => AllModules(modules, script, pos + 1)
    BY <1>3, <1>5, <1>7, <1>8, <2>3, <2>4, AddModule
  <2>6. BindingsMatch(bindings, modules)
    <3>1. m.name # NoName => BindingsMatch(Append(env.bindings, b), modules)
      BY <1>3, <1>7, <1>8, <1>9, <2>3, AddBinding
    <3>2. m.name = NoName => BindingsMatch(env.bindings, modules)
      BY <1>3, <1>7, <1>8, <1>9, <2>3, AddBinding
    <3>3. QED
      BY <1>8, <1>12, <3>1, <3>2, Zenon
  <2>7. ~failed' => AllModules(modules, script, pos + 1)
    BY <2>1, <2>5, Zenon DEF RunInv, EnvOK
  <2>8. ModulesMatch(env'.modules, script', pos') /\ BindingsMatch(env'.bindings, env'.modules)
        /\ (~failed' => AllModules(env'.modules, script', pos'))
    BY <1>14, <2>2, <2>5, <2>6, <2>7, Zenon
  <2>9. QED
    BY <2>2, <2>8, EnvNext, Zenon
<1>17. EnvOK'
  BY <1>15, <1>16, Zenon
<1>18. PICK p : p = pos
  OBVIOUS
<1>19. RanRight(p)'
  <2>1. script'[p].type = "module"
    BY <1>3, <1>14, <1>18, Zenon
  <2>2. QED
    BY <2>1, TypesDiffer DEF RanRight
<1>20. tests' \in Tests
  BY <1>1 DEF RunInv
<1>21. QED
  BY <1>1, <1>3, <1>17, <1>18, <1>19, <1>20, AdvanceKeeps, Zenon

\* The file of a module that is expected to be bad.
LEMMA RawFile ==
  ASSUME script \in Seq(Commands), Converted, pos \in DOMAIN script,
         script[pos].type \in RawCommands, Cmd = write_command(pos)
  PROVE  files[Cmd.filename] = [cmd |-> pos, text |-> script[pos].module]
<1>1. Cmd = [type |-> script[pos].type, filename |-> num_modules(script, pos)]
  BY RawWritten, Zenon
<1>2. Cmd.filename = num_modules(script, pos)
  BY <1>1
<1>3. pos \in Writers(script)
  BY DEF Writers
<1>4. QED
  BY <1>2, <1>3, FileOfCommand, Zenon DEF Converted

\* Which command an assertion on a module is.
LEMMA RawIs ==
  ASSUME on_assert_module_command
  PROVE  /\ \E t \in RawCommands : Command(t)
         /\ UNCHANGED tests \/ \E pass : Count(pass)
<1>1. CASE on_assert_malformed_command
  BY <1>1 DEF on_assert_malformed_command, RawCommands
<1>2. CASE on_assert_unlinkable_command
  BY <1>2 DEF on_assert_unlinkable_command, RawCommands
<1>3. CASE on_assert_invalid_command
  BY <1>3 DEF on_assert_invalid_command, RawCommands
<1>4. CASE on_assert_uninstantiable_command
  BY <1>4 DEF on_assert_uninstantiable_command, RawCommands
<1>5. QED
  BY <1>1, <1>2, <1>3, <1>4, Zenon DEF on_assert_module_command

\* An assertion on a module.
LEMMA RawStep ==
  ASSUME RunInv, on_assert_module_command
  PROVE  RunInv'
<1>1. PICK t \in RawCommands : Command(t)
  BY RawIs, Zenon
<1>2. /\ phase = "run" /\ pos \in 1 .. Len(script) /\ pos \in DOMAIN script /\ pos \in Nat
      /\ script \in Seq(Commands) /\ Converted
      /\ Cmd = write_command(pos) /\ script[pos].type = t
  BY <1>1, Running, Zenon
<1>3. files[Cmd.filename] = [cmd |-> pos, text |-> script[pos].module]
  BY <1>2, RawFile, Zenon
<1>4. /\ ran' = [cmd |-> files[Cmd.filename].cmd] /\ Advance /\ env' = env /\ failed' = failed
  BY Zenon DEF on_assert_module_command
<1>5. ran'.cmd = pos /\ pos' = pos + 1 /\ script' = script
  <2>1. files[Cmd.filename].cmd = pos
    BY <1>3
  <2>2. ran' = [cmd |-> pos]
    BY <1>4, <2>1, Zenon
  <2>3. QED
    BY <1>4, <2>2 DEF Advance
<1>6. pos \in Nat \ {0} /\ script[pos].type # "module" /\ EnvOK /\ tests \in Tests
  BY <1>2, TypesDiffer DEF RunInv
<1>7. EnvOK'
  BY <1>4, <1>5, <1>6, EnvStays, Zenon
<1>8. tests' \in Tests
  BY <1>6, RawIs, CountKeeps, Zenon
<1>9. PICK p : p = pos
  OBVIOUS
<1>10. RanRight(p)'
  <2>1. script'[p].type = t /\ ran'.cmd = p
    BY <1>2, <1>5, <1>9, Zenon
  <2>2. t # "register" /\ t \notin ActionCommands
    BY TypesDiffer, Zenon
  <2>3. QED
    BY <2>1, <2>2, Zenon DEF RanRight
<1>11. QED
  BY <1>2, <1>4, <1>7, <1>8, <1>9, <1>10, AdvanceKeeps, Zenon

\* The place of the module that is registered.
RegisterPlace(name) ==
  CASE name = NoName -> Len(env.modules)
    [] name # NoName /\ Positions(name) = {} -> None
    [] OTHER -> CHOOSE i \in Positions(name) : \A j \in Positions(name) : i <= j

\* It is one of the list, or there is none of the name.
LEMMA RegisterPlaceIs ==
  ASSUME NEW name, env.modules \in Seq(EnvModules)
  PROVE  /\ name = NoName => RegisterPlace(name) = Len(env.modules)
         /\ name # NoName /\ Positions(name) = {} => RegisterPlace(name) = None
         /\ name # NoName /\ Positions(name) # {} => RegisterPlace(name) \in Positions(name)
         /\ RegisterPlace(name) \in Int
<1>1. CASE name = NoName
  <2>1. RegisterPlace(name) = Len(env.modules)
    BY <1>1 DEF RegisterPlace
  <2>2. QED
    BY <1>1, <2>1
<1>2. CASE name # NoName /\ Positions(name) = {}
  <2>1. RegisterPlace(name) = None
    BY <1>2 DEF RegisterPlace
  <2>2. QED
    BY <1>2, <2>1 DEF None
<1>3. CASE name # NoName /\ Positions(name) # {}
  <2>1. PICK S : S = Positions(name)
    OBVIOUS
  <2>2. RegisterPlace(name) = CHOOSE i \in S : \A j \in S : i <= j
    BY <1>3, <2>1 DEF RegisterPlace
  <2>3. S \subseteq Nat /\ S # {}
    BY <1>3, <2>1 DEF Positions
  <2>4. \E i \in S : \A j \in S : i <= j
    BY <2>3, Smallest
  <2>5. RegisterPlace(name) \in S
    BY <2>2, <2>4, Zenon
  <2>6. QED
    BY <1>3, <2>1, <2>3, <2>5
<1>4. QED
  BY <1>1, <1>2, <1>3, Zenon

\* A register command.
LEMMA RegisterStep ==
  ASSUME RunInv, on_register_command
  PROVE  RunInv' /\ tests' = tests
<1> DEFINE name == parse_string(Cmd.name)
           at == RegisterPlace(name)
           new == [name |-> parse_string(Cmd.as), index |-> at - 1]
<1>1. /\ Command("register") /\ Advance /\ tests' = tests /\ failed' = failed
      /\ env' = IF at = None THEN env ELSE [env EXCEPT !.registered = Append(@, new)]
      /\ ran' = [cmd |-> IF at = None THEN None ELSE env.modules[at].cmd]
  BY Zenon DEF on_register_command, RegisterPlace
<1>2. /\ phase = "run" /\ pos \in 1 .. Len(script) /\ pos \in DOMAIN script /\ pos \in Nat
      /\ script \in Seq(Commands) /\ Converted
      /\ Cmd = write_command(pos) /\ script[pos].type = "register"
      /\ env \in EnvType /\ env.modules \in Seq(EnvModules) /\ env.registered \in Seq(EnvBindings)
      /\ (~failed => Known)
  BY <1>1, Running, Zenon
<1>3. /\ Cmd.name = write_escaped_string_slice(script[pos].var)
      /\ Cmd.as = write_escaped_string_slice(script[pos].as)
  <2>1. Cmd = [type |-> "register", name |-> write_escaped_string_slice(script[pos].var),
               as |-> write_escaped_string_slice(script[pos].as)]
    BY <1>2, RegisterWritten, Zenon
  <2>2. QED
    BY <2>1
<1>4. script[pos].var \in Strings /\ script[pos].as \in Strings
  BY <1>2, CommandTyped, Zenon
<1>5. name = script[pos].var /\ parse_string(Cmd.as) = script[pos].as
  BY <1>3, <1>4, StringRead, Zenon
<1> HIDE DEF name
<1>6. at \in Int
  BY <1>2, RegisterPlaceIs, Zenon
<1>7. new \in EnvBindings
  <2> HIDE DEF at
  <2>1. QED
    BY <1>4, <1>5, <1>6 DEF EnvBindings
<1> HIDE DEF at, new
<1>8. env' \in EnvType /\ env'.modules = env.modules /\ env'.bindings = env.bindings
  <2>1. Append(env.registered, new) \in Seq(EnvBindings)
    BY <1>2, <1>7, AppendFacts, Zenon
  <2>2. PICK rs \in Seq(EnvBindings) : rs = Append(env.registered, new)
    BY <2>1
  <2>3. env' = IF at = None THEN env ELSE [env EXCEPT !.registered = rs]
    BY <1>1, <2>2, Zenon
  <2>4. QED
    BY <1>2, <2>3 DEF EnvType
<1>9. pos' = pos + 1 /\ script' = script
  BY <1>1 DEF Advance
<1>10. EnvOK'
  <2>1. /\ ModulesMatch(env.modules, script, pos) /\ BindingsMatch(env.bindings, env.modules)
        /\ ~failed => AllModules(env.modules, script, pos)
    BY DEF RunInv, EnvOK
  <2>2. pos \in Nat \ {0} /\ script[pos].type # "module"
    BY <1>2
  <2>3. /\ ModulesMatch(env.modules, script, pos + 1)
        /\ AllModules(env.modules, script, pos) => AllModules(env.modules, script, pos + 1)
    BY <2>1, <2>2, SkipModule, Zenon
  <2>4. /\ ModulesMatch(env'.modules, script', pos') /\ BindingsMatch(env'.bindings, env'.modules)
        /\ ~failed' => AllModules(env'.modules, script', pos')
    BY <1>1, <1>8, <1>9, <2>1, <2>3, Zenon
  <2>5. QED
    BY <1>8, <2>4, EnvNext, Zenon
<1>11. tests' \in Tests
  BY <1>1 DEF RunInv
<1>12. PICK p : p = pos
  OBVIOUS
<1>13. ran'.cmd = IF at = None THEN None ELSE env.modules[at].cmd
  BY <1>1
<1>14. ASSUME Precedes(pos), OneOfName(script[pos].var)
       PROVE  ran'.cmd = IF ModuleVar(pos) = [name |-> NoName, index |-> None] THEN 0 ELSE Module(pos)
  <2>1. Known /\ Module(pos) < pos
    BY <1>2, <1>14, Zenon DEF Precedes, Module
  <2>2. CASE script[pos].var = NoName
    <3>1. ModuleVar(pos) = [name |-> NoName, index |-> LastModule(script, pos)]
          /\ Module(pos) = LastModule(script, pos)
      BY <1>2, <2>2, ModuleMeans, Zenon DEF ModuleVar
    <3>2. at = Len(env.modules) /\ Len(env.modules) \in Nat
      BY <1>2, <1>5, <2>2, RegisterPlaceIs DEF at
    <3>3. script[pos].type # "module" /\ EnvKnown(env.modules, env.bindings, pos)
      BY <1>2, <2>1, Zenon DEF Known
    <3>4. \/ LastModule(script, pos) = None /\ Len(env.modules) = 1
          \/ LastIs(script, pos, LastModule(script, pos))
             /\ env.modules[Len(env.modules)].cmd = LastModule(script, pos)
      BY <1>2, <3>3, LastFinds
    <3>5. ran'.cmd = env.modules[Len(env.modules)].cmd
      BY <1>13, <3>2 DEF None
    <3>6. CASE LastModule(script, pos) = None /\ Len(env.modules) = 1
      <4>1. env.modules[1].cmd = 0
        BY <2>1 DEF Known, EnvKnown, ModulesMatch
      <4>2. QED
        BY <3>1, <3>5, <3>6, <4>1, Zenon
    <3>7. CASE LastIs(script, pos, LastModule(script, pos))
               /\ env.modules[Len(env.modules)].cmd = LastModule(script, pos)
      <4>1. LastModule(script, pos) # None
        BY <3>7 DEF LastIs, ModulesBefore, None
      <4>2. ModuleVar(pos) # [name |-> NoName, index |-> None]
        BY <3>1, <4>1
      <4>3. QED
        BY <3>1, <3>5, <3>7, <4>2, Zenon
    <3>8. QED
      BY <3>4, <3>6, <3>7, Zenon
  <2>3. CASE script[pos].var # NoName
    <3>1. FoundIs(module_bindings, script[pos].var, Module(pos))
      BY <1>2, <2>3, ModuleMeans, Zenon
    <3>2. EnvKnown(env.modules, env.bindings, pos)
      BY <2>1, Zenon DEF Known
    <3>3. /\ Places(env.modules, script[pos].var) = {} => Module(pos) = None
          /\ \A k \in Places(env.modules, script[pos].var) : env.modules[k].cmd = Module(pos)
      BY <1>2, <1>14, <2>1, <2>3, <3>1, <3>2, RegisterFinds
    <3>4. Positions(name) = Places(env.modules, script[pos].var)
      BY <1>5, Zenon DEF Positions, Places
    <3>5. /\ Positions(name) = {} => at = None
          /\ Positions(name) # {} => at \in Positions(name)
      BY <1>2, <1>5, <2>3, RegisterPlaceIs, Zenon DEF at
    <3>6. ModuleVar(pos) # [name |-> NoName, index |-> None]
      <4>1. ModuleVar(pos) = [name |-> script[pos].var, index |-> None]
        BY <2>3, Zenon DEF ModuleVar
      <4>2. QED
        BY <2>3, <4>1
    <3>7. CASE Positions(name) = {}
      BY <1>13, <3>3, <3>4, <3>5, <3>6, <3>7, Zenon
    <3>8. CASE Positions(name) # {}
      <4>1. at \in Positions(name)
        BY <3>5, <3>8, Zenon
      <4>2. at # None
        BY <1>2, <4>1 DEF Positions, None
      <4>3. QED
        BY <1>13, <3>3, <3>4, <3>6, <4>1, <4>2, Zenon
    <3>9. QED
      BY <3>7, <3>8, Zenon
  <2>4. QED
    BY <2>2, <2>3, Zenon
<1>15. RanRight(p)'
  <2>1. script'[p].type = "register"
    BY <1>2, <1>9, <1>12, Zenon
  <2>2. /\ Module(p)' = Module(p) /\ KindMatches(p)' = KindMatches(p) /\ FoundAlike(p)' = FoundAlike(p)
        /\ ModuleVar(p)' = ModuleVar(p)
        /\ \A nm : OneOfName(nm)' = OneOfName(nm)
    BY <1>9, ScriptStays, Zenon
  <2>3. Precedes(p)' => Precedes(p)
    BY <1>1, <1>9, <2>2, TypesDiffer, Zenon DEF Precedes, Module
  <2>4. OneOfName(script[p].var)' => OneOfName(script[p].var)
    BY <1>9, Zenon DEF OneOfName
  <2>5. ASSUME Precedes(p)', OneOfName(script[p].var)'
        PROVE  ran'.cmd = IF ModuleVar(p)' = [name |-> NoName, index |-> None] THEN 0 ELSE Module(p)'
    BY <1>12, <1>14, <2>2, <2>3, <2>4, <2>5, Zenon
  <2>6. QED
    BY <2>1, <2>5, TypesDiffer, Zenon DEF RanRight
<1>16. QED
  BY <1>1, <1>2, <1>10, <1>11, <1>12, <1>15, AdvanceKeeps, Zenon

\* What precedes, of an action.
LEMMA PrecedesAction ==
  ASSUME NEW i, script[i].type \in ActionCommands
  PROVE  Precedes(i) <=> ~failed /\ Module(i) < i /\ KindMatches(i) /\ FoundAlike(i)
BY Zenon DEF Precedes, Module

\* An action whose module precedes it and that is right is run on that module.
LEMMA ActionRuns ==
  ASSUME RunInv, NEW t \in ActionCommands, Command(t), Precedes(pos)
  PROVE  /\ ActionModule # None
         /\ env.modules[ActionModule + 1].cmd = Module(pos)
         /\ \A r \in run_action(env.modules[ActionModule + 1].cmd) :
              EndsWell(r, check_action(pos).types)
<1>1. /\ phase = "run" /\ pos \in 1 .. Len(script)
      /\ script \in Seq(Commands) /\ Converted
      /\ script[pos].type = t /\ (~failed => Known)
  BY Running, Zenon
<1>2. script[pos].type \in ActionCommands
  BY <1>1, Zenon
<1>3. ~failed /\ Module(pos) < pos /\ KindMatches(pos) /\ FoundAlike(pos)
  BY <1>2, PrecedesAction, Zenon
<1>4. /\ ActionModule # None /\ Module(pos) # 0
      /\ env.modules[ActionModule + 1].cmd = Module(pos)
  BY <1>1, <1>2, <1>3, ActionFinds, Zenon
<1>5. \A r \in run_action(Module(pos)) : EndsWell(r, check_action(pos).types)
  BY <1>1, <1>2, <1>3, <1>4, ActionEnds, Zenon
<1>6. QED
  BY <1>4, <1>5, Zenon

\* A checked assert_return_nan is about one result.
LEMMA OneResult ==
  ASSUME NEW r, NEW types \in {<<"f32">>, <<"f64">>}, EndsWell(r, types), r.result = "ok"
  PROVE  /\ r.values # <<>> /\ DOMAIN r.values = 1 .. 1 /\ Len(r.values) = 1
         /\ r.values[1].type \in {"f32", "f64"}
<1>1. DOMAIN types = 1 .. 1 /\ types[1] \in {"f32", "f64"} /\ 1 \in 1 .. 1 /\ DOMAIN types # {}
  OBVIOUS
<1>2. /\ DOMAIN r.values = DOMAIN types /\ r.values = [k \in DOMAIN types |-> r.values[k]]
      /\ \A k \in DOMAIN types : r.values[k].type = types[k]
  <2>1. r.result = "trap" \/ Returned(r, types)
    BY EndsFacts, Zenon
  <2>2. r.result # "trap"
    OBVIOUS
  <2>3. QED
    BY <2>1, <2>2, Zenon DEF Returned
<1>3. r.values # <<>>
  <2>1. DOMAIN <<>> = {}
    OBVIOUS
  <2>2. QED
    BY <1>1, <1>2, <2>1, Zenon
<1>4. r.values[1].type \in {"f32", "f64"}
  BY <1>1, <1>2, Zenon
<1>5. PICK w : w = r.values
  OBVIOUS
<1>6. Len(w) = 1
  <2>1. w = [k \in 1 .. 1 |-> w[k]]
    BY <1>1, <1>2, <1>5, Zenon
  <2>2. QED
    BY <2>1
<1>7. QED
  BY <1>1, <1>2, <1>3, <1>4, <1>5, <1>6, Zenon

\* An action.
LEMMA ActionStep ==
  ASSUME RunInv, on_action_command
  PROVE  RunInv'
<1>1. PICK t \in ActionCommands : Command(t)
  BY Zenon DEF on_action_command
<1>2. PICK r \in run_action(env.modules[ActionModule + 1].cmd) :
        /\ ran' = [cmd |-> env.modules[ActionModule + 1].cmd, result |-> r.result, values |-> r.values]
        /\ IF Cmd.type = "assert_return_nan" /\ r.result = "ok" /\ r.values = <<>>
           THEN phase' = "undefined" /\ UNCHANGED <<script, files, json, pos, tests>>
           ELSE Count(Passes(r)) /\ Advance
  BY Zenon DEF on_action_command
<1>3. env' = env /\ failed' = failed
  BY Zenon DEF on_action_command
<1>4. /\ phase = "run" /\ pos \in 1 .. Len(script) /\ pos \in DOMAIN script /\ pos \in Nat
      /\ script \in Seq(Commands) /\ Converted
      /\ Cmd = write_command(pos) /\ script[pos].type = t
  BY <1>1, Running, Zenon
<1>5. ASSUME Precedes(pos)
      PROVE  /\ env.modules[ActionModule + 1].cmd = Module(pos)
             /\ EndsWell(r, check_action(pos).types)
  BY <1>1, <1>5, ActionRuns, Zenon
<1>6. EnvOK /\ tests \in Tests /\ script[pos].type # "module" /\ pos \in Nat \ {0}
  BY <1>4, TypesDiffer DEF RunInv
<1>7. Cmd.type = script[pos].type
  BY <1>4, TypeWritten, Zenon
<1>8. CASE Cmd.type = "assert_return_nan" /\ r.result = "ok" /\ r.values = <<>>
  <2>1. /\ phase' = "undefined" /\ script' = script /\ files' = files
        /\ json' = json /\ pos' = pos /\ tests' = tests
    BY <1>2, <1>8, Zenon
  <2>2. ~Precedes(pos)
    <3>1. SUFFICES ASSUME Precedes(pos) PROVE FALSE
      BY Zenon
    <3>2. check_action(pos).types \in {<<"f32">>, <<"f64">>}
      BY <1>4, <1>7, <1>8, ActionChecked, Zenon DEF Converted
    <3>3. EndsWell(r, check_action(pos).types)
      BY <1>5, <3>1, Zenon
    <3>4. r.values # <<>>
      BY <1>8, <3>2, <3>3, OneResult, Zenon
    <3>5. QED
      BY <1>8, <3>4
  <2>3. PICK p : p = pos
    OBVIOUS
  <2>4. ~Precedes(p)'
    <3>1. /\ Module(p)' = Module(p) /\ KindMatches(p)' = KindMatches(p) /\ FoundAlike(p)' = FoundAlike(p)
      BY <2>1, ScriptStays, Zenon
    <3>2. Precedes(p)' => Precedes(p)
      BY <1>3, <2>1, <3>1, Zenon DEF Precedes, Module
    <3>3. QED
      BY <2>2, <2>3, <3>2, Zenon
  <2>5. ~Precedes(pos)'
    <3>1. pos' = p
      BY <2>1, <2>3
    <3>2. QED
      BY <2>4, <3>1, Zenon DEF Precedes, Module, KindMatches, FoundAlike
  <2>6. EnvOK'
    <3>1. /\ env' \in EnvType /\ ModulesMatch(env'.modules, script', pos')
          /\ BindingsMatch(env'.bindings, env'.modules)
          /\ ~failed' => AllModules(env'.modules, script', pos')
      BY <1>3, <1>6, <2>1, Zenon DEF EnvOK
    <3>2. QED
      BY <3>1, EnvNext, Zenon
  <2>7. Converted'
    BY <1>4, <2>1, ConvertedStays, Zenon
  <2>8. pos' \in 1 .. Len(script') + 1
    BY <2>1 DEF RunInv
  <2>9. QED
    BY <1>4, <1>6, <2>1, <2>5, <2>6, <2>7, <2>8 DEF RunInv
<1>9. CASE ~(Cmd.type = "assert_return_nan" /\ r.result = "ok" /\ r.values = <<>>)
  <2>1. Count(Passes(r)) /\ Advance
    BY <1>2, <1>9, Zenon
  <2>2. tests' \in Tests
    BY <1>6, <2>1, CountKeeps, Zenon
  <2>3. script' = script /\ pos' = pos + 1
    BY <2>1 DEF Advance
  <2>4. EnvOK'
    BY <1>3, <1>6, <2>3, EnvStays, Zenon
  <2>5. PICK p : p = pos
    OBVIOUS
  <2>6. ran'.cmd = env.modules[ActionModule + 1].cmd /\ ran'.result = r.result
    BY <1>2
  <2>7. RanRight(p)'
    <3>1. script'[p].type = t
      BY <1>4, <2>3, <2>5, Zenon
    <3>2. /\ Module(p)' = Module(p) /\ KindMatches(p)' = KindMatches(p) /\ FoundAlike(p)' = FoundAlike(p)
      BY <2>3, ScriptStays, Zenon
    <3>3. Precedes(p)' => Precedes(p)
      BY <1>3, <2>3, <3>2, Zenon DEF Precedes, Module
    <3>4. ASSUME Precedes(p)' PROVE ran'.cmd = Module(p)' /\ ran'.result \in {"ok", "trap"}
      <4>1. Precedes(pos)
        BY <2>5, <3>3, <3>4, Zenon
      <4>2. env.modules[ActionModule + 1].cmd = Module(p) /\ EndsWell(r, check_action(pos).types)
        BY <1>5, <2>5, <4>1, Zenon
      <4>3. r.result \in {"ok", "trap"}
        BY <4>2, EndsFacts, Zenon DEF Returned
      <4>4. QED
        BY <2>6, <3>2, <4>2, <4>3, Zenon
    <3>5. t # "register" /\ t \notin RawCommands
      BY TypesDiffer, Zenon
    <3>6. QED
      BY <3>1, <3>4, <3>5, Zenon DEF RanRight
  <2>8. QED
    BY <1>4, <2>1, <2>2, <2>4, <2>5, <2>7, AdvanceKeeps, Zenon
<1>10. QED
  BY <1>8, <1>9, Zenon

\* An action of a module that does not precede it, or that has failed.
LEMMA NoModuleStep ==
  ASSUME RunInv, ActionOnNoModule
  PROVE  RunInv'
<1>1. PICK t \in ActionCommands : Command(t)
  BY Zenon DEF ActionOnNoModule
<1>2. /\ ActionModule = None /\ phase' = "undefined" /\ script' = script
      /\ files' = files /\ json' = json /\ pos' = pos /\ env' = env /\ tests' = tests
      /\ ran' = ran /\ failed' = failed
  BY Zenon DEF ActionOnNoModule
<1>3. phase = "run" /\ Converted /\ script \in Seq(Commands)
  BY <1>1, Running, Zenon
<1>4. ~Precedes(pos)
  BY <1>1, <1>2, ActionRuns, Zenon
<1>5. Converted'
  BY <1>2, <1>3, ConvertedStays, Zenon
<1>6. EnvOK'
  <2>1. /\ env' \in EnvType /\ ModulesMatch(env'.modules, script', pos')
        /\ BindingsMatch(env'.bindings, env'.modules)
        /\ ~failed' => AllModules(env'.modules, script', pos')
    BY <1>2, Zenon DEF RunInv, EnvOK
  <2>2. QED
    BY <2>1, EnvNext, Zenon
<1>7. PICK p : p = pos
  OBVIOUS
<1>8. ~Precedes(pos)'
  <2>1. /\ Module(p)' = Module(p) /\ KindMatches(p)' = KindMatches(p) /\ FoundAlike(p)' = FoundAlike(p)
    BY <1>2, ScriptStays, Zenon
  <2>2. Precedes(p)' => Precedes(p)
    BY <1>2, <2>1, Zenon DEF Precedes, Module
  <2>3. ~Precedes(p)'
    BY <1>4, <1>7, <2>2, Zenon
  <2>4. pos' = p
    BY <1>2, <1>7, Zenon
  <2>5. QED
    BY <2>3, <2>4, Zenon DEF Precedes, Module, KindMatches, FoundAlike
<1>9. pos' \in 1 .. Len(script') + 1 /\ tests' \in Tests
  BY <1>2 DEF RunInv
<1>10. QED
  BY <1>2, <1>3, <1>5, <1>6, <1>8, <1>9 DEF RunInv

\* The end of the list.
LEMMA EndingStep ==
  ASSUME RunInv, Ending
  PROVE  RunInv'
<1>1. /\ phase = "run" /\ phase' = "done" /\ script' = script
      /\ files' = files /\ json' = json /\ pos' = pos /\ env' = env /\ tests' = tests
      /\ ran' = ran /\ failed' = failed
  BY Zenon DEF Ending
<1>2. Converted /\ script \in Seq(Commands)
  BY <1>1 DEF RunInv
<1>3. Converted'
  BY <1>1, <1>2, ConvertedStays, Zenon
<1>4. EnvOK'
  <2>1. /\ env' \in EnvType /\ ModulesMatch(env'.modules, script', pos')
        /\ BindingsMatch(env'.bindings, env'.modules)
        /\ ~failed' => AllModules(env'.modules, script', pos')
    BY <1>1, Zenon DEF RunInv, EnvOK
  <2>2. QED
    BY <2>1, EnvNext, Zenon
<1>5. pos' \in 1 .. Len(script') + 1 /\ tests' \in Tests
  BY <1>1 DEF RunInv
<1>6. QED
  BY <1>1, <1>2, <1>3, <1>4, <1>5 DEF RunInv

\* Nothing changes.
LEMMA StutterStep ==
  ASSUME RunInv, UNCHANGED scriptVars
  PROVE  RunInv'
<1>1. /\ phase' = phase /\ script' = script
      /\ files' = files /\ json' = json /\ pos' = pos /\ env' = env /\ tests' = tests
      /\ ran' = ran /\ failed' = failed
  BY Zenon DEF scriptVars
<1>2. script \in Seq(Commands)
  BY DEF RunInv
<1>3. ASSUME phase \in {"run", "undefined", "done"} PROVE Converted'
  <2>1. Converted
    BY <1>3, Zenon DEF RunInv
  <2>2. QED
    BY <1>1, <2>1, ConvertedStays, Zenon
<1>4. EnvOK'
  <2>1. /\ env' \in EnvType /\ ModulesMatch(env'.modules, script', pos')
        /\ BindingsMatch(env'.bindings, env'.modules)
        /\ ~failed' => AllModules(env'.modules, script', pos')
    BY <1>1, Zenon DEF RunInv, EnvOK
  <2>2. QED
    BY <2>1, EnvNext, Zenon
<1>5. pos' \in 1 .. Len(script') + 1 /\ tests' \in Tests /\ (phase' = "text" => pos' = 1)
  BY <1>1 DEF RunInv
<1>6. PICK p : p = pos
  OBVIOUS
<1>7. ASSUME NEW i
      PROVE  /\ Module(i)' = Module(i) /\ KindMatches(i)' = KindMatches(i)
             /\ FoundAlike(i)' = FoundAlike(i)
             /\ ModuleVar(i)' = ModuleVar(i) /\ \A name : OneOfName(name)' = OneOfName(name)
  BY <1>1, ScriptStays, Zenon
<1>8. ASSUME NEW i PROVE Precedes(i)' <=> Precedes(i)
  <2>1. Module(i)' = Module(i) /\ KindMatches(i)' = KindMatches(i) /\ FoundAlike(i)' = FoundAlike(i)
    BY <1>7, Zenon
  <2>2. Precedes(i)' => Precedes(i)
    BY <1>1, <2>1, Zenon DEF Precedes, Module
  <2>3. Precedes(i) => Precedes(i)'
    BY <1>1, <2>1, Zenon DEF Precedes, Module
  <2>4. QED
    BY <2>2, <2>3, Zenon
<1>9. ASSUME phase = "undefined" PROVE failed' \/ ~Precedes(pos)'
  <2>1. failed \/ ~Precedes(p)
    BY <1>6, <1>9, Zenon DEF RunInv
  <2>2. failed' \/ ~Precedes(p)'
    BY <1>1, <1>8, <2>1, Zenon
  <2>3. pos' = p
    BY <1>1, <1>6, Zenon
  <2>4. QED
    BY <2>2, <2>3, Zenon DEF Precedes, Module, KindMatches, FoundAlike
<1>10. ASSUME phase = "run" /\ pos > 1 PROVE RanRight(pos - 1)'
  <2>1. PICK i : i = p - 1
    OBVIOUS
  <2>2. RanRight(i)
    BY <1>6, <1>10, <2>1 DEF RunInv
  <2>3. /\ Module(i)' = Module(i) /\ (Precedes(i)' => Precedes(i)) /\ ModuleVar(i)' = ModuleVar(i)
        /\ OneOfName(script[i].var)' = OneOfName(script[i].var)
    <3>1. OneOfName(script[i].var)' = OneOfName(script[i].var)
      BY <1>1, Zenon DEF OneOfName
    <3>2. QED
      BY <1>7, <1>8, <3>1, Zenon
  <2>4. RanRight(i)'
    BY <1>1, <2>2, <2>3, Zenon DEF RanRight
  <2>5. i = pos' - 1
    BY <1>1, <1>6, <2>1, Zenon
  <2>6. QED
    BY <2>4, <2>5, Zenon DEF RanRight, Precedes, Module, KindMatches, FoundAlike
<1>11. QED
  BY <1>1, <1>2, <1>3, <1>4, <1>5, <1>9, <1>10 DEF RunInv

-----------------------------------------------------------------------------
(* Parsing and conversion, and the theorem.                                *)

\* No module comes before the first command.
LEMMA NothingBefore ==
  \A s : ModulesBefore(s, 1) = {}
BY DEF ModulesBefore

\* The environment before the first command is right whatever the script is.
LEMMA EnvFirst ==
  ASSUME EnvOK, pos = 1, pos' = 1, env' = env, failed' = failed
  PROVE  EnvOK'
<1>1. /\ env \in EnvType /\ ModulesMatch(env.modules, script, 1)
      /\ BindingsMatch(env.bindings, env.modules)
  BY Zenon DEF EnvOK
<1>2. PICK ms : ms = env.modules
  OBVIOUS
<1>3. ModulesMatch(ms, script', 1)
  BY <1>1, <1>2, NothingBefore DEF ModulesMatch
<1>4. AllModules(ms, script', 1)
  BY NothingBefore DEF AllModules
<1>5. /\ env' \in EnvType /\ ModulesMatch(env'.modules, script', pos')
      /\ BindingsMatch(env'.bindings, env'.modules)
      /\ ~failed' => AllModules(env'.modules, script', pos')
  BY <1>1, <1>2, <1>3, <1>4, Zenon
<1>6. QED
  BY <1>5, EnvNext, Zenon

\* One command more.
LEMMA TypeStep ==
  ASSUME RunInv, Type
  PROVE  RunInv'
<1>1. PICK c \in Commands : script' = Append(script, c)
  BY Zenon DEF Type
<1>2. /\ phase = "text" /\ phase' = "text" /\ pos' = pos /\ env' = env
      /\ tests' = tests /\ failed' = failed
  BY Zenon DEF Type
<1>3. /\ script \in Seq(Commands) /\ pos = 1 /\ EnvOK
      /\ tests \in Tests
  BY <1>2 DEF RunInv
<1>4. script' \in Seq(Commands) /\ pos' \in 1 .. Len(script') + 1
  BY <1>1, <1>2, <1>3
<1>5. EnvOK'
  BY <1>2, <1>3, EnvFirst, Zenon
<1>6. QED
  BY <1>2, <1>3, <1>4, <1>5 DEF RunInv

\* The conversion.
LEMMA ConvertStep ==
  ASSUME RunInv, Convert
  PROVE  RunInv'
<1>1. /\ phase = "text" /\ script' = script /\ pos' = pos /\ env' = env
      /\ tests' = tests /\ failed' = failed
  BY Zenon DEF Convert
<1>2. /\ phase' \in {"rejected", "aborted", "run"}
      /\ phase' = "run" => wasm_validate_script
  BY DEF Convert
<1>3. phase' = "run" =>
        files' = write_commands /\ json' = [i \in DOMAIN script |-> write_command(i)]
  BY Zenon DEF Convert
<1>4. /\ script \in Seq(Commands) /\ pos = 1 /\ EnvOK
      /\ tests \in Tests
  BY <1>1 DEF RunInv
<1>5. EnvOK'
  BY <1>1, <1>4, EnvFirst, Zenon
<1>6. ASSUME phase' = "run" PROVE Converted'
  <2>1. wasm_validate_script'
    BY <1>1, <1>2, <1>6, ConversionStays, Zenon
  <2>2. files' = write_commands' /\ json' = [i \in DOMAIN script' |-> write_command(i)']
    BY <1>1, <1>3, <1>6, ConversionStays, Zenon
  <2>3. QED
    BY <2>1, <2>2, Zenon DEF Converted
<1>7. script' \in Seq(Commands) /\ pos' = 1 /\ pos' \in 1 .. Len(script') + 1 /\ ~(pos' > 1)
  BY <1>1, <1>4
<1>8. QED
  BY <1>1, <1>2, <1>4, <1>5, <1>6, <1>7 DEF RunInv

\* The first state.
LEMMA InitRuns ==
  ASSUME Init
  PROVE  RunInv
<1>1. /\ script = <<>> /\ phase = "text" /\ pos = 1
      /\ tests \in Tests /\ failed = FALSE
  BY DEF Init, Tests
<1>2. PICK h : h = [cmd |-> 0, name |-> NoName]
  OBVIOUS
<1>3. PICK ms : ms = <<h>>
  OBVIOUS
<1>4. env = [modules |-> ms, bindings |-> <<>>, registered |-> <<>>]
  BY <1>2, <1>3, Zenon DEF Init
<1>5. NoName \in Strings
  BY DEF NoName, Strings
<1>6. h \in EnvModules
  BY <1>2, <1>5 DEF EnvModules
<1>7. ms \in Seq(EnvModules) /\ Len(ms) = 1 /\ ms[1] = h
  BY <1>3, <1>6
<1>8. env \in EnvType
  <2>1. <<>> \in Seq(EnvBindings)
    OBVIOUS
  <2>2. QED
    BY <1>4, <1>7, <2>1 DEF EnvType
<1>9. env.modules = ms /\ env.bindings = <<>>
  BY <1>4
<1>10. ModulesMatch(ms, script, 1) /\ AllModules(ms, script, 1)
  BY <1>2, <1>7, NothingBefore DEF ModulesMatch, AllModules
<1>11. BindingsMatch(<<>>, ms)
  BY <1>7 DEF BindingsMatch
<1>12. EnvOK
  BY <1>1, <1>8, <1>9, <1>10, <1>11, Zenon DEF EnvOK
<1>13. script \in Seq(Commands) /\ pos \in 1 .. Len(script) + 1 /\ ~(pos > 1)
  BY <1>1
<1>14. QED
  BY <1>1, <1>12, <1>13 DEF RunInv

(* Every step of both tools keeps the invariant: the environment has exactly the
   modules of the module commands before the next one that did not fail, in order
   and under their names, and a name for each of them that has one. *)
LEMMA RunInvInductive ==
  ASSUME RunInv, [Next]_scriptVars
  PROVE  RunInv'
<1>1. CASE Type
  BY <1>1, TypeStep, Zenon
<1>2. CASE Convert
  BY <1>2, ConvertStep, Zenon
<1>3. CASE on_module_command
  BY <1>3, ModuleStep, Zenon
<1>4. CASE on_assert_module_command
  BY <1>4, RawStep, Zenon
<1>5. CASE on_register_command
  BY <1>5, RegisterStep, Zenon
<1>6. CASE on_action_command
  BY <1>6, ActionStep, Zenon
<1>7. CASE ActionOnNoModule
  BY <1>7, NoModuleStep, Zenon
<1>8. CASE Ending
  BY <1>8, EndingStep, Zenon
<1>9. CASE UNCHANGED scriptVars
  BY <1>9, StutterStep, Zenon
<1>10. CASE Stopped
  BY <1>10, StutterStep, Zenon DEF Stopped
<1>11. QED
  BY <1>1, <1>2, <1>3, <1>4, <1>5, <1>6, <1>7, <1>8, <1>9, <1>10, Zenon DEF Next

(* A command that wast2wasm validated acts, in wasm-interp, on the module it was
   validated against, through the escapes, the decimal numbers, the files and the
   two tables of names: for every script and every order of lookups. *)
THEOREM ActsOnCheckedAlways == Spec => []ActsOnChecked
<1>1. Init => RunInv
  BY InitRuns
<1>2. RunInv /\ [Next]_scriptVars => RunInv'
  BY RunInvInductive
<1>3. RunInv => ActsOnChecked
  BY RunInvChecked
<1>4. QED
  BY <1>1, <1>2, <1>3, PTL DEF Spec

-----------------------------------------------------------------------------
(* What the counts mean.                                                   *)

\* The commands that are counted.
Counted(i) == script[i].type \in (ActionCommands \cup RawCommands) \ {"assert_invalid"}

\* A command that is not counted.
LEMMA NotCounted ==
  ASSUME tests \in Tests, tests' = tests, ~Counted(pos)
  PROVE  CountedRight
<1>1. /\ tests'.total = tests.total + 0 /\ tests'.passed = tests.passed + 0
  BY DEF Tests
<1>2. QED
  BY <1>1, Zenon DEF CountedRight, Counted

\* A command that is counted, whether its statement holds or is not looked at.
LEMMA CountedIs ==
  ASSUME tests \in Tests, Counted(pos), NEW pass, Count(pass),
         script[pos].type \in RawCommands \/ Precedes(pos) => (pass <=> Holds(pos, ran'))
  PROVE  CountedRight
<1>1. /\ tests'.total = tests.total + 1
      /\ tests'.passed = tests.passed + (IF pass THEN 1 ELSE 0)
  BY DEF Count, Tests
<1>2. QED
  BY <1>1, Zenon DEF CountedRight, Counted

\* What the assertions on a module state.
LEMMA RawHolds ==
  ASSUME NEW i, NEW r
  PROVE  /\ script[i].type \in {"assert_malformed", "assert_unlinkable"} =>
              (Holds(i, r) <=> ~Reads(script[i].module))
         /\ script[i].type = "assert_uninstantiable" =>
              (Holds(i, r) <=> Reads(script[i].module) /\ script[i].module.start = "traps")
<1>1. PICK m : m = script[i].module
  OBVIOUS
<1>2. ASSUME script[i].type \in {"assert_malformed", "assert_unlinkable"}
      PROVE  Holds(i, r) <=> ~Reads(m)
  <2>1. Holds(i, r) = ~(m.readable /\ m.valid /\ m.links)
    BY <1>1, <1>2 DEF Holds
  <2>2. QED
    BY <2>1, Zenon DEF Reads
<1>3. ASSUME script[i].type = "assert_uninstantiable"
      PROVE  Holds(i, r) <=> Reads(m) /\ m.start = "traps"
  <2>1. Holds(i, r) = (m.readable /\ m.valid /\ m.links /\ m.start = "traps")
    BY <1>1, <1>3 DEF Holds
  <2>2. QED
    BY <2>1, Zenon DEF Reads
<1>4. QED
  BY <1>1, <1>2, <1>3, Zenon

\* An assertion on a module is counted right.
LEMMA RawCounted ==
  ASSUME RunInv, on_assert_module_command
  PROVE  CountedRight
<1>1. PICK t \in RawCommands : Command(t)
  BY RawIs, Zenon
<1>2. /\ pos \in DOMAIN script /\ script \in Seq(Commands) /\ Converted
      /\ Cmd = write_command(pos) /\ json[pos].type = t /\ script[pos].type = t
  BY <1>1, Running, Zenon DEF Command
<1>3. Text = script[pos].module
  <2>1. files[Cmd.filename] = [cmd |-> pos, text |-> script[pos].module]
    BY <1>2, RawFile, Zenon
  <2>2. QED
    BY <2>1 DEF Text
<1>4. tests \in Tests
  BY DEF RunInv
<1>5. CASE on_assert_malformed_command
  <2>1. Count(~Reads(Text)) /\ t = "assert_malformed"
    BY <1>2, <1>5, Zenon DEF on_assert_malformed_command, Command
  <2>2. Counted(pos)
    BY <1>2, <2>1 DEF Counted, RawCommands
  <2>3. Holds(pos, ran') <=> ~Reads(Text)
    BY <1>2, <1>3, <2>1, RawHolds
  <2>4. QED
    BY <1>4, <2>1, <2>2, <2>3, CountedIs, Zenon
<1>6. CASE on_assert_unlinkable_command
  <2>1. Count(~Reads(Text)) /\ t = "assert_unlinkable"
    BY <1>2, <1>6, Zenon DEF on_assert_unlinkable_command, Command
  <2>2. Counted(pos)
    BY <1>2, <2>1 DEF Counted, RawCommands
  <2>3. Holds(pos, ran') <=> ~Reads(Text)
    BY <1>2, <1>3, <2>1, RawHolds
  <2>4. QED
    BY <1>4, <2>1, <2>2, <2>3, CountedIs, Zenon
<1>7. CASE on_assert_invalid_command
  <2>1. tests' = tests /\ t = "assert_invalid"
    BY <1>2, <1>7, Zenon DEF on_assert_invalid_command, Command
  <2>2. ~Counted(pos)
    BY <1>2, <2>1, Zenon DEF Counted
  <2>3. QED
    BY <1>4, <2>1, <2>2, NotCounted, Zenon
<1>8. CASE on_assert_uninstantiable_command
  <2>1. Count(Reads(Text) /\ Text.start = "traps") /\ t = "assert_uninstantiable"
    BY <1>2, <1>8, Zenon DEF on_assert_uninstantiable_command, Command
  <2>2. Counted(pos)
    BY <1>2, <2>1 DEF Counted, RawCommands
  <2>3. Holds(pos, ran') <=> Reads(Text) /\ Text.start = "traps"
    BY <1>2, <1>3, <2>1, RawHolds
  <2>4. QED
    BY <1>4, <2>1, <2>2, <2>3, CountedIs, Zenon
<1>9. QED
  BY <1>5, <1>6, <1>7, <1>8, Zenon DEF on_assert_module_command

\* Values are the expected ones if their bits are.
LEMMA ReturnedExpected ==
  ASSUME NEW expected, NEW c, Same(c, expected), NEW r, Returned(r, TypesOf(expected))
  PROVE  r.values = c <=> \A k \in DOMAIN r.values : r.values[k].bits = expected[k].bits
<1>1. PICK w : w = r.values
  OBVIOUS
<1>2. DOMAIN TypesOf(expected) = DOMAIN expected
      /\ \A k \in DOMAIN expected : TypesOf(expected)[k] = expected[k].type
  BY Zenon DEF TypesOf
<1>3. /\ DOMAIN w = DOMAIN expected
      /\ w = [k \in DOMAIN expected |-> w[k]]
  BY <1>1, <1>2, Zenon DEF Returned
<1>4. \A k \in DOMAIN expected : w[k] = [type |-> expected[k].type, bits |-> w[k].bits]
  BY <1>1, <1>2, Zenon DEF Returned
<1>5. DOMAIN c = DOMAIN expected /\ c = [k \in DOMAIN expected |-> c[k]]
  BY Zenon DEF Same
<1>6. \A k \in DOMAIN expected : c[k] = [type |-> expected[k].type, bits |-> expected[k].bits]
  BY Zenon DEF Same
<1>7. ASSUME w = c, NEW k \in DOMAIN w PROVE w[k].bits = expected[k].bits
  <2>1. w[k] = [type |-> expected[k].type, bits |-> expected[k].bits]
    BY <1>3, <1>6, <1>7, Zenon
  <2>2. QED
    BY <2>1
<1>8. ASSUME \A k \in DOMAIN w : w[k].bits = expected[k].bits PROVE w = c
  <2>1. \A k \in DOMAIN expected : w[k] = c[k]
    BY <1>3, <1>4, <1>6, <1>8, Zenon
  <2>2. QED
    BY <1>3, <1>5, <2>1, Zenon
<1>9. QED
  BY <1>1, <1>7, <1>8, Zenon

\* What an action states.
LEMMA ActionHolds ==
  ASSUME NEW i, NEW r
  PROVE  /\ script[i].type = "action" => (Holds(i, r) <=> r.result # "trap")
         /\ script[i].type = "assert_trap" => (Holds(i, r) <=> r.result = "trap")
         /\ script[i].type = "assert_return" =>
              (Holds(i, r) <=> /\ r.result # "trap"
                               /\ \A k \in DOMAIN r.values : r.values[k].bits = script[i].expected[k].bits)
         /\ script[i].type = "assert_return_nan" =>
              (Holds(i, r) <=> r.result # "trap" /\ \A v \in ToSet(r.values) : v.bits = NaN)
BY DEF Holds

\* What passes for each of them.
LEMMA ActionPasses ==
  ASSUME NEW r
  PROVE  /\ Cmd.type = "action" => (Passes(r) <=> r.result = "ok")
         /\ Cmd.type = "assert_trap" => (Passes(r) <=> Traps(r))
         /\ Cmd.type = "assert_return" => (Passes(r) <=> ReturnsExpected(r))
         /\ Cmd.type = "assert_return_nan" => (Passes(r) <=> ReturnsNaN(r))
BY DEF Passes

\* An action on the module that was validated passes if its statement holds.
LEMMA PassesHolds ==
  ASSUME script \in Seq(Commands), Converted, pos \in 1 .. Len(script),
         script[pos].type \in ActionCommands,
         NEW r, EndsWell(r, check_action(pos).types)
  PROVE  Passes(r) <=> Holds(pos, r)
<1>1. Cmd.type = script[pos].type /\ Cmd.expected = Expected(pos)
  BY ActionRead, Zenon
<1>2. PICK types : types = check_action(pos).types
  OBVIOUS
<1>3. pos \in DOMAIN script
  OBVIOUS
<1>4. /\ script[pos].type = "assert_return" => types = TypesOf(script[pos].expected)
      /\ script[pos].type = "assert_return_nan" => types \in {<<"f32">>, <<"f64">>}
  BY <1>2, <1>3, ActionChecked, Zenon DEF Converted
<1>5. EndsWell(r, types)
  BY <1>2, Zenon
<1>6. r.result = "trap" \/ (r.result = "ok" /\ Returned(r, types))
  BY <1>5, EndsFacts, Zenon DEF Returned
<1>7. r.result \in {"ok", "trap"} /\ (r.result = "ok" <=> r.result # "trap")
  BY <1>6
<1>8. CASE script[pos].type = "action"
  BY <1>1, <1>7, <1>8, ActionHolds, ActionPasses, Zenon
<1>9. CASE script[pos].type = "assert_trap"
  BY <1>1, <1>7, <1>9, ActionHolds, ActionPasses, Zenon DEF Traps
<1>10. CASE script[pos].type = "assert_return"
  <2>1. Passes(r) <=> ReturnsExpected(r)
    BY <1>1, <1>10, ActionPasses, Zenon
  <2>2. Cmd.expected = write_const_vector(script[pos].expected)
    BY <1>1, <1>10, Zenon DEF Expected
  <2>3. Constants(script[pos].expected)
    BY <1>10, CommandTyped, Zenon
  <2>4. Same(parse_const_vector(Cmd.expected), script[pos].expected)
    BY <2>2, <2>3, ConstsRead, Zenon
  <2>5. ASSUME r.result = "ok"
        PROVE  r.values = parse_const_vector(Cmd.expected) <=>
                 \A k \in DOMAIN r.values : r.values[k].bits = script[pos].expected[k].bits
    <3>1. Returned(r, TypesOf(script[pos].expected))
      BY <1>4, <1>6, <1>7, <1>10, <2>5, Zenon
    <3>2. PICK e : e = script[pos].expected
      OBVIOUS
    <3>3. PICK c : c = parse_const_vector(Cmd.expected)
      OBVIOUS
    <3>4. Returned(r, TypesOf(e)) /\ Same(c, e)
      BY <2>4, <3>1, <3>2, <3>3, Zenon
    <3>5. r.values = c <=> \A k \in DOMAIN r.values : r.values[k].bits = e[k].bits
      BY <3>4, ReturnedExpected
    <3>6. QED
      BY <3>2, <3>3, <3>5, Zenon
  <2>6. QED
    BY <1>7, <1>10, <2>1, <2>5, ActionHolds, Zenon DEF ReturnsExpected
<1>11. CASE script[pos].type = "assert_return_nan"
  <2>1. Passes(r) <=> ReturnsNaN(r)
    BY <1>1, <1>11, ActionPasses, Zenon
  <2>2. ASSUME r.result = "ok"
        PROVE  ReturnsNaN(r) <=> \A v \in ToSet(r.values) : v.bits = NaN
    <3>1. /\ DOMAIN r.values = 1 .. 1 /\ Len(r.values) = 1
          /\ r.values[1].type \in {"f32", "f64"}
      BY <1>4, <1>5, <1>11, <2>2, OneResult, Zenon
    <3>2. PICK w : w = r.values
      OBVIOUS
    <3>3. ToSet(w) = {w[1]}
      BY <3>1, <3>2 DEF ToSet
    <3>4. ReturnsNaN(r) <=> w[1].bits = NaN
      BY <2>2, <3>1, <3>2, Zenon DEF ReturnsNaN, IsNaN
    <3>5. QED
      BY <3>2, <3>3, <3>4
  <2>3. QED
    BY <1>7, <1>11, <2>1, <2>2, ActionHolds, Zenon DEF ReturnsNaN
<1>12. QED
  BY <1>8, <1>9, <1>10, <1>11 DEF ActionCommands

\* An action is counted right.
LEMMA ActionCounted ==
  ASSUME RunInv, on_action_command
  PROVE  CountedRight
<1>1. PICK t \in ActionCommands : Command(t)
  BY Zenon DEF on_action_command
<1>2. PICK r \in run_action(env.modules[ActionModule + 1].cmd) :
        /\ ran' = [cmd |-> env.modules[ActionModule + 1].cmd, result |-> r.result, values |-> r.values]
        /\ IF Cmd.type = "assert_return_nan" /\ r.result = "ok" /\ r.values = <<>>
           THEN phase' = "undefined" /\ UNCHANGED <<script, files, json, pos, tests>>
           ELSE Count(Passes(r)) /\ Advance
  BY Zenon DEF on_action_command
<1>3. /\ pos \in 1 .. Len(script) /\ pos \in Nat /\ script \in Seq(Commands) /\ Converted
      /\ script[pos].type = t
  BY <1>1, Running, Zenon
<1>4. tests \in Tests
  BY DEF RunInv
<1>5. CASE pos' = pos
  <2>1. pos' # pos + 1
    BY <1>3, <1>5
  <2>2. QED
    BY <2>1, Zenon DEF CountedRight
<1>6. CASE Count(Passes(r))
  <2>1. t # "assert_invalid" /\ t \notin RawCommands
    BY DEF ActionCommands, RawCommands
  <2>2. Counted(pos)
    BY <1>3, <2>1 DEF Counted
  <2>3. ASSUME Precedes(pos) PROVE Passes(r) <=> Holds(pos, ran')
    <3>1. EndsWell(r, check_action(pos).types)
      BY <1>1, <2>3, ActionRuns, Zenon
    <3>2. script[pos].type \in ActionCommands
      BY <1>3, Zenon
    <3>3. Passes(r) <=> Holds(pos, r)
      BY <1>3, <3>1, <3>2, PassesHolds, Zenon
    <3>4. PICK q : q = ran'
      OBVIOUS
    <3>5. q.result = r.result /\ q.values = r.values
      BY <1>2, <3>4
    <3>6. Holds(pos, q) <=> Holds(pos, r)
      BY <3>5, Zenon DEF Holds
    <3>7. QED
      BY <3>3, <3>4, <3>6, Zenon
  <2>4. QED
    BY <1>3, <1>4, <1>6, <2>1, <2>2, <2>3, CountedIs, Zenon
<1>7. QED
  BY <1>2, <1>5, <1>6, Zenon

\* The other commands are not counted.
LEMMA OthersCounted ==
  ASSUME RunInv, on_module_command \/ on_register_command
  PROVE  CountedRight
<1>1. PICK t \in {"module", "register"} : Command(t)
  BY DEF on_module_command, on_register_command
<1>2. script[pos].type = t
  BY <1>1, Running, Zenon
<1>3. ~Counted(pos)
  BY <1>2 DEF Counted, ActionCommands, RawCommands
<1>4. tests' = tests /\ tests \in Tests
  BY ModuleStep, RegisterStep, Zenon DEF RunInv
<1>5. QED
  BY <1>3, <1>4, NotCounted, Zenon

\* Every command that ends is counted right.
LEMMA StepCounted ==
  ASSUME RunInv, [Next]_scriptVars
  PROVE  [CountedRight]_scriptVars
<1>1. pos + 1 # pos
  BY DEF RunInv
<1>2. ASSUME pos' = pos PROVE CountedRight
  <2>1. pos' # pos + 1
    BY <1>1, <1>2, Zenon
  <2>2. QED
    BY <2>1, Zenon DEF CountedRight
<1>3. CASE Type \/ Convert \/ ActionOnNoModule \/ Ending
  BY <1>2, <1>3, Zenon DEF Type, Convert, ActionOnNoModule, Ending
<1>4. CASE on_module_command \/ on_register_command
  BY <1>4, OthersCounted, Zenon
<1>5. CASE on_assert_module_command
  BY <1>5, RawCounted, Zenon
<1>6. CASE on_action_command
  BY <1>6, ActionCounted, Zenon
<1>7. CASE Stopped \/ UNCHANGED scriptVars
  BY <1>7, Zenon DEF Stopped
<1>8. QED
  BY <1>3, <1>4, <1>5, <1>6, <1>7, Zenon DEF Next

(* "tests" counts every command of the script that states something but
   assert_invalid, and "passed" those whose statement is true of the module they
   were validated against: for every script, with no bound on its length. *)
THEOREM PassedMeansAlways == Spec => PassedMeans
<1>1. Init => RunInv
  BY InitRuns
<1>2. RunInv /\ [Next]_scriptVars => RunInv'
  BY RunInvInductive
<1>3. RunInv /\ [Next]_scriptVars => [CountedRight]_scriptVars
  BY StepCounted
<1>4. QED
  BY <1>1, <1>2, <1>3, PTL DEF Spec, PassedMeans

=============================================================================
