-------------------------------- MODULE Bindings -------------------------------
(* What a binding hash promises its users: a collection of bindings of names to
   indexes, in which a name that is bound is found.  A name may be bound twice
   (the text of a module may repeat a name, a module may be registered again):
   then one of its bindings is found. *)
EXTENDS Integers, FiniteSets

CONSTANT Names

VARIABLES bindings,  \* the bindings: [name, index]
          found      \* the answer to the last search: [name, index]

NotFound == -1
NoAnswer == [name |-> "", index |-> NotFound]

Init == bindings = {} /\ found = NoAnswer

\* The user numbers what it binds.
Insert(n) ==
  /\ bindings' = bindings \cup {[name |-> n, index |-> Cardinality(bindings)]}
  /\ UNCHANGED found

Answers(n) == {b \in bindings : b.name = n}

Find(n) ==
  /\ IF Answers(n) = {} THEN found' = [name |-> n, index |-> NotFound] ELSE found' \in Answers(n)
  /\ UNCHANGED bindings

Remove(n) ==
  /\ bindings' = bindings \ Answers(n)
  /\ UNCHANGED found

Next == \E n \in Names : Insert(n) \/ Find(n) \/ Remove(n)

Spec == Init /\ [][Next]_<<bindings, found>>
================================================================================
