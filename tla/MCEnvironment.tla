---------------------------- MODULE MCEnvironment ----------------------------
(* Instances of Environment for TLC. *)
EXTENDS Environment

Bounded(initial, max) == [initial |-> initial, has_max |-> TRUE, max |-> max]
Unbounded(initial) == [initial |-> initial, has_max |-> FALSE, max |-> 0]

MCTableLimits == {Unbounded(1), Bounded(1, 2)}
MCPageLimits == {Bounded(1, 2), Unbounded(MaxPages)}

\* All modules hash to one slot, all exports to another.
MCMainSlot ==
  [n \in Names \cup RegisteredNames \cup {SPECTEST} \cup Fields \cup HostFields |->
     IF n \in Fields \cup HostFields THEN 1 ELSE 0]

\* A resize turns a chain round.
MCRelinked(names, name) == Min({i \in DOMAIN names : names[i] = name})

=============================================================================
