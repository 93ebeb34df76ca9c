----------------------------- MODULE MCBindingHash -----------------------------
(* Instances of BindingHash for TLC: any function of the names to the hash
   values is tried, so the names are interchangeable. *)
EXTENDS BindingHash, TLC

Symmetry == Permutations(Names)
================================================================================
