----------------------------- MODULE MCTagCodes -----------------------------
(* TagCodes on small sets of model values. *)
EXTENDS TagCodes, TLC

\* Ids, codes and workers are interchangeable.
Symmetry == Permutations(Tag) \cup Permutations(Code) \cup Permutations(Worker)

=============================================================================
