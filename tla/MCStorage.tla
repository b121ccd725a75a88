------------------------------ MODULE MCStorage ------------------------------
(* Instances of Storage for TLC: the values are model values of the cfg. *)
EXTENDS Storage, TLC

\* No action tells two attachments, names, contents or slots apart.
Symmetry == Permutations(Attachments) \cup Permutations(Names)
            \cup Permutations(Types) \cup Permutations(Requests)
=============================================================================
