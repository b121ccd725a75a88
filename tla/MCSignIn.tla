------------------------------ MODULE MCSignIn ------------------------------
(* Instances of SignIn for TLC: the values are model values of the cfg. *)
EXTENDS SignIn, TLC

\* No action tells two users, passkeys, codes or slots apart.
Symmetry == Permutations(Users) \cup Permutations(PassKeys)
            \cup Permutations(Requests)
=============================================================================
