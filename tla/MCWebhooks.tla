------------------------------ MODULE MCWebhooks ------------------------------
(* Instances of Webhooks for TLC: the values are model values of the cfg. *)
EXTENDS Webhooks, TLC

\* No action tells two webhooks, channels, names or slots apart.
Symmetry == Permutations(Hooks) \cup Permutations(Channels)
            \cup Permutations(Names) \cup Permutations(Requests)
=============================================================================
