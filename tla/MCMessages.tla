----------------------------- MODULE MCMessages -----------------------------
(* Instances of Messages for TLC: the values are model values of the cfgs. *)
EXTENDS Messages, TLC

\* No action tells two messages, channels or slots apart.
Symmetry == Permutations(MessageIds) \cup Permutations(ChannelIds)
            \cup Permutations(Requests)
=============================================================================
