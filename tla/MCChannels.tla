----------------------------- MODULE MCChannels -----------------------------
(* Instances of Channels for TLC: ids and slots are model values of the cfgs. *)
EXTENDS Channels, TLC

\* The checks tell TEXT_SERVER from VOICE_SERVER nowhere, and PRIVATE_CHAT from
\* FOLDER_SERVER only as a parent.
Types == {"TEXT_SERVER", "FOLDER_SERVER"}

\* What an update may ask for, and the last position of a creation.
Few == {0}
Lowest == -1

\* No action tells two servers, channels or slots apart.
Symmetry == Permutations(Servers) \cup Permutations(ChannelIds)
            \cup Permutations(Requests)
=============================================================================
