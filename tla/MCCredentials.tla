----------------------------- MODULE MCCredentials -----------------------------
(* Instances of Credentials for TLC: the values are model values of the cfg. *)
EXTENDS Credentials, TLC

\* No action tells two addresses, passwords, secrets, tokens or slots apart.
Symmetry == Permutations(Addresses)
            \cup Permutations(Passwords) \cup Permutations(Secrets)
            \cup Permutations(Tokens) \cup Permutations(Requests)

\* Two states that differ only in this behave alike, when one account is Active: an
\* earlier email that nobody else can have, since only that account has one that is
\* not in lower case, or that the account has again; and a token that has expired,
\* of an account that makes no request.
Earlier(u) == former[u] # NULL /\ former[u] = lower(former[u]) /\ former[u] # users[u].email
Useful(t) == tokens[t] # NULL /\ (tokens[t].live \/ tokens[t].owner \in Active)
View == <<users, req, knows,
          [u \in Users |-> IF Earlier(u) THEN former[u] ELSE NULL],
          [t \in Tokens |-> IF Useful(t) THEN tokens[t] ELSE NULL]>>
=============================================================================
