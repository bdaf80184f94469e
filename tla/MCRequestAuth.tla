--------------------------- MODULE MCRequestAuth ----------------------------
(***************************************************************************)
(* Instances of RequestAuth for TLC.                                       *)
(***************************************************************************)
EXTENDS RequestAuth, FiniteSets, TLC

Symmetry == Permutations(Keys) \cup Permutations(Clients)

\* The clients with a request, and the keys issued or presented so far.
Busy == {c \in Clients : pc[c] # "idle"}

Named == minted \cup {cred[c].key : c \in Busy}

\* Bound: two clients race for one key, or one client meets two.
Crowd == Cardinality(Busy) + Cardinality(Named) <= 3
=============================================================================
