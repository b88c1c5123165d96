--------------------------- MODULE MCTokenGrants ---------------------------
(* Small instances of TokenGrants for TLC. *)
EXTENDS TokenGrants, TLC

\* Rows and requests are interchangeable.
Interchangeable == Permutations(TokenIds) \cup Permutations(Requests)
=============================================================================
