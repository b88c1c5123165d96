--------------------------- MODULE MCLoginSession ---------------------------
(* Small instances of LoginSession for TLC. *)
EXTENDS LoginSession, TLC

\* Handlers are interchangeable.
Interchangeable == Permutations(Handlers)
=============================================================================
