-------------------------- MODULE MCCodeRedemption --------------------------
(* Small instances of CodeRedemption for TLC. *)
EXTENDS CodeRedemption, TLC

\* Handlers are interchangeable.
Interchangeable == Permutations(Handlers)
=============================================================================
