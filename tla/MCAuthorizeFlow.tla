-------------------------- MODULE MCAuthorizeFlow --------------------------
(* Small instances of AuthorizeFlow for TLC. *)
EXTENDS AuthorizeFlow, TLC

\* Handlers, rows, codes and users are interchangeable.
Interchangeable ==
    Permutations(Handlers) \cup Permutations(ReqIds) \cup Permutations(Codes)
        \cup Permutations(Users)
=============================================================================
