----------------------------- MODULE MCAccounts -----------------------------
(* Small instances of Accounts for TLC. *)
EXTENDS Accounts, TLC

CONSTANTS u1, u2, u3, a, b

Table(first, second) ==
    [u \in Users |-> IF u = u1 THEN first ELSE IF u = u2 THEN second ELSE None]

Account(n, admin, disabled, local) ==
    [name |-> n, admin |-> admin, disabled |-> disabled, local |-> local]

Founder == Account(a, TRUE, FALSE, TRUE)

\* A new installation; a founder alone; a founder beside another administrator
\* or a disabled account, both of the directory.
MCInitialTables ==
    {Table(None, None), Table(Founder, None),
     Table(Founder, Account(b, TRUE, FALSE, FALSE)),
     Table(Founder, Account(b, FALSE, TRUE, FALSE))}

\* Requests are interchangeable.
Interchangeable == Permutations(Requests)
=============================================================================
