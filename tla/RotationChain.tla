--------------------------- MODULE RotationChain ---------------------------
(***************************************************************************)
(* What refresh-token rotation promises.  A chain is opened by its first   *)
(* token and from then on has a single holder, the token that can still be *)
(* exchanged; it is passed on to a token never seen before, or closed for  *)
(* good.  A token is the holder once, in one chain.                        *)
(***************************************************************************)
CONSTANTS Tokens,           \* a chain is named by its first token
          Unborn, Closed    \* a chain without a holder: not opened yet, ended

VARIABLES holder, used

Init ==
    /\ holder = [f \in Tokens |-> Unborn]
    /\ used = {}

Held == {f \in Tokens : holder[f] \in Tokens}

Open(f) ==
    /\ holder[f] = Unborn
    /\ f \notin used
    /\ holder' = [holder EXCEPT ![f] = f]
    /\ used' = used \cup {f}

Pass(f, t) ==
    /\ f \in Held
    /\ t \notin used
    /\ holder' = [holder EXCEPT ![f] = t]
    /\ used' = used \cup {t}

Close(S) ==
    /\ S \subseteq Held
    /\ holder' = [f \in Tokens |-> IF f \in S THEN Closed ELSE holder[f]]
    /\ UNCHANGED used

\* Every step changes the holder of some chain.
Next ==
    /\ holder' # holder
    /\ \/ \E f \in Tokens : Open(f)
       \/ \E f, t \in Tokens : Pass(f, t)
       \/ \E S \in SUBSET Tokens : Close(S)

Spec == Init /\ [][Next]_<<holder, used>>
=============================================================================
