---------------------------- MODULE MCUserCache ----------------------------
(* Two names whose users hash to one uid. *)
EXTENDS UserCache, TLC

CONSTANTS s1, s2, s3, a, b

MCDirectory == [n \in Names |-> IF n = a THEN s1 ELSE s2]
MCUidFor == [s \in Subs |-> 1]
=============================================================================
