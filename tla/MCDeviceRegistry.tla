-------------------------- MODULE MCDeviceRegistry --------------------------
(* A small instance of DeviceRegistry for TLC. *)
EXTENDS DeviceRegistry, TLC

CONSTANTS Enrollments, Assertions, Rotations
MCProofs == Enrollments \cup Assertions \cup Rotations
MCUse == [p \in MCProofs |-> IF p \in Enrollments THEN "enroll"
                             ELSE IF p \in Assertions THEN "grant" ELSE "rotate"]

\* Handlers, rows, keys and proofs of one use are interchangeable.
Interchangeable ==
    Permutations(Handlers) \cup Permutations(Devices) \cup Permutations(Keys)
    \cup Permutations(Enrollments)
=============================================================================
