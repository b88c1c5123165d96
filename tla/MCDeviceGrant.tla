--------------------------- MODULE MCDeviceGrant ---------------------------
(* Small instances of DeviceGrant for TLC. *)
EXTENDS DeviceGrant, TLC

\* Every device belongs to the same, arbitrary, user.
FirstUser == CHOOSE u \in Users : TRUE
MCOwner == [d \in Devices |-> FirstUser]

\* Handlers are interchangeable.
Interchangeable == Permutations(Handlers)
=============================================================================
