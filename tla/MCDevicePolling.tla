-------------------------- MODULE MCDevicePolling --------------------------
(* Small instances of DevicePolling for TLC. *)
EXTENDS DevicePolling, TLC
=============================================================================
