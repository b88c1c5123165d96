-------------------------- MODULE MCEndpointAgent --------------------------
(* A small instance of EndpointAgent for TLC. *)
EXTENDS EndpointAgent
=============================================================================
