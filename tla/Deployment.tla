----------------------------- MODULE Deployment -----------------------------
(***************************************************************************)
(* What the grants of the token endpoint have in common: the users and     *)
(* clients there are, the database, and the users an administrator has     *)
(* disabled.                                                               *)
(***************************************************************************)
CONSTANTS
    Users, Clients,
    Drivers             \* the databases a deployment may use

ASSUME DriverAssumption == Drivers \subseteq {"sqlite", "postgres"}

VARIABLES
    driver,             \* the database of this deployment, never changed
    disabledUsers       \* users the grants refuse
=============================================================================
