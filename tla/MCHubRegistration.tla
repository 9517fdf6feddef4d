-------------------------- MODULE MCHubRegistration --------------------------
(***************************************************************************)
(* Instances of HubRegistration: one or two concurrent requests.           *)
(***************************************************************************)
EXTENDS HubRegistration

CONSTANTS c1, c2
==============================================================================
