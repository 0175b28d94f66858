----------------------------- MODULE MCClients -----------------------------
(* Instances of Clients for TLC. *)
EXTENDS Clients
=============================================================================
