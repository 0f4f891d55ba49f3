--------------------------- MODULE MCIconaClient ---------------------------
(* Instances of IconaClient for TLC. *)
EXTENDS IconaClientService
============================================================================
