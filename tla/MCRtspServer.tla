---------------------------- MODULE MCRtspServer ----------------------------
(* Instances of RtspServer for TLC. *)
EXTENDS RtspServer, TLC

\* No property tells one client from another.
Symmetry == Permutations(Clients)
=============================================================================
