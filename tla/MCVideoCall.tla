---------------------------- MODULE MCVideoCall ----------------------------
(* Instances of VideoCall for TLC. *)
EXTENDS VideoCallLife
============================================================================
