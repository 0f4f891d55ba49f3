--------------------------- MODULE MCVipListener ---------------------------
(* Instances of VipListener for TLC. *)
EXTENDS VipListener

\* What steps and the properties of VipShared depend on: of what was announced only which rings.
SharedView == <<queue, lisV, video, drain, devV, registered, {r \in 1..MaxRings : Handled(r)}>>
============================================================================
