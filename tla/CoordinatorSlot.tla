-------------------------- MODULE CoordinatorSlot --------------------------
(* The refinement mapping from the tasks of Coordinator to the slot they share. *)
EXTENDS Coordinator

startingBar == IF pc["start"] \in {"signal", "gate"} THEN held["start"] ELSE None

stoppingBar == {s \in Sessions : \E t \in Tasks : Stopping(t) /\ held[t] = s}

activeBar == {s \in Sessions : sess[s] # "dead"}

Slot == INSTANCE VideoSlot WITH
  starting <- startingBar, slot <- video, stopping <- stoppingBar, active <- activeBar,
  event <- ready, gate <- rtsp

\* However starts, stops, reconnects, restarts and unloading interleave, the sessions they
\* share go through the slot one at a time, and each start and each teardown ends.
KeepsSlot == Slot!Spec
============================================================================
