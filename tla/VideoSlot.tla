----------------------------- MODULE VideoSlot -----------------------------
(***************************************************************************)
(* What the coordinator promises of video sessions, without its tasks,     *)
(* connections and listeners: one session is started at a time, with the   *)
(* slot empty; what was started is published or has failed; what is        *)
(* published is withdrawn once, torn down by who withdrew it, and let go   *)
(* only when it is inactive; and the ready event tells whether the slot is *)
(* taken.  CoordinatorSlot has the refinement mapping from Coordinator.    *)
(***************************************************************************)
CONSTANTS Sessions, None

VARIABLES
  starting,  \* the session whose start() runs, or None
  slot,      \* the published session, or None
  stopping,  \* sessions withdrawn and not yet torn down
  active,    \* sessions that talk to the device
  event,     \* the ready event is set
  gate       \* the PLAY gate is open

vars == <<starting, slot, stopping, active, event, gate>>

----------------------------------------------------------------------------
Init ==
  /\ starting = None /\ slot = None /\ stopping = {} /\ active = {}
  /\ event = FALSE /\ gate = FALSE

\* A start finds the slot empty, and a session that nothing is left of.
Begin(s) ==
  /\ starting = None /\ slot = None
  /\ s \notin stopping \cup active
  /\ starting' = s /\ active' = active \cup {s}
  /\ UNCHANGED <<slot, stopping, event, gate>>

\* The start fails, and the session with it.
Fail ==
  /\ starting # None
  /\ starting' = None /\ active' = active \ {starting}
  /\ UNCHANGED <<slot, stopping, event, gate>>

\* The start succeeds; the gate stays closed when the integration is being unloaded.
Publish ==
  /\ starting # None /\ slot = None
  /\ slot' = starting /\ starting' = None
  /\ event' = TRUE /\ gate' \in BOOLEAN
  /\ UNCHANGED <<stopping, active>>

\* A session ends: its call, its time, or its teardown.  None comes back to life.
Die(s) ==
  /\ active' = active \ {s}
  /\ UNCHANGED <<starting, slot, stopping, event, gate>>

\* A stop takes the session out of the slot.
Withdraw ==
  /\ slot # None
  /\ slot' = None /\ stopping' = stopping \cup {slot}
  /\ event' = FALSE
  /\ UNCHANGED <<starting, active, gate>>

\* ... and has torn it down: it is inactive, and the gate is closed.
TornDown(s) ==
  /\ s \in stopping \ active
  /\ stopping' = stopping \ {s}
  /\ gate' = FALSE
  /\ UNCHANGED <<starting, slot, active, event>>

\* A reconnect empties the slot, of the session that it has stopped or, which is why nothing is
\* said of active here, of one that was published since.
Drop ==
  /\ slot' = None /\ event' = FALSE /\ gate' = FALSE
  /\ UNCHANGED <<starting, stopping, active>>

\* Unloading.
CloseGate ==
  /\ gate' = FALSE
  /\ UNCHANGED <<starting, slot, stopping, active, event>>

Next ==
  \/ \E s \in Sessions : Begin(s) \/ Die(s) \/ TornDown(s)
  \/ Fail \/ Publish \/ Withdraw \/ Drop \/ CloseGate

Safety == Init /\ [][Next]_vars

\* A start ends, and so does a teardown.
Progress ==
  /\ starting # None ~> starting = None
  /\ \A s \in Sessions : s \in stopping ~> s \notin stopping

Spec == Safety /\ Progress
============================================================================
