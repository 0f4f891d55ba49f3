---------------------------- MODULE IntercomCard ----------------------------
(***************************************************************************)
(* The intercom card of the dashboard, in a browser, and the video session *)
(* it asks the coordinator for. What the card shows follows the state of   *)
(* the camera entity, which tells it only whether a session is published;  *)
(* the buttons are service calls that the coordinator may find no use for. *)
(* The coordinator is reduced to what Coordinator and VideoCall make of    *)
(* its session: a stop has no effect before a start has published one.     *)
(***************************************************************************)
EXTENDS Naturals, Sequences

CONSTANTS
  MaxCalls,   \* bound: service calls in flight
  MaxPending  \* bound: runs of _showLive that wait

ASSUME CardAssumption == MaxCalls \in Nat /\ MaxPending \in Nat

VARIABLES
  session,        \* the coordinator's: "idle", "starting", "live" (published)
  calls,          \* presses of the start and stop buttons on their way to it
  place,          \* the card is "shown", "hidden" (another view) or "detached"
  streaming,      \* _streaming: the entity's state as the card last saw it
  startRequested, \* _startRequested
  pending,        \* runs of _showLive that wait for the card helpers
  slot,           \* live cards in the stream slot
  liveCard,       \* _liveCard is set
  view,           \* the view displayed: "idle" or "live"
  button,         \* in the idle view: "play" or "spinner"
  late            \* the session was published after the card had left

cardV == <<place, streaming, startRequested, pending, slot, liveCard, view, button>>
vars == <<session, calls, cardV, late>>

Call(what) == Len(calls) < MaxCalls /\ calls' = Append(calls, what)

----------------------------------------------------------------------------
(* The card *)

\* _requestStart.
ClickPlay ==
  /\ place = "shown" /\ view = "idle"
  /\ ~streaming /\ ~startRequested
  /\ startRequested' = TRUE /\ button' = "spinner"
  /\ Call("start")
  /\ UNCHANGED <<session, place, streaming, pending, slot, liveCard, view, late>>

\* _requestStop.
ClickStop ==
  /\ place = "shown" /\ view = "live"
  /\ startRequested' = FALSE
  /\ Call("stop")
  /\ UNCHANGED <<session, place, streaming, pending, slot, liveCard, view, button, late>>

\* Mutant: nothing is stopped.
LeaveSilently ==
  /\ place' \in {"hidden", "detached"} /\ place # "detached"
  /\ startRequested' = FALSE /\ late' = FALSE
  /\ UNCHANGED <<session, calls, streaming, pending, slot, liveCard, view, button>>

\* The user navigates; the card is removed, or finds itself hidden, also when it was before.
Leave ==
  /\ place' \in {"hidden", "detached"} /\ place # "detached"
  /\ startRequested' = FALSE
  /\ late' = (place # "shown" /\ late)
  /\ Call("stop")
  /\ UNCHANGED <<session, streaming, pending, slot, liveCard, view, button>>

Return ==
  /\ place # "shown" /\ place' = "shown"
  /\ UNCHANGED <<session, calls, streaming, startRequested, pending, slot, liveCard, view, button, late>>

\* set hass with a session published that the card did not know of: _showLive up to its wait.
SeesLive ==
  /\ place # "detached" /\ session = "live" /\ ~streaming /\ pending < MaxPending
  /\ streaming' = TRUE /\ startRequested' = FALSE
  /\ slot' = 0 /\ pending' = pending + 1
  /\ UNCHANGED <<session, calls, place, liveCard, view, button, late>>

\* set hass when the session is gone: _showIdle.
SeesIdle ==
  /\ place # "detached" /\ session # "live" /\ streaming
  /\ streaming' = FALSE
  /\ slot' = 0 /\ liveCard' = FALSE /\ view' = "idle" /\ button' = "play"
  /\ UNCHANGED <<session, calls, place, startRequested, pending, late>>

\* Mutant: only a view that is live already gets its card.
MountsUnlessLive ==
  /\ pending > 0 /\ pending' = pending - 1
  /\ IF streaming /\ view = "live"
     THEN slot' = slot + 1 /\ liveCard' = TRUE /\ view' = "live"
     ELSE UNCHANGED <<slot, liveCard, view>>
  /\ UNCHANGED <<session, calls, place, streaming, startRequested, button, late>>

\* Mutant: the live card is mounted whatever has happened.
MountsAlways ==
  /\ pending > 0 /\ pending' = pending - 1
  /\ slot' = slot + 1 /\ liveCard' = TRUE /\ view' = "live"
  /\ UNCHANGED <<session, calls, place, streaming, startRequested, button, late>>

\* _showLive has its card: mount it if the camera still streams, or does so again.
Mounts ==
  /\ pending > 0 /\ pending' = pending - 1
  /\ IF streaming
     THEN slot' = slot + 1 /\ liveCard' = TRUE /\ view' = "live"
     ELSE UNCHANGED <<slot, liveCard, view>>
  /\ UNCHANGED <<session, calls, place, streaming, startRequested, button, late>>

----------------------------------------------------------------------------
(* The coordinator *)

\* A start is skipped during another, and replaces a session that is published; a stop has no effect
\* before one is.
HandleCall ==
  /\ calls # <<>> /\ calls' = Tail(calls)
  /\ session' = CASE Head(calls) = "start" -> "starting"
                  [] Head(calls) = "stop" /\ session = "live" -> "idle"
                  [] OTHER -> session
  /\ UNCHANGED <<cardV, late>>

StartEnds ==
  /\ session = "starting" /\ session' \in {"live", "idle"}
  /\ late' = (late \/ (session' = "live" /\ place # "shown"))
  /\ UNCHANGED <<calls, cardV>>

\* The device ends the call, or the timeout does, with or without a restart.
SessionEnds ==
  /\ session = "live" /\ session' \in {"idle", "starting"}
  /\ UNCHANGED <<calls, cardV, late>>

----------------------------------------------------------------------------
Init ==
  /\ session = "idle" /\ calls = <<>> /\ place = "shown"
  /\ streaming = FALSE /\ startRequested = FALSE /\ pending = 0
  /\ slot = 0 /\ liveCard = FALSE /\ view = "idle" /\ button = "play"
  /\ late = FALSE

Next ==
  \/ ClickPlay \/ ClickStop \/ Leave \/ Return \/ SeesLive \/ SeesIdle \/ Mounts
  \/ HandleCall \/ StartEnds \/ SessionEnds

Spec == Init /\ [][Next]_vars

\* The browser loads the helpers, the calls reach the coordinator, and its starts end.
FairSpec == Spec /\ WF_vars(Mounts) /\ WF_vars(HandleCall) /\ WF_vars(StartEnds)

----------------------------------------------------------------------------
\* The types of the card's state and of the session's.
TypeOK ==
  /\ session \in {"idle", "starting", "live"} /\ calls \in Seq({"start", "stop"})
  /\ place \in {"shown", "hidden", "detached"}
  /\ streaming \in BOOLEAN /\ startRequested \in BOOLEAN /\ liveCard \in BOOLEAN /\ late \in BOOLEAN
  /\ pending \in Nat /\ slot \in Nat
  /\ view \in {"idle", "live"} /\ button \in {"play", "spinner"}

\* However many runs of _showLive are under way when the session ends, starts and ends again,
\* no live card stays mounted without a stream, where it would retry for ever; and a start that
\* is under way shows the spinner, never a play button to press twice.
NothingStale ==
  /\ ~streaming => slot = 0 /\ ~liveCard /\ view = "idle"
  /\ startRequested => ~streaming /\ button = "spinner"
  /\ liveCard => slot > 0

\* A session that stays is shown in the end, whatever the card was doing when it came.
StreamIsShown == streaming ~> (view = "live" /\ slot > 0) \/ ~streaming

\* A session that was published when the card left ends.
LeavingStops ==
  (place # "shown" /\ session = "live" /\ ~late) ~> (session # "live" \/ place = "shown" \/ late)

----------------------------------------------------------------------------
(* What the card does not keep (README, section on disagreements; no run) *)

\* "don't mount a stale live card": two runs of _showLive that overlap both mount one.
OneLiveCard == slot <= 1

\* The live cards that are mounted or may still be.
AtMostOne == slot + pending <= 1

\* How far that goes: the second one comes of a session seen while a run of _showLive still waits,
\* since each run empties the slot before it waits and not after.
SecondOnlyThere == [][AtMostOne => AtMostOne' \/ (SeesLive /\ pending > 0)]_vars

\* "Navigating away stops it automatically": the stop of a start under way is lost.
NavigatingStops == place # "shown" ~> (session = "idle" \/ place = "shown")

\* The spinner ends: not if the start fails.
SpinnerEnds == startRequested ~> ~startRequested
=============================================================================
