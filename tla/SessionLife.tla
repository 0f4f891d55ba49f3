---------------------------- MODULE SessionLife ----------------------------
(***************************************************************************)
(* What a video session promises the coordinator, without its tasks, locks *)
(* and counters: start() returns or raises; the session goes up once and   *)
(* down once; one speaker at a time sends on the CTPP channel, and the     *)
(* session's own speaker not after a clean-up; a clean-up leaves none of   *)
(* its channels behind; and each callback is made at most once.            *)
(* VideoCallLife has the refinement mapping from VideoCall.                *)
(***************************************************************************)
VARIABLES
  phase,     \* "starting", "up", "down", or "failed"
  result,    \* of start(): "pending", "returned" or "raised"
  withdrawn, \* the coordinator no longer publishes it and will stop it
  told,      \* the callbacks made: "call_end", "timeout"
  speaker,   \* who sends on CTPP: "nobody", "ack", "renewal", "answer", "door"
  held,      \* channels of its own that are registered
  over       \* a clean-up has ended

vars == <<phase, result, withdrawn, told, speaker, held, over>>

Channels == {"CTPP", "media", "renewal"}

----------------------------------------------------------------------------
Init ==
  /\ phase = "starting" /\ result = "pending" /\ withdrawn = FALSE
  /\ told = {} /\ speaker = "nobody" /\ held = {} /\ over = FALSE

\* Channels are registered during the start and by a renewal, never once a clean-up has ended.
Acquire ==
  /\ phase = "starting" \/ speaker = "renewal"
  /\ ~over
  /\ \E n \in Channels : held' = held \cup {n}
  /\ UNCHANGED <<phase, result, withdrawn, told, speaker, over>>

GoUp ==
  /\ phase = "starting"
  /\ phase' = "up"
  /\ UNCHANGED <<result, withdrawn, told, speaker, held, over>>

Fail ==
  /\ phase = "starting"
  /\ phase' = "failed"
  /\ UNCHANGED <<result, withdrawn, told, speaker, held, over>>

\* A session that has been up returns, also if it is down again by then.
Return ==
  /\ phase \in {"up", "down"} /\ result = "pending"
  /\ result' = "returned"
  /\ UNCHANGED <<phase, withdrawn, told, speaker, held, over>>

Withdraw ==
  /\ result = "returned" /\ ~withdrawn
  /\ withdrawn' = TRUE
  /\ UNCHANGED <<phase, result, told, speaker, held, over>>

\* The timeout or stop() begins.
GoDown ==
  /\ phase = "up" /\ result = "returned"
  /\ phase' = "down"
  /\ UNCHANGED <<result, withdrawn, told, speaker, held, over>>

\* The session's own messages end with its clean-up; an answer and a door are somebody else's.
Begin ==
  /\ speaker = "nobody"
  /\ \/ speaker' \in {"ack", "renewal"} /\ phase \in {"up", "down"} /\ ~over
     \/ speaker' \in {"answer", "door"} /\ result = "returned"
  /\ UNCHANGED <<phase, result, withdrawn, told, held, over>>

End ==
  /\ speaker # "nobody"
  /\ speaker' = "nobody"
  /\ UNCHANGED <<phase, result, withdrawn, told, held, over>>

\* A renewal failed: once, and not when a clean-up has ended the session already.
TellCallEnd ==
  /\ speaker = "renewal" /\ ~over /\ "call_end" \notin told
  /\ phase' = "down" /\ speaker' = "nobody"
  /\ told' = told \cup {"call_end"}
  /\ UNCHANGED <<result, withdrawn, held, over>>

\* A clean-up ends: start() raises, or stop() returns, or the timeout is reported.
Close ==
  /\ over' = TRUE /\ held' = {}
  /\ \/ phase = "failed" /\ result = "pending" /\ result' = "raised" /\ UNCHANGED told
     \/ phase = "down" /\ withdrawn /\ UNCHANGED <<result, told>>
     \/ phase = "down" /\ "timeout" \notin told /\ told' = told \cup {"timeout"} /\ UNCHANGED result
  /\ UNCHANGED <<phase, withdrawn, speaker>>

\* The next session registers channels under the same names.
Yield ==
  /\ withdrawn /\ held' \subseteq held
  /\ UNCHANGED <<phase, result, withdrawn, told, speaker, over>>

Next ==
  \/ Acquire \/ GoUp \/ Fail \/ Return \/ Withdraw \/ GoDown
  \/ Begin \/ End \/ TellCallEnd \/ Close \/ Yield

Safety == Init /\ [][Next]_vars

\* start() ends, a failed start and a withdrawn session are cleaned up, and whoever sends on
\* the channel leaves it to the others.
Progress ==
  /\ result = "pending" ~> result # "pending"
  /\ phase = "failed" \/ withdrawn ~> over
  /\ speaker # "nobody" ~> speaker = "nobody"

Spec == Safety /\ Progress
============================================================================
