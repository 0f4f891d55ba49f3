----------------------------- MODULE VideoCall -----------------------------
(***************************************************************************)
(* VideoCallSession: the signalling of start(), the monitor of the CTPP    *)
(* channel with its inline re-establishment, the answer and door messages  *)
(* that share the channel with it, the session timeout, and _cleanup, which *)
(* a failed start, stop() and the timeout run, also at the same time.      *)
(*                                                                         *)
(* A counter is what has been added to that of the last call init, in units *)
(* of _CTR_INCR_BYTE4. The messages of one step of a handshake count as    *)
(* one, but for the RTPC link, which repeats the counter before it; the    *)
(* CTPP init and its ACKs have a timestamp of their own and are none of a  *)
(* call. The messages are left out but for their counter.                  *)
(***************************************************************************)
EXTENDS Naturals

CONSTANTS
  MaxMessages,  \* bound: messages of the device to the monitor
  MaxDoors      \* bound: doors opened during the session

ASSUME VideoAssumption == MaxMessages \in Nat /\ MaxDoors \in Nat

VARIABLES
  start,     \* where start() is
  counter,   \* call_counter, local to start() and then to the monitor
  shared,    \* _call_counter
  behind,    \* _call_counter is not yet one of the current call
  sent,      \* counters sent since the last call init, by whomever
  repeats,   \* what has been sent with a counter that its call had sent before
  lock,      \* _ctpp_lock: who holds it
  active,    \* _active
  monitor,   \* _ctpp_monitor_loop
  timer,     \* _auto_timeout_loop
  answer,    \* _run_answer_sequence
  door,      \* async_open_door_on_ctpp
  doors, messages,  \* bounds
  taken,     \* tasks some _cleanup has taken out of their attributes
  killed,    \* tasks cancelled by a _cleanup
  clean,     \* per caller of _cleanup: how far it is
  receiver,  \* _rtp_receiver: "none", "runs", or "stopped"
  owns,      \* _owns_ctpp
  reg,       \* whose channels are registered
  released,  \* the coordinator has withdrawn the session and will call stop()
  next,      \* the coordinator has started the next session
  ended      \* callbacks made: on_call_end, on_timeout

cntV == <<counter, shared, behind, sent, repeats>>
taskV == <<monitor, timer, answer, door, doors, messages>>
cleanV == <<taken, killed, clean, receiver>>
coordV == <<released, next>>
vars == <<start, cntV, lock, active, taskV, cleanV, owns, reg, coordV, ended>>

Cleaners == {"start", "stop", "timer"}

\* CTPP (and CSPB), the media channels with RTPC_DEVICE, and RTPC_DEVICE_REEST.
Names == {"CTPP", "media", "renewal"}

----------------------------------------------------------------------------
(* Counters *)

Byte4 == 1    \* _CTR_INCR_BYTE4
Byte5 == 256  \* _CTR_INCR_BYTE5

\* call_init: a new timestamp.
FreshCall == counter' = 0 /\ sent' = {0} /\ behind' = TRUE /\ UNCHANGED repeats

\* What a message of w with counter n adds to repeats.
Repeated(w, n) == IF n \in sent THEN {w} ELSE {}

\* start() and the monitor send the next counter of their own.
Advance(step) ==
  /\ counter' = counter + step
  /\ sent' = sent \cup {counter + step}
  /\ repeats' = repeats \cup Repeated("own", counter + step)

\* The RTPC link has the counter of the message before it, the video config the next.
LinkAndConfig ==
  /\ counter' = counter + Byte4
  /\ sent' = sent \cup {counter, counter + Byte4}
  /\ repeats' = repeats \cup Repeated("link", counter) \cup Repeated("own", counter + Byte4)

\* ... and it is the shared one from now on.
Share == shared' = counter' /\ behind' = FALSE

\* The answer and the doors send the next of the shared counter. One of an earlier call differs from
\* all of this call.
AdvanceShared ==
  /\ shared' = shared + Byte4
  /\ IF behind THEN UNCHANGED <<sent, repeats>>
     ELSE /\ sent' = sent \cup {shared + Byte4}
          /\ repeats' = repeats \cup Repeated("other", shared + Byte4)
  /\ UNCHANGED <<counter, behind>>

\* A counter of this or of an earlier call has been sent twice, other than by the link.
Reused == \E w \in repeats : w # "link"

----------------------------------------------------------------------------
(* start() *)

Failing == /\ start' = "clean"
           /\ UNCHANGED <<cntV, lock, active, taskV, cleanV, owns, reg, coordV, ended>>

\* CTPP: the coordinator's, or one of our own.
OpenCtpp ==
  /\ start = "open"
  /\ start' = "call"
  /\ owns' = (reg["CTPP"] = "none")
  /\ reg' = [reg EXCEPT !["CTPP"] = IF @ = "none" THEN "this" ELSE @]
  /\ UNCHANGED <<cntV, lock, active, taskV, cleanV, coordV, ended>>

\* A placeholder for the device's RTPC; call init.
CallInit ==
  /\ start = "call"
  /\ start' = "udpm"
  /\ reg' = [reg EXCEPT !["media"] = "this"]
  /\ FreshCall
  /\ UNCHANGED <<shared, lock, active, taskV, cleanV, owns, coordV, ended>>

\* UDPM, the receiver, the codec exchange.
Codec ==
  /\ start = "udpm"
  /\ start' = "rtpc"
  /\ receiver' = "runs"
  /\ Advance(Byte4)
  /\ UNCHANGED <<shared, behind, lock, active, taskV, taken, killed, clean, owns, reg, coordV, ended>>

\* Two RTPC channels, link, video config.
RtpcLink ==
  /\ start = "rtpc"
  /\ start' = "device"
  /\ LinkAndConfig
  /\ UNCHANGED <<shared, behind, lock, active, taskV, cleanV, owns, reg, coordV, ended>>

\* The device's RTPC is open: ACK of its link if it came, HANGUP/ZERO, media, monitor.
StartMedia ==
  /\ start = "device"
  /\ start' = "gate"
  /\ Advance(Byte4) /\ Share
  /\ active' = TRUE /\ monitor' = "read"
  /\ UNCHANGED <<lock, timer, answer, door, doors, messages, cleanV, owns, reg, coordV, ended>>

\* The first video arrived or six seconds have passed.
StartReturns ==
  /\ start = "gate"
  /\ start' = "done"
  /\ answer' \in {"none", "wait"}
  /\ timer' = "sleep"
  /\ UNCHANGED <<cntV, lock, active, monitor, door, doors, messages, cleanV, owns, reg, coordV, ended>>

\* An open times out, a send fails, the device opens no RTPC.
StartFails == start \in {"call", "udpm", "rtpc", "device"} /\ Failing

----------------------------------------------------------------------------
(* The monitor; every step runs from one await to the next *)

Monitors == "monitor" \notin killed
Release(who) == lock' = IF lock = who THEN "free" ELSE lock

\* A keepalive or another message to ACK, or a CALL_END.
MonitorReads ==
  /\ monitor = "read" /\ Monitors /\ messages < MaxMessages
  /\ messages' = messages + 1
  /\ monitor' \in {"ack", "end"}
  /\ UNCHANGED <<start, cntV, lock, active, timer, answer, door, doors, cleanV, owns, reg, coordV, ended>>

MonitorExits ==
  /\ monitor = "read" /\ Monitors /\ ~active
  /\ monitor' = "over"
  /\ UNCHANGED <<start, cntV, lock, active, timer, answer, door, doors, messages, cleanV, owns, reg, coordV, ended>>

\* Mutant: an ACK leaves the shared counter behind.
MonitorAcksUnshared ==
  /\ monitor = "ack" /\ Monitors /\ lock = "free"
  /\ lock' = "monitor" /\ monitor' = "acking"
  /\ Advance(Byte4)
  /\ UNCHANGED <<start, shared, behind, active, timer, answer, door, doors, messages, cleanV, owns, reg, coordV, ended>>

\* The counter is the monitor's own; _call_counter is overwritten with it.
MonitorAcks ==
  /\ monitor = "ack" /\ Monitors /\ lock = "free"
  /\ lock' = "monitor" /\ monitor' = "acking"
  /\ Advance(Byte4) /\ Share
  /\ UNCHANGED <<start, active, timer, answer, door, doors, messages, cleanV, owns, reg, coordV, ended>>

\* Sent; a failed send ends the loop and leaves the session active.
MonitorAcked ==
  /\ monitor = "acking" /\ Monitors
  /\ monitor' \in {"read", "over"}
  /\ Release("monitor")
  /\ UNCHANGED <<start, cntV, active, timer, answer, door, doors, messages, cleanV, owns, reg, coordV, ended>>

\* _inline_reestablish: ACK of the CALL_END, CTPP init.
Reestablish ==
  /\ monitor = "end" /\ Monitors /\ lock = "free"
  /\ lock' = "monitor" /\ monitor' = "init"
  /\ Advance(Byte5)
  /\ UNCHANGED <<start, shared, behind, active, timer, answer, door, doors, messages, cleanV, owns, reg, coordV, ended>>

\* Mutant: the placeholder has the name of the one that start() registers.
ReestablishCallTakesOver ==
  /\ monitor = "init" /\ Monitors
  /\ monitor' = "codec"
  /\ reg' = [reg EXCEPT !["media"] = "this"]
  /\ FreshCall
  /\ UNCHANGED <<start, shared, lock, active, timer, answer, door, doors, messages, cleanV, owns, coordV, ended>>

\* A placeholder for the device's new RTPC; call init with a new timestamp.
ReestablishCall ==
  /\ monitor = "init" /\ Monitors
  /\ monitor' = "codec"
  /\ reg' = [reg EXCEPT !["renewal"] = "this"]
  /\ FreshCall
  /\ UNCHANGED <<start, shared, lock, active, timer, answer, door, doors, messages, cleanV, owns, coordV, ended>>

\* Codec exchange, link and video config.
ReestablishCodec ==
  /\ monitor = "codec" /\ Monitors
  /\ monitor' = "accept"
  /\ LinkAndConfig
  /\ UNCHANGED <<start, shared, behind, lock, active, timer, answer, door, doors, messages, cleanV, owns, reg, coordV, ended>>

\* The device's link if it came, HANGUP/ZERO, accept; the counter is shared again.
Reestablished ==
  /\ monitor = "accept" /\ Monitors
  /\ monitor' = "read" /\ Release("monitor")
  /\ Advance(Byte4) /\ Share
  /\ UNCHANGED <<start, active, timer, answer, door, doors, messages, cleanV, owns, reg, coordV, ended>>

\* Mutant: a failed re-establishment ends like a failed ACK.
ReestablishFailsSilently ==
  /\ monitor \in {"init", "codec", "accept"} /\ Monitors
  /\ monitor' = "over" /\ Release("monitor")
  /\ UNCHANGED <<start, cntV, active, timer, answer, door, doors, messages, cleanV, owns, reg, coordV, ended>>

\* Mutant: a failed re-establishment keeps the lock.
ReestablishFailsLocked ==
  /\ monitor \in {"init", "codec", "accept"} /\ Monitors
  /\ monitor' = "over"
  /\ active' = FALSE /\ ended' = ended \cup {"call_end"}
  /\ UNCHANGED <<start, cntV, lock, timer, answer, door, doors, messages, cleanV, owns, reg, coordV>>

\* A send of it fails: the coordinator restarts the session.
ReestablishFails ==
  /\ monitor \in {"init", "codec", "accept"} /\ Monitors
  /\ monitor' = "over" /\ Release("monitor")
  /\ active' = FALSE /\ ended' = ended \cup {"call_end"}
  /\ UNCHANGED <<start, cntV, timer, answer, door, doors, messages, cleanV, owns, reg, coordV>>

\* The cancellation arrives at the await the monitor is suspended in.
MonitorCancelled ==
  /\ monitor \notin {"none", "over"} /\ ~Monitors
  /\ monitor' = "over" /\ Release("monitor")
  /\ UNCHANGED <<start, cntV, active, timer, answer, door, doors, messages, cleanV, owns, reg, coordV, ended>>

----------------------------------------------------------------------------
(* The others on the channel *)

\* Mutant: the lock is not taken.
FreeAlways == TRUE

Free == lock = "free"

OtherSends(who) ==
  /\ Free
  /\ lock' = IF lock = "free" THEN who ELSE lock
  /\ AdvanceShared
  /\ UNCHANGED <<start, active, monitor, timer, doors, messages, cleanV, owns, reg, coordV, ended>>

AnswerSends == answer = "wait" /\ answer' = "sending" /\ OtherSends("answer") /\ UNCHANGED door

AnswerSent ==
  /\ answer = "sending"
  /\ answer' = "none" /\ Release("answer")
  /\ UNCHANGED <<start, cntV, active, monitor, timer, door, doors, messages, cleanV, owns, reg, coordV, ended>>

\* async_open_door: the session is active and CTPP is open; then wait for the lock.
OpenDoor ==
  /\ door = "none" /\ active /\ ~released /\ start = "done" /\ reg["CTPP"] # "none" /\ doors < MaxDoors
  /\ door' = "wait" /\ doors' = doors + 1
  /\ UNCHANGED <<start, cntV, lock, active, monitor, timer, answer, messages, cleanV, owns, reg, coordV, ended>>

DoorSends == door = "wait" /\ door' = "sending" /\ OtherSends("door") /\ UNCHANGED answer

DoorSent ==
  /\ door = "sending"
  /\ door' = "none" /\ Release("door")
  /\ UNCHANGED <<start, cntV, active, monitor, timer, answer, doors, messages, cleanV, owns, reg, coordV, ended>>

----------------------------------------------------------------------------
(* _cleanup, as run by start(), stop() and the timeout *)

\* Task t is taken from its attribute and cancelled, once.
Take(t, runs) ==
  /\ taken' = taken \cup {t}
  /\ killed' = IF t \notin taken /\ runs THEN killed \cup {t} ELSE killed

\* ... up to the wait for the timeout task. The timeout cancels itself, which the wait swallows.
CleanupBegins(x) ==
  /\ clean[x] = "idle"
  /\ clean' = [clean EXCEPT ![x] = "timer"]
  /\ active' = FALSE
  /\ Take("timer", timer = "sleep")

StartCleansUp ==
  /\ start = "clean" /\ CleanupBegins("start")
  /\ UNCHANGED <<start, cntV, lock, taskV, receiver, owns, reg, coordV, ended>>

StopCalled ==
  /\ released /\ CleanupBegins("stop")
  /\ UNCHANGED <<start, cntV, lock, taskV, receiver, owns, reg, coordV, ended>>

\* VIDEO_SESSION_TIMEOUT.
TimerElapses ==
  /\ timer = "sleep" /\ "timer" \notin killed
  /\ timer' = "clean"
  /\ CleanupBegins("timer")
  /\ UNCHANGED <<start, cntV, lock, monitor, answer, door, doors, messages, receiver, owns, reg, coordV, ended>>

TimerCancelled ==
  /\ timer = "sleep" /\ "timer" \in killed
  /\ timer' = "over"
  /\ UNCHANGED <<start, cntV, lock, active, monitor, answer, door, doors, messages, cleanV, owns, reg, coordV, ended>>

\* Mutant: the monitor is not cancelled.
CleanupMonitorKept(x) ==
  /\ clean[x] = "timer" /\ timer # "sleep"
  /\ clean' = [clean EXCEPT ![x] = "monitor"]
  /\ UNCHANGED <<taken, killed>>
  /\ UNCHANGED <<start, cntV, lock, active, taskV, receiver, owns, reg, coordV, ended>>

\* Mutant: the wait for the timeout task does not allow for a session without one.
CleanupMonitorStuck(x) ==
  /\ clean[x] = "timer" /\ timer \in {"clean", "over"}
  /\ clean' = [clean EXCEPT ![x] = "monitor"]
  /\ Take("monitor", monitor \notin {"none", "over"})
  /\ UNCHANGED <<start, cntV, lock, active, taskV, receiver, owns, reg, coordV, ended>>

\* Without a running timeout task: take and cancel the monitor.
CleanupMonitor(x) ==
  /\ clean[x] = "timer" /\ timer # "sleep"
  /\ clean' = [clean EXCEPT ![x] = "monitor"]
  /\ Take("monitor", monitor \notin {"none", "over"})
  /\ UNCHANGED <<start, cntV, lock, active, taskV, receiver, owns, reg, coordV, ended>>

\* The monitor is over, or two seconds have passed: stop the receiver.
CleanupReceiver(x) ==
  /\ clean[x] = "monitor"
  /\ clean' = [clean EXCEPT ![x] = "receiver"]
  /\ receiver' = IF receiver = "runs" THEN "stopped" ELSE receiver
  /\ UNCHANGED <<start, cntV, lock, active, taskV, taken, killed, owns, reg, coordV, ended>>

\* Mutant: the coordinator's CTPP is removed too.
RemovedAll == [n \in Names |-> "none"]

\* Channels are removed by name, CTPP only when the session opened it.
Removed == [n \in Names |-> IF n = "CTPP" /\ ~owns THEN reg[n] ELSE "none"]

\* The receiver is stopped: remove the channels and return. start() raises, the timeout
\* tells the coordinator.
CleanupEnds(x) ==
  /\ clean[x] = "receiver"
  /\ clean' = [clean EXCEPT ![x] = "done"]
  /\ reg' = Removed
  /\ start' = IF x = "start" THEN "raised" ELSE start
  /\ timer' = IF x = "timer" THEN "over" ELSE timer
  /\ ended' = IF x = "timer" THEN ended \cup {"timeout"} ELSE ended
  /\ UNCHANGED <<cntV, lock, active, monitor, answer, door, doors, messages, taken, killed, receiver, owns, coordV>>

----------------------------------------------------------------------------
(* The coordinator *)

\* async_stop_video withdraws the session, awaits its callbacks, and then calls stop().
Withdraw ==
  /\ start = "done" /\ ~released
  /\ released' = TRUE
  /\ UNCHANGED <<start, cntV, lock, active, taskV, cleanV, owns, reg, next, ended>>

\* With no session published, the next start may run at any time: it reuses an open CTPP
\* and registers media channels under the same names; it has not come to a renewal of its own.
NextStarts ==
  /\ released /\ ~next
  /\ next' = TRUE
  /\ reg' = [reg EXCEPT !["CTPP"] = IF @ = "none" THEN "next" ELSE @, !["media"] = "next"]
  /\ UNCHANGED <<start, cntV, lock, active, taskV, cleanV, owns, released, ended>>

----------------------------------------------------------------------------
\* A new session object; with notifications the coordinator has CTPP open.
Init ==
  /\ start = "open" /\ counter = 0 /\ shared = 0 /\ behind = TRUE /\ sent = {} /\ repeats = {}
  /\ lock = "free" /\ active = FALSE
  /\ monitor = "none" /\ timer = "none" /\ answer = "none" /\ door = "none"
  /\ doors = 0 /\ messages = 0
  /\ taken = {} /\ killed = {} /\ clean = [x \in Cleaners |-> "idle"] /\ receiver = "none"
  /\ owns = FALSE
  /\ \E o \in {"none", "coordinator"} : reg = [n \in Names |-> IF n = "CTPP" THEN o ELSE "none"]
  /\ released = FALSE /\ next = FALSE /\ ended = {}

StartStep == OpenCtpp \/ CallInit \/ Codec \/ RtpcLink \/ StartMedia \/ StartReturns \/ StartCleansUp
MonitorStep == \/ MonitorExits \/ MonitorAcks \/ MonitorAcked \/ Reestablish \/ ReestablishCall
               \/ ReestablishCodec \/ Reestablished \/ MonitorCancelled
OtherStep == AnswerSends \/ AnswerSent \/ DoorSends \/ DoorSent
CleanupStep(x) == CleanupMonitor(x) \/ CleanupReceiver(x) \/ CleanupEnds(x)

Next ==
  \/ StartStep \/ StartFails \/ MonitorStep \/ MonitorReads \/ ReestablishFails \/ OtherStep
  \/ OpenDoor \/ TimerElapses \/ TimerCancelled
  \/ \E x \in Cleaners : CleanupStep(x)
  \/ Withdraw \/ StopCalled \/ NextStarts

Spec == Init /\ [][Next]_vars

\* Every await has a timeout or a task that resumes it; asyncio.Lock is first come, first served.
FairSpec ==
  /\ Spec
  /\ WF_vars(StartStep) /\ WF_vars(MonitorStep)
  /\ SF_vars(Reestablish) /\ SF_vars(DoorSends) /\ WF_vars(AnswerSent \/ DoorSent)
  /\ WF_vars(TimerCancelled) /\ WF_vars(StopCalled)
  /\ \A x \in Cleaners : WF_vars(CleanupStep(x))

----------------------------------------------------------------------------
\* The types of the session's attributes and of its suspended coroutines.
TypeOK ==
  /\ start \in {"open", "call", "udpm", "rtpc", "device", "gate", "done", "clean", "raised"}
  /\ counter \in Nat /\ shared \in Nat
  /\ behind \in BOOLEAN /\ sent \subseteq Nat /\ repeats \subseteq {"link", "own", "other"}
  /\ lock \in {"free", "monitor", "answer", "door"}
  /\ active \in BOOLEAN /\ owns \in BOOLEAN /\ released \in BOOLEAN /\ next \in BOOLEAN
  /\ monitor \in {"none", "read", "ack", "acking", "end", "init", "codec", "accept", "over"}
  /\ timer \in {"none", "sleep", "clean", "over"}
  /\ answer \in {"none", "wait", "sending"} /\ door \in {"none", "wait", "sending"}
  /\ doors \in 0..MaxDoors /\ messages \in 0..MaxMessages
  /\ killed \subseteq taken /\ taken \subseteq {"timer", "monitor"}
  /\ clean \in [Cleaners -> {"idle", "timer", "monitor", "receiver", "done"}]
  /\ receiver \in {"none", "runs", "stopped"}
  /\ reg \in [Names -> {"none", "this", "next", "coordinator"}]
  /\ ended \subseteq {"call_end", "timeout"}

\* A re-establishment is one handshake on the wire: no answer and no door message gets
\* between the ACK of the CALL_END and the accept.
HandshakeExclusive ==
  [][(door # "sending" /\ door' = "sending") \/ (answer # "sending" /\ answer' = "sending")
       => monitor \notin {"init", "codec", "accept"}]_vars

\* Once stop() has returned the monitor sends no more, also when it was renewing the call and
\* when the timeout was cleaning up at the same time and had taken the task.
QuietAfterStop == [][clean["stop"] = "done" => counter' = counter]_vars

\* How far the counters of a call are from being fresh. Besides the RTPC link of every start and
\* renewal, which by design has the counter before it (380-381), the first message to repeat one is
\* an ACK of the monitor whose copy is behind the shared counter, and such an ACK always repeats one;
\* but for a door that has caught up, by 256 doors, with the ACK of a CALL_END whose renewal failed.
ReusedOnlyThere ==
  [][~Reused =>
       (Reused' <=> \/ monitor \in {"ack", "end"} /\ counter' # counter /\ counter' <= shared
                    \/ monitor = "over" /\ ~behind /\ shared' # shared /\ shared' = counter)]_vars

\* However renewals, clean-ups and the next session overlap, a channel of somebody else is taken from
\* the registry only when stop() or the timeout ends its clean-up after the next session has
\* started: its media channels, and its CTPP if this session had opened one too.
TakenOnlyThere ==
  [][\A n \in Names : reg[n] \notin {"none", "this"} /\ reg'[n] # reg[n] =>
       /\ reg[n] = "next" /\ reg'[n] = "none" /\ (n = "CTPP" => owns)
       /\ \E x \in {"stop", "timer"} : clean[x] = "receiver" /\ clean'[x] = "done"]_vars

\* After any of the clean-ups, overlapping ones too, no channel of the session is left in
\* the registry, and a renewal puts none back.
ChannelsReleased ==
  (\E x \in Cleaners : clean[x] = "done") => \A n \in Names : reg[n] # "this"

\* A session that reuses the coordinator's CTPP leaves it registered, so that the listener can
\* read it again.
CoordinatorKeepsCtpp == ~owns /\ start # "open" => reg["CTPP"] = "coordinator"

\* After a CALL_END the call is renewed, or the coordinator is told, or the session is stopped.
CallEndSettles ==
  monitor = "end" ~> monitor = "read" \/ "call_end" \in ended \/ "monitor" \in killed

\* A door press is not blocked for ever by a renewal, a failed or a cancelled one either.
DoorReturns == door = "wait" ~> door = "none"

----------------------------------------------------------------------------
(* The invariant of the proofs *)

\* The lock belongs to the coroutine that is inside it.
LockHeld ==
  /\ lock = "monitor" <=> monitor \in {"acking", "init", "codec", "accept"}
  /\ lock = "answer" <=> answer = "sending"
  /\ lock = "door" <=> door = "sending"

\* Which part of the session may be running while start() is where it is, and which clean-up.
Phases ==
  /\ monitor # "none" <=> start \in {"gate", "done"}
  /\ timer # "none" \/ answer # "none" \/ released => start = "done"
  /\ clean["start"] # "idle" => start \in {"clean", "raised"}
  /\ clean["stop"] # "idle" => released
  /\ clean["timer"] # "idle" => timer # "none"

\* A clean-up past the monitor leaves none that could still send, and none can be started.
MonitorGone ==
  /\ \A x \in Cleaners : clean[x] \in {"monitor", "receiver", "done"} => "monitor" \in taken
  /\ "monitor" \in taken =>
       /\ start \in {"done", "clean", "raised"}
       /\ "monitor" \in killed \/ monitor \in {"none", "over"}

\* A CTPP of the session's own is what _owns_ctpp says.
CtppOwned ==
  /\ start = "open" => reg["CTPP"] \in {"none", "coordinator"}
  /\ reg["CTPP"] = "this" => owns

\* What every step preserves; the safety properties follow from it.
IndInv ==
  TypeOK /\ LockHeld /\ Phases /\ MonitorGone /\ CtppOwned /\ ChannelsReleased /\ CoordinatorKeepsCtpp

----------------------------------------------------------------------------
(* What comments and docstrings say and the code does not do *)

\* video_call.py:92-94 "Shared CTPP counter ... Protected by _ctpp_lock so door open and
\* keepalive ACKs don't collide on the wire": no counter is sent twice in a call, but by the RTPC
\* link, of which 380-381 says so.
CountersFresh == ~Reused

\* video_call.py:550 "Release our channels back to the shared client": a clean-up leaves the
\* channels of the next session alone.
NextKeepsChannels == next => reg["media"] = "next" /\ reg["CTPP"] # "none"
============================================================================
