---------------------------- MODULE VipListener ----------------------------
(***************************************************************************)
(* VipEventListener: the task that reads the CTPP queue, acknowledges what *)
(* the device sends and turns it into events; its supervisor; the filter   *)
(* of the doorbell event entity; and the other readers of the same queue   *)
(* (the monitor of a video session, the drain of a door open).             *)
(*                                                                         *)
(* A message is its kind and, where it is about a ring, the ring's number. *)
(* Time passes in ticks; ages saturate at the window they are compared to. *)
(***************************************************************************)
EXTENDS Naturals, Sequences, SequencesExt, FiniteSets

CONSTANTS
  MaxRings,      \* bound: visitors who press the doorbell
  MaxQueue,      \* bound: messages in the CTPP queue
  MaxCrashes,    \* bound: unhandled exceptions in the loop
  DedupWindow,   \* _dedup_window, in ticks
  CrashWindow,   \* _RESTART_WINDOW, in ticks
  RestartLimit,  \* _RESTART_LIMIT
  SendMayFail,   \* can sending an acknowledgement fail?
  Video,         \* are video sessions used?
  Doors,         \* are doors opened on this channel?
  Restarts       \* is Restart Notifications pressed?

ASSUME VipAssumption ==
  /\ MaxRings \in Nat /\ MaxQueue \in Nat /\ MaxCrashes \in Nat
  /\ DedupWindow \in Nat \ {0} /\ CrashWindow \in Nat \ {0} /\ RestartLimit \in Nat
  /\ SendMayFail \in BOOLEAN /\ Video \in BOOLEAN /\ Doors \in BOOLEAN /\ Restarts \in BOOLEAN

VARIABLES
  queue,       \* Channel.response_queue of CTPP
  task,        \* where the listener task is suspended
  cur,         \* the message it is processing
  age,         \* per event type: ticks since _last_fired, saturating at DedupWindow
  crashes,     \* restart_times: <<number, age>> per crash, saturating at CrashWindow
  crashed,     \* crashes so far (bound)
  attached,    \* _vip_listener is not None
  video,       \* a video session reads the queue
  drain,       \* responses a door open still waits for
  owed,        \* responses to it the device has not sent yet
  rings,       \* visitors so far
  alerting,    \* the ring the device repeats until it is acknowledged, or 0
  ended,       \* rings whose call is over
  registered,  \* the device still pushes events: each renewal got its ACK pair
  pushed,      \* <<event, ring>> given to the coordinator's callback
  shown,       \* per ring: ring events fired by the entity, saturating at 2
  suppressed,  \* rings whose message the deduplication dropped
  eaten        \* rings whose message another reader took outside a video session

devV == <<owed, rings, alerting, ended>>
haV == <<pushed, shown, suppressed, eaten>>
lisV == <<task, cur, age, crashes, crashed, attached>>
vars == <<queue, lisV, video, drain, devV, registered, haV>>

----------------------------------------------------------------------------
(* Messages *)

Events == {"ring", "missed_call", "door_opened"}
RingIds == 0..MaxRings
None == [kind |-> "none", ring |-> 0]

\* 0x18C0, 0x1860/0x0001, /0x0010, /0x0003 from an entrance or from the apartment itself,
\* other 0x1860, 0x1840/0x0000, other 0x1840, 0x1800.
Kinds == {"callInit", "alerting", "renewal", "doorEntrance", "doorInternal", "fsm",
          "videoIdle", "videoOther", "ack"}
Messages == [kind : Kinds, ring : RingIds]
Msg(k, r) == [kind |-> k, ring |-> r]

\* Mutant: call inits are not acknowledged.
AckedUnlessCallInit == Kinds \ {"callInit", "doorEntrance", "doorInternal", "renewal", "ack"}

\* The kinds answered by one ACK before they are handled.
Acked == Kinds \ {"doorEntrance", "doorInternal", "renewal", "ack"}

\* Mutant: only a call init is a ring.
EventOfCallInit(m) ==
  CASE m.kind = "callInit" -> "ring"
    [] m.kind = "doorEntrance" -> "door_opened"
    [] m.kind = "videoIdle" -> "missed_call"
    [] OTHER -> "none"

\* _handle_vip_event: the event a message stands for.
EventOf(m) ==
  CASE m.kind \in {"callInit", "alerting"} -> "ring"
    [] m.kind = "doorEntrance" -> "door_opened"
    [] m.kind = "videoIdle" -> "missed_call"
    [] OTHER -> "none"

\* EVENT_TYPES of the doorbell event entity.
EventTypes == {"ring", "missed_call"}

----------------------------------------------------------------------------
(* _fire_event and the callbacks behind it *)

\* Mutant: no deduplication.
SuppressedNever(e) == FALSE

Suppressed(e) == age[e] < DedupWindow

\* Handle message m: nothing, a suppressed duplicate, or an event to all callbacks.
Handle(m) ==
  LET e == EventOf(m) IN
  IF e = "none" THEN UNCHANGED <<age, pushed, shown, suppressed>>
  ELSE IF Suppressed(e)
       THEN /\ suppressed' = IF e = "ring" THEN suppressed \cup {m.ring} ELSE suppressed
            /\ UNCHANGED <<age, pushed, shown>>
       ELSE /\ age' = [age EXCEPT ![e] = 0]
            /\ pushed' = pushed \cup {<<e, m.ring>>}
            /\ shown' = IF e = "ring" /\ e \in EventTypes
                        THEN [shown EXCEPT ![m.ring] = IF @ < 2 THEN @ + 1 ELSE 2] ELSE shown
            /\ UNCHANGED suppressed

----------------------------------------------------------------------------
(* The listener task *)

\* wait_for(queue.get()) returned: processing up to the first await.
TakeMessage ==
  /\ task = "read" /\ queue # <<>>
  /\ queue' = Tail(queue)
  /\ IF Head(queue).kind = "renewal" THEN task' = "pair1" ELSE
     IF Head(queue).kind \in Acked THEN task' = "ack" ELSE task' = "read"
  /\ IF Head(queue).kind \in Acked \cup {"renewal"}
     THEN cur' = Head(queue) /\ UNCHANGED <<age, pushed, shown, suppressed>>
     ELSE cur' = None /\ Handle(Head(queue))
  /\ UNCHANGED <<crashes, crashed, attached, video, drain, devV, registered, eaten>>

\* Mutant: an event whose acknowledgement failed is not handled.
EventAckedOrSkipped ==
  /\ task = "ack"
  /\ \/ /\ alerting' = IF cur.kind = "callInit" /\ cur.ring = alerting THEN 0 ELSE alerting
        /\ Handle(cur)
     \/ SendMayFail /\ UNCHANGED <<alerting, age, pushed, shown, suppressed>>
  /\ task' = "read" /\ cur' = None
  /\ UNCHANGED <<queue, crashes, crashed, attached, video, drain, owed, rings, ended, registered, eaten>>

\* _send_event_ack has returned; a failed send is only logged.
EventAcked ==
  /\ task = "ack"
  /\ \/ alerting' = IF cur.kind = "callInit" /\ cur.ring = alerting THEN 0 ELSE alerting
     \/ SendMayFail /\ UNCHANGED alerting
  /\ Handle(cur)
  /\ task' = "read" /\ cur' = None
  /\ UNCHANGED <<queue, crashes, crashed, attached, video, drain, owed, rings, ended, registered, eaten>>

\* Mutant: 0x1820 is never sent.
RenewalAckSingle ==
  /\ task = "pair1"
  /\ registered' = FALSE
  /\ task' = "read" /\ cur' = None
  /\ UNCHANGED <<queue, age, crashes, crashed, attached, video, drain, devV, haV>>

\* _send_renewal_ack: the first ACK (0x1800) is out, or failed and ends the pair.
RenewalAck ==
  /\ task = "pair1"
  /\ \/ task' = "pair2" /\ UNCHANGED <<cur, registered>>
     \/ SendMayFail /\ task' = "read" /\ cur' = None /\ registered' = FALSE
  /\ UNCHANGED <<queue, age, crashes, crashed, attached, video, drain, devV, haV>>

\* The second one (0x1820) is out, or failed.
RenewalConfirm ==
  /\ task = "pair2"
  /\ registered' \in {registered} \cup (IF SendMayFail THEN {FALSE} ELSE {})
  /\ task' = "read" /\ cur' = None
  /\ UNCHANGED <<queue, age, crashes, crashed, attached, video, drain, devV, haV>>

\* Mutant: crashes of long ago still count.
RecentAll == crashes \cup {<<crashed + 1, 0>>}

\* restart_times after a crash now.
Recent == {c \in crashes : c[2] < CrashWindow} \cup {<<crashed + 1, 0>>}

\* Mutant: one crash too many is tolerated.
TooManyLate(times) == Cardinality(times) > RestartLimit + 1

TooMany(times) == Cardinality(times) > RestartLimit

\* An exception nobody foresaw while a message is processed: restart in a second, or give up.
LoopCrashes ==
  /\ task \in {"ack", "pair1", "pair2"} /\ crashed < MaxCrashes
  /\ crashed' = crashed + 1
  /\ crashes' = Recent
  /\ task' = IF TooMany(Recent) THEN "dead" ELSE "sleep"
  /\ cur' = None
  /\ registered' = (registered /\ cur.kind # "renewal")
  /\ UNCHANGED <<queue, age, attached, video, drain, devV, haV>>

LoopRestarts ==
  /\ task = "sleep"
  /\ task' = "read"
  /\ UNCHANGED <<queue, cur, age, crashes, crashed, attached, video, drain, devV, registered, haV>>

----------------------------------------------------------------------------
(* The coordinator: a stopped listener is dropped, a started one is a new object *)

StopTask == /\ task' = "off" /\ attached' = FALSE /\ cur' = None
            /\ registered' = (registered /\ cur.kind # "renewal")
            /\ UNCHANGED <<age, crashes, crashed>>

StartTask == /\ task' = "read" /\ attached' = TRUE /\ cur' = None
             /\ age' = [e \in Events |-> DedupWindow] /\ crashes' = {}
             /\ UNCHANGED crashed

\* A video session takes over the queue ...
VideoStarts ==
  /\ Video /\ ~video
  /\ video' = TRUE
  /\ StopTask
  /\ UNCHANGED <<queue, drain, devV, haV>>

\* ... and gives it back.
VideoStops ==
  /\ video
  /\ video' = FALSE
  /\ IF attached THEN UNCHANGED lisV ELSE StartTask
  /\ UNCHANGED <<queue, drain, devV, registered, haV>>

RestartNotifications ==
  /\ Restarts
  /\ StartTask
  /\ registered' = (registered /\ cur.kind # "renewal")
  /\ UNCHANGED <<queue, video, drain, devV, haV>>

\* The session's monitor: bare ACK for 0x1840 and 0x1860, anything else is dropped.
SessionReads ==
  /\ video /\ queue # <<>>
  /\ queue' = Tail(queue)
  /\ registered' = (registered /\ Head(queue).kind # "renewal")
  /\ UNCHANGED <<lisV, video, drain, devV, haV>>

\* A door open on this channel: commands, door_init, and two responses to drain.
DoorOpens ==
  /\ Doors /\ ~video /\ drain = 0 /\ owed = 0
  /\ drain' = 2 /\ owed' = 2
  /\ UNCHANGED <<queue, lisV, video, rings, alerting, ended, registered, haV>>

\* read_response: whatever comes first, whoever it is for.
DoorReads ==
  /\ drain > 0 /\ queue # <<>>
  /\ queue' = Tail(queue)
  /\ drain' = drain - 1
  /\ registered' = (registered /\ Head(queue).kind # "renewal")
  /\ eaten' = IF ~video /\ EventOf(Head(queue)) = "ring" THEN eaten \cup {Head(queue).ring} ELSE eaten
  /\ UNCHANGED <<lisV, video, devV, pushed, shown, suppressed>>

DoorTimesOut ==
  /\ drain > 0
  /\ drain' = drain - 1
  /\ UNCHANGED <<queue, lisV, video, devV, registered, haV>>

----------------------------------------------------------------------------
(* The device *)

Room == Len(queue) < MaxQueue
Send(m) == Room /\ queue' = Append(queue, m)

\* A press is announced by a call init, by an FSM event, or by both.
VisitorRings ==
  /\ rings < MaxRings
  /\ rings' = rings + 1
  /\ \/ Send(Msg("callInit", rings + 1)) /\ alerting' = rings + 1
     \/ Send(Msg("alerting", rings + 1)) /\ UNCHANGED alerting
     \/ /\ Len(queue) + 1 < MaxQueue /\ alerting' = rings + 1
        /\ queue' = queue \o <<Msg("callInit", rings + 1), Msg("alerting", rings + 1)>>
  /\ UNCHANGED <<lisV, video, drain, owed, ended, registered, haV>>

\* A call init is repeated until it is acknowledged (one copy at a time in the queue).
Retransmits ==
  /\ alerting # 0 /\ ~Contains(queue, Msg("callInit", alerting))
  /\ Send(Msg("callInit", alerting))
  /\ UNCHANGED <<lisV, video, drain, devV, registered, haV>>

\* Nobody answered: the call ends with 0x1840/0x0000.
CallTimesOut ==
  /\ \E r \in 1..rings \ ended : ended' = ended \cup {r} /\ Send(Msg("videoIdle", r))
  /\ UNCHANGED <<lisV, video, drain, owed, rings, alerting, registered, haV>>

\* Renewals, door reports and the rest; during a video session also its keepalives.
DeviceSends ==
  /\ \E k \in {"renewal", "doorEntrance", "doorInternal", "fsm", "videoOther"} :
       Send(Msg(k, 0)) /\ (k = "renewal" => registered)
  /\ UNCHANGED <<lisV, video, drain, devV, registered, haV>>

VideoKeepalive ==
  /\ video /\ Send(Msg("videoIdle", 0))
  /\ UNCHANGED <<lisV, video, drain, devV, registered, haV>>

DoorResponse ==
  /\ owed > 0 /\ Send(Msg("ack", 0))
  /\ owed' = owed - 1
  /\ UNCHANGED <<lisV, video, drain, rings, alerting, ended, registered, haV>>

\* Processing takes milliseconds, a tick seconds: none passes while there is work.
Tick ==
  /\ task \in {"off", "dead", "sleep"} \/ (task = "read" /\ queue = <<>>)
  /\ age' = [e \in Events |-> IF age[e] < DedupWindow THEN age[e] + 1 ELSE DedupWindow]
  /\ crashes' = {<<c[1], IF c[2] < CrashWindow THEN c[2] + 1 ELSE CrashWindow>> : c \in crashes}
  /\ UNCHANGED <<queue, task, cur, crashed, attached, video, drain, devV, registered, haV>>

----------------------------------------------------------------------------
\* VipEventListener.start() on an initialised channel.
Init ==
  /\ queue = <<>> /\ task = "read" /\ cur = None
  /\ age = [e \in Events |-> DedupWindow]
  /\ crashes = {} /\ crashed = 0 /\ attached = TRUE
  /\ video = FALSE /\ drain = 0 /\ owed = 0
  /\ rings = 0 /\ alerting = 0 /\ ended = {}
  /\ registered = TRUE
  /\ pushed = {} /\ shown = [r \in RingIds |-> 0] /\ suppressed = {} /\ eaten = {}

Listener == \/ TakeMessage \/ EventAcked \/ RenewalAck \/ RenewalConfirm
            \/ LoopCrashes \/ LoopRestarts
Others == \/ VideoStarts \/ VideoStops \/ RestartNotifications \/ SessionReads
          \/ DoorOpens \/ DoorReads \/ DoorTimesOut
Device == \/ VisitorRings \/ Retransmits \/ CallTimesOut \/ DeviceSends
          \/ VideoKeepalive \/ DoorResponse

Next == Listener \/ Others \/ Device \/ Tick

Spec == Init /\ [][Next]_vars

\* The event loop runs the listener; the device repeats what was not acknowledged.
FairSpec == /\ Spec
            /\ WF_vars(TakeMessage) /\ WF_vars(EventAcked) /\ WF_vars(RenewalAck)
            /\ WF_vars(RenewalConfirm) /\ WF_vars(LoopRestarts)
            /\ WF_vars(Retransmits) /\ WF_vars(Tick)

----------------------------------------------------------------------------
\* The types of the listener's attributes, the queue and the ghosts.
TypeOK ==
  /\ queue \in Seq(Messages) /\ Len(queue) <= MaxQueue
  /\ task \in {"off", "read", "ack", "pair1", "pair2", "sleep", "dead"}
  /\ attached <=> task # "off"
  /\ cur \in Messages \cup {None}
  /\ age \in [Events -> 0..DedupWindow]
  /\ crashes \subseteq (1..MaxCrashes) \X (0..CrashWindow) /\ crashed \in 0..MaxCrashes
  /\ attached \in BOOLEAN /\ video \in BOOLEAN /\ registered \in BOOLEAN
  /\ drain \in 0..2 /\ owed \in 0..2
  /\ rings \in RingIds /\ alerting \in RingIds
  /\ ended \subseteq RingIds /\ suppressed \subseteq RingIds /\ eaten \subseteq RingIds
  /\ pushed \subseteq Events \X RingIds
  /\ shown \in [RingIds -> 0..2]

\* The supervisor tolerates RestartLimit crashes within the window and not one more; it
\* gives up only on such a burst, never on crashes that are spread out.
GivesUpOnBurst ==
  /\ task = "dead" => Cardinality(crashes) > RestartLimit
  /\ Cardinality({c \in crashes : c[2] < CrashWindow}) > RestartLimit =>
       task \in {"dead", "off"}

\* ... and every crash it gave up on was recent when it did.
NoStaleCrash ==
  [][task # "dead" /\ task' = "dead" => \A c \in crashes' : c[2] < CrashWindow]_vars

\* A ring is announced once, however often the device repeats its call init and whatever
\* its FSM event adds, as long as acknowledgements get through.
OncePerRing == \A r \in 1..MaxRings : shown[r] <= 1

\* With no other reader, a call is reported as missed only after its ring was announced,
\* or dropped as a repetition: the queue keeps the device's order and nothing is skipped.
MissedAfterRing ==
  \A r \in 1..MaxRings :
    <<"missed_call", r>> \in pushed => shown[r] > 0 \/ r \in suppressed

IsRing(m, r) == EventOf(m) = "ring" /\ m.ring = r
Handled(r) == shown[r] > 0 \/ r \in suppressed

\* Ring r was announced, is in the listener's hands or in its queue, or will be repeated.
InSight(r) ==
  \/ Handled(r) \/ r = alerting \/ IsRing(cur, r)
  \/ \E i \in DOMAIN queue : IsRing(queue[i], r)

\* Whoever shares the queue, and whatever fails, a ring gets out of sight only when another reader
\* takes it, when the listener is cancelled or crashes while it acknowledges it, or when the next
\* visitor rings before its call init was acknowledged.
RingsLostOnlyThere ==
  [][\A r \in 1..rings : InSight(r) /\ ~InSight(r)' =>
       \/ (SessionReads \/ DoorReads) /\ IsRing(Head(queue), r)
       \/ (VideoStarts \/ RestartNotifications \/ LoopCrashes) /\ IsRing(cur, r)
       \/ VisitorRings /\ r = alerting]_vars

\* With no other reader, every renewal gets its ACK pair, so events keep coming.
RegistrationKept == registered

\* With no other reader, every ring is announced, or dropped as a repetition.
RingHandled ==
  \A r \in 1..MaxRings : rings >= r ~> (shown[r] > 0 \/ r \in suppressed)

\* A call init is acknowledged, so that the device leaves its alerting state.
AlertingEnds == alerting # 0 ~> alerting = 0

----------------------------------------------------------------------------
(* What comments, docstrings and the README say and the code does not do *)

\* coordinator.py:341 "Return True when the VIP event listener is running."
SensorTellsTruth == attached => task # "dead"

\* README.md:74 "Fires `ring`, `missed_call`, and `door_opened` events for automations"
DoorOpenedReachesHA == \A p \in pushed : p[1] \in EventTypes

\* README.md:113 "The ring was not answered and the call timed out"
MissedCallIsARing == <<"missed_call", 0>> \notin pushed

\* README.md:112 "Someone pressed the doorbell button": with two visitors, two events.
EveryVisitorAnnounced == \A r \in suppressed : shown[r] > 0

\* client.py:455-457 "there's no race condition - packets that arrive before this method
\* is called are buffered in the queue": a ring is read by the listener and nobody else.
RingNotEaten == eaten = {}

\* vip_listener.py:312-314: a renewal must be answered with the ACK pair "or the device
\* stops pushing VIP events".
RenewalsAnswered == registered

----------------------------------------------------------------------------
(* The inductive strengthening of the safety properties (proved in VipListenerProofs) *)

\* A message is in hand only while its acknowledgements are sent, whoever cancels the task.
CurInHand ==
  /\ task \in {"off", "read", "sleep", "dead"} => cur = None
  /\ task = "ack" => cur.kind \in Acked
  /\ task \in {"pair1", "pair2"} => cur.kind = "renewal"

\* Each crash is counted once.
CrashesNumbered ==
  \A c \in crashes : c[1] <= crashed /\ \A d \in crashes : c[1] = d[1] => c = d

\* The listener is the only reader of its queue, and what it sends arrives.
Alone == MaxCrashes = 0 /\ ~SendMayFail /\ ~Video /\ ~Doors /\ ~Restarts

\* What the listener has not dealt with yet, in order.
ToDo == IF cur = None THEN queue ELSE <<cur>> \o queue

\* Nobody else reads, and the task is suspended in the middle of a message only for its ACK.
AloneTasks ==
  /\ task \in {"read", "ack", "pair1", "pair2"} /\ (task = "read" <=> cur = None)
  /\ task = "ack" => cur.kind \in Acked
  /\ task \in {"pair1", "pair2"} => cur.kind = "renewal"
  /\ ~video /\ drain = 0 /\ owed = 0

\* Messages are about rings there were ...
RingsKnown ==
  /\ alerting <= rings /\ ended \subseteq 1..rings
  /\ \A i \in DOMAIN ToDo : EventOf(ToDo[i]) \in {"ring", "missed_call"} => ToDo[i].ring \in 1..rings
  /\ \A r \in RingIds : shown[r] > 0 => r \in 1..rings

\* ... the FSM event of a ring whose call init is not acknowledged comes after that call init ...
FsmAfterCallInit ==
  \A i \in DOMAIN ToDo : ToDo[i] = Msg("alerting", alerting) =>
    \E k \in 1..i-1 : ToDo[k] = Msg("callInit", alerting)

\* ... and what is left of a ring that was announced is handled before any time passes.
ShownIsOver ==
  \A r \in RingIds : shown[r] > 0 =>
    /\ shown[r] = 1 /\ r # alerting
    /\ \A i \in DOMAIN ToDo : IsRing(ToDo[i], r) => Suppressed("ring")

\* Each ring is handled or still to be read, and before the end of its call.
RingsToDo ==
  /\ \A r \in 1..rings : Handled(r) \/ \E i \in DOMAIN ToDo : IsRing(ToDo[i], r)
  /\ \A i \in DOMAIN ToDo : ToDo[i].kind = "videoIdle" =>
       Handled(ToDo[i].ring) \/ \E k \in 1..i-1 : IsRing(ToDo[k], ToDo[i].ring)

AloneInv ==
  /\ TypeOK /\ AloneTasks /\ RegistrationKept /\ MissedAfterRing
  /\ RingsKnown /\ FsmAfterCallInit /\ ShownIsOver /\ RingsToDo
============================================================================
