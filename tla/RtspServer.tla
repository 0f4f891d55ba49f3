----------------------------- MODULE RtspServer -----------------------------
(***************************************************************************)
(* LocalRtspServer: the handlers of its TCP clients with the PLAY gate, the *)
(* list of registered clients, the pass-through of video packets with their *)
(* timestamps translated, reset() for a new or a renewed call, and stop(). *)
(*                                                                         *)
(* Left out: requests other than PLAY, the contents of packets, sequence   *)
(* numbers, sender reports, the single UDP client; and what is not run: the *)
(* audio loop, whose clock stays 0, and the loops over whole NAL units.    *)
(***************************************************************************)
EXTENDS Naturals, Sequences, FiniteSets

CONSTANTS
  Clients,      \* connections: go2rtc, the stream worker
  TsMod,        \* 2^32: the range of RTP timestamps
  MaxGap,       \* the most a device's timestamp advances between two packets
  MaxQueue,     \* rtp_queue's maxsize
  MaxCalls      \* bound: calls

ASSUME RtspAssumption ==
  /\ TsMod \in Nat \ {0} /\ MaxGap \in Nat /\ 2 * MaxGap < TsMod
  /\ MaxQueue \in Nat \ {0} /\ MaxCalls \in Nat \ {0}

VARIABLES
  server,    \* "running"; in stop(): "stopping" (the loops), "closing" (wait_closed); "stopped"
  ready,     \* _ready_event
  handler,   \* per client: where _handle_client is
  closing,   \* registered clients whose writer is closed
  active,    \* _active_clients
  primed,    \* those of them that have got the parameter sets since the last reset()
  queue,     \* rtp_queue
  tsOut, tsOffset, lastTs, rebase,  \* _video_ts_out, _video_ts_offset, _last_device_ts, ..._rebase_pending
  call,      \* the last call
  clock,     \* per running receiver: the device's timestamp
  receivers, \* calls whose RtpReceiver is running
  late       \* calls whose receiver was running when another call began

cliV == <<handler, closing>>
tsV == <<tsOut, tsOffset, lastTs, rebase>>
devV == <<call, clock, receivers, late>>
vars == <<server, ready, cliV, active, primed, queue, tsV, devV>>

Timestamps == 0..(TsMod - 1)
Calls == 1..MaxCalls
NoTs == TsMod \* None

\* How far timestamp b is ahead of a.
Forward(a, b) == (b + TsMod - a) % TsMod

----------------------------------------------------------------------------
(* _handle_client *)

\* The socket listens until stop() closes it.
Connect(c) ==
  /\ server \in {"running", "stopping"} /\ handler[c] = "none"
  /\ handler' = [handler EXCEPT ![c] = "accepted"]
  /\ UNCHANGED <<server, ready, closing, active, primed, queue, tsV, devV>>

\* 200 OK, the list, and the parameter sets.
Register(c) ==
  /\ handler' = [handler EXCEPT ![c] = "streaming"]
  /\ active' = active \cup {c} /\ primed' = primed \cup {c}

\* PLAY, or the wait for it to be answered.
Play(c) ==
  /\ handler[c] = "request"
  /\ \/ ready /\ Register(c)
     \/ ~ready /\ handler' = [handler EXCEPT ![c] = "gate"] /\ UNCHANGED <<active, primed>>
  /\ UNCHANGED <<server, ready, closing, queue, tsV, devV>>

\* The event was set; whether it still is, is not asked.
PlayAnswered(c) ==
  /\ handler[c] = "woken"
  /\ Register(c)
  /\ UNCHANGED <<server, ready, closing, queue, tsV, devV>>

\* finally: out of the list, writer closed.
Ended(c) ==
  /\ handler' = [handler EXCEPT ![c] = "none"]
  /\ closing' = closing \ {c}
  /\ active' = active \ {c} /\ primed' = primed \ {c}
  /\ UNCHANGED <<server, ready, queue, tsV, devV>>

\* Its task runs: it waits for a request, unless the server is being stopped.
HandlerStarts(c) ==
  /\ handler[c] = "accepted"
  /\ \/ /\ server = "running" /\ handler' = [handler EXCEPT ![c] = "request"]
        /\ UNCHANGED <<server, ready, closing, active, primed, queue, tsV, devV>>
     \/ server # "running" /\ Ended(c)

\* 503 after ten seconds; a request that does not come for thirty.
HandlerTimesOut(c) == handler[c] \in {"gate", "request"} /\ Ended(c)

\* _wait_for_teardown reads TEARDOWN or the end of file.
HandlerReads(c) == handler[c] = "streaming" /\ Ended(c)


\* Within ten seconds it finds the connection closed or the server being stopped.
HandlerNotices(c) == (c \in closing \/ server # "running") /\ HandlerReads(c)

\* The connection of a registered client breaks.
Breaks(c) ==
  /\ c \in active \ closing
  /\ closing' = closing \cup {c}
  /\ UNCHANGED <<server, ready, handler, active, primed, queue, tsV, devV>>

----------------------------------------------------------------------------
(* The coordinator and the sessions: their server is this one until its stop() has returned *)

\* A session is published: those who wait at the gate are woken.
MarkReady ==
  /\ server # "stopped" /\ ready' = TRUE
  /\ handler' = [c \in Clients |-> IF handler[c] = "gate" THEN "woken" ELSE handler[c]]
  /\ UNCHANGED <<server, closing, active, primed, queue, tsV, devV>>

\* ... and withdrawn: mark_not_ready and disconnect_clients.
Withdraw ==
  /\ server # "stopped" /\ ready' = FALSE
  /\ closing' = closing \cup active /\ active' = {} /\ primed' = {}
  /\ UNCHANGED <<server, handler, queue, tsV, devV>>

\* Mutant: only new clients get the parameter sets.
ResetUnprimed == queue' = <<>> /\ rebase' = TRUE /\ primed' = {} /\ UNCHANGED <<tsOut, tsOffset, lastTs, active>>

\* Mutant: the queue is not drained.
ResetUndrained == queue' = queue /\ rebase' = TRUE /\ primed' = active /\ UNCHANGED <<tsOut, tsOffset, lastTs, active>>

\* Mutant: the timestamp starts again from the audio clock.
ResetToAudio == queue' = <<>> /\ rebase' = TRUE /\ primed' = active /\ tsOut' = 0 /\ UNCHANGED <<tsOffset, lastTs, active>>

\* The later of the video and the audio clock, which stays 0, is the video clock.
Reset == queue' = <<>> /\ rebase' = TRUE /\ primed' = active /\ UNCHANGED <<tsOut, tsOffset, lastTs, active>>

\* start() of a session: reset(), then a receiver for a device clock that starts anywhere.
StartCall ==
  /\ server # "stopped" /\ call < MaxCalls
  /\ Reset
  /\ call' = call + 1
  /\ late' = late \cup receivers /\ receivers' = receivers \cup {call + 1}
  /\ \E t \in Timestamps : clock' = [clock EXCEPT ![call + 1] = t]
  /\ UNCHANGED <<server, ready, cliV>>

\* In a renewal the device may start its clock again, at some time before reset(renewal=True).
ClockRestarts ==
  /\ server # "stopped" /\ call \in receivers
  /\ \E t \in Timestamps : clock' = [clock EXCEPT ![call] = t]
  /\ UNCHANGED <<server, ready, cliV, active, primed, queue, tsV, call, receivers, late>>

Renew ==
  /\ server # "stopped" /\ call \in receivers
  /\ Reset
  /\ UNCHANGED <<server, ready, cliV, devV>>

\* RtpReceiver.stop.
StopReceiver(k) ==
  /\ server # "stopped" /\ k \in receivers /\ receivers' = receivers \ {k}
  /\ clock' = [clock EXCEPT ![k] = 0]
  /\ UNCHANGED <<server, ready, cliV, active, primed, queue, tsV, call, late>>

\* A packet of the running or a late receiver: in order, or one that a later has overtaken.
\* A full queue drops it.
Receive(k) ==
  /\ server # "stopped" /\ k \in receivers
  /\ \E g \in 0..MaxGap, overtaken \in BOOLEAN :
       LET now == (clock[k] + g) % TsMod
           ts == IF overtaken THEN (clock[k] + TsMod - g) % TsMod ELSE now
       IN /\ clock' = IF overtaken THEN clock ELSE [clock EXCEPT ![k] = now]
          /\ queue' = IF Len(queue) < MaxQueue THEN Append(queue, [call |-> k, ts |-> ts]) ELSE queue
  /\ UNCHANGED <<server, ready, cliV, active, primed, tsV, call, receivers, late>>

----------------------------------------------------------------------------
(* _video_rtp_passthrough_loop *)

\* Mutant: a wrap of the device's clock is not told from a step back.
OffsetSigned(ts) ==
  IF lastTs = NoTs \/ rebase THEN (tsOut + 1 + TsMod - ts) % TsMod ELSE tsOffset

\* A new offset for the first packet, after reset(), and when the clock has stepped back.
Offset(ts) ==
  IF lastTs = NoTs \/ rebase \/ Forward(lastTs, ts) > TsMod \div 2
  THEN (tsOut + 1 + TsMod - ts) % TsMod
  ELSE tsOffset

\* _translate_video_ts, and the broadcast, which drops clients whose writer is closed.
Broadcast ==
  /\ server = "running" /\ queue # <<>>
  /\ queue' = Tail(queue)
  /\ LET ts == Head(queue).ts
     IN /\ tsOffset' = Offset(ts)
        /\ lastTs' = ts
        /\ tsOut' = (ts + tsOffset') % TsMod
  /\ rebase' = FALSE
  /\ active' = active \ closing /\ primed' = primed \ closing
  /\ UNCHANGED <<server, ready, cliV, devV>>

----------------------------------------------------------------------------
(* stop() *)

\* The list is cleared; the loops are cancelled, which may take two seconds each.
Stop ==
  /\ server = "running"
  /\ server' = "stopping" /\ active' = {} /\ primed' = {}
  /\ UNCHANGED <<ready, cliV, queue, tsV, devV>>

\* The socket no longer listens.
CloseSocket ==
  /\ server = "stopping" /\ server' = "closing"
  /\ UNCHANGED <<ready, cliV, active, primed, queue, tsV, devV>>

\* Server.wait_closed waits for the connections.
Stopped ==
  /\ server = "closing" /\ \A c \in Clients : handler[c] = "none"
  /\ server' = "stopped"
  /\ UNCHANGED <<ready, cliV, active, primed, queue, tsV, devV>>

----------------------------------------------------------------------------
Init ==
  /\ server = "running" /\ ready = FALSE
  /\ handler = [c \in Clients |-> "none"] /\ closing = {}
  /\ active = {} /\ primed = {}
  /\ queue = <<>> /\ tsOut = 0 /\ tsOffset = 0 /\ lastTs = NoTs /\ rebase = FALSE
  /\ call = 0 /\ clock = [k \in Calls |-> 0] /\ receivers = {} /\ late = {}

\* What a handler does without its client: its reads and its wait at the gate have timeouts.
HandlerStep(c) == HandlerStarts(c) \/ PlayAnswered(c) \/ HandlerTimesOut(c) \/ HandlerNotices(c)

Next ==
  \/ \E c \in Clients : Connect(c) \/ Play(c) \/ HandlerStep(c) \/ HandlerReads(c) \/ Breaks(c)
  \/ MarkReady \/ Withdraw \/ StartCall \/ ClockRestarts \/ Renew
  \/ \E k \in Calls : StopReceiver(k) \/ Receive(k)
  \/ Broadcast \/ Stop \/ CloseSocket \/ Stopped

Spec == Init /\ [][Next]_vars

----------------------------------------------------------------------------
\* The types of the server's attributes.
TypeOK ==
  /\ server \in {"running", "stopping", "closing", "stopped"} /\ ready \in BOOLEAN /\ rebase \in BOOLEAN
  /\ handler \in [Clients -> {"none", "accepted", "request", "gate", "woken", "streaming"}]
  /\ closing \subseteq Clients
  /\ active \subseteq Clients /\ primed \subseteq Clients
  /\ queue \in Seq([call : Calls, ts : Timestamps]) /\ Len(queue) <= MaxQueue
  /\ tsOut \in Timestamps /\ tsOffset \in Timestamps /\ lastTs \in Timestamps \cup {NoTs}
  /\ call \in 0..MaxCalls /\ clock \in [Calls -> Timestamps] /\ receivers \subseteq Calls /\ late \subseteq Calls

\* The stream worker stays connected across calls and rejects a timestamp that goes back: no
\* reset, renewal, restarted or wrapped device clock or reordered packet moves it back.
TimestampsForward == [][Forward(tsOut, tsOut') <= TsMod \div 2]_vars

\* Whoever stays across a call or comes during one has the parameter sets before a frame of it.
PrimedBeforeFrames == active \subseteq primed

\* A frame of an older call is sent during the next only when its receiver outlived the start.
NoStaleFrames == \A i \in 1..Len(queue) : queue[i].call = call \/ queue[i].call \in late

\* The list holds no client whose handler is gone, whoever emptied it in between.
ListedAreHandled == \A c \in active : handler[c] = "streaming"

\* A receiver of an older call was running when a later one began.
ReceiversKnown == call <= MaxCalls /\ receivers \subseteq {call} \cup late

\* The last packet was sent with the offset that the next one starts from.
Translated == lastTs # NoTs => tsOut = (lastTs + tsOffset) % TsMod

\* What every step preserves.
IndInv ==
  /\ TypeOK /\ ReceiversKnown /\ PrimedBeforeFrames /\ NoStaleFrames /\ ListedAreHandled
  /\ Translated


\* The most steps a handler has left once the socket is closed.
StepsLeft(c) ==
  CASE handler[c] = "none" -> 0
    [] handler[c] = "streaming" -> 1
    [] handler[c] = "woken" -> 2
    [] handler[c] = "gate" -> 3
    [] handler[c] = "request" -> 4
    [] handler[c] = "accepted" -> 5

\* ... and nothing holds it up: whatever is published, withdrawn, started or renewed on the server
\* while it waits, a handler that gets on, by itself or because a session that is published wakes
\* it at the gate, comes nearer to its end; and none is added that it would have to wait for.
StopDrains ==
  [][server = "closing" =>
       \A c \in Clients : handler'[c] # handler[c] => StepsLeft(c)' < StepsLeft(c)]_vars

----------------------------------------------------------------------------
(* What comments and docstrings say and the code does not do *)

\* rtsp_server.py:133-138 "We translate ... to keep the output stream monotonic and aligned with
\* wall clock": the output advances like the device's clock, across calls and renewals.
AlignedWithClock == [][Forward(tsOut, tsOut') <= MaxGap]_vars
============================================================================
