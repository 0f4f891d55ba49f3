---------------------------- MODULE RtpReceiver ----------------------------
(***************************************************************************)
(* RtpReceiver: the reassembly of NAL units from the packets of a UDP      *)
(* stream, the loop that decodes them, the camera's requests for the next  *)
(* still image, and stop().                                                *)
(*                                                                         *)
(* A packet is its place in the order of sending (the RTP sequence number, *)
(* which the code does not read); the network may lose packets and let     *)
(* them overtake each other. What a decoder makes of a NAL unit is left    *)
(* open. The pass-through queue is modelled in RtspServer.                 *)
(***************************************************************************)
EXTENDS Naturals, Sequences, FiniteSets

CONSTANTS
  Viewers,     \* requests for a still image that overlap
  MaxQueue,    \* _nal_queue's maxsize (500)
  MaxErrors,   \* _MAX_CONSECUTIVE_ERRORS (5)
  MaxPackets,  \* bound: packets the device sends
  MaxLost,     \* bound: packets the network loses
  MayOvertake  \* may a packet overtake another?

ASSUME ReceiverAssumption ==
  /\ MaxQueue \in Nat \ {0} /\ MaxErrors \in Nat \ {0}
  /\ MaxPackets \in Nat /\ MaxLost \in Nat /\ MayOvertake \in BOOLEAN

VARIABLES
  sent,       \* the packets the device has sent, in that order
  wire,       \* those in flight
  lost,       \* those the network has lost
  overtaken,  \* a packet has overtaken another
  fua,        \* _current_fua_nal: the packets its bytes are from
  fuaTs,      \* _current_fua_ts
  queue,      \* _nal_queue
  codec,      \* _decode_task: "none", "init", "get", "busy" (in the thread), "ended"
  errors,     \* consecutive_errors
  frames,     \* frames decoded so far (bound by the packets)
  latest,     \* _latest_frame: 0, or the number of a frame
  view,       \* per request: get_jpeg_frame "waits" for the event, is "woken", has returned
              \* after the event ("fresh") or after its timeout ("late")
  since,      \* ... and the frames decoded when it was called
  got,        \* ... and what it returned
  stop        \* stop(): "no", cancelling the keepalive and then the decoder, "done"

netV == <<sent, wire, lost, overtaken>>
fuaV == <<fua, fuaTs>>
decV == <<codec, errors, frames>>
viewV == <<view, since, got>>
vars == <<netV, fuaV, queue, decV, latest, viewV, stop>>

Kinds == {"audio", "single", "start", "mid", "end"}
Packets == DOMAIN sent
Is(k, kinds) == sent[k].kind \in kinds
Fragment(k) == Is(k, {"start", "mid", "end"})

----------------------------------------------------------------------------
(* The device and the network *)

LastVideo == {k \in Packets : ~Is(k, {"audio"}) /\ \A l \in k + 1..Len(sent) : Is(l, {"audio"})}
MidNal == \E k \in LastVideo : Is(k, {"start", "mid"})
Ts == IF LastVideo = {} THEN 0 ELSE sent[CHOOSE k \in LastVideo : TRUE].ts

\* Audio, a NAL unit in one packet, or the next fragment of one; each has a timestamp of its own.
Send ==
  /\ Len(sent) < MaxPackets
  /\ \E kind \in IF MidNal THEN {"audio", "mid", "end"} ELSE {"audio", "single", "start"} :
       sent' = Append(sent, [kind |-> kind, ts |-> Ts + (IF kind \in {"single", "start"} THEN 1 ELSE 0)])
  /\ wire' = wire \cup {Len(sent) + 1}
  /\ UNCHANGED <<lost, overtaken, fuaV, queue, decV, latest, viewV, stop>>

Lose ==
  /\ Cardinality(lost) < MaxLost
  /\ \E k \in wire : wire' = wire \ {k} /\ lost' = lost \cup {k}
  /\ UNCHANGED <<sent, overtaken, fuaV, queue, decV, latest, viewV, stop>>

----------------------------------------------------------------------------
(* _process_rtp *)

\* _queue_nal: a full queue drops the NAL unit.
QueueNal(ts, parts) ==
  queue' = IF Len(queue) < MaxQueue THEN Append(queue, [ts |-> ts, parts |-> parts]) ELSE queue

\* Mutant: a fragment is kept whether or not one has begun.
ReassembleAny(k) ==
  LET nal == IF Is(k, {"start"}) THEN <<k>> ELSE Append(fua, k)
  IN /\ fuaTs' = IF Is(k, {"start"}) THEN sent[k].ts ELSE fuaTs
     /\ IF Is(k, {"end"}) THEN QueueNal(fuaTs', nal) /\ fua' = <<>>
        ELSE fua' = nal /\ UNCHANGED queue

\* An FU-A fragment: a start discards what was there, others extend what has begun, and
\* an end hands it on.
Reassemble(k) ==
  LET nal == IF Is(k, {"start"}) THEN <<k>> ELSE IF fua = <<>> THEN <<>> ELSE Append(fua, k)
  IN /\ fuaTs' = IF Is(k, {"start"}) THEN sent[k].ts ELSE fuaTs
     /\ IF Is(k, {"end"}) /\ nal # <<>> THEN QueueNal(fuaTs', nal) /\ fua' = <<>>
        ELSE fua' = nal /\ UNCHANGED queue

\* A packet arrives; before set_media_req_id (with the start of the decoder) it is ignored.
Receive ==
  /\ stop # "done"
  /\ \E k \in wire :
       /\ MayOvertake \/ \A l \in wire : k <= l
       /\ overtaken' = (overtaken \/ \E l \in wire : l < k)
       /\ wire' = wire \ {k}
       /\ IF codec = "none" \/ Is(k, {"audio"}) THEN UNCHANGED <<fuaV, queue>>
          ELSE IF Is(k, {"single"}) THEN QueueNal(sent[k].ts, <<k>>) /\ UNCHANGED fuaV
          ELSE Reassemble(k)
  /\ UNCHANGED <<sent, lost, decV, latest, viewV, stop>>

----------------------------------------------------------------------------
(* _decode_loop *)

StartMedia ==
  /\ stop = "no" /\ codec = "none"
  /\ codec' = "init"
  /\ UNCHANGED <<netV, fuaV, queue, errors, frames, latest, viewV, stop>>

\* The codec is created in a thread, which may take a minute; without PyAV the task ends.
CodecCreated ==
  /\ codec = "init"
  /\ \E ok \in BOOLEAN : codec' = IF ok /\ stop = "no" THEN "get" ELSE "ended"
  /\ UNCHANGED <<netV, fuaV, queue, errors, frames, latest, viewV, stop>>

\* The next NAL unit goes to the thread.
Decode ==
  /\ codec = "get" /\ queue # <<>>
  /\ queue' = Tail(queue) /\ codec' = "busy"
  /\ UNCHANGED <<netV, fuaV, errors, frames, latest, viewV, stop>>

\* Two seconds without one after stop() has begun: the loop's condition ends it.
DecodeIdle ==
  /\ codec = "get" /\ queue = <<>> /\ stop # "no"
  /\ codec' = "ended"
  /\ UNCHANGED <<netV, fuaV, queue, errors, frames, latest, viewV, stop>>

NextNal == IF stop = "no" THEN "get" ELSE "ended"

\* Mutant: set() wakes one waiter.
WakeOne ==
  IF \E v \in Viewers : view[v] = "waits"
  THEN \E v \in Viewers : view[v] = "waits" /\ view' = [view EXCEPT ![v] = "woken"]
  ELSE UNCHANGED view

\* _frame_event.set() wakes every request that waits.
WakeAll == view' = [v \in Viewers |-> IF view[v] = "waits" THEN "woken" ELSE view[v]]

\* The thread returns frames: the last of them stays.
Decoded ==
  /\ codec = "busy"
  /\ frames' = frames + 1 /\ latest' = frames + 1
  /\ WakeAll
  /\ errors' = 0 /\ codec' = NextNal
  /\ UNCHANGED <<netV, fuaV, queue, since, got, stop>>

\* It returns none, or the data are invalid.
DecodedNothing ==
  /\ codec = "busy"
  /\ errors' = 0 /\ codec' = NextNal
  /\ UNCHANGED <<netV, fuaV, queue, frames, latest, viewV, stop>>

\* Any other error; too many in a row end the loop.
DecodeFails ==
  /\ codec = "busy"
  /\ errors' = errors + 1
  /\ codec' = IF errors + 1 >= MaxErrors THEN "ended" ELSE NextNal
  /\ UNCHANGED <<netV, fuaV, queue, frames, latest, viewV, stop>>

----------------------------------------------------------------------------
(* get_jpeg_frame, by the camera while the session is active *)

\* Mutant: the event stays set from earlier frames, and the wait returns at once.
RequestUncleared(v) ==
  /\ view[v] \in {"none", "fresh", "late"} /\ codec # "none" /\ stop = "no"
  /\ view' = [view EXCEPT ![v] = IF frames > 0 THEN "woken" ELSE "waits"]
  /\ since' = [since EXCEPT ![v] = frames] /\ got' = [got EXCEPT ![v] = 0]
  /\ UNCHANGED <<netV, fuaV, queue, decV, latest, stop>>

\* The event is cleared, also under the feet of others that wait for it.
Request(v) ==
  /\ view[v] \in {"none", "fresh", "late"} /\ codec # "none" /\ stop = "no"
  /\ view' = [view EXCEPT ![v] = "waits"]
  /\ since' = [since EXCEPT ![v] = frames] /\ got' = [got EXCEPT ![v] = 0]
  /\ UNCHANGED <<netV, fuaV, queue, decV, latest, stop>>

\* Resumed by the event, or by the timeout: whatever frame is there now.
Return(v) ==
  /\ view[v] \in {"waits", "woken"}
  /\ view' = [view EXCEPT ![v] = IF view[v] = "woken" THEN "fresh" ELSE "late"]
  /\ got' = [got EXCEPT ![v] = latest]
  /\ UNCHANGED <<netV, fuaV, queue, decV, latest, since, stop>>

----------------------------------------------------------------------------
(* stop() *)

StopKeepalive ==
  /\ stop = "no"
  /\ stop' = "keepalive"
  /\ UNCHANGED <<netV, fuaV, queue, decV, latest, viewV>>

\* The decoder is cancelled: what its thread returns is discarded.
StopDecoder ==
  /\ stop = "keepalive"
  /\ stop' = "decoder"
  /\ codec' = IF codec = "none" THEN "none" ELSE "ended"
  /\ UNCHANGED <<netV, fuaV, queue, errors, frames, latest, viewV>>

\* The transport is closed, the frame forgotten.
StopEnds ==
  /\ stop = "decoder"
  /\ stop' = "done" /\ latest' = 0
  /\ UNCHANGED <<netV, fuaV, queue, decV, viewV>>

----------------------------------------------------------------------------
\* start_control() has returned.
Init ==
  /\ sent = <<>> /\ wire = {} /\ lost = {} /\ overtaken = FALSE
  /\ fua = <<>> /\ fuaTs = 0 /\ queue = <<>>
  /\ codec = "none" /\ errors = 0 /\ frames = 0 /\ latest = 0
  /\ view = [v \in Viewers |-> "none"]
  /\ since = [v \in Viewers |-> 0] /\ got = [v \in Viewers |-> 0]
  /\ stop = "no"

Next ==
  \/ Send \/ Lose \/ Receive
  \/ StartMedia \/ CodecCreated \/ Decode \/ DecodeIdle \/ Decoded \/ DecodedNothing \/ DecodeFails
  \/ \E v \in Viewers : Request(v) \/ Return(v)
  \/ StopKeepalive \/ StopDecoder \/ StopEnds

Spec == Init /\ [][Next]_vars

----------------------------------------------------------------------------
Item == [ts : Nat, parts : Seq(Packets)]

\* The types of the receiver's state and of the network's.
TypeOK ==
  /\ sent \in Seq([kind : Kinds, ts : Nat])
  /\ wire \subseteq Packets /\ lost \subseteq Packets /\ overtaken \in BOOLEAN
  /\ fua \in Seq(Packets) /\ fuaTs \in Nat
  /\ queue \in Seq(Item) /\ Len(queue) <= MaxQueue
  /\ codec \in {"none", "init", "get", "busy", "ended"}
  /\ errors \in 0..MaxErrors /\ frames \in Nat /\ latest \in 0..frames
  /\ view \in [Viewers -> {"none", "waits", "woken", "fresh", "late"}]
  /\ since \in [Viewers -> Nat] /\ got \in [Viewers -> Nat]
  /\ stop \in {"no", "keepalive", "decoder", "done"}

\* Between two packets of a NAL unit only lost ones are missing.
NothingSkipped(parts) ==
  \A i \in DOMAIN parts : i + 1 \in DOMAIN parts =>
    /\ parts[i] < parts[i + 1]
    /\ \A k \in Packets : parts[i] < k /\ k < parts[i + 1] /\ Fragment(k) => k \in lost

\* What has been put together so far: a start and others in the middle.
Begun(parts) == \A i \in DOMAIN parts : Is(parts[i], IF i = 1 THEN {"start"} ELSE {"mid"})

\* ... and an end.
Complete(parts) ==
  \/ Len(parts) = 1 /\ Is(parts[1], {"single"})
  \/ /\ Len(parts) > 1 /\ Is(parts[1], {"start"}) /\ Is(parts[Len(parts)], {"end"})
     /\ \A i \in 2..Len(parts) - 1 : Is(parts[i], {"mid"})

\* Under the timestamp of its start, and whole but for packets the network lost.
Sound(nal) ==
  /\ Complete(nal.parts) /\ nal.ts = sent[nal.parts[1]].ts
  /\ ~overtaken => NothingSkipped(nal.parts)

\* A NAL unit handed to the decoder runs from a start to an end, under the timestamp of its
\* start, and if no packet overtakes another all that is missing of it was lost: two units
\* are run together only if the end of one and the start of the next were lost.
DamageIsLoss == \A n \in DOMAIN queue : Sound(queue[n])

\* However many requests clear the event while others wait for it, none sleeps through a frame.
EveryFrameWakes == \A v \in Viewers : view[v] = "waits" => frames = since[v]

\* A request that the event woke returns a frame decoded after its call, unless the session
\* ended first, and then no frame of it: none comes after stop() has returned.
FreshFrames ==
  /\ \A v \in Viewers : view[v] = "fresh" => got[v] > since[v] \/ (got[v] = 0 /\ stop = "done")
  /\ stop = "done" => latest = 0

----------------------------------------------------------------------------
(* The inductive strengthening (proved in RtpReceiverProofs) *)

\* Packets that arrive in order: those in flight come after those that have arrived.
InOrder == ~overtaken => \A k \in Packets \ (wire \cup lost), l \in wire : k < l

\* No fragment has arrived after the last that was kept.
KeptLast ==
  fua # <<>> /\ ~overtaken =>
    \A k \in Packets \ (wire \cup lost) : Fragment(k) => k <= fua[Len(fua)]

Kept ==
  /\ Begun(fua) /\ (~overtaken => NothingSkipped(fua))
  /\ fua # <<>> => fuaTs = sent[fua[1]].ts

\* Only a fragment that has arrived is kept, and none arrives that was lost.
Arrived == wire \cap lost = {} /\ \A i \in DOMAIN fua : fua[i] \notin wire \cup lost

Woken == \A v \in Viewers : view[v] = "woken" => since[v] < latest \/ stop = "done"
Known == \A v \in Viewers : since[v] <= frames
DecoderStops == stop \in {"decoder", "done"} => codec \in {"none", "ended"}
Unstarted == codec = "none" => fua = <<>>
GoesOn == codec # "ended" => errors < MaxErrors

IndInv ==
  /\ TypeOK /\ InOrder /\ Kept /\ KeptLast /\ Arrived /\ Unstarted
  /\ Woken /\ Known /\ DecoderStops /\ GoesOn
  /\ DamageIsLoss /\ EveryFrameWakes /\ FreshFrames
=============================================================================
