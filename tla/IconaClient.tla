---------------------------- MODULE IconaClient ----------------------------
(***************************************************************************)
(* IconaBridgeClient: the channel registry, the dispatch of what the       *)
(* device sends, JSON requests and their timeouts, the loss of the         *)
(* connection and disconnect().                                            *)
(*                                                                         *)
(* A channel is an object with an identity of its own: the registry maps a *)
(* name to one of them, and the coroutine that opened it keeps a reference *)
(* when the entry is replaced or removed. The device numbers its channels  *)
(* (server_channel_id); a reply to an open carries the new number and not  *)
(* the request it answers, so the client matches replies by position.      *)
(***************************************************************************)
EXTENDS Naturals, Sequences, SequencesExt

CONSTANTS
  Names,        \* keys of the registry
  JsonNames,    \* those of channels that carry JSON (UAUT, UCFG, PUSH); the others carry binary
  MaxChannels,  \* bound: channel objects made
  MaxRequests,  \* bound: calls of send_json
  MaxDeviceIds, \* bound: channel numbers the device gives out
  MaxPackets,   \* bound: binary packets the device sends
  MayIgnore,    \* may the device leave an open unanswered?
  MayDrop       \* may the connection end?

ASSUME ClientAssumption ==
  /\ JsonNames \subseteq Names
  /\ MaxChannels \in Nat /\ MaxRequests \in Nat /\ MaxDeviceIds \in Nat /\ MaxPackets \in Nat
  /\ MayIgnore \in BOOLEAN /\ MayDrop \in BOOLEAN

VARIABLES
  phase,     \* "up"; "lost": the receive loop ended by itself; "closing", "closed": disconnect()
  reg,       \* _channels: the objects in dict order
  chan,      \* the Channel objects made so far
  req,       \* the calls of send_json made so far
  callbacks, \* _callbacks: per server_channel_id a call, or 0
  opens,     \* device: open requests it has received and not answered
  asked,     \* device: JSON requests it has received and not answered
  owner,     \* device: per channel number, the open it belongs to; 0: its own
  wire,      \* packets from the device the receive loop has not read
  packets,   \* binary packets sent so far (bound)
  unmatched, \* the pending opens are not those the device answers, in the same order
  abandoned, \* channel numbers on which a call was given up before its reply
  lost       \* channel numbers of which a packet reached no queue and no caller

devV == <<opens, asked, owner, wire, packets>>
ghostV == <<unmatched, abandoned, lost>>
vars == <<phase, reg, chan, req, callbacks, devV, ghostV>>

----------------------------------------------------------------------------
(* Channel objects and the registry *)

Objects == 1..MaxChannels
Requests == 1..MaxRequests
DeviceIds == 1..MaxDeviceIds

\* placeholder: request_id = 0. id: server_channel_id, 0 before the channel is open.
\* opener: the coroutine in open_channel.
Channel == [name : Names, placeholder : BOOLEAN, id : 0..MaxDeviceIds,
            opener : {"wait", "done", "failed", "none"}]
Request == [ch : Objects, state : {"lock", "wait", "done", "failed"}, answer : 0..MaxRequests]
Packet == [kind : {"opened", "deviceOpen", "data"}, id : DeviceIds, for : 0..MaxRequests]

Registered(c) == Contains(reg, c)
Position(n) == {i \in DOMAIN reg : chan[reg[i]].name = n}
Pending(c) == ~chan[c].placeholder /\ chan[c].id = 0

\* _channels[name] = channel: a name that is registered again keeps its place.
Put(n, c) == IF Position(n) = {} THEN Append(reg, c)
             ELSE [reg EXCEPT ![CHOOSE i \in Position(n) : TRUE] = c]

\* The entry of this name is a pending open ...
Displaces(n) == \E i \in Position(n) : Pending(reg[i])
\* ... or one before a pending open, which a new open of the name would overtake.
Overtakes(n) == \E i \in Position(n) : \E k \in DOMAIN reg : k > i /\ Pending(reg[k])

NewChannel(n, ph, o) == [name |-> n, placeholder |-> ph, id |-> 0, opener |-> o]

----------------------------------------------------------------------------
(* Operations of the callers *)

\* open_channel up to its wait; on a dead connection the send may fail.
OpenChannel ==
  /\ Len(chan) < MaxChannels
  /\ \E n \in Names, ok \in BOOLEAN :
       /\ phase = "up" => ok
       /\ phase = "closed" => ~ok
       /\ reg' = Put(n, Len(chan) + 1)
       /\ unmatched' = (unmatched \/ Displaces(n) \/ Overtakes(n))
       /\ chan' = Append(chan, NewChannel(n, FALSE, IF ok THEN "wait" ELSE "failed"))
  /\ opens' = IF phase = "up" THEN Append(opens, Len(chan) + 1) ELSE opens
  /\ UNCHANGED <<phase, req, callbacks, asked, owner, wire, packets, abandoned, lost>>

\* The number has been assigned and open_channel is resumed.
OpenReturns(c) ==
  /\ chan[c].opener = "wait" /\ chan[c].id # 0
  /\ chan' = [chan EXCEPT ![c].opener = "done"]
  /\ UNCHANGED <<phase, reg, req, callbacks, devV, ghostV>>

\* READ_TIMEOUT on open_event: the entry stays registered, pending if nothing was assigned.
OpenTimesOut(c) ==
  /\ chan[c].opener = "wait"
  /\ chan' = [chan EXCEPT ![c].opener = "failed"]
  /\ UNCHANGED <<phase, reg, req, callbacks, devV, ghostV>>

RegisterPlaceholder ==
  /\ phase # "closed" /\ Len(chan) < MaxChannels
  /\ \E n \in Names :
       /\ reg' = Put(n, Len(chan) + 1)
       /\ unmatched' = (unmatched \/ Displaces(n))
       /\ chan' = Append(chan, NewChannel(n, TRUE, "none"))
  /\ UNCHANGED <<phase, req, callbacks, devV, abandoned, lost>>

\* remove_channel, by the clean-up of a video session.
RemoveChannel ==
  /\ \E i \in DOMAIN reg :
       /\ reg' = RemoveAt(reg, i)
       /\ unmatched' = (unmatched \/ Pending(reg[i]))
  /\ UNCHANGED <<phase, chan, req, callbacks, devV, abandoned, lost>>

\* send_json by a caller that holds an open channel: wait for the channel's lock.
SendJson ==
  /\ Len(req) < MaxRequests
  /\ \E c \in DOMAIN chan :
       /\ chan[c].opener = "done" /\ chan[c].name \in JsonNames
       /\ req' = Append(req, [ch |-> c, state |-> "lock", answer |-> 0])
  /\ UNCHANGED <<phase, reg, chan, callbacks, devV, ghostV>>

IdOf(j) == chan[req[j].ch].id

\* Mutant: no lock.
LockFreeAlways(c) == TRUE

LockFree(c) == \A k \in DOMAIN req : req[k].ch = c => req[k].state # "wait"

\* The lock is ours: register the future, send, wait. A failed send leaves the future behind.
JsonSent(j) ==
  /\ req[j].state = "lock" /\ LockFree(req[j].ch)
  /\ callbacks' = [callbacks EXCEPT ![IdOf(j)] = j]
  /\ \E ok \in BOOLEAN :
       /\ phase = "up" => ok
       /\ phase = "closed" => ~ok
       /\ req' = [req EXCEPT ![j].state = IF ok THEN "wait" ELSE "failed"]
  /\ asked' = IF phase = "up" THEN Append(asked, j) ELSE asked
  /\ UNCHANGED <<phase, reg, chan, opens, owner, wire, packets, ghostV>>

\* Mutant: the wait has no timeout.
JsonForever(j) == FALSE /\ UNCHANGED vars

\* READ_TIMEOUT, or the caller is cancelled: the keepalive gives up after ten seconds.
JsonGivesUp(j) ==
  /\ req[j].state = "wait"
  /\ req' = [req EXCEPT ![j].state = "failed"]
  /\ callbacks' = [callbacks EXCEPT ![IdOf(j)] = 0]
  /\ abandoned' = abandoned \cup {IdOf(j)}
  /\ UNCHANGED <<phase, reg, chan, devV, unmatched, lost>>

----------------------------------------------------------------------------
(* The receive loop *)

Waits(i) == chan[reg[i]].id = 0

\* Mutant: a placeholder takes a regular reply.
FirstWaitingAny(ph) == {i \in DOMAIN reg : Waits(i) /\ \A k \in 1..i - 1 : ~Waits(k)}

\* The first entry of the registry that waits for a number: a placeholder, or an open.
FirstWaiting(ph) ==
  LET W(i) == Waits(i) /\ chan[reg[i]].placeholder = ph
  IN {i \in DOMAIN reg : W(i) /\ \A k \in 1..i - 1 : ~W(k)}

\* A number for the first that waits; with none waiting it is ignored.
Assign(id, ph) ==
  chan' = [c \in DOMAIN chan |->
    IF \E i \in FirstWaiting(ph) : reg[i] = c THEN [chan[c] EXCEPT !.id = id] ELSE chan[c]]

\* Mutant: only a channel whose open_channel has returned has a queue.
HasQueueReturned(id) == \E i \in DOMAIN reg : chan[reg[i]].id = id /\ chan[reg[i]].opener # "wait"

HasQueue(id) == \E i \in DOMAIN reg : chan[reg[i]].id = id

\* A data packet: the call that waits on this number, else the channel's queue, else nobody.
Deliver(p) ==
  IF callbacks[p.id] # 0
  THEN /\ callbacks' = [callbacks EXCEPT ![p.id] = 0]
       /\ req' = [j \in DOMAIN req |->
            IF j = callbacks[p.id] /\ req[j].state = "wait"
            THEN [req[j] EXCEPT !.state = "done", !.answer = p.for] ELSE req[j]]
       /\ UNCHANGED lost
  ELSE /\ lost' = IF HasQueue(p.id) THEN lost ELSE lost \cup {p.id}
       /\ UNCHANGED <<req, callbacks>>

Dispatch ==
  /\ phase = "up" /\ wire # <<>>
  /\ wire' = Tail(wire)
  /\ CASE Head(wire).kind = "data" -> Deliver(Head(wire)) /\ UNCHANGED chan
       [] OTHER -> /\ Assign(Head(wire).id, Head(wire).kind = "deviceOpen")
                        /\ UNCHANGED <<req, callbacks, lost>>
  /\ UNCHANGED <<phase, reg, opens, asked, owner, packets, unmatched, abandoned>>

\* End of stream, 45 s of silence or an error: the receive loop ends and calls
\* _disconnect_callback; what the client registered stays.
ConnectionLost ==
  /\ MayDrop /\ phase = "up"
  /\ phase' = "lost"
  /\ opens' = <<>> /\ asked' = <<>> /\ wire' = <<>>
  /\ UNCHANGED <<reg, chan, req, callbacks, owner, packets, ghostV>>

\* disconnect(): the receive task is cancelled, ...
Disconnect ==
  /\ MayDrop /\ phase \in {"up", "lost"}
  /\ phase' = "closing"
  /\ opens' = <<>> /\ asked' = <<>> /\ wire' = <<>>
  /\ UNCHANGED <<reg, chan, req, callbacks, owner, packets, ghostV>>

\* Mutant: JSON callers that wait are left alone.
DisconnectedSilently ==
  /\ phase = "closing"
  /\ phase' = "closed" /\ reg' = <<>>
  /\ callbacks' = [s \in DeviceIds |-> 0]
  /\ UNCHANGED <<chan, req, devV, ghostV>>

\* ... and when it and the writer are done, channels are forgotten and the JSON calls that wait are
\* cancelled. An open_channel that waits is left to its own timeout.
Disconnected ==
  /\ phase = "closing"
  /\ phase' = "closed" /\ reg' = <<>>
  /\ req' = [j \in DOMAIN req |->
       IF \E s \in DeviceIds : callbacks[s] = j /\ req[j].state = "wait"
       THEN [req[j] EXCEPT !.state = "failed"] ELSE req[j]]
  /\ callbacks' = [s \in DeviceIds |-> 0]
  /\ UNCHANGED <<chan, devV, ghostV>>

----------------------------------------------------------------------------
(* The device *)

Number(c) == Len(owner) < MaxDeviceIds /\ owner' = Append(owner, c)
Push(k, id, j) == wire' = Append(wire, [kind |-> k, id |-> id, for |-> j])

AnswersOpen ==
  /\ opens # <<>>
  /\ Number(Head(opens)) /\ Push("opened", Len(owner) + 1, 0)
  /\ opens' = Tail(opens)
  /\ UNCHANGED <<phase, reg, chan, req, callbacks, asked, packets, ghostV>>

IgnoresOpen ==
  /\ MayIgnore /\ opens # <<>>
  /\ opens' = Tail(opens) /\ unmatched' = TRUE
  /\ UNCHANGED <<phase, reg, chan, req, callbacks, asked, owner, wire, packets, abandoned, lost>>

OpensChannel ==
  /\ phase = "up"
  /\ Number(0) /\ Push("deviceOpen", Len(owner) + 1, 0)
  /\ UNCHANGED <<phase, reg, chan, req, callbacks, opens, asked, packets, ghostV>>

AnswersJson ==
  /\ asked # <<>>
  /\ Push("data", IdOf(Head(asked)), Head(asked))
  /\ asked' = Tail(asked)
  /\ UNCHANGED <<phase, reg, chan, req, callbacks, opens, owner, packets, ghostV>>

\* Binary packets on a channel it has numbered, CTPP or RTPC.
SendsBinary ==
  /\ phase = "up" /\ packets < MaxPackets
  /\ \E s \in DOMAIN owner :
       /\ owner[s] # 0 => chan[owner[s]].name \notin JsonNames
       /\ Push("data", s, 0)
  /\ packets' = packets + 1
  /\ UNCHANGED <<phase, reg, chan, req, callbacks, opens, asked, owner, ghostV>>

----------------------------------------------------------------------------
\* connect() has returned: the receive loop runs.
Init ==
  /\ phase = "up"
  /\ reg = <<>> /\ chan = <<>> /\ req = <<>>
  /\ callbacks = [s \in DeviceIds |-> 0]
  /\ opens = <<>> /\ asked = <<>> /\ owner = <<>> /\ wire = <<>> /\ packets = 0
  /\ unmatched = FALSE /\ abandoned = {} /\ lost = {}

Callers == \/ OpenChannel \/ RegisterPlaceholder \/ RemoveChannel \/ SendJson
           \/ \E c \in DOMAIN chan : OpenReturns(c) \/ OpenTimesOut(c)
           \/ \E j \in DOMAIN req : JsonSent(j) \/ JsonGivesUp(j)
Device == AnswersOpen \/ IgnoresOpen \/ OpensChannel \/ AnswersJson \/ SendsBinary

Next == Callers \/ Dispatch \/ ConnectionLost \/ Disconnect \/ Disconnected \/ Device

Spec == Init /\ [][Next]_vars

Opening(c) == c \in DOMAIN chan /\ chan[c].opener = "wait"
Asking(j) == j \in DOMAIN req /\ req[j].state \in {"lock", "wait"}

\* Timeouts elapse, a released lock wakes a waiter, disconnect() runs to its end.
FairSpec ==
  /\ Spec
  /\ \A c \in Objects : WF_vars(Opening(c) /\ OpenTimesOut(c))
  /\ \A j \in Requests : WF_vars(Asking(j) /\ JsonGivesUp(j))
                         /\ SF_vars(Asking(j) /\ JsonSent(j))
  /\ WF_vars(Disconnected)

----------------------------------------------------------------------------
\* The types of the client's state and of the device's.
TypeOK ==
  /\ phase \in {"up", "lost", "closing", "closed"}
  /\ chan \in Seq(Channel) /\ Len(chan) <= MaxChannels
  /\ reg \in Seq(DOMAIN chan)
  /\ \A i, k \in DOMAIN reg : chan[reg[i]].name = chan[reg[k]].name => i = k
  /\ req \in Seq(Request) /\ Len(req) <= MaxRequests
  /\ callbacks \in [DeviceIds -> 0..Len(req)]
  /\ opens \in Seq(DOMAIN chan) /\ asked \in Seq(DOMAIN req)
  /\ owner \in Seq(0..Len(chan)) /\ Len(owner) <= MaxDeviceIds
  /\ wire \in Seq(Packet) /\ packets \in 0..MaxPackets
  /\ unmatched \in BOOLEAN /\ abandoned \subseteq DeviceIds /\ lost \subseteq DeviceIds

\* Replies to an open name no request, yet every channel gets the number the device made
\* for it: opens by position, whatever else is registered, times out or answers late; a
\* placeholder only a number of the device's own. The exception is an open whose entry was
\* replaced, removed or overtaken before its reply, or that the device ignored.
NumbersMatch ==
  \A c \in DOMAIN chan : chan[c].id # 0 =>
    IF chan[c].placeholder THEN owner[chan[c].id] = 0 ELSE owner[chan[c].id] = c \/ unmatched

\* No two channel objects ever share a number, so a packet has one queue at most.
NumbersUnique ==
  \A c, d \in DOMAIN chan : chan[c].id # 0 /\ chan[c].id = chan[d].id => c = d

\* Packets that follow the reply at once, before the coroutine in open_channel is resumed,
\* find their channel: a packet of an open the client made is lost only if its entry was
\* replaced or removed.
NothingLost ==
  \A s \in lost : owner[s] = 0 \/ unmatched \/ ~Registered(owner[s])

\* A JSON caller gets the reply to its own request, also with concurrent callers on one
\* channel, unless an earlier call on that channel was given up, or numbers do not match.
AnswerIsMine ==
  \A j \in DOMAIN req : req[j].state = "done" => req[j].answer = j \/ IdOf(j) \in abandoned \/ unmatched

\* Once disconnect() has returned no send_json waits for a reply, neither one that had the lock nor
\* one that gets it only afterwards. An open_channel that waits is not released by it: that one ends
\* by its own timeout (CallsReturn).
DisconnectReleasesJson ==
  phase = "closed" => \A j \in DOMAIN req : req[j].state # "wait"

\* Every open_channel and every send_json returns or raises, on a dead connection too.
CallsReturn ==
  /\ \A c \in Objects : Opening(c) ~> ~Opening(c)
  /\ \A j \in Requests : Asking(j) ~> ~Asking(j)
----------------------------------------------------------------------------
(* The inductive strengthening of the safety invariants (proved in IconaClientProofs) *)

Opened(i) == wire[i].kind = "opened"
Data(i) == wire[i].kind = "data"

\* The device owes channel c the reply to its open.
Awaited(c) == \/ \E i \in DOMAIN opens : opens[i] = c
              \/ \E i \in DOMAIN wire : Opened(i) /\ owner[wire[i].id] = c

\* The device owes call j the reply to its request.
Owed(j) == \/ \E i \in DOMAIN asked : asked[i] = j
           \/ \E i \in DOMAIN wire : Data(i) /\ wire[i].for = j

\* The device gave out every number in use ...
NumbersKnown ==
  /\ \A c \in DOMAIN chan : chan[c].id <= Len(owner)
  /\ \A i \in DOMAIN wire : wire[i].id <= Len(owner)
  /\ \A s \in lost : s <= Len(owner)

\* ... announces it to the one it was made for, who does not have it yet ...
NumbersNew ==
  \A i \in DOMAIN wire : ~Data(i) =>
    /\ (owner[wire[i].id] # 0) = Opened(i)
    /\ \A c \in DOMAIN chan : chan[c].id # wire[i].id

\* ... and does so once, before any data.
AnnouncedFirst ==
  \A i, k \in DOMAIN wire : ~Data(i) /\ wire[i].id = wire[k].id /\ i # k => i < k /\ Data(k)

\* Nothing is in flight on a dead connection.
DeadIsSilent == phase # "up" => opens = <<>> /\ asked = <<>> /\ wire = <<>>

\* As long as unmatched is FALSE: the registered opens that wait are in the order of their objects,
PendingInOrder ==
  ~unmatched => \A i, k \in DOMAIN reg : i < k /\ Pending(reg[i]) /\ Pending(reg[k]) => reg[i] < reg[k]

\* ... the device answers in that order ...
AnswersInOrder ==
  ~unmatched =>
    /\ \A i, k \in DOMAIN opens : i < k => opens[i] < opens[k]
    /\ \A i, k \in DOMAIN wire : i < k /\ Opened(i) /\ Opened(k) => owner[wire[i].id] < owner[wire[k].id]
    /\ \A i \in DOMAIN wire, k \in DOMAIN opens : Opened(i) => owner[wire[i].id] < opens[k]

\* ... those and no others.
AwaitedPending ==
  ~unmatched => /\ \A c \in DOMAIN chan : Awaited(c) => Registered(c) /\ Pending(c)
                /\ phase = "up" => \A c \in DOMAIN chan : Registered(c) /\ Pending(c) => Awaited(c)

\* A number the device made for an open is on its way or has arrived.
NumbersArrive ==
  ~unmatched /\ phase = "up" =>
    \A s \in DOMAIN owner : owner[s] # 0 =>
      chan[owner[s]].id = s \/ \E i \in DOMAIN wire : Opened(i) /\ wire[i].id = s

\* open_channel returns only with a number, and never for a placeholder.
OpenersOpen ==
  \A c \in DOMAIN chan : /\ chan[c].opener = "done" => chan[c].id # 0
                         /\ chan[c].placeholder => chan[c].opener = "none"

\* Calls are made on open JSON channels, ...
CallsOnOpen ==
  \A j \in DOMAIN req : /\ req[j].ch \in DOMAIN chan /\ chan[req[j].ch].opener = "done"
                        /\ chan[req[j].ch].name \in JsonNames

\* ... one that waits owns its channel's slot, and a slot is used by a call on its channel.
WaitersOwnSlots ==
  /\ \A j \in DOMAIN req : req[j].state = "wait" => callbacks[IdOf(j)] = j
  /\ \A s \in DeviceIds : callbacks[s] # 0 => IdOf(callbacks[s]) = s

\* Replies in flight: one per call, on its channel ...
RepliesInFlight ==
  /\ \A i, k \in DOMAIN asked : asked[i] = asked[k] => i = k
  /\ \A j \in DOMAIN req : Owed(j) => req[j].state # "lock"
  /\ \A i \in DOMAIN wire : Data(i) /\ wire[i].for # 0 =>
       /\ wire[i].for \in DOMAIN req /\ wire[i].id = IdOf(wire[i].for)
       /\ \A k \in DOMAIN wire : Data(k) /\ wire[i].for = wire[k].for => i = k
       /\ \A k \in DOMAIN asked : asked[k] # wire[i].for

\* ... and nothing else on a JSON channel ...
NothingElse ==
  \A i \in DOMAIN wire : Data(i) /\ wire[i].for = 0 =>
    owner[wire[i].id] = 0 \/ chan[owner[wire[i].id]].name \notin JsonNames

\* ... to a call that still waits.
OwedWaits ==
  \A j \in DOMAIN req : Owed(j) => req[j].state = "wait" \/ IdOf(j) \in abandoned \/ unmatched

IndInv ==
  /\ TypeOK /\ NumbersMatch /\ NumbersUnique /\ NothingLost /\ AnswerIsMine /\ DisconnectReleasesJson
  /\ NumbersKnown /\ NumbersNew /\ AnnouncedFirst /\ DeadIsSilent /\ PendingInOrder /\ AnswersInOrder /\ AwaitedPending
  /\ NumbersArrive /\ OpenersOpen /\ CallsOnOpen /\ WaitersOwnSlots /\ RepliesInFlight /\ NothingElse /\ OwedWaits
============================================================================
