------------------------- MODULE IconaClientProofs -------------------------
(***************************************************************************)
(* Proofs about IconaClient, for every set of names, number of channels,   *)
(* calls and packets: IndInv, the strengthening at the end of that module, *)
(* is inductive, and gives the safety invariants of the run Client; and    *)
(* IconaClient implements IconaService.                                    *)
(***************************************************************************)
EXTENDS IconaClientService, Integers, SequenceTheorems, TLAPS

(* Sequences, element by element *)

\* One element more at the end.
LEMMA Appended ==
  ASSUME NEW S, NEW s \in Seq(S), NEW e \in S
  PROVE /\ Append(s, e) \in Seq(S)
        /\ Len(Append(s, e)) = Len(s) + 1 /\ DOMAIN Append(s, e) = 1..Len(s) + 1
        /\ \A i \in 1..Len(s) : Append(s, e)[i] = s[i]
        /\ Append(s, e)[Len(s) + 1] = e
OBVIOUS

\* The first element is gone.
LEMMA Shifted ==
  ASSUME NEW S, NEW s \in Seq(S), s # <<>>
  PROVE /\ Tail(s) \in Seq(S) /\ Head(s) \in S /\ Head(s) = s[1] /\ 1 \in DOMAIN s
        /\ Len(Tail(s)) = Len(s) - 1 /\ DOMAIN Tail(s) = 1..Len(s) - 1
        /\ \A i \in 1..Len(s) - 1 : Tail(s)[i] = s[i + 1] /\ i + 1 \in DOMAIN s
OBVIOUS

\* A wider set of elements.
LEMMA Wider == ASSUME NEW S, NEW T, S \subseteq T, NEW s \in Seq(S) PROVE s \in Seq(T)
<1>1. Len(s) \in Nat /\ s \in [1..Len(s) -> S] OBVIOUS
<1>2. s \in [1..Len(s) -> T] BY <1>1
<1> QED BY <1>1, <1>2

\* One element is left out.
LEMMA LeftOut ==
  ASSUME NEW S, NEW s \in Seq(S), NEW i \in DOMAIN s
  PROVE /\ RemoveAt(s, i) \in Seq(S)
        /\ Len(RemoveAt(s, i)) = Len(s) - 1 /\ DOMAIN RemoveAt(s, i) = 1..Len(s) - 1
        /\ \A k \in 1..Len(s) - 1 : RemoveAt(s, i)[k] = IF k < i THEN s[k] ELSE s[k + 1]
<1>1. i \in 1..Len(s) /\ Len(s) \in Nat OBVIOUS
<1> DEFINE a == SubSeq(s, 1, i - 1)
           b == SubSeq(s, i + 1, Len(s))
<1>2. a \in Seq(S) /\ Len(a) = i - 1 /\ \A k \in 1..i - 1 : a[k] = s[k] BY <1>1
<1>3. b \in Seq(S) /\ Len(b) = Len(s) - i /\ \A k \in 1..Len(s) - i : b[k] = s[k + i] BY <1>1
<1> HIDE DEF a, b
<1>4. /\ a \o b \in Seq(S) /\ Len(a \o b) = Len(s) - 1 /\ DOMAIN (a \o b) = 1..Len(s) - 1
      /\ \A k \in 1..Len(s) - 1 : (a \o b)[k] = IF k < i THEN a[k] ELSE b[k - i + 1]
  BY <1>1, <1>2, <1>3, SMTT(60)
<1>5. \A k \in 1..Len(s) - 1 : (a \o b)[k] = IF k < i THEN s[k] ELSE s[k + 1]
  <2> SUFFICES ASSUME NEW k \in 1..Len(s) - 1 PROVE (a \o b)[k] = IF k < i THEN s[k] ELSE s[k + 1] OBVIOUS
  <2>1. CASE k < i BY <1>1, <1>2, <1>4, <2>1
  <2>2. CASE k >= i
    <3>1. k - i + 1 \in 1..Len(s) - i /\ k - i + 1 + i = k + 1 BY <1>1, <2>2
    <3> QED BY <1>1, <1>3, <1>4, <2>2, <3>1, SMTT(60)
  <2>3. k < i \/ k >= i BY <1>1
  <2> QED BY ONLY <2>1, <2>2, <2>3
<1> QED BY <1>4, <1>5 DEF RemoveAt, a, b

(* The invariant. Every action has a lemma, with a step per part that it can disturb. *)

\* The types, element by element: the channels and the registry,
ChanShape ==
  /\ Len(chan) \in Nat /\ DOMAIN chan = 1..Len(chan) /\ Len(chan) <= MaxChannels
  /\ \A c \in DOMAIN chan : /\ chan[c].id \in Nat /\ chan[c].id <= MaxDeviceIds
                            /\ chan[c].placeholder \in BOOLEAN
                            /\ chan[c].opener \in {"wait", "done", "failed", "none"}
RegShape ==
  /\ Len(reg) \in Nat /\ DOMAIN reg = 1..Len(reg)
  /\ \A i \in DOMAIN reg : reg[i] \in DOMAIN chan
  /\ \A i, k \in DOMAIN reg : chan[reg[i]].name = chan[reg[k]].name => i = k

\* ... the calls and their slots,
ReqShape ==
  /\ Len(req) \in Nat /\ DOMAIN req = 1..Len(req) /\ Len(req) <= MaxRequests
  /\ \A j \in DOMAIN req : /\ req[j].state \in {"lock", "wait", "done", "failed"}
                           /\ req[j].answer \in Nat
  /\ \A s \in DeviceIds : callbacks[s] \in 0..Len(req) /\ (callbacks[s] # 0 => callbacks[s] \in DOMAIN req)

\* ... what the device knows ...
DevShape ==
  /\ Len(opens) \in Nat /\ DOMAIN opens = 1..Len(opens)
  /\ \A i \in DOMAIN opens : opens[i] \in DOMAIN chan
  /\ Len(asked) \in Nat /\ DOMAIN asked = 1..Len(asked)
  /\ \A i \in DOMAIN asked : asked[i] \in DOMAIN req
  /\ Len(owner) \in Nat /\ DOMAIN owner = 1..Len(owner) /\ Len(owner) <= MaxDeviceIds
  /\ \A s \in DOMAIN owner : owner[s] \in 0..Len(chan) /\ (owner[s] # 0 => owner[s] \in DOMAIN chan)

\* ... and what is on its way.
WireShape ==
  /\ Len(wire) \in Nat /\ DOMAIN wire = 1..Len(wire)
  /\ \A i \in DOMAIN wire : /\ wire[i].kind \in {"opened", "deviceOpen", "data"}
                            /\ wire[i].id \in DeviceIds /\ wire[i].for \in 0..MaxRequests

Shape == ChanShape /\ RegShape /\ ReqShape /\ DevShape /\ WireShape

\* Types by element follow from the types.
LEMMA Shapes == TypeOK => Shape
<1> SUFFICES ASSUME TypeOK PROVE Shape OBVIOUS
<1> USE ClientAssumption
<1>1. chan \in Seq(Channel) /\ Len(chan) <= MaxChannels BY DEF TypeOK
<1>2. /\ Len(chan) \in Nat /\ DOMAIN chan = 1..Len(chan)
      /\ \A c \in DOMAIN chan : chan[c] \in Channel
  BY <1>1
<1>3. req \in Seq(Request) /\ Len(req) <= MaxRequests BY DEF TypeOK
<1>4. /\ Len(req) \in Nat /\ DOMAIN req = 1..Len(req)
      /\ \A j \in DOMAIN req : req[j] \in Request
  BY <1>3
<1>5. wire \in Seq(Packet) BY DEF TypeOK
<1>6. /\ Len(wire) \in Nat /\ DOMAIN wire = 1..Len(wire)
      /\ \A i \in DOMAIN wire : wire[i] \in Packet
  BY <1>5
<1>7. /\ Len(reg) \in Nat /\ DOMAIN reg = 1..Len(reg)
      /\ \A i \in DOMAIN reg : reg[i] \in DOMAIN chan
      /\ \A i, k \in DOMAIN reg : chan[reg[i]].name = chan[reg[k]].name => i = k
  <2> reg \in Seq(DOMAIN chan) BY DEF TypeOK
  <2> QED BY DEF TypeOK
<1>8. /\ Len(opens) \in Nat /\ DOMAIN opens = 1..Len(opens)
      /\ \A i \in DOMAIN opens : opens[i] \in DOMAIN chan
  <2> opens \in Seq(DOMAIN chan) BY DEF TypeOK
  <2> QED OBVIOUS
<1>9. /\ Len(asked) \in Nat /\ DOMAIN asked = 1..Len(asked)
      /\ \A i \in DOMAIN asked : asked[i] \in DOMAIN req
  <2> asked \in Seq(DOMAIN req) BY DEF TypeOK
  <2> QED OBVIOUS
<1>10. /\ Len(owner) \in Nat /\ DOMAIN owner = 1..Len(owner) /\ Len(owner) <= MaxDeviceIds
       /\ \A s \in DOMAIN owner : owner[s] \in 0..Len(chan)
  <2> owner \in Seq(0..Len(chan)) /\ Len(owner) <= MaxDeviceIds BY DEF TypeOK
  <2> QED OBVIOUS
<1>11. \A s \in DeviceIds : callbacks[s] \in 0..Len(req) BY DEF TypeOK
<1>12. \A c \in DOMAIN chan : /\ chan[c].id \in Nat /\ chan[c].id <= MaxDeviceIds
                             /\ chan[c].placeholder \in BOOLEAN
                             /\ chan[c].opener \in {"wait", "done", "failed", "none"}
  BY <1>2 DEF Channel
<1>13. \A j \in DOMAIN req : /\ req[j].state \in {"lock", "wait", "done", "failed"}
                             /\ req[j].answer \in Nat
  BY <1>4 DEF Request
<1>14. \A i \in DOMAIN wire : /\ wire[i].kind \in {"opened", "deviceOpen", "data"}
                               /\ wire[i].id \in DeviceIds /\ wire[i].for \in 0..MaxRequests
  BY <1>6 DEF Packet
<1>15. ChanShape BY ONLY <1>1, <1>2, <1>12 DEF ChanShape
<1>16. RegShape BY ONLY <1>7 DEF RegShape
<1>17. ReqShape BY ONLY <1>3, <1>4, <1>11, <1>13 DEF ReqShape
<1>18. DevShape BY ONLY <1>2, <1>8, <1>9, <1>10 DEF DevShape
<1>19. WireShape BY ONLY <1>6, <1>14 DEF WireShape
<1> QED BY ONLY <1>15, <1>16, <1>17, <1>18, <1>19 DEF Shape

\* What is on its way carries a number the device gave out.
LEMMA WireOwned ==
  ASSUME IndInv, NEW i \in DOMAIN wire
  PROVE wire[i].id \in DOMAIN owner /\ (owner[wire[i].id] # 0 => owner[wire[i].id] \in DOMAIN chan)
<1>1. WireShape /\ DevShape BY Shapes DEF IndInv, Shape
<1>2. wire[i].id \in Nat /\ wire[i].id >= 1 /\ wire[i].id <= Len(owner)
  BY <1>1 DEF IndInv, NumbersKnown, WireShape, DeviceIds
<1> QED BY <1>1, <1>2 DEF DevShape

\* A connected client satisfies the invariant.
LEMMA InitInv == Init => IndInv
<1> SUFFICES ASSUME Init PROVE IndInv OBVIOUS
<1> USE ClientAssumption DEF Init
<1>1. TypeOK
  <2>1. \A S : <<>> \in Seq(S) OBVIOUS
  <2>2. callbacks \in [DeviceIds -> 0..Len(req)] OBVIOUS
  <2>3. chan \in Seq(Channel) /\ req \in Seq(Request) /\ wire \in Seq(Packet) BY <2>1
  <2>4. reg \in Seq(DOMAIN chan) /\ opens \in Seq(DOMAIN chan) /\ asked \in Seq(DOMAIN req)
    BY <2>1
  <2>5. owner \in Seq(0..Len(chan)) BY <2>1
  <2>6. /\ Len(chan) <= MaxChannels /\ Len(req) <= MaxRequests /\ Len(owner) <= MaxDeviceIds
        /\ packets \in 0..MaxPackets
    OBVIOUS
  <2>7. \A i, k \in DOMAIN reg : chan[reg[i]].name = chan[reg[k]].name => i = k OBVIOUS
  <2>8. phase \in {"up", "lost", "closing", "closed"} /\ unmatched \in BOOLEAN
        /\ abandoned \subseteq DeviceIds /\ lost \subseteq DeviceIds
    OBVIOUS
  <2> QED BY ONLY <2>2, <2>3, <2>4, <2>5, <2>6, <2>7, <2>8 DEF TypeOK
<1>2. NumbersMatch /\ NumbersUnique /\ NothingLost /\ AnswerIsMine /\ DisconnectReleasesJson
  BY DEF NumbersMatch, NumbersUnique, NothingLost, AnswerIsMine, DisconnectReleasesJson
<1>3. NumbersKnown /\ NumbersNew /\ AnnouncedFirst /\ DeadIsSilent /\ NumbersArrive
  BY DEF NumbersKnown, NumbersNew, AnnouncedFirst, DeadIsSilent, NumbersArrive
<1>4. PendingInOrder /\ AnswersInOrder /\ AwaitedPending
  BY DEF PendingInOrder, AnswersInOrder, AwaitedPending, Awaited, Registered, Contains
<1>5. OpenersOpen /\ CallsOnOpen /\ WaitersOwnSlots BY DEF OpenersOpen, CallsOnOpen, WaitersOwnSlots
<1>6. RepliesInFlight /\ NothingElse /\ OwedWaits BY DEF RepliesInFlight, NothingElse, OwedWaits, Owed
<1> QED BY <1>1, <1>2, <1>3, <1>4, <1>5, <1>6 DEF IndInv

\* Only the place of one opener changes.
LEMMA OpenerChanged ==
  ASSUME TypeOK, NEW c \in DOMAIN chan, NEW v \in {"done", "failed"},
         chan' = [chan EXCEPT ![c].opener = v]
  PROVE /\ chan' \in Seq(Channel) /\ DOMAIN chan' = DOMAIN chan /\ Len(chan') = Len(chan)
        /\ \A d \in DOMAIN chan :
             /\ chan'[d].id = chan[d].id /\ chan'[d].name = chan[d].name
             /\ chan'[d].placeholder = chan[d].placeholder
             /\ chan'[d].opener = IF d = c THEN v ELSE chan[d].opener
<1>1. chan \in Seq(Channel) BY DEF TypeOK
<1>2. \A d \in DOMAIN chan : chan[d] \in Channel BY <1>1
<1>3. [chan[c] EXCEPT !.opener = v] \in Channel BY <1>2 DEF Channel
<1>4. chan' = [chan EXCEPT ![c] = [chan[c] EXCEPT !.opener = v]] OBVIOUS
<1>5. chan' \in Seq(Channel) /\ DOMAIN chan' = DOMAIN chan /\ Len(chan') = Len(chan)
  BY <1>1, <1>3, <1>4, ExceptSeq
<1>6. \A d \in DOMAIN chan : chan'[d] = IF d = c THEN [chan[c] EXCEPT !.opener = v] ELSE chan[d]
  BY <1>1, <1>4
<1> QED BY <1>2, <1>5, <1>6 DEF Channel

\* The coroutine in open_channel returns or gives up: only its own place changes.
LEMMA OpenerKeeps ==
  ASSUME IndInv, NEW c \in DOMAIN chan, OpenReturns(c) \/ OpenTimesOut(c) PROVE IndInv'
<1> USE DEF devV, ghostV
<1>0. TypeOK /\ ChanShape /\ RegShape /\ ReqShape /\ DevShape /\ WireShape BY Shapes DEF IndInv, Shape
<1>1. PICK v \in {"done", "failed"} :
        /\ chan' = [chan EXCEPT ![c].opener = v] /\ chan[c].opener = "wait"
        /\ v = "done" => chan[c].id # 0
  BY DEF OpenReturns, OpenTimesOut
<1>2. UNCHANGED <<phase, reg, req, callbacks, opens, asked, owner, wire, packets, unmatched, abandoned, lost>>
  BY DEF OpenReturns, OpenTimesOut
<1>3. /\ chan' \in Seq(Channel) /\ DOMAIN chan' = DOMAIN chan /\ Len(chan') = Len(chan)
      /\ \A d \in DOMAIN chan :
             /\ chan'[d].id = chan[d].id /\ chan'[d].name = chan[d].name
             /\ chan'[d].placeholder = chan[d].placeholder
             /\ chan'[d].opener = IF d = c THEN v ELSE chan[d].opener
  BY <1>0, <1>1, OpenerChanged
<1>4. TypeOK'
  <2>1. \A i, k \in DOMAIN reg' : chan'[reg'[i]].name = chan'[reg'[k]].name => i = k
    BY SMTT(40), <1>0, <1>2, <1>3 DEF RegShape
  <2> QED BY <1>0, <1>2, <1>3, <2>1 DEF TypeOK
<1>5. NumbersMatch' BY <1>2, <1>3 DEF IndInv, NumbersMatch
<1>6. NumbersUnique' BY <1>3 DEF IndInv, NumbersUnique
<1>7. NothingLost' BY <1>2 DEF IndInv, NothingLost, Registered, Contains
<1>8. \A j \in DOMAIN req : IdOf(j)' = IdOf(j) BY <1>0, <1>2, <1>3 DEF IdOf, IndInv, CallsOnOpen
<1>9. AnswerIsMine' BY <1>2, <1>8 DEF IndInv, AnswerIsMine
<1>10. NumbersKnown' /\ NumbersNew' /\ AnnouncedFirst'
  BY <1>2, <1>3 DEF IndInv, NumbersKnown, NumbersNew, AnnouncedFirst, Data, Opened
<1>11. DeadIsSilent' /\ DisconnectReleasesJson' BY <1>2 DEF IndInv, DeadIsSilent, DisconnectReleasesJson
<1>12. \A d \in DOMAIN chan : /\ Pending(d)' = Pending(d) /\ Registered(d)' = Registered(d)
                             /\ Awaited(d)' = Awaited(d)
  BY <1>2, <1>3 DEF Pending, Registered, Contains, Awaited, Opened
<1>13. PendingInOrder' BY <1>0, <1>2, <1>3, <1>12 DEF IndInv, PendingInOrder, RegShape
<1>14. AnswersInOrder' BY <1>2 DEF IndInv, AnswersInOrder, Opened
<1>15. AwaitedPending' BY <1>2, <1>3, <1>12 DEF IndInv, AwaitedPending
<1>16. NumbersArrive' BY <1>0, <1>2, <1>3 DEF IndInv, NumbersArrive, Opened, DevShape
<1>17. OpenersOpen' /\ CallsOnOpen' BY <1>1, <1>2, <1>3 DEF IndInv, OpenersOpen, CallsOnOpen
<1>21. WaitersOwnSlots' BY <1>0, <1>2, <1>8 DEF IndInv, WaitersOwnSlots, ReqShape
<1>18. RepliesInFlight' BY <1>2, <1>8 DEF IndInv, RepliesInFlight, Data, Owed
<1>19. NothingElse' BY <1>2, <1>3, WireOwned DEF IndInv, NothingElse, Data
<1>20. OwedWaits' BY <1>2, <1>8 DEF IndInv, OwedWaits, Owed, Data
<1> QED BY <1>4, <1>5, <1>6, <1>7, <1>9, <1>10, <1>11, <1>13, <1>14, <1>15, <1>16, <1>17, <1>18, <1>19, <1>20,
        <1>21 DEF IndInv

\* The connection ends, or disconnect() begins: nothing is in flight any more.
LEMMA DropKeeps ==
  ASSUME IndInv, ConnectionLost \/ Disconnect
  PROVE IndInv'
<1>1. /\ TypeOK /\ ChanShape /\ RegShape /\ ReqShape /\ DevShape /\ WireShape
      /\ MaxChannels \in Nat /\ MaxRequests \in Nat /\ MaxDeviceIds \in Nat
      /\ UNCHANGED <<reg, chan, req, callbacks, owner, packets, unmatched, abandoned, lost>>
  BY Shapes, ClientAssumption DEF IndInv, Shape, ConnectionLost, Disconnect, devV, ghostV
<1>2. phase' \in {"lost", "closing"} /\ opens' = <<>> /\ asked' = <<>> /\ wire' = <<>>
  BY DEF ConnectionLost, Disconnect
<1>t. TypeOK'
  <2>1. \A S : <<>> \in Seq(S) OBVIOUS
  <2> QED BY <1>1, <1>2, <2>1 DEF TypeOK
<1>f. NumbersMatch' /\ NumbersUnique' /\ NothingLost' /\ AnswerIsMine' /\ PendingInOrder' /\ OpenersOpen' /\ CallsOnOpen' /\ WaitersOwnSlots'
  BY <1>1 DEF IndInv, NumbersMatch, NumbersUnique, NothingLost, AnswerIsMine, PendingInOrder, OpenersOpen, CallsOnOpen, WaitersOwnSlots, Registered, Contains, IdOf, Pending
<1>c1. NumbersKnown' BY <1>1, <1>2 DEF IndInv, NumbersKnown
<1>c2. NumbersNew' BY <1>2 DEF NumbersNew
<1>c3. AnnouncedFirst' BY <1>2 DEF AnnouncedFirst
<1>c4. DeadIsSilent' /\ DisconnectReleasesJson' BY <1>2 DEF DeadIsSilent, DisconnectReleasesJson
<1>c5. AnswersInOrder' BY <1>2 DEF AnswersInOrder
<1>c6. AwaitedPending' BY <1>2 DEF AwaitedPending, Awaited
<1>c7. NumbersArrive' BY <1>2 DEF NumbersArrive
<1>c8. RepliesInFlight' BY <1>2 DEF RepliesInFlight, Owed
<1>c9. NothingElse' BY <1>2 DEF NothingElse
<1>c10. OwedWaits' BY <1>2 DEF OwedWaits, Owed
<1> QED BY <1>t, <1>f, <1>c1, <1>c2, <1>c3, <1>c4, <1>c5, <1>c6, <1>c7, <1>c8, <1>c9, <1>c10 DEF IndInv

\* disconnect() ends: the registry is empty, whoever waits is cancelled.
LEMMA DisconnectedKeeps ==
  ASSUME IndInv, Disconnected
  PROVE IndInv'
<1>1. /\ TypeOK /\ ChanShape /\ RegShape /\ ReqShape /\ DevShape /\ WireShape
      /\ MaxChannels \in Nat /\ MaxRequests \in Nat /\ MaxDeviceIds \in Nat
      /\ UNCHANGED <<chan, opens, asked, owner, wire, packets, unmatched, abandoned, lost>>
  BY Shapes, ClientAssumption DEF IndInv, Shape, Disconnected, devV, ghostV
<1>2. /\ phase = "closing" /\ phase' = "closed" /\ reg' = <<>>
      /\ callbacks' = [s \in DeviceIds |-> 0]
  BY DEF Disconnected
<1>3. /\ req' \in Seq(Request) /\ DOMAIN req' = DOMAIN req /\ Len(req') = Len(req)
      /\ \A j \in DOMAIN req :
           /\ req'[j].ch = req[j].ch /\ req'[j].answer = req[j].answer
           /\ req'[j].state \in {req[j].state, "failed"} /\ req'[j].state # "wait"
  <2> DEFINE R(j) == IF \E s \in DeviceIds : callbacks[s] = j /\ req[j].state = "wait"
                     THEN [req[j] EXCEPT !.state = "failed"] ELSE req[j]
  <2>1. req' = [j \in DOMAIN req |-> R(j)] BY DEF Disconnected
  <2>2. \A j \in DOMAIN req : req[j] \in Request BY <1>1 DEF TypeOK
  <2>3. \A j \in DOMAIN req : R(j) \in Request BY <2>2 DEF Request
  <2>4. \A j \in DOMAIN req : R(j).ch = req[j].ch /\ R(j).answer = req[j].answer
                               /\ R(j).state \in {req[j].state, "failed"}
    BY <2>2 DEF Request
  <2>5. \A j \in DOMAIN req : IdOf(j) \in DeviceIds
    BY <1>1 DEF IndInv, CallsOnOpen, OpenersOpen, IdOf, ChanShape, DeviceIds
  <2>6. \A j \in DOMAIN req : R(j).state # "wait"
    <3> SUFFICES ASSUME NEW j \in DOMAIN req, req[j].state = "wait" PROVE R(j).state # "wait" OBVIOUS
    <3>1. callbacks[IdOf(j)] = j BY DEF IndInv, WaitersOwnSlots
    <3>2. R(j) = [req[j] EXCEPT !.state = "failed"] BY <2>5, <3>1
    <3> QED BY <2>2, <3>2 DEF Request
  <2> HIDE DEF R
  <2>7. req' \in Seq(Request) /\ DOMAIN req' = DOMAIN req /\ Len(req') = Len(req)
    <3>1. req' \in [1..Len(req) -> Request] BY <1>1, <2>1, <2>3 DEF ReqShape
    <3> QED BY <1>1, <3>1 DEF ReqShape
  <2> QED BY <2>1, <2>4, <2>6, <2>7
<1>t. TypeOK'
  <2>1. \A S : <<>> \in Seq(S) OBVIOUS
  <2>2. callbacks' \in [DeviceIds -> 0..Len(req')] BY <1>1, <1>2, <1>3 DEF ReqShape
  <2> QED BY <1>1, <1>2, <1>3, <2>1, <2>2 DEF TypeOK
<1>f. NumbersMatch' /\ NumbersUnique' /\ NumbersKnown' /\ NumbersNew' /\ AnnouncedFirst' /\ AnswersInOrder' /\ OpenersOpen' /\ NothingElse'
  BY <1>1 DEF IndInv, NumbersMatch, NumbersUnique, NumbersKnown, NumbersNew, AnnouncedFirst, AnswersInOrder, OpenersOpen, NothingElse, Data, Opened
<1>c0. DisconnectReleasesJson' BY <1>3 DEF DisconnectReleasesJson
<1>c1. NothingLost' BY <1>2 DEF NothingLost, Registered, Contains
<1>c2. AnswerIsMine' BY <1>1, <1>3 DEF IndInv, AnswerIsMine, IdOf
<1>c3. DeadIsSilent' BY <1>1, <1>2 DEF IndInv, DeadIsSilent
<1>c4. PendingInOrder' BY <1>2 DEF PendingInOrder
<1>c5. AwaitedPending' BY <1>1, <1>2 DEF IndInv, DeadIsSilent, AwaitedPending, Awaited
<1>c6. NumbersArrive' BY <1>2 DEF NumbersArrive
<1>c7. CallsOnOpen' BY <1>1, <1>3 DEF IndInv, CallsOnOpen
<1>c8. WaitersOwnSlots' BY <1>2, <1>3 DEF WaitersOwnSlots
<1>c9. RepliesInFlight' BY <1>1, <1>2 DEF IndInv, DeadIsSilent, RepliesInFlight, Owed
<1>c10. OwedWaits' BY <1>1, <1>2 DEF IndInv, DeadIsSilent, OwedWaits, Owed
<1> QED BY <1>t, <1>f, <1>c0, <1>c1, <1>c2, <1>c3, <1>c4, <1>c5, <1>c6, <1>c7, <1>c8, <1>c9, <1>c10 DEF IndInv

\* The device ignores an open: from now on replies and opens do not match.
LEMMA IgnoreKeeps ==
  ASSUME IndInv, IgnoresOpen
  PROVE IndInv'
<1>1. /\ TypeOK /\ ChanShape /\ RegShape /\ ReqShape /\ DevShape /\ WireShape
      /\ MaxChannels \in Nat /\ MaxRequests \in Nat /\ MaxDeviceIds \in Nat
      /\ UNCHANGED <<phase, reg, chan, req, callbacks, asked, owner, wire, packets, abandoned, lost>>
  BY Shapes, ClientAssumption DEF IndInv, Shape, IgnoresOpen, devV, ghostV
<1>2. opens # <<>> /\ opens' = Tail(opens) /\ unmatched' = TRUE BY DEF IgnoresOpen
<1>3. opens' \in Seq(DOMAIN chan) BY <1>1, <1>2, Shifted DEF TypeOK
<1>t. TypeOK' BY <1>1, <1>2, <1>3 DEF TypeOK
<1>f. NumbersUnique' /\ NumbersKnown' /\ NumbersNew' /\ AnnouncedFirst' /\ DisconnectReleasesJson' /\ OpenersOpen' /\ CallsOnOpen' /\ WaitersOwnSlots' /\ RepliesInFlight' /\ NothingElse'
  BY <1>1 DEF IndInv, NumbersUnique, NumbersKnown, NumbersNew, AnnouncedFirst, DisconnectReleasesJson, OpenersOpen, CallsOnOpen, WaitersOwnSlots, RepliesInFlight, NothingElse, Data, Opened, IdOf, Owed
<1>c1. NumbersMatch' BY <1>1, <1>2 DEF IndInv, NumbersMatch
<1>c2. NothingLost' BY <1>2 DEF NothingLost
<1>c3. AnswerIsMine' BY <1>2 DEF AnswerIsMine
<1>c4. DeadIsSilent' BY <1>1, <1>2 DEF IndInv, DeadIsSilent
<1>c5. PendingInOrder' BY <1>2 DEF PendingInOrder
<1>c6. AnswersInOrder' BY <1>2 DEF AnswersInOrder
<1>c7. AwaitedPending' BY <1>2 DEF AwaitedPending
<1>c8. NumbersArrive' BY <1>2 DEF NumbersArrive
<1>c9. OwedWaits' BY <1>2 DEF OwedWaits
<1> QED BY <1>t, <1>f, <1>c1, <1>c2, <1>c3, <1>c4, <1>c5, <1>c6, <1>c7, <1>c8, <1>c9 DEF IndInv

\* The device sends a binary packet on a channel that carries no JSON.
LEMMA BinaryKeeps ==
  ASSUME IndInv, SendsBinary
  PROVE IndInv'
<1>1. /\ TypeOK /\ ChanShape /\ RegShape /\ ReqShape /\ DevShape /\ WireShape
      /\ MaxChannels \in Nat /\ MaxRequests \in Nat /\ MaxDeviceIds \in Nat
      /\ UNCHANGED <<phase, reg, chan, req, callbacks, opens, asked, owner, unmatched, abandoned, lost>>
  BY Shapes, ClientAssumption DEF IndInv, Shape, SendsBinary, Push, devV, ghostV
<1>0. PICK s \in DOMAIN owner : /\ owner[s] # 0 => chan[owner[s]].name \notin JsonNames
                                /\ Push("data", s, 0)
  BY DEF SendsBinary
<1> DEFINE p == [kind |-> "data", id |-> s, for |-> 0]
<1>2. /\ wire' = Append(wire, p) /\ phase = "up" /\ packets' = packets + 1 /\ packets < MaxPackets
      /\ s \in 1..MaxDeviceIds
  BY <1>0, <1>1, ClientAssumption DEF SendsBinary, Push, DevShape
<1>3. /\ wire' \in Seq(Packet) /\ Len(wire') = Len(wire) + 1 /\ DOMAIN wire' = 1..Len(wire) + 1
      /\ \A i \in DOMAIN wire : wire'[i] = wire[i] /\ i \in DOMAIN wire' /\ i < Len(wire) + 1
      /\ Len(wire) + 1 \in DOMAIN wire' /\ wire'[Len(wire) + 1] = p
      /\ \A i \in DOMAIN wire' : i \in DOMAIN wire \/ i = Len(wire) + 1
  <2>1. wire \in Seq(Packet) BY <1>1 DEF TypeOK
  <2>2. p \in Packet BY <1>1, <1>2, ClientAssumption DEF Packet, DeviceIds, DevShape, ReqShape
  <2> HIDE DEF p
  <2>3. /\ wire' \in Seq(Packet) /\ Len(wire') = Len(wire) + 1 /\ DOMAIN wire' = 1..Len(wire) + 1
        /\ \A i \in 1..Len(wire) : wire'[i] = wire[i]
        /\ wire'[Len(wire) + 1] = p
    BY <1>2, <2>1, <2>2, Appended
  <2> QED BY <1>1, <2>3 DEF WireShape
<1>t. TypeOK' BY SMTT(40), <1>1, <1>2, <1>3, ClientAssumption DEF TypeOK
<1>f. NumbersMatch' /\ NumbersUnique' /\ NothingLost' /\ AnswerIsMine' /\ PendingInOrder' /\ DisconnectReleasesJson' /\ OpenersOpen' /\ CallsOnOpen' /\ WaitersOwnSlots'
  BY <1>1 DEF IndInv, NumbersMatch, NumbersUnique, NothingLost, AnswerIsMine, PendingInOrder, DisconnectReleasesJson, OpenersOpen, CallsOnOpen, WaitersOwnSlots, Registered, Contains, IdOf, Pending
<1>c1. NumbersKnown' BY <1>1, <1>2, <1>3 DEF IndInv, NumbersKnown, DevShape
<1>c2. NumbersNew' BY <1>1, <1>3 DEF IndInv, NumbersNew, Data, Opened
<1>c3. AnnouncedFirst' BY <1>1, <1>3 DEF IndInv, AnnouncedFirst, Data
<1>c4. DeadIsSilent' BY <1>1, <1>2 DEF DeadIsSilent
<1>c5. AnswersInOrder' BY <1>1, <1>3 DEF IndInv, AnswersInOrder, Opened, WireShape
<1>c6. AwaitedPending'
  <2>1. \A c \in DOMAIN chan : Awaited(c)' = Awaited(c) BY <1>1, <1>3 DEF Awaited, Opened
  <2> QED BY <1>1, <2>1 DEF IndInv, AwaitedPending, Registered, Contains, Pending
<1>c7. NumbersArrive' BY <1>1, <1>3 DEF IndInv, NumbersArrive, Opened
<1>c8. RepliesInFlight'
  <2>1. \A j \in DOMAIN req : Owed(j)' = Owed(j)
    BY <1>1, <1>3 DEF Owed, Data, ReqShape
  <2> QED BY <1>1, <1>3, <2>1 DEF IndInv, RepliesInFlight, Data, IdOf, WireShape
<1>c9. NothingElse' BY <1>0, <1>1, <1>3 DEF IndInv, NothingElse, Data
<1>c10. OwedWaits'
  <2>1. \A j \in DOMAIN req : Owed(j)' = Owed(j)
    BY <1>1, <1>3 DEF Owed, Data, ReqShape
  <2> QED BY <1>1, <2>1 DEF IndInv, OwedWaits, IdOf
<1> QED BY <1>t, <1>f, <1>c1, <1>c2, <1>c3, <1>c4, <1>c5, <1>c6, <1>c7, <1>c8, <1>c9, <1>c10 DEF IndInv

\* The device answers a JSON request, on the channel it came from.
LEMMA AnswerKeeps ==
  ASSUME IndInv, AnswersJson
  PROVE IndInv'
<1>1. /\ TypeOK /\ ChanShape /\ RegShape /\ ReqShape /\ DevShape /\ WireShape
      /\ MaxChannels \in Nat /\ MaxRequests \in Nat /\ MaxDeviceIds \in Nat
      /\ UNCHANGED <<phase, reg, chan, req, callbacks, opens, owner, packets, unmatched, abandoned, lost>>
  BY Shapes, ClientAssumption DEF IndInv, Shape, AnswersJson, Push, devV, ghostV
<1>0. asked # <<>> /\ asked' = Tail(asked) /\ Push("data", IdOf(Head(asked)), Head(asked)) BY DEF AnswersJson
<1> DEFINE j == asked[1]
            p == [kind |-> "data", id |-> IdOf(j), for |-> j]
<1>4. /\ asked' \in Seq(DOMAIN req) /\ 1 \in DOMAIN asked /\ Head(asked) = asked[1]
      /\ DOMAIN asked' = 1..Len(asked) - 1
      /\ \A i \in DOMAIN asked' : asked'[i] = asked[i + 1] /\ i + 1 \in DOMAIN asked
      /\ \A i \in DOMAIN asked : i = 1 \/ (i - 1 \in DOMAIN asked' /\ asked'[i - 1] = asked[i])
  <2>1. asked \in Seq(DOMAIN req) /\ asked # <<>> /\ asked' = Tail(asked) BY <1>0, <1>1 DEF TypeOK
  <2>2. /\ asked' \in Seq(DOMAIN req) /\ 1 \in DOMAIN asked /\ Head(asked) = asked[1]
        /\ DOMAIN asked' = 1..Len(asked) - 1
        /\ \A i \in 1..Len(asked) - 1 : asked'[i] = asked[i + 1] /\ i + 1 \in DOMAIN asked
    BY <2>1, Shifted
  <2>3. Len(asked) \in Nat /\ DOMAIN asked = 1..Len(asked) BY <2>1
  <2>4. \A i \in DOMAIN asked : i = 1 \/ (i - 1 \in 1..Len(asked) - 1 /\ (i - 1) + 1 = i) BY <2>3
  <2> QED BY <2>2, <2>4
<1>5. /\ j \in DOMAIN req /\ j \in 1..MaxRequests /\ j # 0 /\ IdOf(j) \in 1..MaxDeviceIds /\ IdOf(j) <= Len(owner)
  <2>1. j \in DOMAIN req BY <1>1, <1>4 DEF DevShape
  <2>2. req[j].ch \in DOMAIN chan /\ chan[req[j].ch].id # 0 BY <2>1 DEF IndInv, CallsOnOpen, OpenersOpen
  <2> HIDE DEF j
  <2>3. IdOf(j) \in 1..MaxDeviceIds /\ IdOf(j) <= Len(owner)
    BY <1>1, <2>2 DEF IndInv, NumbersKnown, IdOf, ChanShape
  <2> QED BY <1>1, <2>1, <2>3 DEF ReqShape
<1>2. wire' = Append(wire, p) BY <1>0, <1>4 DEF Push
<1>3. /\ wire' \in Seq(Packet) /\ Len(wire') = Len(wire) + 1 /\ DOMAIN wire' = 1..Len(wire) + 1
      /\ \A i \in DOMAIN wire : wire'[i] = wire[i] /\ i \in DOMAIN wire' /\ i < Len(wire) + 1
      /\ Len(wire) + 1 \in DOMAIN wire' /\ wire'[Len(wire) + 1] = p
      /\ \A i \in DOMAIN wire' : i \in DOMAIN wire \/ i = Len(wire) + 1
  <2>1. wire \in Seq(Packet) BY <1>1 DEF TypeOK
  <2>2. p \in Packet BY <1>5 DEF Packet, DeviceIds
  <2> HIDE DEF p
  <2>3. /\ wire' \in Seq(Packet) /\ Len(wire') = Len(wire) + 1 /\ DOMAIN wire' = 1..Len(wire) + 1
        /\ \A i \in 1..Len(wire) : wire'[i] = wire[i]
        /\ wire'[Len(wire) + 1] = p
    BY <1>2, <2>1, <2>2, Appended
  <2> QED BY <1>1, <2>3 DEF WireShape
<1>6. phase = "up" BY <1>0 DEF IndInv, DeadIsSilent
<1>7. \A k \in DOMAIN req : Owed(k)' = Owed(k)
  <2>1. \A k \in DOMAIN req : Owed(k) => Owed(k)' BY <1>1, <1>3, <1>4 DEF Owed, Data
  <2>2. \A k \in DOMAIN req : Owed(k)' => Owed(k) BY <1>1, <1>3, <1>4 DEF Owed, Data
  <2>3. \A k \in DOMAIN req : Owed(k) \in BOOLEAN /\ Owed(k)' \in BOOLEAN BY DEF Owed
  <2> QED BY <2>1, <2>2, <2>3
<1> HIDE DEF j
<1>t. TypeOK' BY <1>1, <1>3, <1>4 DEF TypeOK
<1>f. NumbersMatch' /\ NumbersUnique' /\ NothingLost' /\ AnswerIsMine' /\ PendingInOrder' /\ DisconnectReleasesJson' /\ OpenersOpen' /\ CallsOnOpen' /\ WaitersOwnSlots'
  BY <1>1 DEF IndInv, NumbersMatch, NumbersUnique, NothingLost, AnswerIsMine, PendingInOrder, DisconnectReleasesJson, OpenersOpen, CallsOnOpen, WaitersOwnSlots, Registered, Contains, IdOf, Pending
<1>c1. NumbersKnown' BY <1>1, <1>3, <1>5 DEF IndInv, NumbersKnown
<1>c2. NumbersNew' BY <1>1, <1>3 DEF IndInv, NumbersNew, Data, Opened
<1>c3. AnnouncedFirst' BY <1>1, <1>3 DEF IndInv, AnnouncedFirst, Data
<1>c4. DeadIsSilent' BY <1>1, <1>6 DEF DeadIsSilent
<1>c5. AnswersInOrder' BY <1>1, <1>3 DEF IndInv, AnswersInOrder, Opened, WireShape
<1>c6. AwaitedPending'
  <2>1. \A c \in DOMAIN chan : Awaited(c)' = Awaited(c) BY <1>1, <1>3 DEF Awaited, Opened
  <2> QED BY <1>1, <2>1 DEF IndInv, AwaitedPending, Registered, Contains, Pending
<1>c7. NumbersArrive' BY <1>1, <1>3 DEF IndInv, NumbersArrive, Opened
<1>c8. RepliesInFlight'
  <2>1. \A i, k \in DOMAIN asked' : asked'[i] = asked'[k] => i = k
    BY <1>1, <1>4 DEF IndInv, RepliesInFlight, DevShape
  <2>2. \A k \in DOMAIN req : Owed(k)' => req[k].state # "lock" BY <1>7 DEF IndInv, RepliesInFlight
  <2>3. \A i \in DOMAIN wire : Data(i) => wire[i].for # j
    BY <1>4, <1>5 DEF IndInv, RepliesInFlight, j
  <2>4. \A k \in DOMAIN asked' : asked'[k] # j
    <3>1. \A k \in DOMAIN asked' : k + 1 # 1 BY <1>1, <1>4 DEF DevShape
    <3>2. \A i \in DOMAIN asked : asked[i] = asked[1] => i = 1 BY <1>4 DEF IndInv, RepliesInFlight
    <3> QED BY <1>4, <3>1, <3>2 DEF j
  <2>5. \A i \in DOMAIN wire' : Data(i)' /\ wire'[i].for # 0 =>
          wire'[i].for \in DOMAIN req /\ wire'[i].id = IdOf(wire'[i].for)
    BY <1>3, <1>5 DEF IndInv, RepliesInFlight, Data
  <2>6. \A i, k \in DOMAIN wire' : Data(i)' /\ Data(k)' /\ wire'[i].for # 0 /\ wire'[i].for = wire'[k].for => i = k
    BY <1>3, <2>3 DEF IndInv, RepliesInFlight, Data
  <2>7. \A i \in DOMAIN wire', k \in DOMAIN asked' : Data(i)' /\ wire'[i].for # 0 => asked'[k] # wire'[i].for
    BY <1>3, <1>4, <2>4 DEF IndInv, RepliesInFlight, Data
  <2> QED BY <1>1, <2>1, <2>2, <2>5, <2>6, <2>7 DEF RepliesInFlight, IdOf
<1>c9. NothingElse' BY <1>1, <1>3, <1>5, SMTT(60) DEF IndInv, NothingElse, Data
<1>c10. OwedWaits' BY <1>1, <1>7 DEF IndInv, OwedWaits, IdOf
<1> QED BY <1>t, <1>f, <1>c1, <1>c2, <1>c3, <1>c4, <1>c5, <1>c6, <1>c7, <1>c8, <1>c9, <1>c10 DEF IndInv

\* The device gives the number it makes next to the first open it has not answered.
LEMMA AnswerOpenKeeps ==
  ASSUME IndInv, AnswersOpen
  PROVE IndInv'
<1>1. /\ TypeOK /\ ChanShape /\ RegShape /\ ReqShape /\ DevShape /\ WireShape
      /\ MaxChannels \in Nat /\ MaxRequests \in Nat /\ MaxDeviceIds \in Nat
      /\ UNCHANGED <<phase, reg, chan, req, callbacks, asked, packets, unmatched, abandoned, lost>>
  BY Shapes, ClientAssumption DEF IndInv, Shape, AnswersOpen, Push, Number, devV, ghostV
<1> DEFINE n == Len(owner) + 1
            p == [kind |-> "opened", id |-> n, for |-> 0]
<1>0. opens # <<>> /\ opens' = Tail(opens) /\ Len(owner) < MaxDeviceIds /\ owner' = Append(owner, Head(opens)) /\ Push("opened", n, 0)
  BY DEF AnswersOpen, Number
<1>4. /\ opens' \in Seq(DOMAIN chan) /\ 1 \in DOMAIN opens /\ Head(opens) = opens[1]
      /\ DOMAIN opens' = 1..Len(opens) - 1
      /\ \A i \in DOMAIN opens' : opens'[i] = opens[i + 1] /\ i + 1 \in DOMAIN opens
      /\ \A i \in DOMAIN opens : i = 1 \/ (i - 1 \in DOMAIN opens' /\ opens'[i - 1] = opens[i])
  <2>1. opens \in Seq(DOMAIN chan) /\ opens # <<>> /\ opens' = Tail(opens) BY <1>0, <1>1 DEF TypeOK
  <2>2. /\ opens' \in Seq(DOMAIN chan) /\ 1 \in DOMAIN opens /\ Head(opens) = opens[1]
        /\ DOMAIN opens' = 1..Len(opens) - 1
        /\ \A i \in 1..Len(opens) - 1 : opens'[i] = opens[i + 1] /\ i + 1 \in DOMAIN opens
    BY <2>1, Shifted
  <2>3. Len(opens) \in Nat /\ DOMAIN opens = 1..Len(opens) BY <2>1
  <2>4. \A i \in DOMAIN opens : i = 1 \/ (i - 1 \in 1..Len(opens) - 1 /\ (i - 1) + 1 = i) BY <2>3
  <2> QED BY <2>2, <2>4
<1>2. wire' = Append(wire, p) /\ n \in 1..MaxDeviceIds /\ owner' = Append(owner, opens[1])
  BY <1>0, <1>1, <1>4 DEF Push, DevShape, ChanShape
<1>3. /\ wire' \in Seq(Packet) /\ Len(wire') = Len(wire) + 1 /\ DOMAIN wire' = 1..Len(wire) + 1
      /\ \A i \in DOMAIN wire : wire'[i] = wire[i] /\ i \in DOMAIN wire' /\ i < Len(wire) + 1
      /\ Len(wire) + 1 \in DOMAIN wire' /\ wire'[Len(wire) + 1] = p
      /\ \A i \in DOMAIN wire' : i \in DOMAIN wire \/ i = Len(wire) + 1
  <2>1. wire \in Seq(Packet) BY <1>1 DEF TypeOK
  <2>2. p \in Packet BY <1>1, <1>2, ClientAssumption DEF Packet, DeviceIds, DevShape, ReqShape
  <2> HIDE DEF p
  <2>3. /\ wire' \in Seq(Packet) /\ Len(wire') = Len(wire) + 1 /\ DOMAIN wire' = 1..Len(wire) + 1
        /\ \A i \in 1..Len(wire) : wire'[i] = wire[i]
        /\ wire'[Len(wire) + 1] = p
    BY <1>2, <2>1, <2>2, Appended
  <2> QED BY <1>1, <2>3 DEF WireShape
<1>5. /\ owner' \in Seq(0..Len(chan)) /\ Len(owner') = n /\ DOMAIN owner' = 1..n
      /\ \A s \in DOMAIN owner : owner'[s] = owner[s] /\ s \in DOMAIN owner' /\ s < n
      /\ n \in DOMAIN owner' /\ owner'[n] = opens[1] /\ \A s \in DOMAIN owner' : s \in DOMAIN owner \/ s = n
  <2>1. owner \in Seq(0..Len(chan)) BY <1>1 DEF TypeOK
  <2>2. opens[1] \in 0..Len(chan)
    <3>1. opens[1] \in DOMAIN chan BY <1>1, <1>4 DEF DevShape
    <3> QED BY <1>1, <3>1 DEF ChanShape
  <2>3. /\ owner' \in Seq(0..Len(chan)) /\ Len(owner') = n /\ DOMAIN owner' = 1..n
        /\ \A s \in 1..Len(owner) : owner'[s] = owner[s]
        /\ owner'[n] = opens[1]
    BY <1>2, <2>1, <2>2, Appended
  <2> QED BY <1>1, <2>3 DEF DevShape
<1>6. \A i \in DOMAIN wire : /\ wire[i].id \in DOMAIN owner /\ wire[i].id # n
                              /\ owner'[wire[i].id] = owner[wire[i].id]
  BY <1>5, WireOwned
<1>7. \A c \in DOMAIN chan : chan[c].id # 0 => /\ chan[c].id \in DOMAIN owner
                                             /\ owner'[chan[c].id] = owner[chan[c].id]
  BY <1>1, <1>5 DEF IndInv, NumbersKnown, ChanShape, DevShape
<1>8. \A c \in DOMAIN chan : chan[c].id # n
  <2>1. n # 0 /\ n \notin DOMAIN owner BY <1>1, <1>5 DEF DevShape
  <2> QED BY <1>7, <2>1
<1> HIDE DEF n
<1>9. phase = "up" BY <1>0 DEF IndInv, DeadIsSilent
<1>t. TypeOK' BY <1>0, <1>1, <1>3, <1>4, <1>5, SMTT(60) DEF TypeOK
<1>f. NumbersUnique' /\ AnswerIsMine' /\ PendingInOrder' /\ DisconnectReleasesJson' /\ OpenersOpen' /\ CallsOnOpen' /\ WaitersOwnSlots'
  BY <1>1 DEF IndInv, NumbersUnique, AnswerIsMine, PendingInOrder, DisconnectReleasesJson, OpenersOpen, CallsOnOpen, WaitersOwnSlots, IdOf, Pending
<1>c1. NumbersMatch' BY <1>1, <1>7 DEF IndInv, NumbersMatch
<1>c2. NothingLost'
  <2>1. \A s \in lost : s \in DOMAIN owner BY <1>1 DEF IndInv, NumbersKnown, TypeOK, DeviceIds, DevShape
  <2> QED BY <1>1, <1>5, <2>1 DEF IndInv, NothingLost, Registered, Contains
<1>c3. NumbersKnown'
  <2>1. \A i \in DOMAIN wire' : wire'[i].id <= n
    <3>1. \A i \in DOMAIN wire : wire[i].id <= n BY <1>1, <1>5, <1>6 DEF DevShape
    <3> QED BY <1>1, <1>3, <1>5, <3>1 DEF DevShape
  <2>2. \A c \in DOMAIN chan : chan[c].id <= n BY <1>1, <1>5 DEF IndInv, NumbersKnown, ChanShape, DevShape
  <2>3. \A s \in lost : s <= n
    <3>1. \A s \in lost : s \in Nat /\ s <= Len(owner) BY <1>1 DEF IndInv, NumbersKnown, TypeOK, DeviceIds
    <3> QED BY <1>1, <1>5, <3>1 DEF DevShape
  <2> QED BY <1>1, <1>5, <2>1, <2>2, <2>3 DEF NumbersKnown
<1>c4. NumbersNew'
  <2>1. \A i \in DOMAIN wire : ~Data(i) => /\ (owner'[wire'[i].id] # 0) = Opened(i)'
                                         /\ \A c \in DOMAIN chan : chan[c].id # wire'[i].id
    BY <1>3, <1>6 DEF IndInv, NumbersNew, Opened
  <2>2. wire'[Len(wire) + 1].id = n /\ owner'[n] # 0 /\ wire'[Len(wire) + 1].kind = "opened"
    <3>1. opens[1] \in 1..Len(chan) BY <1>1, <1>4 DEF DevShape, ChanShape
    <3> QED BY <1>1, <1>3, <1>5, <3>1 DEF ChanShape
  <2>3. \A i \in DOMAIN wire : Data(i)' = Data(i) BY <1>3 DEF Data
  <2>4. \A i \in DOMAIN wire' : ~Data(i)' => /\ (owner'[wire'[i].id] # 0) = Opened(i)'
                                           /\ \A c \in DOMAIN chan : chan[c].id # wire'[i].id
    BY <1>3, <1>8, <2>1, <2>2, <2>3 DEF Opened
  <2> QED BY <1>1, <2>4 DEF NumbersNew
<1>c5. AnnouncedFirst' BY <1>3, <1>6 DEF IndInv, AnnouncedFirst, Data
<1>c6. DeadIsSilent' BY <1>1, <1>9 DEF DeadIsSilent
<1>c7. AnswersInOrder'
  <2> SUFFICES ASSUME ~unmatched PROVE AnswersInOrder' BY <1>1 DEF AnswersInOrder
  <2>1. \A i, k \in DOMAIN opens' : i < k => opens'[i] < opens'[k]
    BY <1>1, <1>4 DEF IndInv, AnswersInOrder, DevShape
  <2>2. \A k \in DOMAIN opens' : opens[1] < opens'[k] BY <1>1, <1>4, SMTT(60) DEF IndInv, AnswersInOrder, DevShape
  <2>3. \A i \in DOMAIN wire : Opened(i) => owner[wire[i].id] < opens[1] BY <1>4 DEF IndInv, AnswersInOrder
  <2>4. \A i \in DOMAIN wire' : Opened(i)' =>
          \/ i \in DOMAIN wire /\ Opened(i) /\ i < Len(wire) + 1 /\ owner'[wire'[i].id] = owner[wire[i].id]
          \/ i = Len(wire) + 1 /\ owner'[wire'[i].id] = opens[1]
    BY <1>3, <1>5, <1>6 DEF Opened
  <2>5. \A i, k \in DOMAIN wire' : i < k /\ Opened(i)' /\ Opened(k)' => owner'[wire'[i].id] < owner'[wire'[k].id]
    BY <1>1, <2>3, <2>4 DEF IndInv, AnswersInOrder, WireShape
  <2>6. \A i \in DOMAIN wire', k \in DOMAIN opens' : Opened(i)' => owner'[wire'[i].id] < opens'[k]
    BY <1>4, <2>2, <2>4 DEF IndInv, AnswersInOrder
  <2> QED BY <2>1, <2>5, <2>6 DEF AnswersInOrder
<1>c8. AwaitedPending'
  <2>0. \A i \in DOMAIN wire : Opened(i)' = Opened(i) /\ owner'[wire'[i].id] = owner[wire[i].id]
    BY <1>3, <1>6 DEF Opened
  <2>1. ASSUME NEW c \in DOMAIN chan, Awaited(c) PROVE Awaited(c)'
    <3>1. CASE c = opens[1] BY <1>3, <1>5, <3>1 DEF Awaited, Opened
    <3>2. CASE \E i \in DOMAIN opens : i # 1 /\ opens[i] = c BY <1>4, <3>2 DEF Awaited
    <3>3. CASE \E i \in DOMAIN wire : Opened(i) /\ owner[wire[i].id] = c BY <1>3, <2>0, <3>3 DEF Awaited
    <3> QED BY <2>1, <3>1, <3>2, <3>3 DEF Awaited
  <2>2. ASSUME NEW c \in DOMAIN chan, Awaited(c)' PROVE Awaited(c)
    <3>1. CASE \E i \in DOMAIN opens' : opens'[i] = c BY <1>4, <3>1 DEF Awaited
    <3>2. CASE \E i \in DOMAIN wire' : Opened(i)' /\ owner'[wire'[i].id] = c
      <4>1. PICK i \in DOMAIN wire' : Opened(i)' /\ owner'[wire'[i].id] = c BY <3>2
      <4>2. CASE i \in DOMAIN wire BY <2>0, <4>1, <4>2 DEF Awaited
      <4>3. CASE i = Len(wire) + 1 BY <1>3, <1>4, <1>5, <4>1, <4>3 DEF Awaited
      <4> QED BY <1>3, <4>2, <4>3
    <3> QED BY <2>2, <3>1, <3>2 DEF Awaited
  <2>3. \A c \in DOMAIN chan : Awaited(c) \in BOOLEAN /\ Awaited(c)' \in BOOLEAN BY DEF Awaited
  <2> QED BY <1>1, <2>1, <2>2, <2>3 DEF IndInv, AwaitedPending, Registered, Contains, Pending
<1>c9. NumbersArrive'
  <2> SUFFICES ASSUME ~unmatched, NEW s \in DOMAIN owner', owner'[s] # 0
               PROVE chan[owner'[s]].id = s \/ \E i \in DOMAIN wire' : Opened(i)' /\ wire'[i].id = s
    BY <1>1 DEF NumbersArrive
  <2>1. CASE s \in DOMAIN owner
    <3>1. chan[owner[s]].id = s \/ \E i \in DOMAIN wire : Opened(i) /\ wire[i].id = s
      BY <1>1, <1>5, <1>9, <2>1 DEF IndInv, NumbersArrive
    <3> QED BY <1>3, <1>5, <2>1, <3>1 DEF Opened
  <2>2. CASE s = n BY <1>3, <1>5, <2>2 DEF Opened
  <2> QED BY <1>5, <2>1, <2>2
<1>c10. RepliesInFlight'
  <2>1. \A j \in DOMAIN req : Owed(j)' = Owed(j) BY <1>1, <1>3 DEF Owed, Data
  <2> QED BY <1>1, <1>3, <2>1 DEF IndInv, RepliesInFlight, Data, IdOf
<1>c11. NothingElse' BY <1>1, <1>3, <1>6 DEF IndInv, NothingElse, Data
<1>c12. OwedWaits'
  <2>1. \A j \in DOMAIN req : Owed(j)' = Owed(j) BY <1>1, <1>3 DEF Owed, Data
  <2> QED BY <1>1, <2>1 DEF IndInv, OwedWaits, IdOf
<1> QED BY <1>t, <1>f, <1>c1, <1>c2, <1>c3, <1>c4, <1>c5, <1>c6, <1>c7, <1>c8, <1>c9, <1>c10, <1>c11, <1>c12 DEF IndInv

\* The device opens a channel of its own.
LEMMA DeviceOpenKeeps ==
  ASSUME IndInv, OpensChannel
  PROVE IndInv'
<1>1. /\ TypeOK /\ ChanShape /\ RegShape /\ ReqShape /\ DevShape /\ WireShape
      /\ MaxChannels \in Nat /\ MaxRequests \in Nat /\ MaxDeviceIds \in Nat
      /\ UNCHANGED <<phase, reg, chan, req, callbacks, opens, asked, packets, unmatched, abandoned, lost>>
  BY Shapes, ClientAssumption DEF IndInv, Shape, OpensChannel, Push, Number, devV, ghostV
<1> DEFINE n == Len(owner) + 1
            p == [kind |-> "deviceOpen", id |-> n, for |-> 0]
<1>0. phase = "up" /\ Len(owner) < MaxDeviceIds /\ owner' = Append(owner, 0) /\ Push("deviceOpen", n, 0)
  BY DEF OpensChannel, Number
<1>4. 0 \in 0..Len(chan) BY <1>1 DEF ChanShape
<1>2. wire' = Append(wire, p) /\ n \in 1..MaxDeviceIds /\ owner' = Append(owner, 0)
  BY <1>0, <1>1, <1>4 DEF Push, DevShape, ChanShape
<1>3. /\ wire' \in Seq(Packet) /\ Len(wire') = Len(wire) + 1 /\ DOMAIN wire' = 1..Len(wire) + 1
      /\ \A i \in DOMAIN wire : wire'[i] = wire[i] /\ i \in DOMAIN wire' /\ i < Len(wire) + 1
      /\ Len(wire) + 1 \in DOMAIN wire' /\ wire'[Len(wire) + 1] = p
      /\ \A i \in DOMAIN wire' : i \in DOMAIN wire \/ i = Len(wire) + 1
  <2>1. wire \in Seq(Packet) BY <1>1 DEF TypeOK
  <2>2. p \in Packet BY <1>1, <1>2, ClientAssumption DEF Packet, DeviceIds, DevShape, ReqShape
  <2> HIDE DEF p
  <2>3. /\ wire' \in Seq(Packet) /\ Len(wire') = Len(wire) + 1 /\ DOMAIN wire' = 1..Len(wire) + 1
        /\ \A i \in 1..Len(wire) : wire'[i] = wire[i]
        /\ wire'[Len(wire) + 1] = p
    BY <1>2, <2>1, <2>2, Appended
  <2> QED BY <1>1, <2>3 DEF WireShape
<1>5. /\ owner' \in Seq(0..Len(chan)) /\ Len(owner') = n /\ DOMAIN owner' = 1..n
      /\ \A s \in DOMAIN owner : owner'[s] = owner[s] /\ s \in DOMAIN owner' /\ s < n
      /\ n \in DOMAIN owner' /\ owner'[n] = 0 /\ \A s \in DOMAIN owner' : s \in DOMAIN owner \/ s = n
  <2>1. owner \in Seq(0..Len(chan)) BY <1>1 DEF TypeOK
  <2>2. 0 \in 0..Len(chan) BY <1>1, <1>4 DEF ChanShape
  <2>3. /\ owner' \in Seq(0..Len(chan)) /\ Len(owner') = n /\ DOMAIN owner' = 1..n
        /\ \A s \in 1..Len(owner) : owner'[s] = owner[s]
        /\ owner'[n] = 0
    BY <1>2, <2>1, <2>2, Appended
  <2> QED BY <1>1, <2>3 DEF DevShape
<1>6. \A i \in DOMAIN wire : /\ wire[i].id \in DOMAIN owner /\ wire[i].id # n
                              /\ owner'[wire[i].id] = owner[wire[i].id]
  BY <1>5, WireOwned
<1>7. \A c \in DOMAIN chan : chan[c].id # 0 => /\ chan[c].id \in DOMAIN owner
                                             /\ owner'[chan[c].id] = owner[chan[c].id]
  BY <1>1, <1>5 DEF IndInv, NumbersKnown, ChanShape, DevShape
<1>8. \A c \in DOMAIN chan : chan[c].id # n
  <2>1. n # 0 /\ n \notin DOMAIN owner BY <1>1, <1>5 DEF DevShape
  <2> QED BY <1>7, <2>1
<1> HIDE DEF n
<1>9. phase = "up" BY <1>0
<1>t. TypeOK' BY <1>0, <1>1, <1>3, <1>4, <1>5 DEF TypeOK
<1>f. NumbersUnique' /\ AnswerIsMine' /\ PendingInOrder' /\ DisconnectReleasesJson' /\ OpenersOpen' /\ CallsOnOpen' /\ WaitersOwnSlots'
  BY <1>1 DEF IndInv, NumbersUnique, AnswerIsMine, PendingInOrder, DisconnectReleasesJson, OpenersOpen, CallsOnOpen, WaitersOwnSlots, IdOf, Pending
<1>c1. NumbersMatch' BY <1>1, <1>7 DEF IndInv, NumbersMatch
<1>c2. NothingLost'
  <2>1. \A s \in lost : s \in DOMAIN owner BY <1>1 DEF IndInv, NumbersKnown, TypeOK, DeviceIds, DevShape
  <2> QED BY <1>1, <1>5, <2>1 DEF IndInv, NothingLost, Registered, Contains
<1>c3. NumbersKnown'
  <2>1. \A i \in DOMAIN wire' : wire'[i].id <= n
    <3>1. \A i \in DOMAIN wire : wire[i].id <= n BY <1>1, <1>5, <1>6 DEF DevShape
    <3> QED BY <1>1, <1>3, <1>5, <3>1 DEF DevShape
  <2>2. \A c \in DOMAIN chan : chan[c].id <= n BY <1>1, <1>5 DEF IndInv, NumbersKnown, ChanShape, DevShape
  <2>3. \A s \in lost : s <= n
    <3>1. \A s \in lost : s \in Nat /\ s <= Len(owner) BY <1>1 DEF IndInv, NumbersKnown, TypeOK, DeviceIds
    <3> QED BY <1>1, <1>5, <3>1 DEF DevShape
  <2> QED BY <1>1, <1>5, <2>1, <2>2, <2>3 DEF NumbersKnown
<1>c4. NumbersNew'
  <2>1. \A i \in DOMAIN wire : ~Data(i) => /\ (owner'[wire'[i].id] # 0) = Opened(i)'
                                         /\ \A c \in DOMAIN chan : chan[c].id # wire'[i].id
    BY <1>3, <1>6 DEF IndInv, NumbersNew, Opened
  <2>2. wire'[Len(wire) + 1].id = n /\ owner'[n] = 0 /\ wire'[Len(wire) + 1].kind = "deviceOpen"
    BY <1>1, <1>3, <1>4, <1>5 DEF DevShape, ChanShape
  <2>3. \A i \in DOMAIN wire : Data(i)' = Data(i) BY <1>3 DEF Data
  <2>4. \A i \in DOMAIN wire' : ~Data(i)' => /\ (owner'[wire'[i].id] # 0) = Opened(i)'
                                           /\ \A c \in DOMAIN chan : chan[c].id # wire'[i].id
    BY <1>3, <1>8, <2>1, <2>2, <2>3 DEF Opened
  <2> QED BY <1>1, <2>4 DEF NumbersNew
<1>c5. AnnouncedFirst' BY <1>3, <1>6 DEF IndInv, AnnouncedFirst, Data
<1>c6. DeadIsSilent' BY <1>1, <1>9 DEF DeadIsSilent
<1>c7. AnswersInOrder' BY <1>1, <1>3, <1>6 DEF IndInv, AnswersInOrder, Opened
<1>c8. AwaitedPending'
  <2>1. \A c \in DOMAIN chan : Awaited(c) => Awaited(c)' BY <1>1, <1>3, <1>6 DEF Awaited, Opened
  <2>2. \A c \in DOMAIN chan : Awaited(c)' => Awaited(c) BY <1>1, <1>3, <1>6 DEF Awaited, Opened
  <2> QED BY <1>1, <2>1, <2>2 DEF IndInv, AwaitedPending, Registered, Contains, Pending
<1>c9. NumbersArrive'
  <2> SUFFICES ASSUME ~unmatched, NEW s \in DOMAIN owner', owner'[s] # 0
               PROVE chan[owner'[s]].id = s \/ \E i \in DOMAIN wire' : Opened(i)' /\ wire'[i].id = s
    BY <1>1 DEF NumbersArrive
  <2>1. CASE s \in DOMAIN owner
    <3>1. chan[owner[s]].id = s \/ \E i \in DOMAIN wire : Opened(i) /\ wire[i].id = s
      BY <1>1, <1>5, <1>9, <2>1 DEF IndInv, NumbersArrive
    <3> QED BY <1>3, <1>5, <2>1, <3>1 DEF Opened
  <2>2. CASE s = n BY <1>3, <1>5, <2>2 DEF Opened
  <2> QED BY <1>5, <2>1, <2>2
<1>c10. RepliesInFlight'
  <2>1. \A j \in DOMAIN req : Owed(j)' = Owed(j) BY <1>1, <1>3 DEF Owed, Data
  <2> QED BY <1>1, <1>3, <2>1 DEF IndInv, RepliesInFlight, Data, IdOf
<1>c11. NothingElse' BY <1>1, <1>3, <1>6 DEF IndInv, NothingElse, Data
<1>c12. OwedWaits'
  <2>1. \A j \in DOMAIN req : Owed(j)' = Owed(j) BY <1>1, <1>3 DEF Owed, Data
  <2> QED BY <1>1, <2>1 DEF IndInv, OwedWaits, IdOf
<1> QED BY <1>t, <1>f, <1>c1, <1>c2, <1>c3, <1>c4, <1>c5, <1>c6, <1>c7, <1>c8, <1>c9, <1>c10, <1>c11, <1>c12 DEF IndInv

\* Only the state of one call changes.
LEMMA CallChanged ==
  ASSUME IndInv, UNCHANGED chan, NEW j \in DOMAIN req, NEW v \in {"wait", "failed"},
         req' = [req EXCEPT ![j].state = v]
  PROVE /\ req' \in Seq(Request) /\ Len(req') = Len(req) /\ DOMAIN req' = DOMAIN req
        /\ \A k \in DOMAIN req : /\ req'[k].ch = req[k].ch /\ req'[k].answer = req[k].answer
                                /\ req'[k].state = IF k = j THEN v ELSE req[k].state
<1>1. req \in Seq(Request) BY DEF IndInv, TypeOK
<1>2. \A k \in DOMAIN req : req[k] \in Request BY <1>1
<1>3. [req[j] EXCEPT !.state = v] \in Request BY <1>2 DEF Request
<1>4. req' = [req EXCEPT ![j] = [req[j] EXCEPT !.state = v]] OBVIOUS
<1>5. req' \in Seq(Request) /\ DOMAIN req' = DOMAIN req /\ Len(req') = Len(req)
  BY <1>1, <1>3, <1>4, ExceptSeq
<1>6. \A k \in DOMAIN req : req'[k] = IF k = j THEN [req[j] EXCEPT !.state = v] ELSE req[k]
  BY <1>1, <1>4
<1>7. \A k \in DOMAIN req : /\ req'[k].ch = req[k].ch /\ req'[k].answer = req[k].answer
                              /\ req'[k].state = IF k = j THEN v ELSE req[k].state
  BY <1>2, <1>6 DEF Request
<1> QED BY <1>5, <1>7

\* A call's channel has a number.
LEMMA CallsNumbered ==
  ASSUME IndInv, NEW j \in DOMAIN req
  PROVE /\ IdOf(j) \in DeviceIds /\ chan[req[j].ch].id = IdOf(j) /\ IdOf(j) # 0 /\ req[j].ch \in DOMAIN chan
        /\ chan[req[j].ch].name \in JsonNames /\ ~chan[req[j].ch].placeholder
        /\ j # 0 /\ callbacks \in [DeviceIds -> 0..Len(req)]
<1>1. ChanShape /\ ReqShape BY Shapes DEF IndInv, Shape
<1>2. /\ req[j].ch \in DOMAIN chan /\ chan[req[j].ch].name \in JsonNames
      /\ chan[req[j].ch].opener = "done" /\ chan[req[j].ch].id # 0
  BY DEF IndInv, CallsOnOpen, OpenersOpen
<1>3. IdOf(j) \in DeviceIds /\ IdOf(j) # 0 BY <1>1, <1>2, ClientAssumption DEF IdOf, ChanShape, DeviceIds
<1>4. ~chan[req[j].ch].placeholder BY <1>2 DEF IndInv, OpenersOpen
<1> QED BY <1>1, <1>2, <1>3, <1>4 DEF IndInv, TypeOK, ReqShape, IdOf

\* send_json is called and waits for the channel's lock.
LEMMA SendJsonKeeps ==
  ASSUME IndInv, SendJson
  PROVE IndInv'
<1>1. /\ TypeOK /\ ChanShape /\ RegShape /\ ReqShape /\ DevShape /\ WireShape
      /\ MaxChannels \in Nat /\ MaxRequests \in Nat /\ MaxDeviceIds \in Nat
      /\ UNCHANGED <<phase, reg, chan, callbacks, opens, asked, owner, wire, packets, unmatched, abandoned, lost>>
  BY Shapes, ClientAssumption DEF IndInv, Shape, SendJson, devV, ghostV
<1>0. PICK c \in DOMAIN chan : /\ chan[c].opener = "done" /\ chan[c].name \in JsonNames
                               /\ req' = Append(req, [ch |-> c, state |-> "lock", answer |-> 0])
  BY DEF SendJson
<1> DEFINE n == Len(req) + 1
           r == [ch |-> c, state |-> "lock", answer |-> 0]
<1>2. /\ req' \in Seq(Request) /\ Len(req') = n /\ DOMAIN req' = 1..n /\ n <= MaxRequests
      /\ \A j \in DOMAIN req : req'[j] = req[j] /\ j \in DOMAIN req' /\ j # n
      /\ n \in DOMAIN req' /\ req'[n] = r /\ \A j \in DOMAIN req' : j \in DOMAIN req \/ j = n
  <2>1. req \in Seq(Request) BY <1>1 DEF TypeOK
  <2>2. c \in Objects BY <1>1 DEF ChanShape, Objects
  <2>3. r \in Request BY <1>1, <2>2 DEF Request
  <2> HIDE DEF r
  <2>4. /\ req' \in Seq(Request) /\ Len(req') = n /\ DOMAIN req' = 1..n
        /\ \A j \in 1..Len(req) : req'[j] = req[j]
        /\ req'[n] = r
    BY <1>0, <2>1, <2>3, Appended DEF r
  <2>5. n <= MaxRequests BY <1>1 DEF SendJson, ReqShape
  <2> QED BY <1>1, <2>4, <2>5 DEF ReqShape
<1>4. \A i \in DOMAIN asked : asked[i] # n /\ asked[i] \in DOMAIN req BY <1>1, <1>2 DEF DevShape
<1>5. \A i \in DOMAIN wire : Data(i) /\ wire[i].for # 0 => wire[i].for # n /\ wire[i].for \in DOMAIN req
  BY <1>2 DEF IndInv, RepliesInFlight
<1>7. n # 0 BY <1>1 DEF ReqShape
<1> HIDE DEF n
<1>6. /\ \A i \in DOMAIN asked : asked[i] # n
      /\ \A i \in DOMAIN wire : Data(i) => wire[i].for # n
  BY <1>4, <1>5, <1>7
<1>8. \A j \in DOMAIN req' : Owed(j)' => j \in DOMAIN req /\ Owed(j)
  BY <1>1, <1>2, <1>6 DEF Owed, Data
<1>t. TypeOK'
  <2>1. callbacks' \in [DeviceIds -> 0..Len(req')] BY <1>1, <1>2 DEF TypeOK, ReqShape, n
  <2>2. asked' \in Seq(DOMAIN req')
    <3>1. asked \in Seq(DOMAIN req) /\ DOMAIN req \subseteq DOMAIN req' BY <1>1, <1>2 DEF TypeOK
    <3> QED BY <1>1, <3>1, Wider
  <2> QED BY <1>1, <1>2, <2>1, <2>2 DEF TypeOK
<1>f. NumbersMatch' /\ NumbersUnique' /\ NothingLost' /\ NumbersKnown' /\ NumbersNew' /\ AnnouncedFirst' /\ DeadIsSilent' /\ PendingInOrder' /\ AnswersInOrder' /\ AwaitedPending' /\ NumbersArrive' /\ OpenersOpen' /\ NothingElse'
  BY <1>1 DEF IndInv, NumbersMatch, NumbersUnique, NothingLost, NumbersKnown, NumbersNew, AnnouncedFirst, DeadIsSilent, PendingInOrder, AnswersInOrder, AwaitedPending, NumbersArrive, OpenersOpen, NothingElse, Registered, Contains, Data, Opened, Pending, Awaited
<1>c0. DisconnectReleasesJson' BY <1>1, <1>2 DEF IndInv, DisconnectReleasesJson
<1>c1. AnswerIsMine' BY <1>1, <1>2 DEF IndInv, AnswerIsMine, IdOf
<1>c2. CallsOnOpen' BY <1>0, <1>1, <1>2 DEF IndInv, CallsOnOpen
<1>c3. WaitersOwnSlots'
  <2>1. \A j \in DOMAIN req' : req'[j].state = "wait" => callbacks'[IdOf(j)] = j
    BY <1>1, <1>2 DEF IndInv, WaitersOwnSlots, IdOf
  <2>2. \A s \in DeviceIds : callbacks[s] # 0 => callbacks[s] \in DOMAIN req /\ IdOf(callbacks[s]) = s
    BY <1>1 DEF IndInv, WaitersOwnSlots, ReqShape
  <2>3. \A s \in DeviceIds : callbacks[s] # 0 => chan[req'[callbacks[s]].ch].id = s
    BY <1>2, <2>2 DEF IdOf
  <2> QED BY <1>1, <1>2, <2>1, <2>3 DEF WaitersOwnSlots, IdOf
<1>c4. RepliesInFlight'
  <2>1. \A j \in DOMAIN req' : Owed(j)' => req'[j].state # "lock"
    BY <1>2, <1>8 DEF IndInv, RepliesInFlight
  <2>2. \A i \in DOMAIN wire : Data(i) /\ wire[i].for # 0 =>
          /\ wire[i].for \in DOMAIN req' /\ wire[i].id = chan[req'[wire[i].for].ch].id
          /\ \A k \in DOMAIN wire : Data(k) /\ wire[i].for = wire[k].for => i = k
          /\ \A k \in DOMAIN asked : asked[k] # wire[i].for
    BY <1>2, <1>5 DEF IndInv, RepliesInFlight, IdOf
  <2>3. \A i, k \in DOMAIN asked : asked[i] = asked[k] => i = k BY DEF IndInv, RepliesInFlight
  <2> QED BY <1>1, <2>1, <2>2, <2>3 DEF RepliesInFlight, Data, IdOf
<1>c5. OwedWaits' BY <1>1, <1>2, <1>8 DEF IndInv, OwedWaits, IdOf
<1> QED BY <1>t, <1>f, <1>c0, <1>c1, <1>c2, <1>c3, <1>c4, <1>c5 DEF IndInv

\* A JSON call gives up: it fails and its channel's slot is free.
LEMMA GivesUpKeeps ==
  ASSUME IndInv, NEW j \in DOMAIN req, JsonGivesUp(j)
  PROVE IndInv'
<1>1. /\ TypeOK /\ ChanShape /\ RegShape /\ ReqShape /\ DevShape /\ WireShape
      /\ MaxChannels \in Nat /\ MaxRequests \in Nat /\ MaxDeviceIds \in Nat
      /\ UNCHANGED <<phase, reg, chan, opens, asked, owner, wire, packets, unmatched, lost>>
  BY Shapes, ClientAssumption DEF IndInv, Shape, JsonGivesUp, devV, ghostV
<1>0. /\ req[j].state = "wait" /\ req' = [req EXCEPT ![j].state = "failed"]
      /\ callbacks' = [callbacks EXCEPT ![IdOf(j)] = 0] /\ abandoned' = abandoned \cup {IdOf(j)}
  BY DEF JsonGivesUp
<1>2. /\ req' \in Seq(Request) /\ Len(req') = Len(req) /\ DOMAIN req' = DOMAIN req
      /\ \A k \in DOMAIN req : /\ req'[k].ch = req[k].ch /\ req'[k].answer = req[k].answer
                              /\ req'[k].state = IF k = j THEN "failed" ELSE req[k].state
  BY <1>0, <1>1, CallChanged
<1>3. \A k \in DOMAIN req : IdOf(k) \in DeviceIds BY CallsNumbered
<1>4. \A s \in DeviceIds : callbacks'[s] = IF s = IdOf(j) THEN 0 ELSE callbacks[s]
  BY <1>0, <1>3, CallsNumbered
<1>t. TypeOK'
  <2>1. callbacks' \in [DeviceIds -> 0..Len(req')] BY <1>0, <1>2, CallsNumbered
  <2>2. abandoned' \subseteq DeviceIds BY <1>0, <1>1, <1>3 DEF TypeOK
  <2> QED BY <1>1, <1>2, <2>1, <2>2 DEF TypeOK
<1>f. NumbersMatch' /\ NumbersUnique' /\ NothingLost' /\ NumbersKnown' /\ NumbersNew' /\ AnnouncedFirst' /\ DeadIsSilent' /\ PendingInOrder' /\ AnswersInOrder' /\ AwaitedPending' /\ NumbersArrive' /\ OpenersOpen' /\ NothingElse'
  BY <1>1 DEF IndInv, NumbersMatch, NumbersUnique, NothingLost, NumbersKnown, NumbersNew, AnnouncedFirst, DeadIsSilent, PendingInOrder, AnswersInOrder, AwaitedPending, NumbersArrive, OpenersOpen, NothingElse, Registered, Contains, Data, Opened, Pending, Awaited
<1>c0. DisconnectReleasesJson' BY <1>1, <1>2 DEF IndInv, DisconnectReleasesJson
<1>c1. AnswerIsMine' BY <1>0, <1>1, <1>2 DEF IndInv, AnswerIsMine, IdOf
<1>c2. CallsOnOpen' BY <1>1, <1>2 DEF IndInv, CallsOnOpen
<1>c3. WaitersOwnSlots'
  <2>1. callbacks[IdOf(j)] = j BY <1>0 DEF IndInv, WaitersOwnSlots
  <2>2. \A k \in DOMAIN req : k # j /\ req[k].state = "wait" => callbacks[IdOf(k)] = k /\ IdOf(k) # IdOf(j)
    BY <2>1 DEF IndInv, WaitersOwnSlots
  <2>3. \A k \in DOMAIN req' : req'[k].state = "wait" => callbacks'[IdOf(k)] = k
    BY <1>2, <1>3, <1>4, <2>2
  <2>4. \A s \in DeviceIds : callbacks'[s] # 0 => callbacks'[s] = callbacks[s] /\ callbacks[s] \in DOMAIN req
    BY <1>1, <1>4 DEF ReqShape
  <2>5. \A s \in DeviceIds : callbacks[s] # 0 => IdOf(callbacks[s]) = s BY DEF IndInv, WaitersOwnSlots
  <2>6. \A s \in DeviceIds : callbacks'[s] # 0 => chan'[req'[callbacks'[s]].ch].id = s
    BY <1>1, <1>2, <2>4, <2>5 DEF IdOf
  <2> QED BY <1>1, <1>2, <2>3, <2>6 DEF WaitersOwnSlots, IdOf
<1>c4. RepliesInFlight'
  <2>1. \A k \in DOMAIN req : Owed(k)' = Owed(k) BY <1>1 DEF Owed, Data
  <2>2. \A k \in DOMAIN req' : Owed(k)' => req'[k].state # "lock"
    BY <1>2, <2>1 DEF IndInv, RepliesInFlight
  <2>3. \A i \in DOMAIN wire : Data(i) /\ wire[i].for # 0 =>
          /\ wire[i].for \in DOMAIN req' /\ wire[i].id = chan[req'[wire[i].for].ch].id
          /\ \A k \in DOMAIN wire : Data(k) /\ wire[i].for = wire[k].for => i = k
          /\ \A k \in DOMAIN asked : asked[k] # wire[i].for
    BY <1>2 DEF IndInv, RepliesInFlight, IdOf
  <2>4. \A i, k \in DOMAIN asked : asked[i] = asked[k] => i = k BY DEF IndInv, RepliesInFlight
  <2> QED BY <1>1, <2>2, <2>3, <2>4 DEF RepliesInFlight, Data, IdOf
<1>c5. OwedWaits'
  <2>1. \A k \in DOMAIN req : Owed(k)' = Owed(k) BY <1>1 DEF Owed, Data
  <2> QED BY <1>0, <1>1, <1>2, <2>1 DEF IndInv, OwedWaits, IdOf
<1> QED BY <1>t, <1>f, <1>c0, <1>c1, <1>c2, <1>c3, <1>c4, <1>c5 DEF IndInv

\* A JSON call gets the lock, takes its channel's slot and sends.
LEMMA JsonSentKeeps ==
  ASSUME IndInv, NEW j \in DOMAIN req, JsonSent(j)
  PROVE IndInv'
<1>1. /\ TypeOK /\ ChanShape /\ RegShape /\ ReqShape /\ DevShape /\ WireShape
      /\ MaxChannels \in Nat /\ MaxRequests \in Nat /\ MaxDeviceIds \in Nat
      /\ UNCHANGED <<phase, reg, chan, opens, owner, wire, packets, unmatched, abandoned, lost>>
  BY Shapes, ClientAssumption DEF IndInv, Shape, JsonSent, devV, ghostV
<1>0. PICK v \in {"wait", "failed"} :
        /\ req' = [req EXCEPT ![j].state = v] /\ (phase = "up" => v = "wait")
        /\ (phase = "closed" => v = "failed")
  BY DEF JsonSent
<1>a. /\ req[j].state = "lock" /\ LockFree(req[j].ch) /\ callbacks' = [callbacks EXCEPT ![IdOf(j)] = j]
      /\ asked' = IF phase = "up" THEN Append(asked, j) ELSE asked
  BY DEF JsonSent
<1>2. /\ req' \in Seq(Request) /\ Len(req') = Len(req) /\ DOMAIN req' = DOMAIN req
      /\ \A k \in DOMAIN req : /\ req'[k].ch = req[k].ch /\ req'[k].answer = req[k].answer
                              /\ req'[k].state = IF k = j THEN v ELSE req[k].state
  BY <1>0, <1>1, CallChanged
<1>3. \A k \in DOMAIN req : IdOf(k) \in DeviceIds BY CallsNumbered
<1>4. \A s \in DeviceIds : callbacks'[s] = IF s = IdOf(j) THEN j ELSE callbacks[s]
  BY <1>a, <1>3, CallsNumbered
<1>b. \A k \in DOMAIN req : IdOf(k) = IdOf(j) => req[k].ch = req[j].ch
  BY CallsNumbered DEF IndInv, NumbersUnique, IdOf
<1>5. /\ asked' \in Seq(DOMAIN req)
      /\ \A i \in DOMAIN asked' : \/ i \in DOMAIN asked /\ asked'[i] = asked[i]
                                  \/ i = Len(asked) + 1 /\ asked'[i] = j
      /\ \A i \in DOMAIN asked : i \in DOMAIN asked' /\ asked'[i] = asked[i]
      /\ phase # "up" => asked' = asked
  <2>1. asked \in Seq(DOMAIN req) BY <1>1 DEF TypeOK
  <2>2. CASE phase = "up"
    <3>1. asked' = Append(asked, j) BY <1>a, <2>2
    <3>2. /\ asked' \in Seq(DOMAIN req) /\ DOMAIN asked' = 1..Len(asked) + 1
          /\ \A i \in 1..Len(asked) : asked'[i] = asked[i]
          /\ asked'[Len(asked) + 1] = j
      BY <2>1, <3>1, Appended
    <3> QED BY <1>1, <2>2, <3>2 DEF DevShape
  <2>3. CASE phase # "up" BY <1>a, <2>1, <2>3
  <2> QED BY <2>2, <2>3
<1>6. \A k \in DOMAIN req : k # j => Owed(k)' = Owed(k)
  <2>1. \A k \in DOMAIN req : k # j /\ Owed(k)' => Owed(k) BY <1>1, <1>5 DEF Owed, Data
  <2>2. \A k \in DOMAIN req : Owed(k) => Owed(k)' BY <1>1, <1>5 DEF Owed, Data
  <2>3. \A k \in DOMAIN req : Owed(k) \in BOOLEAN /\ Owed(k)' \in BOOLEAN BY DEF Owed
  <2> QED BY <2>1, <2>2, <2>3
<1>7. ~Owed(j) BY <1>a DEF IndInv, RepliesInFlight
<1>8. Owed(j)' => v = "wait"
  <2>1. phase # "up" => (Owed(j)' = Owed(j)) BY <1>1, <1>5 DEF Owed, Data
  <2> QED BY <1>0, <1>7, <2>1
<1>t. TypeOK'
  <2>1. callbacks' \in [DeviceIds -> 0..Len(req')]
    <3>1. callbacks \in [DeviceIds -> 0..Len(req)] /\ j \in 0..Len(req) BY <1>1, CallsNumbered DEF ReqShape
    <3> QED BY <1>a, <1>2, <3>1
  <2>2. asked' \in Seq(DOMAIN req') BY <1>2, <1>5
  <2> QED BY <1>1, <1>2, <2>1, <2>2 DEF TypeOK
<1>f. NumbersMatch' /\ NumbersUnique' /\ NothingLost' /\ NumbersKnown' /\ NumbersNew' /\ AnnouncedFirst' /\ PendingInOrder' /\ AnswersInOrder' /\ AwaitedPending' /\ NumbersArrive' /\ OpenersOpen' /\ NothingElse'
  BY <1>1 DEF IndInv, NumbersMatch, NumbersUnique, NothingLost, NumbersKnown, NumbersNew, AnnouncedFirst, PendingInOrder, AnswersInOrder, AwaitedPending, NumbersArrive, OpenersOpen, NothingElse, Registered, Contains, Data, Opened, Pending, Awaited
<1>c0. DisconnectReleasesJson' BY <1>0, <1>1, <1>2 DEF IndInv, DisconnectReleasesJson
<1>c1. AnswerIsMine' BY <1>0, <1>1, <1>2 DEF IndInv, AnswerIsMine, IdOf
<1>c2. DeadIsSilent' BY <1>1, <1>5 DEF IndInv, DeadIsSilent
<1>c3. CallsOnOpen' BY <1>1, <1>2 DEF IndInv, CallsOnOpen
<1>c4. WaitersOwnSlots'
  <2>1. \A k \in DOMAIN req : k # j /\ req[k].state = "wait" => callbacks[IdOf(k)] = k /\ IdOf(k) # IdOf(j)
    BY <1>a, <1>b DEF IndInv, WaitersOwnSlots, LockFree
  <2>2. \A k \in DOMAIN req' : req'[k].state = "wait" => callbacks'[IdOf(k)] = k
    BY <1>2, <1>3, <1>4, <2>1
  <2>4. \A s \in DeviceIds : callbacks[s] # 0 => IdOf(callbacks[s]) = s /\ callbacks[s] \in DOMAIN req
    BY <1>1 DEF IndInv, WaitersOwnSlots, ReqShape
  <2>5. \A s \in DeviceIds : callbacks'[s] # 0 => chan'[req'[callbacks'[s]].ch].id = s
    BY <1>1, <1>2, <1>4, <2>4 DEF IdOf
  <2> QED BY <1>1, <1>2, <2>2, <2>5 DEF WaitersOwnSlots, IdOf
<1>c5. RepliesInFlight'
  <2>1. \A i \in DOMAIN asked : asked[i] # j BY <1>7 DEF Owed
  <2>2. \A i \in DOMAIN wire : Data(i) => wire[i].for # j BY <1>7 DEF Owed
  <2>3. \A i, k \in DOMAIN asked' : asked'[i] = asked'[k] => i = k
    BY <1>5, <2>1 DEF IndInv, RepliesInFlight
  <2>4. \A k \in DOMAIN req' : Owed(k)' => req'[k].state # "lock"
    BY <1>0, <1>2, <1>6 DEF IndInv, RepliesInFlight
  <2>5. \A i \in DOMAIN wire : Data(i) /\ wire[i].for # 0 =>
          /\ wire[i].for \in DOMAIN req' /\ wire[i].id = chan[req'[wire[i].for].ch].id
          /\ \A k \in DOMAIN wire : Data(k) /\ wire[i].for = wire[k].for => i = k
    BY <1>2 DEF IndInv, RepliesInFlight, IdOf
  <2>6. \A i \in DOMAIN wire, k \in DOMAIN asked' : Data(i) /\ wire[i].for # 0 => asked'[k] # wire[i].for
    BY <1>5, <2>2 DEF IndInv, RepliesInFlight
  <2> QED BY <1>1, <2>3, <2>4, <2>5, <2>6 DEF RepliesInFlight, Data, IdOf
<1>c6. OwedWaits' BY <1>1, <1>2, <1>6, <1>8 DEF IndInv, OwedWaits, IdOf
<1> QED BY <1>t, <1>f, <1>c0, <1>c1, <1>c2, <1>c3, <1>c4, <1>c5, <1>c6 DEF IndInv

\* Object m is made, as ch, and takes the place of name n in the registry, or a new one at its end.
Takes(n, m, ch) ==
  /\ chan' \in Seq(Channel) /\ Len(chan') = m /\ m <= MaxChannels /\ m # 0
  /\ m \in DOMAIN chan' /\ chan'[m] = ch
  /\ \A c \in DOMAIN chan : c \in DOMAIN chan' /\ chan'[c] = chan[c] /\ c < m /\ c # 0
  /\ \A c \in DOMAIN chan' : c \in DOMAIN chan \/ c = m
  /\ reg' \in Seq(DOMAIN chan')
  /\ \A i, k \in DOMAIN reg' : chan'[reg'[i]].name = chan'[reg'[k]].name => i = k
  /\ \E e \in DOMAIN reg' :
       /\ reg'[e] = m
       /\ \A i \in DOMAIN reg' : i # e => i \in DOMAIN reg /\ reg'[i] = reg[i]
       /\ \A i \in DOMAIN reg : i # e => i \in DOMAIN reg'
       /\ \/ e \in DOMAIN reg /\ chan[reg[e]].name = n
          \/ e = Len(reg) + 1 /\ e \notin DOMAIN reg

\* A channel object made for name n takes n's place in the registry, or a new one at its end.
LEMMA Registering ==
  ASSUME IndInv, NEW n \in Names, NEW m, m = Len(chan) + 1, NEW ch \in Channel, ch.name = n,
         Len(chan) < MaxChannels, chan' = Append(chan, ch), reg' = Put(n, m)
  PROVE Takes(n, m, ch)
<1>1. ChanShape /\ RegShape /\ chan \in Seq(Channel) /\ reg \in Seq(DOMAIN chan) /\ MaxChannels \in Nat
  BY Shapes, ClientAssumption DEF IndInv, Shape, TypeOK
<1>2. /\ chan' \in Seq(Channel) /\ Len(chan') = m /\ m <= MaxChannels /\ m # 0
      /\ m \in DOMAIN chan' /\ chan'[m] = ch
      /\ \A c \in DOMAIN chan : c \in DOMAIN chan' /\ chan'[c] = chan[c] /\ c < m /\ c # 0
      /\ \A c \in DOMAIN chan' : c \in DOMAIN chan \/ c = m
  <2>1. /\ chan' \in Seq(Channel) /\ Len(chan') = m /\ DOMAIN chan' = 1..m
        /\ \A i \in 1..Len(chan) : chan'[i] = chan[i]
        /\ chan'[m] = ch
    BY <1>1, Appended
  <2> QED BY <1>1, <2>1 DEF ChanShape
<1>d. PICK D : D = DOMAIN chan' OBVIOUS
<1>3. reg \in Seq(D) /\ m \in D BY <1>d, <1>1, <1>2, Wider
<1>4. CASE Position(n) = {}
  <2>1. reg' = Append(reg, m) BY <1>4 DEF Put
  <2>2. /\ reg' \in Seq(D) /\ DOMAIN reg' = 1..Len(reg) + 1
        /\ \A i \in 1..Len(reg) : reg'[i] = reg[i]
        /\ reg'[Len(reg) + 1] = m
    BY SMTT(40), <1>3, <2>1, Appended
  <2>3. \A i \in DOMAIN reg : chan[reg[i]].name # n BY <1>4 DEF Position
  <2>4. \A i \in DOMAIN reg' : i \in DOMAIN reg \/ i = Len(reg) + 1 BY <1>1, <2>2 DEF RegShape
  <2>5. \A i, k \in DOMAIN reg' : chan'[reg'[i]].name = chan'[reg'[k]].name => i = k
    BY <1>1, <1>2, <2>2, <2>3, <2>4, SMTT(60) DEF RegShape
  <2>6. Len(reg) + 1 \in DOMAIN reg' /\ Len(reg) + 1 \notin DOMAIN reg /\ \A i \in DOMAIN reg : i \in DOMAIN reg'
    BY <1>1, <2>2 DEF RegShape
  <2> QED BY <1>d, <1>1, <1>2, <2>2, <2>4, <2>5, <2>6, ZenonT(60) DEF RegShape, Takes
<1>5. CASE Position(n) # {}
  <2>1. PICK e \in Position(n) : reg' = [reg EXCEPT ![e] = m] BY <1>5 DEF Put
  <2>2. e \in DOMAIN reg /\ chan[reg[e]].name = n BY DEF Position
  <2>3. /\ reg' \in Seq(D) /\ DOMAIN reg' = DOMAIN reg
        /\ \A i \in DOMAIN reg : reg'[i] = IF i = e THEN m ELSE reg[i]
    <3>1. e \in 1..Len(reg) BY <1>1, <2>2 DEF RegShape
    <3> QED BY <1>3, <2>1, <3>1, ExceptSeq
  <2>4. \A i \in DOMAIN reg : chan[reg[i]].name = n => i = e BY <1>1, <2>2 DEF RegShape
  <2>6. \A i \in DOMAIN reg : i # e => chan'[reg'[i]].name = chan[reg[i]].name /\ chan[reg[i]].name # n
    BY <1>1, <1>2, <2>3, <2>4 DEF RegShape
  <2>7. chan'[reg'[e]].name = n BY <1>2, <2>2, <2>3
  <2>5. \A i, k \in DOMAIN reg' : chan'[reg'[i]].name = chan'[reg'[k]].name => i = k
    <3> SUFFICES ASSUME NEW i \in DOMAIN reg', NEW k \in DOMAIN reg', chan'[reg'[i]].name = chan'[reg'[k]].name
                 PROVE i = k
      OBVIOUS
    <3>1. CASE i # e /\ k # e
      <4>1. i \in DOMAIN reg /\ k \in DOMAIN reg BY <2>3
      <4>2. chan[reg[i]].name = chan[reg[k]].name BY <2>6, <3>1, <4>1
      <4> QED BY <1>1, <4>1, <4>2 DEF RegShape
    <3>2. \A x \in DOMAIN reg' : chan'[reg'[x]].name = n => x = e BY <2>3, <2>6, ZenonT(60)
    <3>3. CASE i = e BY <2>7, <3>2, <3>3
    <3>4. CASE k = e BY <2>7, <3>2, <3>4
    <3> QED BY <3>1, <3>3, <3>4
  <2> QED BY <1>d, <1>2, <2>2, <2>3, <2>5 DEF Takes
<1> QED BY <1>4, <1>5

\* A channel object is made and registered, by open_channel or as a placeholder.
LEMMA RegisteringKeeps ==
  ASSUME IndInv, NEW n \in Names, NEW ph \in BOOLEAN, NEW o \in {"wait", "failed", "none"}, ph => o = "none",
         NEW m, m = Len(chan) + 1, Len(chan) < MaxChannels,
         chan' = Append(chan, NewChannel(n, ph, o)), reg' = Put(n, m),
         ~unmatched' => ~unmatched /\ ~Displaces(n) /\ (ph \/ ~Overtakes(n)), unmatched' \in BOOLEAN,
         opens' = IF ~ph /\ phase = "up" THEN Append(opens, m) ELSE opens,
         UNCHANGED <<phase, req, callbacks, asked, owner, wire, packets, abandoned, lost>>
  PROVE IndInv'
<1>1. /\ TypeOK /\ ChanShape /\ RegShape /\ ReqShape /\ DevShape /\ WireShape /\ MaxChannels \in Nat
      /\ MaxDeviceIds \in Nat
  BY Shapes, ClientAssumption DEF IndInv, Shape
<1>a. PICK ch : ch = NewChannel(n, ph, o) OBVIOUS
<1>0. ch \in Channel /\ ch.name = n /\ ch.placeholder = ph /\ ch.id = 0 /\ ch.opener = o
  BY <1>a, <1>1 DEF Channel, NewChannel
<1>b. Takes(n, m, ch)
  <2>1. chan' = Append(chan, ch) BY <1>a
  <2> QED BY <1>0, <2>1, Registering
<1>2. /\ chan' \in Seq(Channel) /\ Len(chan') = m /\ m <= MaxChannels /\ m # 0
      /\ m \in DOMAIN chan' /\ chan'[m] = ch
      /\ \A c \in DOMAIN chan : c \in DOMAIN chan' /\ chan'[c] = chan[c] /\ c < m /\ c # 0
      /\ \A c \in DOMAIN chan' : c \in DOMAIN chan \/ c = m
      /\ reg' \in Seq(DOMAIN chan')
      /\ \A i, k \in DOMAIN reg' : chan'[reg'[i]].name = chan'[reg'[k]].name => i = k
      /\ \E e \in DOMAIN reg' :
           /\ reg'[e] = m
           /\ \A i \in DOMAIN reg' : i # e => i \in DOMAIN reg /\ reg'[i] = reg[i]
           /\ \A i \in DOMAIN reg : i # e => i \in DOMAIN reg'
           /\ \/ e \in DOMAIN reg /\ chan[reg[e]].name = n
              \/ e = Len(reg) + 1 /\ e \notin DOMAIN reg
  BY <1>b DEF Takes
<1>3. PICK e \in DOMAIN reg' :
           /\ reg'[e] = m
           /\ \A i \in DOMAIN reg' : i # e => i \in DOMAIN reg /\ reg'[i] = reg[i]
           /\ \A i \in DOMAIN reg : i # e => i \in DOMAIN reg'
           /\ \/ e \in DOMAIN reg /\ chan[reg[e]].name = n
              \/ e = Len(reg) + 1 /\ e \notin DOMAIN reg
  BY <1>2
<1>4. /\ opens' \in Seq(DOMAIN chan')
      /\ \A i \in DOMAIN opens' : \/ i \in DOMAIN opens /\ opens'[i] = opens[i]
                                  \/ i = Len(opens) + 1 /\ opens'[i] = m /\ ~ph
      /\ \A i \in DOMAIN opens : i \in DOMAIN opens' /\ opens'[i] = opens[i]
      /\ phase # "up" => opens' = opens
      /\ phase = "up" /\ ~ph => \E i \in DOMAIN opens' : opens'[i] = m
  <2>1. opens \in Seq(DOMAIN chan') BY <1>1, <1>2, Wider DEF TypeOK
  <2>2. CASE ~ph /\ phase = "up"
    <3>1. /\ opens' \in Seq(DOMAIN chan') /\ DOMAIN opens' = 1..Len(opens) + 1
          /\ \A i \in 1..Len(opens) : opens'[i] = opens[i]
          /\ opens'[Len(opens) + 1] = m
      BY <1>2, <2>1, <2>2, Appended
    <3> QED BY <1>1, <2>2, <3>1 DEF DevShape
  <2>3. CASE ph \/ phase # "up" BY <2>1, <2>3
  <2> QED BY <2>2, <2>3
<1>5. \A c \in DOMAIN chan : Pending(c)' = Pending(c) BY <1>2 DEF Pending
<1>6. \A c \in DOMAIN chan : Registered(c)' => Registered(c)
  BY <1>2, <1>3, SMTT(60) DEF Registered, Contains
<1>7. \A c \in DOMAIN chan : Awaited(c)' = Awaited(c)
  <2>1. \A c \in DOMAIN chan : Awaited(c) => Awaited(c)' BY <1>4 DEF Awaited, Opened
  <2>2. \A c \in DOMAIN chan : Awaited(c)' => Awaited(c) BY <1>2, <1>4 DEF Awaited, Opened
  <2>3. \A c \in DOMAIN chan : Awaited(c) \in BOOLEAN /\ Awaited(c)' \in BOOLEAN BY DEF Awaited
  <2> QED BY <2>1, <2>2, <2>3
<1>8. \A s \in DOMAIN owner : owner[s] # 0 => owner[s] \in DOMAIN chan BY <1>1 DEF DevShape
<1>9. \A i \in DOMAIN wire : wire[i].id \in DOMAIN owner /\ wire[i].id # 0
  BY <1>1, WireOwned DEF DevShape
<1>10. \A j \in DOMAIN req : req[j].ch \in DOMAIN chan BY DEF IndInv, CallsOnOpen
<1>t. TypeOK'
  <2>1. owner' \in Seq(0..Len(chan'))
    <3>1. owner \in Seq(0..Len(chan)) /\ 0..Len(chan) \subseteq 0..m BY <1>1 DEF TypeOK, ChanShape
    <3> QED BY <1>2, <3>1, Wider
  <2> QED BY <1>1, <1>2, <1>4, <2>1 DEF TypeOK
<1>c1. NumbersMatch' BY <1>0, <1>2 DEF IndInv, NumbersMatch
<1>c2. NumbersUnique' BY <1>0, <1>2 DEF IndInv, NumbersUnique
<1>c3. NothingLost'
  <2>1. \A s \in lost : s \in DOMAIN owner
    BY <1>1 DEF IndInv, NumbersKnown, TypeOK, DeviceIds, DevShape
  <2> SUFFICES ASSUME NEW s \in lost, owner[s] # 0, ~unmatched' PROVE ~Registered(owner[s])'
    BY DEF NothingLost
  <2>2. owner[s] \in DOMAIN chan /\ ~Registered(owner[s]) BY <1>8, <2>1 DEF IndInv, NothingLost
  <2>3. ~Registered(owner[s])' BY <1>6, <2>2 DEF Registered
  <2> QED BY <2>3
<1>c4. AnswerIsMine'
  <2>1. unmatched => unmatched' OBVIOUS
  <2> QED BY <1>2, <1>10, <2>1 DEF IndInv, AnswerIsMine, IdOf
<1>c5. DisconnectReleasesJson' BY DEF IndInv, DisconnectReleasesJson
<1>c6. NumbersKnown' BY <1>0, <1>1, <1>2, SMTT(60) DEF IndInv, NumbersKnown, DevShape
<1>c7. NumbersNew' BY <1>0, <1>2, <1>9 DEF IndInv, NumbersNew, Data, Opened
<1>c8. AnnouncedFirst' BY DEF IndInv, AnnouncedFirst, Data
<1>c9. DeadIsSilent' BY <1>4 DEF IndInv, DeadIsSilent
<1>c10. PendingInOrder'
  <2> SUFFICES ASSUME ~unmatched', NEW i \in DOMAIN reg', NEW k \in DOMAIN reg', i < k,
                      Pending(reg[i])', Pending(reg[k])'
               PROVE reg'[i] < reg'[k]
    BY DEF PendingInOrder
  <2>1. CASE i # e /\ k # e
    <3>1. reg[i] \in DOMAIN chan /\ reg[k] \in DOMAIN chan /\ reg'[i] = reg[i] /\ reg'[k] = reg[k]
          /\ i \in DOMAIN reg /\ k \in DOMAIN reg
      BY <1>1, <1>3, <2>1 DEF RegShape
    <3>2. Pending(reg[i]) /\ Pending(reg[k]) BY <1>2, <3>1 DEF Pending
    <3> QED BY <3>1, <3>2 DEF IndInv, PendingInOrder
  <2>2. CASE k = e BY <1>1, <1>2, <1>3, <2>2, SMTT(60) DEF RegShape
  <2>3. CASE i = e
    <3>1. ~ph BY <1>0, <1>2, <1>3, <2>3 DEF Pending
    <3>2. k # e /\ k \in DOMAIN reg /\ reg'[k] = reg[k] /\ reg[k] \in DOMAIN chan
      BY <1>1, <1>3, <2>3 DEF RegShape
    <3>3. e \in DOMAIN reg /\ chan[reg[e]].name = n BY <1>1, <1>3, <2>3, <3>2 DEF RegShape
    <3>4. Pending(reg[k]) BY <1>2, <3>2 DEF Pending
    <3>5. Overtakes(n) BY <2>3, <3>2, <3>3, <3>4 DEF Overtakes, Position
    <3> QED BY <3>1, <3>5
  <2> QED BY <2>1, <2>2, <2>3
<1>c11. AnswersInOrder'
  <2> SUFFICES ASSUME ~unmatched' PROVE AnswersInOrder' BY DEF AnswersInOrder
  <2>0. \A i, k \in DOMAIN opens : i < k => opens[i] < opens[k] BY DEF IndInv, AnswersInOrder
  <2>4. \A i \in DOMAIN opens : opens[i] < m /\ i < Len(opens) + 1 BY <1>1, <1>2 DEF DevShape
  <2>1. \A i, k \in DOMAIN opens' : i < k => opens'[i] < opens'[k]
    <3> SUFFICES ASSUME NEW i \in DOMAIN opens', NEW k \in DOMAIN opens', i < k PROVE opens'[i] < opens'[k]
      OBVIOUS
    <3>0. Len(opens) \in Nat /\ DOMAIN opens = 1..Len(opens) BY <1>1 DEF DevShape
    <3>1. i \in DOMAIN opens
      <4>1. (i \in DOMAIN opens \/ i = Len(opens) + 1) /\ (k \in DOMAIN opens \/ k = Len(opens) + 1) BY <1>4
      <4> QED BY ONLY <3>0, <4>1, i < k
    <3>2. CASE k \in DOMAIN opens BY <1>4, <2>0, <3>1, <3>2
    <3>3. CASE k \notin DOMAIN opens BY <1>4, <2>4, <3>1, <3>3
    <3> QED BY <3>2, <3>3
  <2>2. \A i \in DOMAIN wire : Opened(i) => owner[wire[i].id] \in DOMAIN chan
    BY <1>8, <1>9 DEF IndInv, NumbersNew, Opened, Data
  <2>3. \A i \in DOMAIN wire, k \in DOMAIN opens' : Opened(i) => owner[wire[i].id] < opens'[k]
    BY <1>2, <1>4, <2>2, SMTT(60) DEF IndInv, AnswersInOrder
  <2> QED BY <2>1, <2>3 DEF IndInv, AnswersInOrder, Opened
<1>c12. AwaitedPending'
  <2> SUFFICES ASSUME ~unmatched' PROVE AwaitedPending' BY DEF AwaitedPending
  <2>1. ASSUME NEW c \in DOMAIN chan, Awaited(c)' PROVE Registered(c)' /\ Pending(c)'
    <3>1. Registered(c) /\ Pending(c) BY <1>7, <2>1 DEF IndInv, AwaitedPending
    <3>2. PICK i \in DOMAIN reg : reg[i] = c BY <3>1 DEF Registered, Contains
    <3>3. i # e BY <1>3, <3>1, <3>2 DEF Displaces, Position
    <3> QED BY <1>3, <1>5, <3>1, <3>2, <3>3 DEF Registered, Contains
  <2>2. ASSUME NEW c \in DOMAIN chan, phase = "up", Registered(c)', Pending(c)' PROVE Awaited(c)'
    BY <1>5, <1>6, <1>7, <2>2 DEF IndInv, AwaitedPending
  <2>3. Awaited(m)' => ~ph
    <3>1. \A i \in DOMAIN opens : opens[i] # m BY <1>1, <1>2 DEF DevShape
    <3>2. \A i \in DOMAIN wire : owner[wire[i].id] # m BY <1>2, <1>8, <1>9
    <3> QED BY <1>4, <3>1, <3>2 DEF Awaited
  <2>4. Awaited(m)' => Registered(m)' /\ Pending(m)'
    BY <1>0, <1>2, <1>3, <2>3, SMTT(60) DEF Registered, Contains, Pending
  <2>5. phase = "up" /\ Pending(m)' => Awaited(m)' BY <1>0, <1>2, <1>4 DEF Pending, Awaited
  <2> QED BY <1>2, <2>1, <2>2, <2>4, <2>5 DEF AwaitedPending
<1>c13. NumbersArrive' BY <1>2, <1>8 DEF IndInv, NumbersArrive, Opened
<1>c14. OpenersOpen' BY <1>0, <1>2 DEF IndInv, OpenersOpen
<1>c15. CallsOnOpen' BY <1>2 DEF IndInv, CallsOnOpen
<1>c16. WaitersOwnSlots'
  <2>1. \A s \in DeviceIds : callbacks[s] # 0 => callbacks[s] \in DOMAIN req BY <1>1 DEF ReqShape
  <2> QED BY <1>2, <1>10, <2>1 DEF IndInv, WaitersOwnSlots, IdOf
<1>c17. RepliesInFlight' BY <1>2, <1>10 DEF IndInv, RepliesInFlight, Data, IdOf, Owed
<1>c18. NothingElse' BY <1>2, <1>8, <1>9 DEF IndInv, NothingElse, Data
<1>c19. OwedWaits'
  <2>1. unmatched => unmatched' OBVIOUS
  <2> QED BY <1>2, <1>10, <2>1 DEF IndInv, OwedWaits, IdOf, Owed, Data
<1> QED BY <1>t, <1>c1, <1>c2, <1>c3, <1>c4, <1>c5, <1>c6, <1>c7, <1>c8, <1>c9, <1>c10, <1>c11, <1>c12, <1>c13,
           <1>c14, <1>c15, <1>c16, <1>c17, <1>c18, <1>c19 DEF IndInv

\* open_channel, up to its wait.
LEMMA OpenChannelKeeps == ASSUME IndInv, OpenChannel PROVE IndInv'
<1>1. PICK n \in Names, ok \in BOOLEAN :
        /\ reg' = Put(n, Len(chan) + 1)
        /\ unmatched' = (unmatched \/ Displaces(n) \/ Overtakes(n))
        /\ chan' = Append(chan, NewChannel(n, FALSE, IF ok THEN "wait" ELSE "failed"))
  BY DEF OpenChannel
<1>2. PICK o \in {"wait", "failed", "none"} : o = IF ok THEN "wait" ELSE "failed" OBVIOUS
<1>3. PICK m : m = Len(chan) + 1 OBVIOUS
<1>4. unmatched \in BOOLEAN BY DEF IndInv, TypeOK
<1>5. unmatched' \in BOOLEAN BY <1>1, <1>4 DEF Displaces, Overtakes
<1>6. /\ Len(chan) < MaxChannels /\ opens' = IF phase = "up" THEN Append(opens, m) ELSE opens
      /\ UNCHANGED <<phase, req, callbacks, asked, owner, wire, packets, abandoned, lost>>
  BY <1>3 DEF OpenChannel
<1> QED BY <1>1, <1>2, <1>3, <1>5, <1>6, RegisteringKeeps

\* A placeholder is registered.
LEMMA PlaceholderKeeps == ASSUME IndInv, RegisterPlaceholder PROVE IndInv'
<1>1. PICK n \in Names :
        /\ reg' = Put(n, Len(chan) + 1) /\ unmatched' = (unmatched \/ Displaces(n))
        /\ chan' = Append(chan, NewChannel(n, TRUE, "none"))
  BY DEF RegisterPlaceholder
<1>3. PICK m : m = Len(chan) + 1 OBVIOUS
<1>4. unmatched \in BOOLEAN BY DEF IndInv, TypeOK
<1>5. unmatched' \in BOOLEAN BY <1>1, <1>4 DEF Displaces
<1>6. /\ Len(chan) < MaxChannels
      /\ UNCHANGED <<phase, req, callbacks, opens, asked, owner, wire, packets, abandoned, lost>>
  BY DEF RegisterPlaceholder, devV
<1> QED BY <1>1, <1>3, <1>5, <1>6, RegisteringKeeps

\* remove_channel.
LEMMA RemoveKeeps == ASSUME IndInv, RemoveChannel PROVE IndInv'
<1>1. /\ TypeOK /\ ChanShape /\ RegShape /\ ReqShape /\ DevShape /\ WireShape
      /\ UNCHANGED <<phase, chan, req, callbacks, opens, asked, owner, wire, packets, abandoned, lost>>
  BY Shapes DEF IndInv, Shape, RemoveChannel, devV
<1>2. PICK e \in DOMAIN reg : reg' = RemoveAt(reg, e) /\ unmatched' = (unmatched \/ Pending(reg[e]))
  BY DEF RemoveChannel
<1>3. /\ reg' \in Seq(DOMAIN chan) /\ DOMAIN reg' = 1..Len(reg) - 1
      /\ \A k \in 1..Len(reg) - 1 : reg'[k] = IF k < e THEN reg[k] ELSE reg[k + 1]
  <2>1. reg \in Seq(DOMAIN chan) BY <1>1 DEF TypeOK
  <2> QED BY <1>2, <2>1, LeftOut
<1>4. /\ \A k \in DOMAIN reg' : \/ k < e /\ k \in DOMAIN reg /\ reg'[k] = reg[k]
                                \/ k >= e /\ k + 1 \in DOMAIN reg /\ reg'[k] = reg[k + 1]
      /\ \A k \in DOMAIN reg : k # e => \E x \in DOMAIN reg' : reg'[x] = reg[k]
  <2>0. Len(reg) \in Nat /\ DOMAIN reg = 1..Len(reg) /\ e \in 1..Len(reg) BY <1>1 DEF RegShape
  <2>1. \A k \in DOMAIN reg' : \/ k < e /\ k \in DOMAIN reg /\ reg'[k] = reg[k]
                               \/ k >= e /\ k + 1 \in DOMAIN reg /\ reg'[k] = reg[k + 1]
    BY <1>3, <2>0
  <2>2. ASSUME NEW k \in DOMAIN reg, k # e PROVE \E x \in DOMAIN reg' : reg'[x] = reg[k]
    <3>1. CASE k < e
      <4>1. k \in DOMAIN reg' /\ reg'[k] = reg[k] BY <1>3, <2>0, <3>1
      <4> QED BY <4>1
    <3>2. CASE k > e
      <4>1. k - 1 \in DOMAIN reg' /\ ~(k - 1 < e) /\ (k - 1) + 1 = k BY <1>3, <2>0, <3>2
      <4>2. reg'[k - 1] = reg[k] BY <1>3, <4>1
      <4> QED BY <4>1, <4>2
    <3> QED BY <2>0, <2>2, <3>1, <3>2
  <2> QED BY <2>1, <2>2
<1>5. \A c \in DOMAIN chan : Registered(c)' => Registered(c)
  <2>1. DOMAIN reg = 1..Len(reg) BY <1>1 DEF RegShape
  <2>2. DOMAIN reg' = 1..Len(reg') BY <1>3
  <2> QED BY <1>4, <2>1, <2>2 DEF Registered, Contains
<1>6. \A c \in DOMAIN chan : Registered(c) /\ c # reg[e] => Registered(c)'
  <2>1. DOMAIN reg = 1..Len(reg) BY <1>1 DEF RegShape
  <2>2. DOMAIN reg' = 1..Len(reg') BY <1>3
  <2> QED BY <1>4, <2>1, <2>2 DEF Registered, Contains
<1>7. unmatched \in BOOLEAN /\ unmatched' \in BOOLEAN /\ (unmatched => unmatched')
  BY <1>1, <1>2 DEF TypeOK, Pending
<1>8. \A i, k \in DOMAIN reg' : i < k => \E x, y \in DOMAIN reg : x < y /\ reg'[i] = reg[x] /\ reg'[k] = reg[y]
  <2>0. Len(reg) \in Nat /\ DOMAIN reg = 1..Len(reg) /\ e \in 1..Len(reg) BY <1>1 DEF RegShape
  <2> SUFFICES ASSUME NEW i \in DOMAIN reg', NEW k \in DOMAIN reg', i < k
               PROVE \E x, y \in DOMAIN reg : x < y /\ reg'[i] = reg[x] /\ reg'[k] = reg[y]
    OBVIOUS
  <2>1. PICK x \in DOMAIN reg : reg'[i] = reg[x] /\ x = IF i < e THEN i ELSE i + 1 BY <1>3, <1>4, <2>0
  <2>2. PICK y \in DOMAIN reg : reg'[k] = reg[y] /\ y = IF k < e THEN k ELSE k + 1 BY <1>3, <1>4, <2>0
  <2>3. x < y BY <1>3, <2>0, <2>1, <2>2
  <2> QED BY <2>1, <2>2, <2>3
<1>t. TypeOK'
  <2>1. \A i, k \in DOMAIN reg' : chan[reg'[i]].name = chan[reg'[k]].name => i = k
    <3>0. Len(reg) \in Nat /\ DOMAIN reg = 1..Len(reg) /\ e \in 1..Len(reg) BY <1>1 DEF RegShape
    <3> SUFFICES ASSUME NEW i \in DOMAIN reg', NEW k \in DOMAIN reg', i < k PROVE chan[reg'[i]].name # chan[reg'[k]].name
      BY <1>3, <3>0
    <3>1. PICK x \in DOMAIN reg, y \in DOMAIN reg : x < y /\ reg'[i] = reg[x] /\ reg'[k] = reg[y] BY <1>8
    <3> QED BY <1>1, <3>0, <3>1 DEF RegShape
  <2> QED BY <1>1, <1>3, <1>7, <2>1 DEF TypeOK
<1>f. NumbersUnique' /\ DisconnectReleasesJson' /\ NumbersKnown' /\ NumbersNew' /\ AnnouncedFirst' /\ DeadIsSilent' /\ OpenersOpen' /\ CallsOnOpen' /\ WaitersOwnSlots' /\ RepliesInFlight' /\ NothingElse'
  BY SMTT(40), <1>1 DEF IndInv, NumbersUnique, DisconnectReleasesJson, NumbersKnown, NumbersNew, AnnouncedFirst, DeadIsSilent, OpenersOpen, CallsOnOpen, WaitersOwnSlots, RepliesInFlight, NothingElse, Data, Opened, IdOf, Owed
<1>c1. NumbersMatch' BY <1>1, <1>7 DEF IndInv, NumbersMatch
<1>c2. NothingLost'
  <2> SUFFICES ASSUME NEW s \in lost, owner[s] # 0, ~unmatched PROVE ~Registered(owner[s])'
    BY <1>1, <1>7 DEF NothingLost
  <2>1. s \in DOMAIN owner BY <1>1 DEF IndInv, NumbersKnown, TypeOK, DeviceIds, DevShape
  <2>2. owner[s] \in DOMAIN chan /\ ~Registered(owner[s]) BY <1>1, <2>1 DEF IndInv, NothingLost, DevShape
  <2> QED BY <1>1, <1>5, <2>2 DEF Registered
<1>c3. AnswerIsMine' BY <1>1, <1>7 DEF IndInv, AnswerIsMine, IdOf
<1>c4. PendingInOrder'
  <2> SUFFICES ASSUME ~unmatched, NEW i \in DOMAIN reg', NEW k \in DOMAIN reg', i < k,
                      Pending(reg[i])', Pending(reg[k])'
               PROVE reg'[i] < reg'[k]
    BY <1>7 DEF PendingInOrder
  <2>1. PICK x \in DOMAIN reg, y \in DOMAIN reg : x < y /\ reg'[i] = reg[x] /\ reg'[k] = reg[y] BY <1>8
  <2>2. Pending(reg[x]) /\ Pending(reg[y]) BY <1>1, <2>1 DEF Pending
  <2> QED BY <2>1, <2>2 DEF IndInv, PendingInOrder
<1>c5. AnswersInOrder' BY <1>1, <1>7 DEF IndInv, AnswersInOrder, Opened
<1>c6. AwaitedPending'
  <2> SUFFICES ASSUME ~unmatched, ~Pending(reg[e]) PROVE AwaitedPending' BY <1>2 DEF AwaitedPending
  <2>1. \A c \in DOMAIN chan : Awaited(c)' = Awaited(c) /\ Pending(c)' = Pending(c)
    BY <1>1 DEF Awaited, Opened, Pending
  <2>2. \A c \in DOMAIN chan : Awaited(c) => Registered(c)' /\ Pending(c)
    BY <1>6 DEF IndInv, AwaitedPending
  <2>3. phase = "up" => \A c \in DOMAIN chan : Registered(c)' /\ Pending(c) => Awaited(c)
    BY <1>5 DEF IndInv, AwaitedPending
  <2> QED BY <1>1, <2>1, <2>2, <2>3 DEF AwaitedPending
<1>c7. NumbersArrive' BY <1>1, <1>7 DEF IndInv, NumbersArrive, Opened
<1>c8. OwedWaits' BY <1>1, <1>7 DEF IndInv, OwedWaits, IdOf, Owed, Data
<1> QED BY <1>t, <1>f, <1>c1, <1>c2, <1>c3, <1>c4, <1>c5, <1>c6, <1>c7, <1>c8 DEF IndInv

\* The first packet is read: what is left was behind it.
LEMMA WireShifted ==
  ASSUME IndInv, wire # <<>>, wire' = Tail(wire)
  PROVE /\ wire' \in Seq(Packet) /\ 1 \in DOMAIN wire /\ Head(wire) = wire[1]
        /\ \A i \in DOMAIN wire' : /\ i + 1 \in DOMAIN wire /\ wire'[i] = wire[i + 1]
                                  /\ i + 1 # 1 /\ 1 < i + 1 /\ i \in Nat
        /\ \A i \in DOMAIN wire : i = 1 \/ \E k \in DOMAIN wire' : k + 1 = i /\ wire'[k] = wire[i]
<1>1. wire \in Seq(Packet) /\ Len(wire) \in Nat /\ DOMAIN wire = 1..Len(wire) BY DEF IndInv, TypeOK
<1>2. /\ wire' \in Seq(Packet) /\ 1 \in DOMAIN wire /\ Head(wire) = wire[1]
      /\ DOMAIN wire' = 1..Len(wire) - 1
      /\ \A i \in 1..Len(wire) - 1 : wire'[i] = wire[i + 1] /\ i + 1 \in DOMAIN wire
  BY <1>1, Shifted
<1>3. ASSUME NEW i \in DOMAIN wire, i # 1 PROVE \E k \in DOMAIN wire' : k + 1 = i /\ wire'[k] = wire[i]
  <2>1. i - 1 \in DOMAIN wire' /\ (i - 1) + 1 = i BY <1>1, <1>2, <1>3
  <2>2. wire'[i - 1] = wire[i] BY <1>2, <2>1
  <2> QED BY <2>1, <2>2
<1> QED BY <1>1, <1>2, <1>3

\* What holds of the packets in flight still holds of those left.
LEMMA WireLeft ==
  ASSUME IndInv, wire # <<>>, wire' = Tail(wire), UNCHANGED <<owner, opens, unmatched, phase>>, phase = "up"
  PROVE AnnouncedFirst' /\ DeadIsSilent' /\ AnswersInOrder'
<1>1. /\ 1 \in DOMAIN wire
      /\ \A i \in DOMAIN wire' : /\ i + 1 \in DOMAIN wire /\ wire'[i] = wire[i + 1] /\ i \in Nat
  BY WireShifted
<1>2. AnnouncedFirst'
  <2> SUFFICES ASSUME NEW i \in DOMAIN wire', NEW k \in DOMAIN wire', wire'[i].kind # "data",
                      wire'[i].id = wire'[k].id, i # k
               PROVE i < k /\ wire'[k].kind = "data"
    BY DEF AnnouncedFirst, Data
  <2>1. i + 1 \in DOMAIN wire /\ k + 1 \in DOMAIN wire /\ i + 1 # k + 1 /\ i \in Nat /\ k \in Nat BY <1>1
  <2>2. i + 1 < k + 1 /\ wire[k + 1].kind = "data" BY <1>1, <2>1 DEF IndInv, AnnouncedFirst, Data
  <2> QED BY <1>1, <2>1, <2>2
<1>3. AnswersInOrder'
  <2> SUFFICES ASSUME ~unmatched PROVE AnswersInOrder' BY DEF AnswersInOrder
  <2>1. ASSUME NEW i \in DOMAIN wire', NEW k \in DOMAIN wire', i < k, wire'[i].kind = "opened", wire'[k].kind = "opened"
        PROVE owner[wire'[i].id] < owner[wire'[k].id]
    <3>1. i + 1 \in DOMAIN wire /\ k + 1 \in DOMAIN wire /\ i + 1 < k + 1 BY <1>1, <2>1
    <3> QED BY <1>1, <2>1, <3>1 DEF IndInv, AnswersInOrder, Opened
  <2>2. \A i \in DOMAIN wire', k \in DOMAIN opens : wire'[i].kind = "opened" => owner[wire'[i].id] < opens[k]
    BY <1>1 DEF IndInv, AnswersInOrder, Opened
  <2>3. \A i, k \in DOMAIN opens : i < k => opens[i] < opens[k] BY DEF IndInv, AnswersInOrder
  <2> QED BY <2>1, <2>2, <2>3 DEF AnswersInOrder, Opened
<1> QED BY <1>2, <1>3 DEF DeadIsSilent

\* Replies in flight that are left were in flight before.
LEMMA RepliesLeft ==
  ASSUME IndInv, wire # <<>>, wire' = Tail(wire), UNCHANGED <<asked>>
  PROVE /\ \A j \in DOMAIN req : Owed(j)' => Owed(j)
        /\ \A i \in DOMAIN wire' : wire'[i].kind = "data" /\ wire'[i].for # 0 =>
             /\ wire'[i].for \in DOMAIN req /\ wire'[i].id = chan[req[wire'[i].for].ch].id
             /\ \A k \in DOMAIN wire' : wire'[k].kind = "data" /\ wire'[i].for = wire'[k].for => i = k
             /\ \A k \in DOMAIN asked : asked[k] # wire'[i].for
<1>1. /\ 1 \in DOMAIN wire
      /\ \A i \in DOMAIN wire' : /\ i + 1 \in DOMAIN wire /\ wire'[i] = wire[i + 1] /\ i \in Nat
  BY WireShifted
<1>2. \A j \in DOMAIN req : Owed(j)' => Owed(j) BY <1>1 DEF Owed, Data
<1>3. ASSUME NEW i \in DOMAIN wire', wire'[i].kind = "data", wire'[i].for # 0
      PROVE /\ wire'[i].for \in DOMAIN req /\ wire'[i].id = chan[req[wire'[i].for].ch].id
            /\ \A k \in DOMAIN wire' : wire'[k].kind = "data" /\ wire'[i].for = wire'[k].for => i = k
            /\ \A k \in DOMAIN asked : asked[k] # wire'[i].for
  <2>1. i + 1 \in DOMAIN wire /\ wire'[i] = wire[i + 1] /\ i \in Nat BY <1>1
  <2>2. /\ wire[i + 1].for \in DOMAIN req /\ wire[i + 1].id = chan[req[wire[i + 1].for].ch].id
        /\ \A k \in DOMAIN wire : wire[k].kind = "data" /\ wire[i + 1].for = wire[k].for => i + 1 = k
        /\ \A k \in DOMAIN asked : asked[k] # wire[i + 1].for
    BY <1>3, <2>1 DEF IndInv, RepliesInFlight, Data, IdOf
  <2>3. \A k \in DOMAIN wire' : wire'[k].kind = "data" /\ wire'[i].for = wire'[k].for => i + 1 = k + 1
    BY <1>1, <2>1, <2>2
  <2> QED BY <1>1, <2>1, <2>2, <2>3
<1> QED BY <1>2, <1>3

\* A number of the device is read: it goes to d, or to nobody if d = 0.
LEMMA NumberKeeps ==
  ASSUME IndInv, phase = "up", wire # <<>>, wire' = Tail(wire), wire[1].kind # "data",
         NEW d, d = 0 \/ d \in DOMAIN chan,
         d # 0 => /\ chan[d].id = 0 /\ chan[d].placeholder = (wire[1].kind = "deviceOpen"),
         wire[1].kind = "opened" /\ ~unmatched => d = owner[wire[1].id],
         chan' = [c \in DOMAIN chan |-> IF c = d THEN [chan[c] EXCEPT !.id = wire[1].id] ELSE chan[c]],
         UNCHANGED <<phase, reg, req, callbacks, opens, asked, owner, packets, unmatched, abandoned, lost>>
  PROVE IndInv'
<1>1. TypeOK /\ ChanShape /\ RegShape /\ ReqShape /\ DevShape /\ WireShape BY Shapes DEF IndInv, Shape
<1>u. UNCHANGED <<phase, reg, req, callbacks, opens, asked, owner, packets, unmatched, abandoned, lost>>
  OBVIOUS
<1>2. /\ wire' \in Seq(Packet) /\ 1 \in DOMAIN wire
      /\ \A i \in DOMAIN wire' : /\ i + 1 \in DOMAIN wire /\ wire'[i] = wire[i + 1]
                                /\ i + 1 # 1 /\ 1 < i + 1 /\ i \in Nat
      /\ \A i \in DOMAIN wire : i = 1 \/ \E k \in DOMAIN wire' : k + 1 = i /\ wire'[k] = wire[i]
  BY WireShifted
<1>3. PICK s : s = wire[1].id OBVIOUS
<1>4. /\ s \in DeviceIds /\ s \in Nat /\ s # 0 /\ s <= MaxDeviceIds /\ s <= Len(owner) /\ s \in DOMAIN owner
      /\ owner[s] # 0 => owner[s] \in DOMAIN chan
  <2>1. s \in DeviceIds BY <1>1, <1>2, <1>3 DEF WireShape
  <2>2. s \in DOMAIN owner /\ (owner[s] # 0 => owner[s] \in DOMAIN chan) BY <1>2, <1>3, WireOwned
  <2>3. s <= Len(owner) BY <1>2, <1>3 DEF IndInv, NumbersKnown
  <2> QED BY <2>1, <2>2, <2>3, ClientAssumption DEF DeviceIds
<1>5. /\ (owner[s] # 0) = (wire[1].kind = "opened") /\ \A c \in DOMAIN chan : chan[c].id # s
  BY <1>2, <1>3 DEF IndInv, NumbersNew, Data, Opened
<1>k. /\ wire[1].kind \in {"opened", "deviceOpen"}
      /\ d # 0 => chan[d].placeholder = (wire[1].kind = "deviceOpen")
      /\ wire[1].kind = "opened" /\ ~unmatched => d = owner[s]
  BY <1>1, <1>2, <1>3 DEF WireShape
<1>6. /\ chan' \in Seq(Channel) /\ DOMAIN chan' = DOMAIN chan /\ Len(chan') = Len(chan)
      /\ \A c \in DOMAIN chan : /\ chan'[c].id = IF c = d THEN s ELSE chan[c].id
                               /\ chan'[c].name = chan[c].name /\ chan'[c].opener = chan[c].opener
                               /\ chan'[c].placeholder = chan[c].placeholder
  <2>1. chan \in Seq(Channel) BY <1>1 DEF TypeOK
  <2>2. \A c \in DOMAIN chan : chan[c] \in Channel BY <2>1
  <2>3. \A c \in DOMAIN chan : [chan[c] EXCEPT !.id = s] \in Channel
    BY <1>4, <2>2, ClientAssumption, SMTT(60) DEF Channel
  <2>4. /\ DOMAIN chan' = 1..Len(chan) /\ \A c \in DOMAIN chan : chan'[c] \in Channel
        /\ chan' = [c \in 1..Len(chan) |-> chan'[c]]
    BY <1>1, <1>3, <2>2, <2>3 DEF ChanShape
  <2>5. chan' \in [1..Len(chan) -> Channel] /\ Len(chan) \in Nat BY <1>1, <2>4 DEF ChanShape
  <2>6. chan' \in Seq(Channel) /\ Len(chan') = Len(chan) BY <2>5
  <2>7. \A c \in DOMAIN chan : /\ chan'[c].id = IF c = d THEN s ELSE chan[c].id
                               /\ chan'[c].name = chan[c].name /\ chan'[c].opener = chan[c].opener
                               /\ chan'[c].placeholder = chan[c].placeholder
    BY <1>3, <2>2 DEF Channel
  <2> QED BY <1>1, <2>4, <2>6, <2>7 DEF ChanShape
<1>7. \A j \in DOMAIN req : /\ req[j].ch \in DOMAIN chan /\ chan'[req[j].ch].id = chan[req[j].ch].id
  <2>1. \A j \in DOMAIN req : req[j].ch \in DOMAIN chan /\ chan[req[j].ch].id # 0
    BY DEF IndInv, CallsOnOpen, OpenersOpen
  <2> QED BY <1>6, <2>1
<1>8. /\ \A j \in DOMAIN req : Owed(j)' => Owed(j)
      /\ \A i \in DOMAIN wire' : wire'[i].kind = "data" /\ wire'[i].for # 0 =>
           /\ wire'[i].for \in DOMAIN req /\ wire'[i].id = chan[req[wire'[i].for].ch].id
           /\ \A k \in DOMAIN wire' : wire'[k].kind = "data" /\ wire'[i].for = wire'[k].for => i = k
           /\ \A k \in DOMAIN asked : asked[k] # wire'[i].for
  BY RepliesLeft
<1>9. \A c \in DOMAIN chan : c # d => Pending(c)' = Pending(c) BY <1>6 DEF Pending
<1>10. \A c \in DOMAIN chan : Pending(c)' => Pending(c) /\ c # d BY <1>4, <1>6 DEF Pending
<1>t. TypeOK'
  <2>1. \A i, k \in DOMAIN reg : chan'[reg[i]].name = chan'[reg[k]].name => i = k
    BY <1>1, <1>6 DEF RegShape
  <2>2. reg' \in Seq(DOMAIN chan') /\ opens' \in Seq(DOMAIN chan') BY <1>1, <1>6 DEF TypeOK
  <2>3. owner' \in Seq(0..Len(chan')) BY <1>1, <1>6 DEF TypeOK
  <2> QED BY ONLY <1>1, <1>2, <1>6, <1>u, <2>1, <2>2, <2>3 DEF TypeOK
<1>c1. NumbersMatch'
  <2> SUFFICES ASSUME NEW c \in DOMAIN chan, chan'[c].id # 0
               PROVE IF chan[c].placeholder THEN owner[chan'[c].id] = 0 ELSE owner[chan'[c].id] = c \/ unmatched
    BY <1>6, <1>u DEF NumbersMatch
  <2>1. CASE c = d
    <3>1. chan'[c].id = s BY ONLY <1>6, <2>1, c \in DOMAIN chan
    <3>4. c # 0 BY <1>1 DEF ChanShape
    <3>2. CASE wire[1].kind = "opened" BY <1>k, <2>1, <3>1, <3>2, <3>4
    <3>3. CASE wire[1].kind = "deviceOpen" BY <1>5, <1>k, <2>1, <3>1, <3>3, <3>4
    <3> QED BY <1>k, <3>2, <3>3
  <2>2. CASE c # d BY <1>6, <2>2 DEF IndInv, NumbersMatch
  <2> QED BY <2>1, <2>2
<1>c2. NumbersUnique'
  BY <1>5, <1>6 DEF IndInv, NumbersUnique
<1>c3. NothingLost' BY DEF IndInv, NothingLost, Registered, Contains
<1>c4. AnswerIsMine' BY <1>7 DEF IndInv, AnswerIsMine, IdOf
<1>c5. DisconnectReleasesJson' BY DEF IndInv, DisconnectReleasesJson
<1>c6. NumbersKnown' BY <1>2, <1>4, <1>6 DEF IndInv, NumbersKnown
<1>c7. NumbersNew'
  <2> SUFFICES ASSUME NEW i \in DOMAIN wire', wire'[i].kind # "data"
               PROVE /\ (owner[wire'[i].id] # 0) = (wire'[i].kind = "opened")
                     /\ \A c \in DOMAIN chan : chan'[c].id # wire'[i].id
    BY <1>6 DEF NumbersNew, Data, Opened
  <2>1. i + 1 \in DOMAIN wire /\ wire'[i] = wire[i + 1] /\ i + 1 # 1 /\ 1 < i + 1 /\ i \in Nat BY <1>2
  <2>2. /\ (owner[wire[i + 1].id] # 0) = (wire[i + 1].kind = "opened")
        /\ \A c \in DOMAIN chan : chan[c].id # wire[i + 1].id
    BY <2>1 DEF IndInv, NumbersNew, Data, Opened
  <2>3. wire[i + 1].id # s
    <3>1. wire[i + 1].id = wire[1].id => i + 1 < 1 BY <1>2, <2>1 DEF IndInv, AnnouncedFirst, Data
    <3>2. ~(i + 1 < 1) BY <2>1
    <3> QED BY <1>3, <3>1, <3>2
  <2> QED BY <1>6, <2>1, <2>2, <2>3
<1>c8. AnnouncedFirst' /\ DeadIsSilent' /\ AnswersInOrder' BY WireLeft
<1>c9. PendingInOrder'
  <2> SUFFICES ASSUME ~unmatched, NEW i \in DOMAIN reg, NEW k \in DOMAIN reg, i < k,
                      Pending(reg[i])', Pending(reg[k])'
               PROVE reg[i] < reg[k]
    BY DEF PendingInOrder
  <2>1. reg[i] \in DOMAIN chan /\ reg[k] \in DOMAIN chan BY <1>1 DEF RegShape
  <2>2. Pending(reg[i]) /\ Pending(reg[k]) BY <1>10, <2>1 DEF Pending
  <2> QED BY <2>2 DEF IndInv, PendingInOrder
<1>c10. AwaitedPending'
  <2> SUFFICES ASSUME ~unmatched PROVE AwaitedPending' BY DEF AwaitedPending
  <2>1. ASSUME NEW c \in DOMAIN chan, Awaited(c)' PROVE Awaited(c) /\ c # d
    <3>1. CASE \E i \in DOMAIN opens : opens[i] = c
      <4>1. Awaited(c) BY <3>1 DEF Awaited
      <4>2. Pending(c) BY <4>1 DEF IndInv, AwaitedPending
      <4>3. CASE wire[1].kind = "opened"
        <5>1. owner[s] < c BY <1>2, <1>3, <3>1, <4>3 DEF IndInv, AnswersInOrder, Opened
        <5>2. owner[s] # c BY <1>1, <1>4, <5>1 DEF ChanShape
        <5> QED BY <1>3, <4>1, <4>3, <5>2
      <4>4. CASE wire[1].kind # "opened"
        <5>1. c # 0 /\ ~chan[c].placeholder BY <1>1, <4>2 DEF ChanShape, Pending
        <5>2. d # 0 => chan[d].placeholder = TRUE BY <1>k, <4>4
        <5> QED BY <4>1, <5>1, <5>2
      <4> QED BY <4>3, <4>4
    <3>2. CASE \E i \in DOMAIN wire' : wire'[i].kind = "opened" /\ owner[wire'[i].id] = c
      <4>0. PICK i \in DOMAIN wire' : wire'[i].kind = "opened" /\ owner[wire'[i].id] = c BY <3>2
      <4>5. i + 1 \in DOMAIN wire /\ wire'[i] = wire[i + 1] /\ 1 < i + 1 BY <1>2
      <4>1. Awaited(c) BY <4>0, <4>5 DEF Awaited, Opened
      <4>2. Pending(c) BY <4>1 DEF IndInv, AwaitedPending
      <4>3. CASE wire[1].kind = "opened"
        <5>1. owner[s] < c BY <1>2, <1>3, <4>0, <4>3, <4>5 DEF IndInv, AnswersInOrder, Opened
        <5>2. owner[s] # c BY <1>1, <1>4, <5>1 DEF ChanShape
        <5> QED BY <1>3, <4>1, <4>3, <5>2
      <4>4. CASE wire[1].kind # "opened"
        <5>1. c # 0 /\ ~chan[c].placeholder BY <1>1, <4>2 DEF ChanShape, Pending
        <5>2. d # 0 => chan[d].placeholder = TRUE BY <1>k, <4>4
        <5> QED BY <4>1, <5>1, <5>2
      <4> QED BY <4>3, <4>4
    <3> QED BY <2>1, <3>1, <3>2 DEF Awaited, Opened
  <2>2. ASSUME NEW c \in DOMAIN chan, Awaited(c), c # d PROVE Awaited(c)'
    <3>1. CASE \E i \in DOMAIN opens : opens[i] = c BY <3>1 DEF Awaited
    <3>2. CASE \E i \in DOMAIN wire : wire[i].kind = "opened" /\ owner[wire[i].id] = c
      <4>1. PICK i \in DOMAIN wire : wire[i].kind = "opened" /\ owner[wire[i].id] = c BY <3>2
      <4>2. i # 1 BY <2>2, <4>1
      <4>3. PICK k \in DOMAIN wire' : wire'[k] = wire[i] BY <1>2, <4>2
      <4> QED BY <4>1, <4>3 DEF Awaited, Opened
    <3> QED BY <2>2, <3>1, <3>2 DEF Awaited, Opened
  <2>3. ASSUME NEW c \in DOMAIN chan, Awaited(c)' PROVE Registered(c)' /\ Pending(c)'
    <3>1. Registered(c) /\ Pending(c) /\ c # d BY <2>1, <2>3 DEF IndInv, AwaitedPending
    <3> QED BY <1>9, <3>1 DEF Registered, Contains
  <2>4. ASSUME NEW c \in DOMAIN chan, Registered(c)', Pending(c)' PROVE Awaited(c)'
    <3>1. Registered(c) /\ Pending(c) /\ c # d BY <1>10, <2>4 DEF Registered, Contains
    <3> QED BY <2>2, <3>1 DEF IndInv, AwaitedPending
  <2> QED BY <1>6, <2>3, <2>4 DEF AwaitedPending
<1>c11. NumbersArrive'
  <2>1. ASSUME ~unmatched, NEW x \in DOMAIN owner, owner[x] # 0
        PROVE chan'[owner[x]].id = x \/ \E i \in DOMAIN wire' : wire'[i].kind = "opened" /\ wire'[i].id = x
    <3>0. owner[x] \in DOMAIN chan /\ x # 0 BY <1>1, <2>1 DEF DevShape
    <3>1. CASE chan[owner[x]].id = x BY <1>6, <3>0, <3>1
    <3>2. CASE \E i \in DOMAIN wire : wire[i].kind = "opened" /\ wire[i].id = x
      <4>1. PICK i \in DOMAIN wire : wire[i].kind = "opened" /\ wire[i].id = x BY <3>2
      <4>2. CASE i = 1 BY <1>3, <1>6, <2>1, <3>0, <4>1, <4>2
      <4>3. CASE i # 1 BY <1>2, <4>1, <4>3
      <4> QED BY <4>2, <4>3
    <3> QED BY <2>1, <3>1, <3>2 DEF IndInv, NumbersArrive, Opened
  <2> QED BY ONLY <1>u, <2>1 DEF NumbersArrive, Opened
<1>c12. OpenersOpen' BY <1>4, <1>6 DEF IndInv, OpenersOpen
<1>c13. CallsOnOpen' BY <1>6 DEF IndInv, CallsOnOpen
<1>c14. WaitersOwnSlots'
  <2>1. \A x \in DeviceIds : callbacks[x] # 0 => callbacks[x] \in DOMAIN req BY <1>1 DEF ReqShape
  <2> QED BY SMTT(40), <1>7, <2>1 DEF IndInv, WaitersOwnSlots, IdOf
<1>c15. RepliesInFlight'
  <2>1. \A i, k \in DOMAIN asked : asked[i] = asked[k] => i = k BY DEF IndInv, RepliesInFlight
  <2>2. \A j \in DOMAIN req : Owed(j)' => req[j].state # "lock" BY <1>8 DEF IndInv, RepliesInFlight
  <2> QED BY <1>7, <1>8, <2>1, <2>2 DEF RepliesInFlight, Data, IdOf
<1>c16. NothingElse'
  <2>1. \A i \in DOMAIN wire' : owner[wire'[i].id] # 0 => owner[wire'[i].id] \in DOMAIN chan BY <1>2, WireOwned
  <2> QED BY <1>2, <1>6, <2>1 DEF IndInv, NothingElse, Data
<1>c17. OwedWaits' BY <1>7, <1>8 DEF IndInv, OwedWaits, IdOf
<1> QED BY <1>t, <1>c1, <1>c2, <1>c3, <1>c4, <1>c5, <1>c6, <1>c7, <1>c8, <1>c9, <1>c10, <1>c11, <1>c12, <1>c13,
           <1>c14, <1>c15, <1>c16, <1>c17 DEF IndInv

\* A reply to an open, or an open of the device's own, is read: who gets the number.
LEMMA NumberGoes ==
  ASSUME IndInv, Dispatch, wire[1].kind # "data"
  PROVE \E d :
    /\ d = 0 \/ d \in DOMAIN chan
    /\ d # 0 => chan[d].id = 0 /\ chan[d].placeholder = (wire[1].kind = "deviceOpen")
    /\ wire[1].kind = "opened" /\ ~unmatched => d = owner[wire[1].id]
    /\ chan' = [c \in DOMAIN chan |-> IF c = d THEN [chan[c] EXCEPT !.id = wire[1].id] ELSE chan[c]]
    /\ UNCHANGED <<phase, reg, req, callbacks, opens, asked, owner, packets, unmatched, abandoned, lost>>
<1>1. TypeOK /\ ChanShape /\ RegShape /\ ReqShape /\ DevShape /\ WireShape BY Shapes DEF IndInv, Shape
<1>2. wire # <<>> /\ wire' = Tail(wire) /\ phase = "up" BY DEF Dispatch
<1>3. 1 \in DOMAIN wire /\ Head(wire) = wire[1] BY <1>2, WireShifted
<1>4. PICK s : s = wire[1].id OBVIOUS
<1>5. PICK ph \in BOOLEAN : ph = (wire[1].kind = "deviceOpen") OBVIOUS
<1>6. /\ Assign(s, ph)
      /\ UNCHANGED <<phase, reg, req, callbacks, opens, asked, owner, packets, unmatched, abandoned, lost>>
  BY <1>3, <1>4, <1>5 DEF Dispatch
<1>7. wire[1].kind \in {"opened", "deviceOpen"} BY <1>1, <1>3 DEF WireShape
<1>8. \A i, k \in FirstWaiting(ph) : i = k
  <2> SUFFICES ASSUME NEW i \in FirstWaiting(ph), NEW k \in FirstWaiting(ph), i < k PROVE FALSE
    BY <1>1 DEF FirstWaiting, RegShape
  <2>1. i \in DOMAIN reg /\ Waits(i) /\ chan[reg[i]].placeholder = ph BY DEF FirstWaiting
  <2>2. \A x \in 1..k - 1 : ~(Waits(x) /\ chan[reg[x]].placeholder = ph) BY DEF FirstWaiting
  <2>3. i \in 1..k - 1 BY <1>1, <2>1 DEF FirstWaiting, RegShape
  <2> QED BY <2>1, <2>2, <2>3
<1>9. PICK d : /\ d = 0 \/ d \in DOMAIN chan
               /\ d # 0 => chan[d].id = 0 /\ chan[d].placeholder = ph
               /\ \A c \in DOMAIN chan : (\E i \in FirstWaiting(ph) : reg[i] = c) <=> c = d
  <2>1. CASE FirstWaiting(ph) = {}
    <3>1. 0 \notin DOMAIN chan BY <1>1 DEF ChanShape
    <3> QED BY <2>1, <3>1
  <2>2. CASE FirstWaiting(ph) # {}
    <3>1. PICK i \in FirstWaiting(ph) : TRUE BY <2>2
    <3>2. i \in DOMAIN reg /\ chan[reg[i]].id = 0 /\ chan[reg[i]].placeholder = ph BY DEF FirstWaiting, Waits
    <3>3. reg[i] \in DOMAIN chan BY <1>1, <3>2 DEF RegShape
    <3>4. \A c \in DOMAIN chan : (\E k \in FirstWaiting(ph) : reg[k] = c) <=> c = reg[i] BY <1>8, <3>1
    <3> QED BY <3>2, <3>3, <3>4
  <2> QED BY <2>1, <2>2
<1>10. chan' = [c \in DOMAIN chan |-> IF c = d THEN [chan[c] EXCEPT !.id = wire[1].id] ELSE chan[c]]
  <2>1. chan' = [c \in DOMAIN chan |->
          IF \E i \in FirstWaiting(ph) : reg[i] = c THEN [chan[c] EXCEPT !.id = s] ELSE chan[c]]
    BY <1>6 DEF Assign
  <2> QED BY <1>4, <1>9, <2>1
<1>11. ASSUME wire[1].kind = "opened", ~unmatched PROVE d = owner[wire[1].id]
  <2>1. PICK o : o = owner[wire[1].id] OBVIOUS
  <2>2. ph = FALSE BY <1>5, <1>11
  <2>3. o \in DOMAIN chan /\ o # 0
    <3>1. owner[wire[1].id] # 0 BY <1>3, <1>11 DEF IndInv, NumbersNew, Data, Opened
    <3> QED BY <1>3, <2>1, <3>1, WireOwned
  <2>4. Awaited(o) BY <1>3, <1>11, <2>1 DEF Awaited, Opened
  <2>5. Registered(o) /\ Pending(o) BY <1>11, <2>3, <2>4 DEF IndInv, AwaitedPending
  <2>6. PICK i \in DOMAIN reg : reg[i] = o
    <3>1. DOMAIN reg = 1..Len(reg) BY <1>1 DEF RegShape
    <3> QED BY <2>5, <3>1 DEF Registered, Contains
  <2>7. \A c \in DOMAIN chan : Registered(c) /\ Pending(c) => c = o \/ o < c
    <3> SUFFICES ASSUME NEW c \in DOMAIN chan, Registered(c), Pending(c) PROVE c = o \/ o < c OBVIOUS
    <3>1. Awaited(c) BY <1>2, <1>11 DEF IndInv, AwaitedPending
    <3>2. CASE \E x \in DOMAIN opens : opens[x] = c
      BY <1>3, <1>11, <2>1, <3>2 DEF IndInv, AnswersInOrder, Opened
    <3>3. CASE \E x \in DOMAIN wire : wire[x].kind = "opened" /\ owner[wire[x].id] = c
      <4>1. PICK x \in DOMAIN wire : wire[x].kind = "opened" /\ owner[wire[x].id] = c BY <3>3
      <4>2. x = 1 \/ 1 < x BY <1>1 DEF WireShape
      <4> QED BY <1>3, <1>11, <2>1, <4>1, <4>2 DEF IndInv, AnswersInOrder, Opened
    <3> QED BY <3>1, <3>2, <3>3 DEF Awaited, Opened
  <2>8. ASSUME NEW k \in 1..i - 1, chan[reg[k]].id = 0, chan[reg[k]].placeholder = FALSE PROVE FALSE
    <3>1. k \in DOMAIN reg /\ k < i /\ reg[k] \in DOMAIN chan BY <1>1 DEF RegShape
    <3>2. Pending(reg[k]) /\ Registered(reg[k])
      <4>1. DOMAIN reg = 1..Len(reg) BY <1>1 DEF RegShape
      <4> QED BY <2>8, <3>1, <4>1 DEF Pending, Registered, Contains
    <3>3. reg[k] < o BY <1>11, <2>5, <2>6, <3>1, <3>2 DEF IndInv, PendingInOrder
    <3>4. reg[k] = o \/ o < reg[k] BY <2>7, <3>1, <3>2
    <3>5. reg[k] \in Nat /\ o \in Nat BY <1>1, <2>3, <3>1 DEF ChanShape
    <3> QED BY <3>3, <3>4, <3>5
  <2>9. chan[reg[i]].id = 0 /\ chan[reg[i]].placeholder = FALSE
    <3>1. chan[o].placeholder \in BOOLEAN BY <1>1, <2>3 DEF ChanShape
    <3> QED BY <2>5, <2>6, <3>1 DEF Pending
  <2>10. i \in FirstWaiting(ph) BY <2>2, <2>8, <2>9 DEF FirstWaiting, Waits
  <2> QED BY <1>9, <2>1, <2>3, <2>6, <2>10
<1> QED BY <1>5, <1>6, <1>9, <1>10, <1>11

\* Whoever gets it, the invariant is kept.
LEMMA DispatchNumberKeeps ==
  ASSUME IndInv, Dispatch, wire[1].kind # "data"
  PROVE IndInv'
  BY NumberGoes, NumberKeeps DEF Dispatch

\* A data packet that no call waits for is read: its channel's queue takes it, or it is lost.
LEMMA QueueKeeps ==
  ASSUME IndInv, phase = "up", wire # <<>>, wire' = Tail(wire), wire[1].kind = "data",
         NEW s, s = wire[1].id, lost' = IF HasQueue(s) THEN lost ELSE lost \cup {s},
         UNCHANGED <<phase, reg, chan, req, callbacks, opens, asked, owner, packets, unmatched, abandoned>>
  PROVE IndInv'
<1>u. UNCHANGED <<phase, reg, chan, req, callbacks, opens, asked, owner, packets, unmatched, abandoned>> OBVIOUS
<1>1. TypeOK /\ ChanShape /\ RegShape /\ ReqShape /\ DevShape /\ WireShape BY Shapes DEF IndInv, Shape
<1>2. /\ wire' \in Seq(Packet) /\ 1 \in DOMAIN wire
      /\ \A i \in DOMAIN wire' : /\ i + 1 \in DOMAIN wire /\ wire'[i] = wire[i + 1]
                                /\ i + 1 # 1 /\ 1 < i + 1 /\ i \in Nat
      /\ \A i \in DOMAIN wire : i = 1 \/ \E k \in DOMAIN wire' : k + 1 = i /\ wire'[k] = wire[i]
  BY WireShifted
<1>3. s \in DeviceIds /\ s \in DOMAIN owner /\ s <= Len(owner) /\ (owner[s] # 0 => owner[s] \in DOMAIN chan)
  BY <1>1, <1>2, WireOwned DEF WireShape, DevShape
<1>8. /\ \A j \in DOMAIN req : Owed(j)' => Owed(j)
      /\ \A i \in DOMAIN wire' : wire'[i].kind = "data" /\ wire'[i].for # 0 =>
           /\ wire'[i].for \in DOMAIN req /\ wire'[i].id = chan[req[wire'[i].for].ch].id
           /\ \A k \in DOMAIN wire' : wire'[k].kind = "data" /\ wire'[i].for = wire'[k].for => i = k
           /\ \A k \in DOMAIN asked : asked[k] # wire'[i].for
  BY RepliesLeft
<1>9. \A c \in DOMAIN chan : Awaited(c)' = Awaited(c)
  <2>1. \A c \in DOMAIN chan : Awaited(c)' => Awaited(c) BY <1>2 DEF Awaited, Opened
  <2>2. \A c \in DOMAIN chan : Awaited(c) => Awaited(c)' BY <1>2 DEF Awaited, Opened
  <2>3. \A c \in DOMAIN chan : Awaited(c) \in BOOLEAN /\ Awaited(c)' \in BOOLEAN BY DEF Awaited
  <2> QED BY <2>1, <2>2, <2>3
<1>t. TypeOK' BY <1>1, <1>2, <1>3 DEF TypeOK
<1>f. NumbersMatch' /\ NumbersUnique' /\ AnswerIsMine' /\ DisconnectReleasesJson' /\ PendingInOrder' /\ OpenersOpen' /\ CallsOnOpen' /\ WaitersOwnSlots'
  BY DEF IndInv, NumbersMatch, NumbersUnique, AnswerIsMine, DisconnectReleasesJson, PendingInOrder, OpenersOpen, CallsOnOpen, WaitersOwnSlots, IdOf, Pending
<1>c1. NothingLost'
  <2>1. ASSUME ~HasQueue(s), owner[s] # 0, ~unmatched, Registered(owner[s]) PROVE FALSE
    <3>1. chan[owner[s]].id = s \/ \E i \in DOMAIN wire : wire[i].kind = "opened" /\ wire[i].id = s
      BY <1>3, <2>1 DEF IndInv, NumbersArrive, Opened
    <3>2. \A i \in DOMAIN wire : wire[i].kind = "opened" /\ wire[i].id = s => i # 1 /\ i < 1
      BY <1>2 DEF IndInv, AnnouncedFirst, Data
    <3>3. \A i \in DOMAIN wire : ~(i < 1) BY <1>1 DEF WireShape
    <3>4. chan[owner[s]].id = s BY <3>1, <3>2, <3>3
    <3>5. \E i \in DOMAIN reg : reg[i] = owner[s]
      <4>1. DOMAIN reg = 1..Len(reg) BY <1>1 DEF RegShape
      <4> QED BY <2>1, <4>1 DEF Registered, Contains
    <3> QED BY <2>1, <3>4, <3>5 DEF HasQueue
  <2>2. \A x \in lost' : x \in lost \/ (x = s /\ ~HasQueue(s)) OBVIOUS
  <2> QED BY <2>1, <2>2 DEF IndInv, NothingLost, Registered
<1>c2. NumbersKnown' BY <1>2, <1>3 DEF IndInv, NumbersKnown
<1>c3. NumbersNew' BY <1>2 DEF IndInv, NumbersNew, Data, Opened
<1>c4. AnnouncedFirst' /\ DeadIsSilent' /\ AnswersInOrder' BY WireLeft
<1>c5. AwaitedPending' BY <1>9 DEF IndInv, AwaitedPending, Registered, Pending
<1>c6. NumbersArrive'
  <2>1. ASSUME ~unmatched, NEW x \in DOMAIN owner, owner[x] # 0
        PROVE chan[owner[x]].id = x \/ \E i \in DOMAIN wire' : wire'[i].kind = "opened" /\ wire'[i].id = x
    <3>1. CASE chan[owner[x]].id = x BY <3>1
    <3>2. CASE \E i \in DOMAIN wire : wire[i].kind = "opened" /\ wire[i].id = x
      <4>1. PICK i \in DOMAIN wire : wire[i].kind = "opened" /\ wire[i].id = x BY <3>2
      <4>2. i # 1 BY <4>1
      <4> QED BY <1>2, <4>1, <4>2
    <3> QED BY <2>1, <3>1, <3>2 DEF IndInv, NumbersArrive, Opened
  <2> QED BY ONLY <1>u, <2>1 DEF NumbersArrive, Opened
<1>c7. RepliesInFlight'
  <2>1. \A i, k \in DOMAIN asked : asked[i] = asked[k] => i = k BY DEF IndInv, RepliesInFlight
  <2>2. \A j \in DOMAIN req : Owed(j)' => req[j].state # "lock" BY <1>8 DEF IndInv, RepliesInFlight
  <2> QED BY <1>8, <2>1, <2>2 DEF RepliesInFlight, Data, IdOf
<1>c8. NothingElse' BY <1>2 DEF IndInv, NothingElse, Data
<1>c9. OwedWaits' BY <1>8 DEF IndInv, OwedWaits, IdOf
<1> QED BY <1>t, <1>f, <1>c1, <1>c2, <1>c3, <1>c4, <1>c5, <1>c6, <1>c7, <1>c8, <1>c9 DEF IndInv

\* Call k, if it waits, is done, with the reply to f.
Answered(k, f) ==
  /\ req' \in Seq(Request) /\ Len(req') = Len(req) /\ DOMAIN req' = DOMAIN req
  /\ \A j \in DOMAIN req :
       /\ req'[j].ch = req[j].ch
       /\ j # k \/ req[j].state # "wait" => req'[j].state = req[j].state /\ req'[j].answer = req[j].answer
       /\ j = k /\ req[j].state = "wait" => req'[j].state = "done" /\ req'[j].answer = f

LEMMA Answering ==
  ASSUME TypeOK, NEW k \in DOMAIN req, NEW f \in 0..MaxRequests,
         req' = [j \in DOMAIN req |-> IF j = k /\ req[j].state = "wait"
                   THEN [req[j] EXCEPT !.state = "done", !.answer = f] ELSE req[j]]
  PROVE Answered(k, f)
<1>1. ReqShape BY Shapes DEF Shape
<1> DEFINE R(j) == IF j = k /\ req[j].state = "wait"
                   THEN [req[j] EXCEPT !.state = "done", !.answer = f] ELSE req[j]
<1>2. req \in Seq(Request) BY DEF TypeOK
<1>3. \A j \in DOMAIN req : req[j] \in Request BY ONLY <1>2
<1>4. \A j \in DOMAIN req :
        /\ R(j) \in Request /\ R(j).ch = req[j].ch
        /\ j # k \/ req[j].state # "wait" => R(j) = req[j]
        /\ j = k /\ req[j].state = "wait" => R(j).state = "done" /\ R(j).answer = f
  BY <1>3 DEF Request
<1>5. req' = [j \in DOMAIN req |-> R(j)] OBVIOUS
<1> HIDE DEF R
<1>6. req' \in [1..Len(req) -> Request] /\ Len(req) \in Nat /\ DOMAIN req = 1..Len(req)
  <2>1. Len(req) \in Nat /\ DOMAIN req = 1..Len(req) BY ONLY <1>2
  <2>2. req' = [j \in 1..Len(req) |-> R(j)] BY ONLY <1>5, <2>1
  <2>3. \A j \in 1..Len(req) : R(j) \in Request BY ONLY <1>4, <2>1
  <2> QED BY ONLY <2>1, <2>2, <2>3
<1>7. req' \in Seq(Request) /\ Len(req') = Len(req) /\ DOMAIN req' = DOMAIN req BY ONLY <1>6
<1>8. \A j \in DOMAIN req : req'[j] = R(j) BY ONLY <1>5
<1> QED BY ONLY <1>4, <1>7, <1>8 DEF Answered

\* A data packet is read on a number that call k waits on.
LEMMA AnswerReadKeeps ==
  ASSUME IndInv, phase = "up", wire # <<>>, wire' = Tail(wire), wire[1].kind = "data",
         NEW s, s = wire[1].id, NEW k \in DOMAIN req, callbacks[s] = k,
         callbacks' \in [DeviceIds -> 0..Len(req)],
         \A x \in DeviceIds : callbacks'[x] = IF x = s THEN 0 ELSE callbacks[x],
         NEW f, f = wire[1].for, Answered(k, f),
         UNCHANGED <<phase, reg, chan, opens, asked, owner, packets, unmatched, abandoned, lost>>
  PROVE IndInv'
<1>u. UNCHANGED <<phase, reg, chan, opens, asked, owner, packets, unmatched, abandoned, lost>> OBVIOUS
<1>1. TypeOK /\ ChanShape /\ RegShape /\ ReqShape /\ DevShape /\ WireShape BY Shapes DEF IndInv, Shape
<1>2. /\ wire' \in Seq(Packet) /\ 1 \in DOMAIN wire
      /\ \A i \in DOMAIN wire' : /\ i + 1 \in DOMAIN wire /\ wire'[i] = wire[i + 1]
                                /\ i + 1 # 1 /\ 1 < i + 1 /\ i \in Nat
      /\ \A i \in DOMAIN wire : i = 1 \/ \E x \in DOMAIN wire' : x + 1 = i /\ wire'[x] = wire[i]
  BY WireShifted
<1>3. s \in DeviceIds /\ s \in DOMAIN owner BY <1>1, <1>2, WireOwned DEF WireShape
<1>4. f = wire[1].for OBVIOUS
<1>5. \A x \in DeviceIds : callbacks'[x] = IF x = s THEN 0 ELSE callbacks[x] OBVIOUS
<1>6. /\ req' \in Seq(Request) /\ Len(req') = Len(req) /\ DOMAIN req' = DOMAIN req
      /\ \A j \in DOMAIN req :
           /\ req'[j].ch = req[j].ch
           /\ j # k \/ req[j].state # "wait" => req'[j].state = req[j].state /\ req'[j].answer = req[j].answer
           /\ j = k /\ req[j].state = "wait" => req'[j].state = "done" /\ req'[j].answer = f
  BY DEF Answered
<1>8. /\ \A j \in DOMAIN req : Owed(j)' => Owed(j)
      /\ \A i \in DOMAIN wire' : wire'[i].kind = "data" /\ wire'[i].for # 0 =>
           /\ wire'[i].for \in DOMAIN req /\ wire'[i].id = chan[req[wire'[i].for].ch].id
           /\ \A x \in DOMAIN wire' : wire'[x].kind = "data" /\ wire'[i].for = wire'[x].for => i = x
           /\ \A x \in DOMAIN asked : asked[x] # wire'[i].for
  BY RepliesLeft
<1>9. \A c \in DOMAIN chan : Awaited(c)' = Awaited(c)
  <2>1. \A c \in DOMAIN chan : Awaited(c)' => Awaited(c) BY <1>2 DEF Awaited, Opened
  <2>2. ASSUME NEW c \in DOMAIN chan, Awaited(c) PROVE Awaited(c)'
    <3>1. CASE \E i \in DOMAIN opens : opens[i] = c BY <1>u, <3>1 DEF Awaited
    <3>2. CASE \E i \in DOMAIN wire : wire[i].kind = "opened" /\ owner[wire[i].id] = c
      <4>1. PICK i \in DOMAIN wire : wire[i].kind = "opened" /\ owner[wire[i].id] = c BY <3>2
      <4>2. i # 1 BY <4>1
      <4>3. PICK x \in DOMAIN wire' : wire'[x] = wire[i] BY <1>2, <4>2
      <4> QED BY <1>u, <4>1, <4>3 DEF Awaited, Opened
    <3> QED BY <2>2, <3>1, <3>2 DEF Awaited, Opened
  <2>3. \A c \in DOMAIN chan : Awaited(c) \in BOOLEAN /\ Awaited(c)' \in BOOLEAN BY DEF Awaited
  <2> QED BY <2>1, <2>2, <2>3
<1>10. IdOf(k) = s /\ k # 0
  <2>1. k # 0 BY <1>1 DEF ReqShape
  <2> QED BY <1>3, <2>1 DEF IndInv, WaitersOwnSlots
<1>11. ASSUME s \notin abandoned, ~unmatched, req[k].state = "wait" PROVE f = k
  <2>1. CASE f = 0
    <3>1. owner[s] = req[k].ch
      <4>1. /\ req[k].ch \in DOMAIN chan /\ chan[req[k].ch].id = s /\ s # 0
            /\ ~chan[req[k].ch].placeholder
        BY <1>10, CallsNumbered
      <4> QED BY <1>11, <4>1 DEF IndInv, NumbersMatch
    <3>2. owner[s] = 0 \/ chan[owner[s]].name \notin JsonNames
      BY <1>2, <1>4, <2>1 DEF IndInv, NothingElse, Data
    <3>3. req[k].ch # 0 /\ chan[req[k].ch].name \in JsonNames
      <4>1. req[k].ch \in DOMAIN chan /\ chan[req[k].ch].name \in JsonNames BY CallsNumbered
      <4> QED BY <1>1, <4>1 DEF ChanShape
    <3> QED BY <3>1, <3>2, <3>3
  <2>2. CASE f # 0
    <3>1. f \in DOMAIN req /\ s = IdOf(f) /\ Owed(f)
      BY <1>2, <1>4, <2>2 DEF IndInv, RepliesInFlight, Data, Owed
    <3>2. req[f].state = "wait" BY <1>11, <3>1 DEF IndInv, OwedWaits
    <3>3. callbacks[s] = f BY <3>1, <3>2 DEF IndInv, WaitersOwnSlots
    <3> QED BY <3>3
  <2> QED BY <2>1, <2>2
<1>12. ASSUME f = k PROVE ~Owed(k)'
  <2>0. 1 \in DOMAIN wire /\ wire[1].kind = "data" /\ wire[1].for = k /\ k # 0 BY <1>2, <1>10, <1>12
  <2>1. \A i \in DOMAIN asked : asked[i] # k BY ONLY IndInv, <2>0 DEF IndInv, RepliesInFlight, Data
  <2>2. \A i \in DOMAIN wire : wire[i].kind = "data" /\ wire[i].for = k => i = 1
    BY <1>2, <1>4, <1>10, <1>12, ZenonT(60) DEF IndInv, RepliesInFlight, Data
  <2>3. \A i \in DOMAIN wire' : ~(wire'[i].kind = "data" /\ wire'[i].for = k) BY <1>2, <2>2
  <2> QED BY <1>u, <2>1, <2>3 DEF Owed, Data
<1>t. TypeOK'
  <2>1. callbacks' \in [DeviceIds -> 0..Len(req')] BY <1>6
  <2>2. asked' \in Seq(DOMAIN req') BY <1>1, <1>6, <1>u DEF TypeOK
  <2> QED BY ONLY <1>1, <1>2, <1>6, <1>u, <2>1, <2>2 DEF TypeOK
<1>f. NumbersMatch' /\ NumbersUnique' /\ NothingLost' /\ PendingInOrder' /\ OpenersOpen'
  BY <1>u DEF IndInv, NumbersMatch, NumbersUnique, NothingLost, PendingInOrder, OpenersOpen, Registered, Pending
<1>c0. DisconnectReleasesJson' BY <1>u DEF DisconnectReleasesJson
<1>c1. AnswerIsMine'
  <2> SUFFICES ASSUME NEW j \in DOMAIN req, req'[j].state = "done"
               PROVE req'[j].answer = j \/ IdOf(j) \in abandoned \/ unmatched
    BY <1>6, <1>u DEF AnswerIsMine, IdOf
  <2>1. CASE j = k /\ req[j].state = "wait" BY <1>6, <1>10, <1>11, <2>1
  <2>2. CASE j # k \/ req[j].state # "wait" BY <1>6, <2>2 DEF IndInv, AnswerIsMine
  <2> QED BY <2>1, <2>2
<1>c2. NumbersKnown' BY <1>2, <1>u DEF IndInv, NumbersKnown
<1>c3. NumbersNew' BY <1>2, <1>u DEF IndInv, NumbersNew, Data, Opened
<1>c4. AnnouncedFirst' /\ DeadIsSilent' /\ AnswersInOrder' BY WireLeft
<1>c5. AwaitedPending' BY <1>9, <1>u DEF IndInv, AwaitedPending, Registered, Pending
<1>c6. NumbersArrive'
  <2>1. ASSUME ~unmatched, NEW x \in DOMAIN owner, owner[x] # 0
        PROVE chan[owner[x]].id = x \/ \E i \in DOMAIN wire' : wire'[i].kind = "opened" /\ wire'[i].id = x
    <3>1. CASE chan[owner[x]].id = x BY <3>1
    <3>2. CASE \E i \in DOMAIN wire : wire[i].kind = "opened" /\ wire[i].id = x
      <4>1. PICK i \in DOMAIN wire : wire[i].kind = "opened" /\ wire[i].id = x BY <3>2
      <4>2. i # 1 BY <4>1
      <4> QED BY <1>2, <4>1, <4>2
    <3> QED BY <2>1, <3>1, <3>2 DEF IndInv, NumbersArrive, Opened
  <2> QED BY ONLY <1>u, <2>1 DEF NumbersArrive, Opened
<1>c7. CallsOnOpen' BY <1>6, <1>u DEF IndInv, CallsOnOpen
<1>c8. WaitersOwnSlots'
  <2>1. ASSUME NEW j \in DOMAIN req, req'[j].state = "wait" PROVE callbacks'[IdOf(j)] = j
    <3>1. req[j].state = "wait" /\ j # k BY <1>6, <2>1
    <3>2. callbacks[IdOf(j)] = j /\ IdOf(j) # s BY <3>1 DEF IndInv, WaitersOwnSlots
    <3>3. IdOf(j) \in DeviceIds BY CallsNumbered
    <3> QED BY <1>5, <3>2, <3>3
  <2>2. \A x \in DeviceIds : callbacks'[x] # 0 =>
          callbacks'[x] = callbacks[x] /\ callbacks[x] \in DOMAIN req /\ IdOf(callbacks[x]) = x
    BY <1>1, <1>5 DEF IndInv, WaitersOwnSlots, ReqShape
  <2>3. \A x \in DeviceIds : callbacks'[x] # 0 => chan[req'[callbacks'[x]].ch].id = x
    BY <1>6, <2>2 DEF IdOf
  <2> QED BY <1>6, <1>u, <2>1, <2>3 DEF WaitersOwnSlots, IdOf
<1>c9. RepliesInFlight'
  <2>1. \A i, x \in DOMAIN asked : asked[i] = asked[x] => i = x BY DEF IndInv, RepliesInFlight
  <2>2. \A j \in DOMAIN req : Owed(j)' => req'[j].state # "lock" BY <1>6, <1>8 DEF IndInv, RepliesInFlight
  <2>3. \A i \in DOMAIN wire' : wire'[i].kind = "data" /\ wire'[i].for # 0 =>
          wire'[i].id = chan[req'[wire'[i].for].ch].id
    BY SMTT(40), <1>6, <1>8
  <2> QED BY ONLY <1>6, <1>8, <1>u, <2>1, <2>2, <2>3 DEF RepliesInFlight, Data, IdOf
<1>c10. NothingElse' BY <1>2, <1>u DEF IndInv, NothingElse, Data
<1>c11. OwedWaits'
  <2> SUFFICES ASSUME NEW j \in DOMAIN req, Owed(j)', IdOf(j) \notin abandoned, ~unmatched
               PROVE req'[j].state = "wait"
    BY <1>6, <1>u DEF OwedWaits, IdOf
  <2>1. req[j].state = "wait" BY <1>8 DEF IndInv, OwedWaits
  <2>2. j # k BY <1>10, <1>11, <1>12, <2>1
  <2> QED BY <1>6, <2>1, <2>2
<1> QED BY <1>t, <1>f, <1>c0, <1>c1, <1>c2, <1>c3, <1>c4, <1>c5, <1>c6, <1>c7, <1>c8, <1>c9, <1>c10, <1>c11 DEF IndInv

\* Whatever the receive loop reads.
LEMMA DispatchKeeps == ASSUME IndInv, Dispatch PROVE IndInv'
<1>1. wire # <<>> /\ wire' = Tail(wire) /\ phase = "up" BY DEF Dispatch
<1>2. Head(wire) = wire[1] /\ 1 \in DOMAIN wire BY <1>1, WireShifted
<1>3. CASE wire[1].kind # "data" BY <1>3, DispatchNumberKeeps
<1>4. CASE wire[1].kind = "data"
  <2>1. /\ Deliver(wire[1])
        /\ UNCHANGED <<phase, reg, chan, opens, asked, owner, packets, unmatched, abandoned>>
    BY <1>2, <1>4 DEF Dispatch
  <2>2. PICK s : s = wire[1].id OBVIOUS
  <2>3. CASE callbacks[s] = 0 BY <1>1, <1>4, <2>1, <2>2, <2>3, QueueKeeps DEF Deliver
  <2>4. CASE callbacks[s] # 0
    <3>1. s \in DeviceIds /\ ReqShape BY <1>2, <2>2, Shapes DEF IndInv, Shape, WireShape
    <3>2. PICK k \in DOMAIN req : callbacks[s] = k BY <2>4, <3>1 DEF ReqShape
    <3>5. PICK f \in 0..MaxRequests : f = wire[1].for
      BY <1>2, Shapes DEF IndInv, Shape, WireShape
    <3>3. /\ callbacks' = [callbacks EXCEPT ![s] = 0]
          /\ req' = [j \in DOMAIN req |-> IF j = k /\ req[j].state = "wait"
                THEN [req[j] EXCEPT !.state = "done", !.answer = f] ELSE req[j]]
          /\ UNCHANGED lost
      BY <2>1, <2>2, <2>4, <3>2, <3>5 DEF Deliver
    <3>4. Answered(k, f) BY <3>2, <3>3, <3>5, Answering DEF IndInv
    <3>6. /\ callbacks' \in [DeviceIds -> 0..Len(req)]
          /\ \A x \in DeviceIds : callbacks'[x] = IF x = s THEN 0 ELSE callbacks[x]
      <4>1. callbacks \in [DeviceIds -> 0..Len(req)] BY DEF IndInv, TypeOK
      <4>2. 0 \in 0..Len(req) BY <3>1 DEF ReqShape
      <4> QED BY ONLY <3>1, <3>3, <4>1, <4>2
    <3> QED BY ONLY IndInv, <1>1, <1>4, <2>1, <2>2, <3>2, <3>3, <3>4, <3>5, <3>6, AnswerReadKeeps
  <2> QED BY <2>3, <2>4
<1> QED BY <1>3, <1>4

\* Nothing changes.
LEMMA StutterKeeps == ASSUME IndInv, UNCHANGED vars PROVE IndInv'
<1>1. UNCHANGED <<phase, reg, chan, req, callbacks, opens, asked, owner, wire, packets, unmatched, abandoned, lost>>
  BY DEF vars, devV, ghostV
<1>2. TypeOK' BY <1>1 DEF IndInv, TypeOK
<1>3. NumbersMatch' /\ NumbersUnique' /\ NothingLost' /\ AnswerIsMine' /\ DisconnectReleasesJson'
  BY <1>1 DEF IndInv, NumbersMatch, NumbersUnique, NothingLost, AnswerIsMine, DisconnectReleasesJson,
              Registered, Contains, IdOf
<1>4. NumbersKnown' /\ NumbersNew' /\ AnnouncedFirst' /\ DeadIsSilent' /\ PendingInOrder'
  BY <1>1 DEF IndInv, NumbersKnown, NumbersNew, AnnouncedFirst, DeadIsSilent, PendingInOrder, Data, Opened, Pending
<1>5. AnswersInOrder' /\ AwaitedPending' /\ NumbersArrive'
  BY <1>1 DEF IndInv, AnswersInOrder, AwaitedPending, NumbersArrive, Opened, Awaited, Registered, Contains, Pending
<1>6. OpenersOpen' /\ CallsOnOpen' /\ WaitersOwnSlots'
  BY <1>1 DEF IndInv, OpenersOpen, CallsOnOpen, WaitersOwnSlots, IdOf
<1>7. RepliesInFlight' /\ NothingElse' /\ OwedWaits'
  BY <1>1 DEF IndInv, RepliesInFlight, NothingElse, OwedWaits, Data, Owed, IdOf
<1> QED BY <1>2, <1>3, <1>4, <1>5, <1>6, <1>7 DEF IndInv

\* Every step keeps the invariant.
LEMMA NextInv == ASSUME IndInv, [Next]_vars PROVE IndInv'
<1>1. ASSUME Callers PROVE IndInv'
  <2>1. CASE \E c \in DOMAIN chan : OpenReturns(c) \/ OpenTimesOut(c) BY <2>1, OpenerKeeps
  <2>2. CASE \E j \in DOMAIN req : JsonSent(j) \/ JsonGivesUp(j) BY <2>2, JsonSentKeeps, GivesUpKeeps
  <2> QED BY <1>1, <2>1, <2>2, OpenChannelKeeps, PlaceholderKeeps, RemoveKeeps, SendJsonKeeps DEF Callers
<1>2. ASSUME Device PROVE IndInv'
  BY <1>2, AnswerOpenKeeps, IgnoreKeeps, DeviceOpenKeeps, AnswerKeeps, BinaryKeeps DEF Device
<1> QED BY <1>1, <1>2, DispatchKeeps, DropKeeps, DisconnectedKeeps, StutterKeeps DEF Next

\* The strengthening is an invariant of the client, whatever the device, the callers and the
\* connection do.
THEOREM ClientInv == Spec => []IndInv
<1>1. IndInv /\ [Next]_vars => IndInv' BY NextInv
<1> QED BY <1>1, InitInv, PTL DEF Spec

\* Every channel gets the number made for it.
THEOREM NumbersAreMatched == Spec => []NumbersMatch
<1>1. IndInv => NumbersMatch BY DEF IndInv
<1> QED BY <1>1, ClientInv, PTL

\* What follows the reply to an open at once is not lost.
THEOREM NoPacketLost == Spec => []NothingLost
<1>1. IndInv => NothingLost BY DEF IndInv
<1> QED BY <1>1, ClientInv, PTL

\* A JSON caller gets its own answer.
THEOREM AnswersAreMine == Spec => []AnswerIsMine
<1>1. IndInv => AnswerIsMine BY DEF IndInv
<1> QED BY <1>1, ClientInv, PTL

\* No send_json waits for a reply on a client that has been disconnected. It says nothing of an
\* open_channel, which waits on until its own timeout.
THEOREM JsonCallersReleased == Spec => []DisconnectReleasesJson
<1>1. IndInv => DisconnectReleasesJson BY DEF IndInv
<1> QED BY <1>1, ClientInv, PTL

(* The service. Lemmas say what each part of the mapping depends on; every action has its step. *)

\* Channels that keep number and kind are the same channels to the service.
LEMMA ChannelsStay ==
  ASSUME DOMAIN chan' = DOMAIN chan,
         \A c \in DOMAIN chan : chan'[c].id = chan[c].id /\ chan'[c].placeholder = chan[c].placeholder
  PROVE openedBar' = openedBar /\ numberBar' = numberBar
  BY DEF openedBar, numberBar

\* Calls stay as they are, and on their number, while channels come and get theirs.
LEMMA CallsStay ==
  ASSUME IndInv, UNCHANGED req,
         \A c \in DOMAIN chan : chan[c].id # 0 => chan'[c].id = chan[c].id
  PROVE UNCHANGED <<callBar, onBar, answerBar>>
<1>1. \A j \in DOMAIN req : IdOf(j)' = IdOf(j)
  <2> SUFFICES ASSUME NEW j \in DOMAIN req PROVE IdOf(j)' = IdOf(j) OBVIOUS
  <2>1. chan[req[j].ch].id # 0 /\ req[j].ch \in DOMAIN chan BY CallsNumbered
  <2> QED BY <2>1 DEF IdOf
<1> QED BY <1>1 DEF callBar, onBar, answerBar

\* One call changes.
LEMMA CallMoves ==
  ASSUME IndInv, UNCHANGED chan, NEW j \in DOMAIN req, NEW v \in {"wait", "failed"},
         req' = [req EXCEPT ![j].state = v]
  PROVE /\ j \in Requests
        /\ callBar' = [callBar EXCEPT ![j] = IF v = "wait" THEN "asking" ELSE "over"]
        /\ onBar' = onBar /\ answerBar' = answerBar
<1>1. /\ DOMAIN req' = DOMAIN req
      /\ \A k \in DOMAIN req : /\ req'[k].ch = req[k].ch /\ req'[k].answer = req[k].answer
                               /\ req'[k].state = IF k = j THEN v ELSE req[k].state
  BY CallChanged
<1>2. j \in Requests BY Shapes, ClientAssumption DEF IndInv, Shape, ReqShape, Requests
<1>3. callBar' = [callBar EXCEPT ![j] = IF v = "wait" THEN "asking" ELSE "over"] BY <1>1, <1>2 DEF callBar
<1>4. onBar' = onBar BY <1>1 DEF onBar, IdOf
<1>5. answerBar' = answerBar BY <1>1 DEF answerBar
<1> QED BY <1>2, <1>3, <1>4, <1>5

\* What is on its way: data is of no interest, ...
LEMMA DataSent ==
  ASSUME TypeOK, NEW p \in Packet, p.kind = "data", wire' = Append(wire, p)
  PROVE comingBar' = comingBar /\ (ComeInOrder => ComeInOrder')
<1>1. /\ Len(wire) \in Nat /\ DOMAIN wire = 1..Len(wire)
      /\ DOMAIN wire' = 1..Len(wire) + 1
      /\ \A i \in 1..Len(wire) : wire'[i] = wire[i]
      /\ wire'[Len(wire) + 1] = p
  BY Appended DEF TypeOK
<1>2. comingBar' = comingBar BY <1>1 DEF comingBar, Data
<1>3. ComeInOrder => ComeInOrder' BY <1>1 DEF ComeInOrder, Data
<1> QED BY <1>2, <1>3

\* ... a new number is the highest, ...
LEMMA NumberSent ==
  ASSUME IndInv, NEW p \in Packet, p.kind # "data", p.id = Len(owner) + 1, wire' = Append(wire, p)
  PROVE comingBar' = comingBar \cup {Len(owner) + 1} /\ (ComeInOrder => ComeInOrder')
<1>1. /\ Len(wire) \in Nat /\ DOMAIN wire = 1..Len(wire)
      /\ DOMAIN wire' = 1..Len(wire) + 1
      /\ \A i \in 1..Len(wire) : wire'[i] = wire[i]
      /\ wire'[Len(wire) + 1] = p
  BY Appended DEF IndInv, TypeOK
<1>2. comingBar' = comingBar \cup {Len(owner) + 1}
  <2>1. \A i \in DOMAIN wire' : i \in DOMAIN wire \/ i = Len(wire) + 1 BY <1>1
  <2>2. DOMAIN wire \subseteq DOMAIN wire' /\ Len(wire) + 1 \in DOMAIN wire' BY <1>1
  <2> QED BY <1>1, <2>1, <2>2 DEF comingBar, Data
<1>3. ComeInOrder => ComeInOrder'
  <2> SUFFICES ASSUME ComeInOrder, NEW i \in DOMAIN wire', NEW k \in DOMAIN wire', i < k,
                      wire'[i].kind # "data", wire'[k].kind # "data"
               PROVE wire'[i].id < wire'[k].id
    BY DEF ComeInOrder, Data
  <2>1. i \in 1..Len(wire) /\ wire'[i] = wire[i] BY <1>1
  <2>2. CASE k \in 1..Len(wire) BY <1>1, <2>1, <2>2 DEF ComeInOrder, Data
  <2>3. CASE k = Len(wire) + 1
    <3>1. wire[i].id <= Len(owner) BY <1>1, <2>1 DEF IndInv, NumbersKnown
    <3>2. wire[i].id \in Nat /\ Len(owner) \in Nat
      BY <1>1, <2>1, Shapes DEF IndInv, Shape, WireShape, DevShape, DeviceIds
    <3> QED BY <1>1, <2>1, <2>3, <3>1, <3>2
  <2> QED BY <1>1, <2>2, <2>3
<1> QED BY <1>2, <1>3

\* ... and the one that is read the lowest.
LEMMA WireRead ==
  ASSUME IndInv, ComeInOrder, wire # <<>>, wire' = Tail(wire)
  PROVE /\ ComeInOrder'
        /\ wire[1].kind = "data" => comingBar' = comingBar
        /\ wire[1].kind # "data" => /\ wire[1].id \in comingBar /\ comingBar' = comingBar \ {wire[1].id}
                                   /\ \A r \in comingBar : wire[1].id <= r
<1>1. /\ 1 \in DOMAIN wire
      /\ \A i \in DOMAIN wire' : i + 1 \in DOMAIN wire /\ wire'[i] = wire[i + 1] /\ 1 < i + 1 /\ i \in Nat
      /\ \A i \in DOMAIN wire : i = 1 \/ \E k \in DOMAIN wire' : k + 1 = i /\ wire'[k] = wire[i]
  BY WireShifted
<1>2. ComeInOrder'
  <2> SUFFICES ASSUME NEW i \in DOMAIN wire', NEW k \in DOMAIN wire', i < k,
                      wire'[i].kind # "data", wire'[k].kind # "data"
               PROVE wire'[i].id < wire'[k].id
    BY DEF ComeInOrder, Data
  <2>1. i + 1 \in DOMAIN wire /\ k + 1 \in DOMAIN wire /\ i + 1 < k + 1 BY <1>1
  <2> QED BY <1>1, <2>1 DEF ComeInOrder, Data
<1>3. ASSUME wire[1].kind = "data" PROVE comingBar' = comingBar
  <2>1. \A x : x \in comingBar' => x \in comingBar BY <1>1 DEF comingBar, Data
  <2>2. \A x : x \in comingBar => x \in comingBar' BY <1>1, <1>3 DEF comingBar, Data
  <2> QED BY <2>1, <2>2
<1>4. ASSUME wire[1].kind # "data"
      PROVE /\ wire[1].id \in comingBar /\ comingBar' = comingBar \ {wire[1].id}
            /\ \A r \in comingBar : wire[1].id <= r
  <2>1. \A i \in DOMAIN wire : wire[i].kind # "data" /\ i # 1 => wire[1].id < wire[i].id
    <3> SUFFICES ASSUME NEW i \in DOMAIN wire, wire[i].kind # "data", i # 1 PROVE wire[1].id < wire[i].id OBVIOUS
    <3>1. 1 < i BY Shapes DEF IndInv, Shape, WireShape
    <3> QED BY <1>1, <1>4, <3>1 DEF ComeInOrder, Data
  <2>2. \A i \in DOMAIN wire : wire[i].id \in Nat BY Shapes DEF IndInv, Shape, WireShape, DeviceIds
  <2>3. wire[1].id \in comingBar BY <1>1, <1>4 DEF comingBar, Data
  <2>4. \A r \in comingBar : wire[1].id <= r
    <3> SUFFICES ASSUME NEW i \in DOMAIN wire, wire[i].kind # "data" PROVE wire[1].id <= wire[i].id
      BY DEF comingBar, Data
    <3> QED BY <1>1, <2>1, <2>2
  <2>5. \A x : x \in comingBar' => x \in comingBar \ {wire[1].id}
    <3> SUFFICES ASSUME NEW i \in DOMAIN wire', wire'[i].kind # "data"
                 PROVE wire'[i].id \in comingBar /\ wire'[i].id # wire[1].id
      BY DEF comingBar, Data
    <3>1. i + 1 \in DOMAIN wire /\ wire'[i] = wire[i + 1] /\ i + 1 # 1 BY <1>1
    <3>2. wire[1].id < wire[i + 1].id BY <2>1, <3>1
    <3> QED BY <1>1, <2>2, <3>1, <3>2 DEF comingBar, Data
  <2>6. \A x : x \in comingBar \ {wire[1].id} => x \in comingBar'
    BY <1>1 DEF comingBar, Data
  <2> QED BY <2>3, <2>4, <2>5, <2>6
<1> QED BY <1>2, <1>3, <1>4

\* A channel object of kind ph is made, which has no number yet.
LEMMA ChannelMade ==
  ASSUME IndInv, Len(chan) < MaxChannels, NEW n \in Names, NEW ph \in BOOLEAN,
         NEW o \in {"wait", "failed", "none"}, chan' = Append(chan, NewChannel(n, ph, o)), UNCHANGED req
  PROVE /\ Len(chan) + 1 \in Objects /\ Len(chan) + 1 \notin openedBar /\ numberBar[Len(chan) + 1] = 0
        /\ openedBar' = IF ph THEN openedBar ELSE openedBar \cup {Len(chan) + 1}
        /\ numberBar' = numberBar
        /\ UNCHANGED <<callBar, onBar, answerBar>>
<1>1. NewChannel(n, ph, o) \in Channel BY ClientAssumption DEF NewChannel, Channel
<1>2. /\ Len(chan) \in Nat /\ DOMAIN chan = 1..Len(chan) /\ DOMAIN chan' = 1..Len(chan) + 1
      /\ \A c \in 1..Len(chan) : chan'[c] = chan[c]
      /\ chan'[Len(chan) + 1] = NewChannel(n, ph, o)
  BY <1>1, Appended DEF IndInv, TypeOK
<1>3. Len(chan) + 1 \in Objects /\ Len(chan) + 1 \notin DOMAIN chan BY <1>2, ClientAssumption DEF Objects
<1>4. chan'[Len(chan) + 1].placeholder = ph /\ chan'[Len(chan) + 1].id = 0 BY <1>2 DEF NewChannel
<1>5. openedBar' = IF ph THEN openedBar ELSE openedBar \cup {Len(chan) + 1}
  BY <1>2, <1>3, <1>4 DEF openedBar
<1>6. numberBar' = numberBar
  <2>1. \A c \in Objects : numberBar'[c] = numberBar[c] BY <1>2, <1>3, <1>4 DEF numberBar
  <2> QED BY <2>1 DEF numberBar
<1>7. UNCHANGED <<callBar, onBar, answerBar>> BY <1>2, CallsStay
<1> QED BY <1>3, <1>5, <1>6, <1>7 DEF openedBar, numberBar

\* Where there is a pending open the service has one that is unanswered.
LEMMA PendingUnanswered ==
  ASSUME IndInv, NEW c \in DOMAIN chan, Pending(c) PROVE c \in Service!Unanswered
<1>1. c \in Objects BY Shapes, ClientAssumption DEF IndInv, Shape, ChanShape, Objects
<1> QED BY <1>1 DEF Pending, Service!Unanswered, openedBar, numberBar

LEMMA DisplacesUnanswered ==
  ASSUME IndInv, NEW n, Displaces(n) \/ Overtakes(n) PROVE Service!Unanswered # {}
<1>1. PICK i \in DOMAIN reg : Pending(reg[i]) BY DEF Displaces, Overtakes, Position
<1>2. reg[i] \in DOMAIN chan BY Shapes DEF IndInv, Shape, RegShape
<1> QED BY <1>1, <1>2, PendingUnanswered

\* An open is a new channel of the service.
LEMMA OpenChannelServes == ASSUME IndInv, OpenChannel PROVE Service!Next
<1>1. PICK n \in Names, ok \in BOOLEAN :
        /\ unmatched' = (unmatched \/ Displaces(n) \/ Overtakes(n))
        /\ chan' = Append(chan, NewChannel(n, FALSE, IF ok THEN "wait" ELSE "failed"))
  BY DEF OpenChannel
<1>2. /\ Len(chan) < MaxChannels
      /\ UNCHANGED <<phase, req, callbacks, asked, owner, wire, packets, abandoned, lost>>
  BY DEF OpenChannel
<1>3. /\ Len(chan) + 1 \in Objects /\ Len(chan) + 1 \notin openedBar /\ numberBar[Len(chan) + 1] = 0
      /\ openedBar' = openedBar \cup {Len(chan) + 1}
      /\ UNCHANGED <<numberBar, callBar, onBar, answerBar>>
  BY <1>1, <1>2, ChannelMade
<1>4. unmatched' \in {unmatched, unmatched \/ Service!Unanswered # {}}
  BY <1>1, DisplacesUnanswered DEF IndInv, TypeOK
<1>5. UNCHANGED comingBar BY <1>2 DEF comingBar, Data
<1>6. Service!Open(Len(chan) + 1)
  BY <1>2, <1>3, <1>4, <1>5 DEF Service!Open, Service!callV
<1> QED BY <1>3, <1>6 DEF Service!Next

\* A placeholder is none, and may make the client forget an open.
LEMMA PlaceholderServes == ASSUME IndInv, RegisterPlaceholder PROVE [Service!Next]_(Service!vars)
<1>1. PICK n \in Names :
        /\ unmatched' = (unmatched \/ Displaces(n))
        /\ chan' = Append(chan, NewChannel(n, TRUE, "none"))
  BY DEF RegisterPlaceholder
<1>2. Len(chan) < MaxChannels /\ UNCHANGED <<phase, req, callbacks, devV, abandoned, lost>>
  BY DEF RegisterPlaceholder
<1>3. UNCHANGED <<openedBar, numberBar, callBar, onBar, answerBar>> BY <1>1, <1>2, ChannelMade
<1>4. UNCHANGED <<comingBar, owner, abandoned, phase>> BY <1>2 DEF comingBar, Data, devV
<1>5. CASE unmatched' = unmatched BY <1>3, <1>4, <1>5 DEF Service!vars, Service!chanV, Service!callV
<1>6. CASE unmatched' # unmatched
  <2>1. unmatched' = TRUE /\ Displaces(n) BY <1>1, <1>6 DEF IndInv, TypeOK
  <2>2. Service!Forget
    BY <1>3, <1>4, <2>1, DisplacesUnanswered DEF Service!Forget, Service!callV
  <2> QED BY <2>2 DEF Service!Next
<1> QED BY <1>5, <1>6

\* So may the removal of an entry.
LEMMA RemoveServes == ASSUME IndInv, RemoveChannel PROVE [Service!Next]_(Service!vars)
<1>1. PICK i \in DOMAIN reg : unmatched' = (unmatched \/ Pending(reg[i])) BY DEF RemoveChannel
<1>2. UNCHANGED <<phase, chan, req, callbacks, devV, abandoned, lost>> BY DEF RemoveChannel
<1>3. UNCHANGED <<openedBar, numberBar, callBar, onBar, answerBar>>
  BY <1>2, ChannelsStay, CallsStay
<1>4. UNCHANGED <<comingBar, owner, abandoned, phase>> BY <1>2 DEF comingBar, Data, devV
<1>5. CASE unmatched' = unmatched BY <1>3, <1>4, <1>5 DEF Service!vars, Service!chanV, Service!callV
<1>6. CASE unmatched' # unmatched
  <2>1. unmatched' = TRUE /\ Pending(reg[i]) BY <1>1, <1>6 DEF IndInv, TypeOK
  <2>2. reg[i] \in DOMAIN chan BY Shapes DEF IndInv, Shape, RegShape
  <2>3. Service!Forget
    BY <1>3, <1>4, <2>1, <2>2, PendingUnanswered DEF Service!Forget, Service!callV
  <2> QED BY <2>3 DEF Service!Next
<1> QED BY <1>5, <1>6

\* A call is made on a channel with a number.
LEMMA SendJsonServes == ASSUME IndInv, SendJson PROVE Service!Next
<1>1. PICK c \in DOMAIN chan :
        /\ chan[c].opener = "done" /\ chan[c].name \in JsonNames
        /\ req' = Append(req, [ch |-> c, state |-> "lock", answer |-> 0])
  BY DEF SendJson
<1>2. Len(req) < MaxRequests /\ UNCHANGED <<phase, reg, chan, callbacks, devV, ghostV>> BY DEF SendJson
<1>3. c \in Objects /\ c \in openedBar /\ chan[c].id # 0 /\ numberBar[c] = chan[c].id
  <2>1. c \in Objects BY Shapes, ClientAssumption DEF IndInv, Shape, ChanShape, Objects
  <2>2. chan[c].id # 0 /\ ~chan[c].placeholder BY <1>1 DEF IndInv, OpenersOpen
  <2> QED BY <2>1, <2>2 DEF openedBar, numberBar
<1> DEFINE q == [ch |-> c, state |-> "lock", answer |-> 0]
           j == Len(req) + 1
<1>4. q \in Request BY <1>3, ClientAssumption DEF Request
<1>5. /\ Len(req) \in Nat /\ DOMAIN req = 1..Len(req) /\ DOMAIN req' = 1..Len(req) + 1
      /\ \A k \in 1..Len(req) : req'[k] = req[k]
      /\ req'[j] = q
  BY <1>1, <1>4, Appended DEF IndInv, TypeOK
<1>6. j \in Requests /\ j \notin DOMAIN req /\ callBar[j] = "none"
  BY <1>2, <1>5, ClientAssumption DEF Requests, callBar
<1>7. q.ch = c /\ q.state = "lock" /\ q.answer = 0 OBVIOUS
<1>8. \A k \in Requests : k \in DOMAIN req' <=> k \in DOMAIN req \/ k = j BY <1>5
<1> HIDE DEF q, j
<1>9. callBar' = [callBar EXCEPT ![j] = "queued"] BY <1>5, <1>6, <1>7, <1>8 DEF callBar
<1>10. onBar' = [onBar EXCEPT ![j] = numberBar[c]]
  BY <1>2, <1>3, <1>5, <1>6, <1>7, <1>8 DEF onBar, IdOf
<1>11. answerBar' = answerBar BY <1>5, <1>6, <1>7, <1>8 DEF answerBar
<1>12. UNCHANGED <<openedBar, numberBar>> BY <1>2, ChannelsStay
<1>13. UNCHANGED <<comingBar, owner, unmatched, abandoned, phase>> BY <1>2 DEF comingBar, Data, devV, ghostV
<1>14. Service!Call(j, c)
  BY <1>3, <1>6, <1>9, <1>10, <1>11, <1>12, <1>13 DEF Service!Call, Service!chanV
<1> QED BY <1>3, <1>6, <1>14 DEF Service!Next

\* It asks when nobody else asks on its channel; if it cannot send it is over.
LEMMA JsonSentServes == ASSUME IndInv, NEW j \in DOMAIN req, JsonSent(j) PROVE Service!Next
<1>1. PICK ok \in BOOLEAN :
        /\ phase = "closed" => ~ok
        /\ req' = [req EXCEPT ![j].state = IF ok THEN "wait" ELSE "failed"]
  BY DEF JsonSent
<1>2. /\ req[j].state = "lock" /\ LockFree(req[j].ch)
      /\ UNCHANGED <<phase, reg, chan, opens, owner, wire, packets, ghostV>>
  BY DEF JsonSent
<1>3. /\ j \in Requests
      /\ callBar' = [callBar EXCEPT ![j] = IF ok THEN "asking" ELSE "over"]
      /\ onBar' = onBar /\ answerBar' = answerBar
  BY <1>1, <1>2, CallMoves
<1>4. callBar[j] = "queued" BY <1>2, <1>3 DEF callBar
<1>5. ASSUME NEW k \in Requests, callBar[k] = "asking" PROVE onBar[k] # onBar[j]
  <2>1. k \in DOMAIN req /\ req[k].state = "wait" BY <1>5 DEF callBar
  <2>2. req[k].ch # req[j].ch BY <1>2, <2>1 DEF LockFree
  <2>3. /\ req[k].ch \in DOMAIN chan /\ chan[req[k].ch].id = IdOf(k) /\ IdOf(k) # 0
        /\ req[j].ch \in DOMAIN chan /\ chan[req[j].ch].id = IdOf(j)
    BY <2>1, CallsNumbered
  <2>4. IdOf(k) # IdOf(j) BY <2>2, <2>3 DEF IndInv, NumbersUnique
  <2> QED BY <1>3, <2>1, <2>4 DEF onBar
<1>6. UNCHANGED <<openedBar, numberBar>> BY <1>2, ChannelsStay
<1>7. UNCHANGED <<comingBar, owner, unmatched, abandoned, phase>> BY <1>2 DEF comingBar, Data, ghostV
<1>8. Service!Ask(j)
  BY <1>1, <1>3, <1>4, <1>5, <1>6, <1>7 DEF Service!Ask, Service!chanV
<1> QED BY <1>3, <1>8 DEF Service!Next

\* A call gives up.
LEMMA GivesUpServes == ASSUME IndInv, NEW j \in DOMAIN req, JsonGivesUp(j) PROVE Service!Next
<1>1. /\ req[j].state = "wait" /\ req' = [req EXCEPT ![j].state = "failed"]
      /\ abandoned' = abandoned \cup {IdOf(j)}
      /\ UNCHANGED <<phase, reg, chan, devV, unmatched, lost>>
  BY DEF JsonGivesUp
<1>2. /\ j \in Requests /\ callBar' = [callBar EXCEPT ![j] = "over"]
      /\ onBar' = onBar /\ answerBar' = answerBar
  BY <1>1, CallMoves
<1>3. callBar[j] = "asking" /\ onBar[j] = IdOf(j) BY <1>1, <1>2 DEF callBar, onBar
<1>4. UNCHANGED <<openedBar, numberBar>> BY <1>1, ChannelsStay
<1>5. UNCHANGED <<comingBar, owner, unmatched, phase>> BY <1>1 DEF comingBar, Data, devV
<1>6. Service!GiveUp(j) BY <1>1, <1>2, <1>3, <1>4, <1>5 DEF Service!GiveUp, Service!chanV
<1> QED BY <1>2, <1>6 DEF Service!Next

\* disconnect() ends all calls that ask.
LEMMA DisconnectedServes == ASSUME IndInv, Disconnected PROVE Service!Next
<1>1. /\ phase' = "closed" /\ UNCHANGED <<chan, devV, ghostV>>
      /\ req' = [j \in DOMAIN req |->
           IF \E s \in DeviceIds : callbacks[s] = j /\ req[j].state = "wait"
           THEN [req[j] EXCEPT !.state = "failed"] ELSE req[j]]
  BY DEF Disconnected
<1>2. ASSUME NEW j \in DOMAIN req
      PROVE /\ req'[j].ch = req[j].ch /\ req'[j].answer = req[j].answer
            /\ req'[j].state = IF req[j].state = "wait" THEN "failed" ELSE req[j].state
  <2>1. req[j] \in Request BY DEF IndInv, TypeOK
  <2>2. req[j].state = "wait" => IdOf(j) \in DeviceIds /\ callbacks[IdOf(j)] = j
    BY CallsNumbered DEF IndInv, WaitersOwnSlots
  <2> QED BY <1>1, <2>1, <2>2 DEF Request
<1>3. DOMAIN req' = DOMAIN req BY <1>1
<1>4. callBar' = [j \in Requests |-> IF callBar[j] = "asking" THEN "over" ELSE callBar[j]]
  BY <1>2, <1>3 DEF callBar
<1>5. onBar' = onBar BY <1>1, <1>2, <1>3 DEF onBar, IdOf
<1>6. answerBar' = answerBar BY <1>2, <1>3 DEF answerBar
<1>7. UNCHANGED <<openedBar, numberBar>> BY <1>1, ChannelsStay
<1>8. UNCHANGED <<comingBar, owner, unmatched, abandoned>> BY <1>1 DEF comingBar, Data, devV, ghostV
<1>9. (phase = "closed")' = TRUE BY <1>1
<1>10. Service!Close BY <1>4, <1>5, <1>6, <1>7, <1>8, <1>9 DEF Service!Close, Service!chanV
<1> QED BY <1>10 DEF Service!Next

\* The connection ends.
LEMMA DropServes == ASSUME IndInv, ConnectionLost \/ Disconnect PROVE Service!Next
<1>1. /\ phase # "closed" /\ phase' # "closed" /\ wire' = <<>>
      /\ UNCHANGED <<reg, chan, req, callbacks, owner, packets, ghostV>>
  BY DEF ConnectionLost, Disconnect
<1>2. UNCHANGED <<openedBar, numberBar, callBar, onBar, answerBar>> BY <1>1, ChannelsStay, CallsStay
<1>3. comingBar' = {} BY <1>1 DEF comingBar
<1>4. Service!Cut BY <1>1, <1>2, <1>3 DEF Service!Cut, Service!callV, ghostV
<1> QED BY <1>4 DEF Service!Next

\* The device makes a number for an open that it has not answered, ...
LEMMA AnswersOpenServes == ASSUME IndInv, AnswersOpen PROVE Service!Next /\ (ComeInOrder => ComeInOrder')
<1>1. /\ opens # <<>> /\ Len(owner) < MaxDeviceIds /\ owner' = Append(owner, Head(opens))
      /\ wire' = Append(wire, [kind |-> "opened", id |-> Len(owner) + 1, for |-> 0])
      /\ UNCHANGED <<phase, reg, chan, req, callbacks, asked, packets, ghostV>>
  BY DEF AnswersOpen, Number, Push
<1> DEFINE p == [kind |-> "opened", id |-> Len(owner) + 1, for |-> 0]
<1>2. DevShape /\ WireShape /\ ChanShape BY Shapes DEF IndInv, Shape
<1>3. p \in Packet /\ p.kind # "data" /\ p.id = Len(owner) + 1
  BY <1>1, <1>2, ClientAssumption DEF DevShape, Packet, DeviceIds
<1>4. comingBar' = comingBar \cup {Len(owner) + 1} /\ (ComeInOrder => ComeInOrder')
  BY <1>1, <1>3, NumberSent
<1>5. PICK o \in DOMAIN chan : o = Head(opens) /\ o = opens[1] /\ 1 \in DOMAIN opens
  BY <1>1, <1>2, Shifted DEF IndInv, TypeOK
<1>6. Len(owner') = Len(owner) + 1 BY <1>1, <1>5, Appended DEF IndInv, TypeOK
<1>7. o \in Objects /\ o # 0 BY <1>2, ClientAssumption DEF ChanShape, Objects
<1>8. ASSUME ~unmatched PROVE o \in Service!Unanswered /\ \A s \in DOMAIN owner : owner[s] # o
  <2>1. Awaited(o) BY <1>5 DEF Awaited
  <2>2. Pending(o) BY <1>8, <2>1 DEF IndInv, AwaitedPending
  <2>3. phase = "up" BY <1>1 DEF IndInv, DeadIsSilent
  <2>4. ASSUME NEW s \in DOMAIN owner, owner[s] = o PROVE FALSE
    <3>1. chan[o].id = s \/ \E i \in DOMAIN wire : Opened(i) /\ wire[i].id = s
      BY <1>7, <1>8, <2>3, <2>4 DEF IndInv, NumbersArrive
    <3>2. s # 0 BY <1>2 DEF DevShape
    <3>3. chan[o].id = 0 BY <2>2 DEF Pending
    <3>4. PICK i \in DOMAIN wire : Opened(i) /\ owner[wire[i].id] = o BY <2>4, <3>1, <3>2, <3>3
    <3>5. o < o BY <1>5, <1>8, <3>4 DEF IndInv, AnswersInOrder
    <3> QED BY <1>2, <3>5 DEF ChanShape
  <2> QED BY <2>2, <2>4, PendingUnanswered
<1>9. UNCHANGED <<openedBar, numberBar, callBar, onBar, answerBar>> BY <1>1, ChannelsStay, CallsStay
<1>10. Service!Make(o)
  BY <1>1, <1>4, <1>5, <1>6, <1>8, <1>9 DEF Service!Make, Service!callV, ghostV
<1> QED BY <1>4, <1>7, <1>10 DEF Service!Next

\* ... or for a channel of its own, ...
LEMMA OpensChannelServes == ASSUME IndInv, OpensChannel PROVE Service!Next /\ (ComeInOrder => ComeInOrder')
<1>1. /\ Len(owner) < MaxDeviceIds /\ owner' = Append(owner, 0)
      /\ wire' = Append(wire, [kind |-> "deviceOpen", id |-> Len(owner) + 1, for |-> 0])
      /\ UNCHANGED <<phase, reg, chan, req, callbacks, asked, packets, ghostV>>
  BY DEF OpensChannel, Number, Push
<1> DEFINE p == [kind |-> "deviceOpen", id |-> Len(owner) + 1, for |-> 0]
<1>2. DevShape /\ ChanShape BY Shapes DEF IndInv, Shape
<1>3. p \in Packet /\ p.kind # "data" /\ p.id = Len(owner) + 1
  BY <1>1, <1>2, ClientAssumption DEF DevShape, Packet, DeviceIds
<1>4. comingBar' = comingBar \cup {Len(owner) + 1} /\ (ComeInOrder => ComeInOrder')
  BY <1>1, <1>3, NumberSent
<1>5. 0 \in 0..Len(chan) BY <1>2 DEF ChanShape
<1>6. Len(owner') = Len(owner) + 1 BY <1>1, <1>5, Appended DEF IndInv, TypeOK
<1>7. UNCHANGED <<openedBar, numberBar, callBar, onBar, answerBar>> BY <1>1, ChannelsStay, CallsStay
<1>8. Service!Make(0)
  BY <1>1, <1>4, <1>6, <1>7 DEF Service!Make, Service!callV, ghostV
<1> QED BY <1>4, <1>8 DEF Service!Next

\* ... or ignores an open.
LEMMA IgnoresOpenServes == ASSUME IndInv, IgnoresOpen PROVE [Service!Next]_(Service!vars)
<1>1. /\ opens # <<>> /\ unmatched' = TRUE
      /\ UNCHANGED <<phase, reg, chan, req, callbacks, asked, owner, wire, packets, abandoned, lost>>
  BY DEF IgnoresOpen
<1>2. UNCHANGED <<openedBar, numberBar, callBar, onBar, answerBar>> BY <1>1, ChannelsStay, CallsStay
<1>3. UNCHANGED comingBar BY <1>1 DEF comingBar, Data
<1>4. CASE unmatched BY <1>1, <1>2, <1>3, <1>4 DEF IndInv, TypeOK, Service!vars, Service!chanV, Service!callV
<1>5. CASE ~unmatched
  <2>1. PICK o \in DOMAIN chan : o = opens[1] /\ 1 \in DOMAIN opens
    BY <1>1, Shapes DEF IndInv, Shape, DevShape, TypeOK
  <2>2. Awaited(o) BY <2>1 DEF Awaited
  <2>3. Pending(o) BY <1>5, <2>2 DEF IndInv, AwaitedPending
  <2>4. Service!Forget
    BY <1>1, <1>2, <1>3, <2>3, PendingUnanswered DEF Service!Forget, Service!callV
  <2> QED BY <2>4 DEF Service!Next
<1> QED BY <1>4, <1>5

\* Data on its way changes nothing.
LEMMA DataServes ==
  ASSUME IndInv, AnswersJson \/ SendsBinary PROVE UNCHANGED Service!vars /\ (ComeInOrder => ComeInOrder')
<1>1. UNCHANGED <<phase, reg, chan, req, callbacks, opens, owner, ghostV>> BY DEF AnswersJson, SendsBinary
<1>2. PICK p : p \in Packet /\ p.kind = "data" /\ wire' = Append(wire, p)
  <2>1. CASE AnswersJson
    <3>1. PICK j \in DOMAIN req : j = Head(asked)
      BY <2>1, Shifted DEF AnswersJson, IndInv, TypeOK
    <3>2. IdOf(j) \in DeviceIds /\ j \in 0..MaxRequests
      BY CallsNumbered, Shapes, ClientAssumption DEF IndInv, Shape, ReqShape
    <3>3. [kind |-> "data", id |-> IdOf(j), for |-> j] \in Packet BY <3>2 DEF Packet
    <3> QED BY <2>1, <3>1, <3>3 DEF AnswersJson, Push
  <2>2. CASE SendsBinary
    <3>1. PICK s \in DOMAIN owner : Push("data", s, 0) BY <2>2 DEF SendsBinary
    <3>2. [kind |-> "data", id |-> s, for |-> 0] \in Packet
      BY Shapes, ClientAssumption DEF IndInv, Shape, DevShape, DeviceIds, Packet
    <3> QED BY <3>1, <3>2 DEF Push
  <2> QED BY <2>1, <2>2
<1>3. UNCHANGED comingBar /\ (ComeInOrder => ComeInOrder') BY <1>2, DataSent DEF IndInv
<1>4. UNCHANGED <<openedBar, numberBar, callBar, onBar, answerBar>> BY <1>1, ChannelsStay, CallsStay
<1> QED BY <1>1, <1>3, <1>4 DEF Service!vars, Service!chanV, Service!callV, ghostV

\* A number is read.
LEMMA NumberServes ==
  ASSUME IndInv, IndInv', ComeInOrder, Dispatch, wire[1].kind # "data"
  PROVE Service!Next /\ ComeInOrder'
<1>1. wire # <<>> /\ wire' = Tail(wire) /\ phase = "up" BY DEF Dispatch
<1>2. PICK s : s = wire[1].id OBVIOUS
<1>3. /\ ComeInOrder' /\ s \in comingBar /\ comingBar' = comingBar \ {s} /\ \A r \in comingBar : s <= r
  BY <1>1, <1>2, WireRead
<1>4. 1 \in DOMAIN wire /\ wire[1].kind \in {"opened", "deviceOpen"}
  BY <1>1, WireShifted, Shapes DEF IndInv, Shape, WireShape
<1>5. /\ (owner[s] # 0) = (wire[1].kind = "opened") /\ \A c \in DOMAIN chan : chan[c].id # s
      /\ s \in DOMAIN owner /\ (owner[s] # 0 => owner[s] \in DOMAIN chan)
  BY <1>2, <1>4, WireOwned DEF IndInv, NumbersNew, Data, Opened
<1>6. PICK d :
        /\ d = 0 \/ d \in DOMAIN chan
        /\ d # 0 => chan[d].id = 0 /\ chan[d].placeholder = (wire[1].kind = "deviceOpen")
        /\ wire[1].kind = "opened" /\ ~unmatched => d = owner[wire[1].id]
        /\ chan' = [c \in DOMAIN chan |-> IF c = d THEN [chan[c] EXCEPT !.id = wire[1].id] ELSE chan[c]]
        /\ UNCHANGED <<phase, reg, req, callbacks, opens, asked, owner, packets, unmatched, abandoned, lost>>
  BY NumberGoes
<1>7. ChanShape BY Shapes DEF IndInv, Shape
<1>8. /\ DOMAIN chan' = DOMAIN chan
      /\ \A c \in DOMAIN chan : /\ chan'[c].id = IF c = d THEN s ELSE chan[c].id
                               /\ chan'[c].placeholder = chan[c].placeholder
  <2>1. \A c \in DOMAIN chan : chan[c] \in Channel BY DEF IndInv, TypeOK
  <2> QED BY <1>2, <1>6, <2>1 DEF Channel
<1>9. openedBar' = openedBar BY <1>8 DEF openedBar
<1>10. UNCHANGED <<callBar, onBar, answerBar>>
  <2>1. \A c \in DOMAIN chan : chan[c].id # 0 => chan'[c].id = chan[c].id
    BY <1>6, <1>7, <1>8 DEF ChanShape
  <2> QED BY <1>6, <2>1, CallsStay
<1>11. UNCHANGED <<owner, unmatched, abandoned, phase>> BY <1>6
<1>12. CASE d = 0
  <2>1. numberBar' = numberBar BY <1>7, <1>8, <1>12 DEF numberBar, ChanShape
  <2>2. owner[s] = 0 \/ unmatched BY <1>2, <1>5, <1>6, <1>12
  <2>3. Service!Read(s) BY <1>3, <1>9, <1>10, <1>11, <2>1, <2>2 DEF Service!Read, Service!callV
  <2> QED BY <1>3, <2>3 DEF Service!Next
<1>13. CASE d # 0
  <2>1. d \in Objects /\ d \in DOMAIN chan BY <1>6, <1>7, <1>13, ClientAssumption DEF ChanShape, Objects
  <2>2. numberBar[d] = 0 BY <1>6, <1>13, <2>1 DEF numberBar
  <2>3. numberBar' = [numberBar EXCEPT ![d] = s] BY <1>8, <2>1 DEF numberBar
  <2>4. Service!Gets(d, s) BY <2>2, <2>3 DEF Service!Gets
  <2>5. CASE wire[1].kind = "opened"
    <3>1. d \in openedBar /\ owner[s] # 0 BY <1>5, <1>6, <1>7, <1>13, <2>1, <2>5 DEF openedBar, ChanShape
    <3>2. ~unmatched => d = owner[s] BY <1>2, <1>6, <2>5
    <3>3. Service!Read(s) BY <1>3, <1>9, <1>10, <1>11, <2>4, <3>1, <3>2 DEF Service!Read, Service!callV
    <3> QED BY <1>3, <3>3 DEF Service!Next
  <2>6. CASE wire[1].kind = "deviceOpen"
    <3>1. d \in Objects \ openedBar /\ owner[s] = 0 BY <1>5, <1>6, <1>13, <2>1, <2>6 DEF openedBar
    <3>2. Service!Read(s) BY <1>3, <1>9, <1>10, <1>11, <2>4, <3>1 DEF Service!Read, Service!callV
    <3> QED BY <1>3, <3>2 DEF Service!Next
  <2> QED BY <1>4, <2>5, <2>6
<1> QED BY <1>3, <1>12, <1>13

\* A data packet is read: an answer, if a call waits for it.
LEMMA AnswerServes ==
  ASSUME IndInv, IndInv', ComeInOrder, Dispatch, wire[1].kind = "data"
  PROVE [Service!Next]_(Service!vars) /\ ComeInOrder'
<1>1. wire # <<>> /\ wire' = Tail(wire) BY DEF Dispatch
<1>2. 1 \in DOMAIN wire /\ Head(wire) = wire[1] BY <1>1, WireShifted
<1>3. /\ Deliver(wire[1])
      /\ UNCHANGED <<phase, reg, chan, opens, asked, owner, packets, unmatched, abandoned>>
  BY <1>2 DEF Dispatch
<1>4. ComeInOrder' /\ comingBar' = comingBar BY <1>1, WireRead
<1>5. UNCHANGED <<openedBar, numberBar>> BY <1>3, ChannelsStay
<1>6. PICK s, f : s = wire[1].id /\ f = wire[1].for OBVIOUS
<1>7. s \in DeviceIds /\ f \in 0..MaxRequests /\ ReqShape
  BY <1>2, <1>6, Shapes DEF IndInv, Shape, WireShape
<1>8. CASE UNCHANGED req
  <2>1. UNCHANGED <<callBar, onBar, answerBar>> BY <1>3, <1>8, CallsStay
  <2> QED BY <1>3, <1>4, <1>5, <2>1 DEF Service!vars, Service!chanV, Service!callV
<1>9. CASE callbacks[s] # 0
  <2>1. PICK j \in DOMAIN req : callbacks[s] = j BY <1>7, <1>9 DEF ReqShape
  <2>2. req' = [k \in DOMAIN req |-> IF k = j /\ req[k].state = "wait"
                THEN [req[k] EXCEPT !.state = "done", !.answer = f] ELSE req[k]]
    BY <1>3, <1>6, <1>9, <2>1 DEF Deliver
  <2>3. Answered(j, f) BY <1>7, <2>2, Answering DEF IndInv
  <2>4. onBar' = onBar BY <1>3, <2>3 DEF onBar, IdOf, Answered
  <2>5. CASE req[j].state # "wait"
    <3>1. callBar' = callBar /\ answerBar' = answerBar BY <2>3, <2>5 DEF callBar, answerBar, Answered
    <3> QED BY <1>3, <1>4, <1>5, <2>4, <3>1 DEF Service!vars, Service!chanV, Service!callV
  <2>6. CASE req[j].state = "wait"
    <3>1. j \in Requests /\ f \in Requests \cup {0} BY <1>7, ClientAssumption DEF ReqShape, Requests
    <3>2. callBar[j] = "asking" /\ onBar[j] = IdOf(j) BY <2>6, <3>1 DEF callBar, onBar
    <3>3. callBar' = [callBar EXCEPT ![j] = "over"] BY <2>3, <2>6, <3>1 DEF callBar, Answered
    <3>4. answerBar' = [answerBar EXCEPT ![j] = f] BY <2>3, <2>6, <3>1 DEF answerBar, Answered
    <3>5. f = j \/ IdOf(j) \in abandoned \/ unmatched
      <4>1. j \in DOMAIN req' /\ req'[j].state = "done" /\ req'[j].answer = f BY <2>3, <2>6 DEF Answered
      <4>2. IdOf(j)' = IdOf(j) BY <1>3, <2>3 DEF IdOf, Answered
      <4>3. req'[j].answer = j \/ IdOf(j)' \in abandoned' \/ unmatched' BY <4>1 DEF IndInv, AnswerIsMine
      <4> QED BY <1>3, <4>1, <4>2, <4>3
    <3>6. Service!Answer(j, f)
      BY <1>3, <1>4, <1>5, <2>4, <3>2, <3>3, <3>4, <3>5 DEF Service!Answer, Service!chanV
    <3> QED BY <1>4, <3>1, <3>6 DEF Service!Next
  <2> QED BY <2>5, <2>6
<1> QED BY <1>3, <1>6, <1>8, <1>9 DEF Deliver

\* The coroutine in open_channel is resumed: the service knows the number already.
LEMMA OpenerServes ==
  ASSUME IndInv, NEW c \in DOMAIN chan, OpenReturns(c) \/ OpenTimesOut(c) PROVE UNCHANGED Service!vars
<1>1. PICK v \in {"done", "failed"} : chan' = [chan EXCEPT ![c].opener = v] BY DEF OpenReturns, OpenTimesOut
<1>2. UNCHANGED <<phase, reg, req, callbacks, devV, ghostV>> BY DEF OpenReturns, OpenTimesOut
<1>3. /\ DOMAIN chan' = DOMAIN chan
      /\ \A d \in DOMAIN chan : chan'[d].id = chan[d].id /\ chan'[d].placeholder = chan[d].placeholder
  BY <1>1, OpenerChanged DEF IndInv
<1>4. UNCHANGED <<openedBar, numberBar, callBar, onBar, answerBar>> BY <1>2, <1>3, ChannelsStay, CallsStay
<1>5. UNCHANGED comingBar BY <1>2 DEF comingBar, Data, devV
<1> QED BY <1>2, <1>4, <1>5 DEF Service!vars, Service!chanV, Service!callV, devV, ghostV

\* Every step of the client, the device and the connection is a step of the service or none, and
\* keeps the numbers in order.
LEMMA NextServes ==
  ASSUME IndInv, IndInv', ComeInOrder, [Next]_vars PROVE [Service!Next]_(Service!vars) /\ ComeInOrder'
<1>1. CASE Callers
  <2>1. UNCHANGED wire
    BY <1>1 DEF Callers, OpenChannel, RegisterPlaceholder, RemoveChannel, SendJson, OpenReturns, OpenTimesOut,
                JsonSent, JsonGivesUp, devV
  <2>2. ComeInOrder' BY <2>1 DEF ComeInOrder, Data
  <2>3. [Service!Next]_(Service!vars)
    BY <1>1, OpenChannelServes, PlaceholderServes, RemoveServes, SendJsonServes, OpenerServes, JsonSentServes,
       GivesUpServes DEF Callers
  <2> QED BY <2>2, <2>3
<1>2. CASE Dispatch
  BY <1>2, NumberServes, AnswerServes
<1>3. CASE ConnectionLost \/ Disconnect
  <2>1. ComeInOrder' BY <1>3 DEF ConnectionLost, Disconnect, ComeInOrder
  <2> QED BY <1>3, <2>1, DropServes
<1>4. CASE Disconnected
  <2>1. ComeInOrder' BY <1>4 DEF Disconnected, ComeInOrder, Data, devV
  <2> QED BY <1>4, <2>1, DisconnectedServes
<1>5. CASE IgnoresOpen
  <2>1. ComeInOrder' BY <1>5 DEF IgnoresOpen, ComeInOrder, Data
  <2> QED BY <1>5, <2>1, IgnoresOpenServes
<1>6. CASE AnswersOpen \/ OpensChannel \/ AnswersJson \/ SendsBinary
  BY <1>6, AnswersOpenServes, OpensChannelServes, DataServes
<1>7. CASE UNCHANGED vars
  <2>1. UNCHANGED <<phase, chan, req, owner, wire, unmatched, abandoned>> BY <1>7 DEF vars, devV, ghostV
  <2>2. UNCHANGED <<openedBar, numberBar, callBar, onBar, answerBar>> BY <2>1, ChannelsStay, CallsStay
  <2>3. UNCHANGED comingBar /\ ComeInOrder' BY <2>1 DEF comingBar, ComeInOrder, Data
  <2> QED BY <2>1, <2>2, <2>3 DEF Service!vars, Service!chanV, Service!callV
<1> QED BY <1>1, <1>2, <1>3, <1>4, <1>5, <1>6, <1>7 DEF Next, Device

\* IconaClient implements IconaService: numbers arrive in order, each at its own
\* channel; one call at a time asks on a channel, and gets its own answer; no call asks on a closed client.
THEOREM ServiceIsKept == Spec => KeepsService
<1>1. Init => Service!Init /\ ComeInOrder
  <2> SUFFICES ASSUME Init PROVE Service!Init /\ ComeInOrder OBVIOUS
  <2>1. DOMAIN <<>> = {} OBVIOUS
  <2> QED BY <2>1 DEF Init, Service!Init, ComeInOrder, openedBar, numberBar, comingBar, callBar, onBar, answerBar
<1>2. IndInv /\ IndInv' /\ ComeInOrder /\ [Next]_vars => [Service!Next]_(Service!vars) /\ ComeInOrder'
  BY NextServes
<1> QED BY <1>1, <1>2, ClientInv, PTL DEF Spec, KeepsService, Service!Spec
============================================================================
