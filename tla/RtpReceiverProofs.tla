------------------------- MODULE RtpReceiverProofs -------------------------
EXTENDS RtpReceiver, Integers, TLAPS

(* Sequences *)

\* The elements.
LEMMA Elements ==
  ASSUME NEW S, NEW s \in Seq(S)
  PROVE Len(s) \in Nat /\ DOMAIN s = 1..Len(s) /\ \A i \in DOMAIN s : s[i] \in S
OBVIOUS

\* One element more at the end.
LEMMA Appended ==
  ASSUME NEW S, NEW s \in Seq(S), NEW e \in S
  PROVE /\ Append(s, e) \in Seq(S)
        /\ Len(Append(s, e)) = Len(s) + 1 /\ DOMAIN Append(s, e) = 1..Len(s) + 1
        /\ \A i \in 1..Len(s) : Append(s, e)[i] = s[i]
        /\ Append(s, e)[Len(s) + 1] = e
OBVIOUS

\* The first element is gone.
LEMMA Shifted ==
  ASSUME NEW S, NEW s \in Seq(S), s # <<>>
  PROVE /\ Tail(s) \in Seq(S)
        /\ Len(Tail(s)) = Len(s) - 1 /\ DOMAIN Tail(s) = 1..Len(s) - 1
        /\ \A i \in 1..Len(s) - 1 : Tail(s)[i] = s[i + 1] /\ i + 1 \in DOMAIN s
OBVIOUS

\* A wider set of elements.
LEMMA Wider == ASSUME NEW S, NEW T, S \subseteq T, NEW s \in Seq(S) PROVE s \in Seq(T)
<1>1. Len(s) \in Nat /\ s \in [1..Len(s) -> S] OBVIOUS
<1>2. s \in [1..Len(s) -> T] BY <1>1
<1> QED BY <1>1, <1>2

(* The reassembly *)

\* The parts of the invariant that are about packets.
StreamInv == InOrder /\ Kept /\ KeptLast /\ Arrived /\ Unstarted /\ DamageIsLoss

\* The packets sent so far are the numbers up to the last.
LEMMA PacketsShape ==
  ASSUME TypeOK
  PROVE /\ Len(sent) \in Nat /\ Packets = 1..Len(sent)
        /\ \A k \in Packets : sent[k].kind \in Kinds /\ sent[k].ts \in Nat
<1>1. sent \in Seq([kind : Kinds, ts : Nat]) BY DEF TypeOK
<1>2. Len(sent) \in Nat /\ DOMAIN sent = 1..Len(sent) BY <1>1
<1>3. \A k \in DOMAIN sent : sent[k] \in [kind : Kinds, ts : Nat] BY <1>1, Elements
<1> QED BY <1>2, <1>3 DEF Packets

\* A packet more disturbs no NAL unit put together so far.
LEMMA SendKeepsParts ==
  ASSUME TypeOK, NEW e, sent' = Append(sent, e), e \in [kind : Kinds, ts : Nat],
         UNCHANGED <<lost, overtaken>>, NEW parts \in Seq(Packets)
  PROVE /\ parts \in Seq(Packets')
        /\ \A i \in DOMAIN parts : parts[i] \in Packets /\ sent'[parts[i]] = sent[parts[i]]
        /\ Begun(parts) => Begun(parts)'
        /\ Complete(parts) => Complete(parts)'
        /\ NothingSkipped(parts) => NothingSkipped(parts)'
<1>1. /\ Packets = 1..Len(sent) /\ Packets' = 1..Len(sent) + 1 /\ Len(sent) \in Nat
      /\ \A k \in Packets : sent'[k] = sent[k]
  BY Appended, PacketsShape DEF TypeOK, Packets
<1>2. Packets \subseteq Packets' BY <1>1
<1>3. parts \in Seq(Packets') BY <1>2, Wider
<1>4. /\ Len(parts) \in Nat /\ DOMAIN parts = 1..Len(parts)
      /\ \A i \in DOMAIN parts : parts[i] \in Packets
  OBVIOUS
<1>5. \A i \in DOMAIN parts : sent'[parts[i]] = sent[parts[i]] BY <1>1, <1>4
<1>6. Begun(parts) => Begun(parts)' BY <1>5 DEF Begun, Is
<1>7. Complete(parts) => Complete(parts)'
  <2>1. \A i \in 1..Len(parts) : sent'[parts[i]] = sent[parts[i]] BY <1>4, <1>5
  <2>2. CASE Len(parts) = 1
    <3>1. 1 \in 1..Len(parts) BY <2>2
    <3> QED BY <2>1, <2>2, <3>1 DEF Complete, Is
  <2>3. CASE Len(parts) > 1
    <3>1. 1 \in 1..Len(parts) /\ Len(parts) \in 1..Len(parts) BY <1>4, <2>3
    <3>2. \A i \in 2..Len(parts) - 1 : i \in 1..Len(parts) BY <1>4
    <3> QED BY <2>1, <3>1, <3>2 DEF Complete, Is
  <2> QED BY <2>2, <2>3 DEF Complete
<1>8. NothingSkipped(parts) => NothingSkipped(parts)'
  <2> HAVE NothingSkipped(parts)
  <2>1. ASSUME NEW i \in DOMAIN parts, i + 1 \in DOMAIN parts, NEW k \in 1..Len(sent) + 1,
               parts[i] < k, k < parts[i + 1], sent'[k].kind \in {"start", "mid", "end"}
        PROVE  k \in lost'
    <3>1. k \in Packets /\ sent'[k] = sent[k] BY <1>1, <1>4, <2>1
    <3>2. Fragment(k) BY <2>1, <3>1 DEF Fragment, Is
    <3> QED BY <2>1, <3>1, <3>2 DEF NothingSkipped
  <2>2. \A i \in DOMAIN parts : i + 1 \in DOMAIN parts => parts[i] < parts[i + 1] BY DEF NothingSkipped
  <2> QED BY <1>1, <2>1, <2>2 DEF NothingSkipped, Fragment, Is
<1> QED BY <1>3, <1>4, <1>5, <1>6, <1>7, <1>8

\* The kinds of packets and the types of a NAL unit's parts.
LEMMA Parts ==
  ASSUME TypeOK, NEW n \in DOMAIN queue
  PROVE queue[n].parts \in Seq(Packets) /\ queue[n] \in Item
<1>1. queue \in Seq(Item) BY DEF TypeOK
<1>2. queue[n] \in Item BY <1>1, Elements
<1> QED BY <1>2 DEF Item

LEMMA SendKeeps == ASSUME IndInv, Send PROVE TypeOK' /\ StreamInv'
<1> USE DEF fuaV, decV, viewV
<1>1. PICK e : /\ e \in [kind : Kinds, ts : Nat] /\ sent' = Append(sent, e)
               /\ wire' = wire \cup {Len(sent) + 1}
               /\ UNCHANGED <<lost, overtaken, fua, fuaTs, queue, codec, errors, frames, latest,
                              view, since, got, stop>>
  <2>1. Ts \in Nat
    <3>1. CASE LastVideo = {} BY <3>1 DEF Ts
    <3>2. CASE LastVideo # {}
      <4>1. (CHOOSE k \in LastVideo : TRUE) \in LastVideo BY <3>2
      <4>2. LastVideo \subseteq Packets BY DEF LastVideo
      <4> QED BY <3>2, <4>1, <4>2, PacketsShape DEF Ts, IndInv
    <3> QED BY <3>1, <3>2
  <2>2. PICK kind \in Kinds : sent' = Append(sent, [kind |-> kind, ts |-> Ts + (IF kind \in {"single", "start"} THEN 1 ELSE 0)])
    BY DEF Send, Kinds
  <2>3. Ts + (IF kind \in {"single", "start"} THEN 1 ELSE 0) \in Nat BY <2>1
  <2> QED BY <2>2, <2>3 DEF Send
<1>2. TypeOK BY DEF IndInv
<1>3. /\ Packets = 1..Len(sent) /\ Packets' = 1..Len(sent) + 1 /\ Len(sent) \in Nat
      /\ \A k \in Packets : sent'[k] = sent[k]
      /\ sent' \in Seq([kind : Kinds, ts : Nat])
  BY <1>1, <1>2, Appended, PacketsShape DEF TypeOK, Packets
<1>4. fua \in Seq(Packets) BY <1>2 DEF TypeOK
<1>5. TypeOK'
  <2>1. Packets \subseteq Packets' BY <1>3
  <2>2. fua' \in Seq(Packets') BY <1>1, <1>4, <2>1, Wider
  <2>3. queue' \in Seq(Item')
    <3>1. \A it \in Item : it \in Item'
      <4> SUFFICES ASSUME NEW it \in Item PROVE it \in Item' OBVIOUS
      <4>1. it.parts \in Seq(Packets') BY <2>1, Wider DEF Item
      <4> QED BY <4>1 DEF Item
    <3>2. Item \subseteq Item' BY <3>1
    <3>3. queue \in Seq(Item) BY <1>2 DEF TypeOK
    <3> QED BY <1>1, <3>2, <3>3, Wider
  <2>4. wire' \subseteq Packets' /\ lost' \subseteq Packets'
    <3>1. wire \subseteq Packets /\ lost \subseteq Packets BY <1>2 DEF TypeOK
    <3>2. Len(sent) + 1 \in Packets' BY <1>3
    <3> QED BY <1>1, <2>1, <3>1, <3>2
  <2> QED BY <1>1, <1>2, <1>3, <2>2, <2>3, <2>4 DEF TypeOK
<1>6. Packets' \ (wire' \cup lost') \subseteq Packets \ (wire \cup lost) BY <1>1, <1>3
<1>7. InOrder'
  <2>1. \A k \in Packets : k < Len(sent) + 1 BY <1>3
  <2> QED BY <1>1, <1>6, <2>1 DEF InOrder, IndInv
<1>8. Kept'
  <2>1. fua # <<>> => 1 \in DOMAIN fua BY <1>4
  <2> QED BY <1>1, <1>2, <1>4, <2>1, SendKeepsParts DEF Kept, IndInv
<1>9. KeptLast' BY <1>1, <1>3, <1>6 DEF KeptLast, IndInv, Fragment, Is
<1>10. Arrived'
  <2>1. \A i \in DOMAIN fua : fua[i] \in Packets /\ fua[i] \notin wire \cup lost BY <1>4 DEF IndInv, Arrived
  <2>2. Len(sent) + 1 \notin Packets BY <1>3
  <2>3. wire \cap lost = {} /\ lost \subseteq Packets BY <1>2 DEF IndInv, Arrived, TypeOK
  <2> QED BY <1>1, <2>1, <2>2, <2>3 DEF Arrived
<1>11. Unstarted' BY <1>1 DEF Unstarted, IndInv
<1>12. DamageIsLoss'
  <2> SUFFICES ASSUME NEW n \in DOMAIN queue PROVE Sound(queue[n])' BY <1>1 DEF DamageIsLoss
  <2> DEFINE parts == queue[n].parts
  <2>1. parts \in Seq(Packets) BY <1>2, Parts
  <2>2. Sound(queue[n]) BY DEF IndInv, DamageIsLoss
  <2>3. 1 \in DOMAIN parts BY <2>1, <2>2 DEF Sound, Complete
  <2>4. parts' = parts BY <1>1
  <2> HIDE DEF parts
  <2>5. /\ \A i \in DOMAIN parts : sent'[parts[i]] = sent[parts[i]]
        /\ Complete(parts) => Complete(parts)'
        /\ NothingSkipped(parts) => NothingSkipped(parts)'
    <3> DEFINE Q(p) == /\ \A i \in DOMAIN p : sent'[p[i]] = sent[p[i]]
                       /\ Complete(p) => Complete(p)'
                       /\ NothingSkipped(p) => NothingSkipped(p)'
    <3>1. \A p \in Seq(Packets) : /\ \A i \in DOMAIN p : sent'[p[i]] = sent[p[i]]
                                  /\ Complete(p) => Complete(p)'
                                  /\ NothingSkipped(p) => NothingSkipped(p)'
      BY <1>1, <1>2, SendKeepsParts
    <3> QED BY <2>1, <2>4, <3>1
  <2> QED BY <1>1, <2>2, <2>3, <2>5 DEF Sound, parts
<1> QED BY <1>5, <1>7, <1>8, <1>9, <1>10, <1>11, <1>12 DEF StreamInv

\* Losing a packet keeps what has arrived as it was.
LEMMA LoseKeeps == ASSUME IndInv, Lose PROVE TypeOK' /\ StreamInv'
<1> USE DEF fuaV, decV, viewV
<1>1. PICK k \in wire : /\ wire' = wire \ {k} /\ lost' = lost \cup {k}
                        /\ UNCHANGED <<sent, overtaken, fua, fuaTs, queue, codec, errors, frames, latest,
                                       view, since, got, stop>>
  BY DEF Lose
<1>2. TypeOK BY DEF IndInv
<1>3. Packets' = Packets /\ Item' = Item BY <1>1 DEF Packets, Item
<1>4. TypeOK' BY <1>1, <1>2, <1>3 DEF TypeOK
<1>5. Packets' \ (wire' \cup lost') = Packets \ (wire \cup lost) /\ wire' \cup lost' = wire \cup lost
  BY <1>1, <1>3
<1>6. InOrder' BY <1>1, <1>5 DEF InOrder, IndInv
<1>7. \A p : NothingSkipped(p) => NothingSkipped(p)' BY <1>1, <1>3 DEF NothingSkipped, Fragment, Is
<1>8. Kept' BY <1>1, <1>7 DEF Kept, IndInv, Begun, Is
<1>9. KeptLast' BY <1>1, <1>5 DEF KeptLast, IndInv, Fragment, Is
<1>10. Arrived' /\ Unstarted' BY <1>1, <1>5 DEF Arrived, Unstarted, IndInv
<1>11. DamageIsLoss' BY <1>1, <1>7 DEF DamageIsLoss, Sound, IndInv, Complete, Is
<1> QED BY <1>4, <1>6, <1>8, <1>9, <1>10, <1>11 DEF StreamInv

\* What is known of a NAL unit stays so when a packet arrives.
LEMMA SoundKeeps ==
  ASSUME UNCHANGED <<sent, lost>>, overtaken => overtaken'
  PROVE  /\ \A p : NothingSkipped(p) => NothingSkipped(p)'
         /\ \A p : Begun(p) => Begun(p)'
         /\ \A it : Sound(it) => Sound(it)'
<1>1. \A p : NothingSkipped(p) => NothingSkipped(p)' BY DEF NothingSkipped, Fragment, Is, Packets
<1>2. \A p : Complete(p) => Complete(p)' BY DEF Complete, Is
<1>3. \A p : Begun(p) => Begun(p)' BY DEF Begun, Is
<1>4. \A it : Sound(it) => Sound(it)' BY <1>1, <1>2 DEF Sound
<1> QED BY <1>1, <1>3, <1>4

\* A NAL unit that is queued or dropped keeps the queue sound.
LEMMA QueueKeeps ==
  ASSUME TypeOK, UNCHANGED <<sent, lost>>, overtaken => overtaken', DamageIsLoss,
         NEW ts \in Nat, NEW parts \in Seq(Packets), QueueNal(ts, parts),
         Sound([ts |-> ts, parts |-> parts])'
  PROVE  queue' \in Seq(Item) /\ Len(queue') <= MaxQueue /\ DamageIsLoss'
<1> DEFINE nal == [ts |-> ts, parts |-> parts]
<1>1. queue \in Seq(Item) /\ Len(queue) <= MaxQueue BY DEF TypeOK
<1>2. nal \in Item BY DEF Item
<1>3. \A it : Sound(it) => Sound(it)' BY SoundKeeps
<1>4. Sound(nal)' OBVIOUS
<1> HIDE DEF nal
<1>5. CASE queue' = queue BY <1>1, <1>3, <1>5 DEF DamageIsLoss
<1>6. CASE queue' = Append(queue, nal) /\ Len(queue) < MaxQueue
  <2>1. /\ queue' \in Seq(Item) /\ Len(queue') = Len(queue) + 1 /\ DOMAIN queue' = 1..Len(queue) + 1
        /\ \A i \in 1..Len(queue) : queue'[i] = queue[i]
        /\ queue'[Len(queue) + 1] = nal
    BY <1>1, <1>2, <1>6, Appended
  <2>2. Len(queue) \in Nat /\ DOMAIN queue = 1..Len(queue) BY <1>1
  <2>3. Len(queue') <= MaxQueue BY <2>1, <2>2, <1>6, ReceiverAssumption
  <2>4. ASSUME NEW n \in DOMAIN queue' PROVE Sound(queue[n])' \/ n = Len(queue) + 1
    BY <2>1, <2>2, <1>3 DEF DamageIsLoss
  <2> QED BY <1>4, <2>1, <2>2, <2>3, <2>4 DEF DamageIsLoss
<1> QED BY <1>5, <1>6 DEF QueueNal, nal

\* The order of arrival, when no packet overtakes another: k is the next.
LEMMA ReceiveNext ==
  ASSUME IndInv, NEW k \in wire, wire' = wire \ {k}, overtaken' = (overtaken \/ \E l \in wire : l < k),
         UNCHANGED <<sent, lost>>, ~overtaken'
  PROVE  /\ InOrder'
         /\ \A l \in wire : k <= l
         /\ \A p \in Packets \ (wire \cup lost) : p < k
         /\ k \in Packets /\ Packets \subseteq Nat
<1>1. TypeOK BY DEF IndInv
<1>2. wire \subseteq Packets /\ lost \subseteq Packets BY <1>1 DEF TypeOK
<1>3. Packets \subseteq Nat BY <1>1, PacketsShape
<1>4. \A l \in wire : k <= l
  <2>1. ~\E l \in wire : l < k OBVIOUS
  <2> QED BY <1>2, <1>3, <2>1
<1>5. \A p \in Packets \ (wire \cup lost) : p < k BY DEF InOrder, IndInv
<1>6. ASSUME NEW p \in Packets' \ (wire' \cup lost'), NEW l \in wire' PROVE p < l
  <2>1. Packets' = Packets BY DEF Packets
  <2>2. CASE p = k BY <1>2, <1>3, <1>4, <2>2
  <2>3. CASE p # k BY <2>1, <2>3 DEF InOrder, IndInv
  <2> QED BY <2>2, <2>3
<1> QED BY <1>2, <1>3, <1>4, <1>5, <1>6 DEF InOrder

\* A fragment that arrives where one has begun extends it.
LEMMA Extended ==
  ASSUME IndInv, NEW k \in wire, wire' = wire \ {k}, overtaken' = (overtaken \/ \E l \in wire : l < k),
         UNCHANGED <<sent, lost>>, fua # <<>>, ~Is(k, {"audio", "single", "start"}),
         NEW s, s = Append(fua, k)
  PROVE  /\ s \in Seq(Packets) /\ s # <<>> /\ s[1] = fua[1]
         /\ Len(s) = Len(fua) + 1 /\ Len(fua) \in Nat /\ Len(fua) >= 1 /\ s[Len(s)] = k
         /\ \A i \in DOMAIN s : s[i] = k \/ \E l \in DOMAIN fua : s[i] = fua[l]
         /\ Is(k, {"mid"}) => Begun(s)'
         /\ Is(k, {"end"}) => Complete(s)'
         /\ ~overtaken' => NothingSkipped(s)'
<1>1. TypeOK BY DEF IndInv
<1>2. fua \in Seq(Packets) /\ k \in Packets /\ Packets' = Packets BY <1>1 DEF TypeOK, Packets
<1>3. /\ s \in Seq(Packets) /\ Len(s) = Len(fua) + 1 /\ DOMAIN s = 1..Len(fua) + 1
      /\ \A i \in 1..Len(fua) : s[i] = fua[i]
      /\ s[Len(fua) + 1] = k
  BY <1>2, Appended
<1>4. /\ Len(fua) \in Nat /\ Len(fua) >= 1 /\ DOMAIN fua = 1..Len(fua)
      /\ \A i \in DOMAIN fua : fua[i] \in Packets
  BY <1>2
<1>5. Begun(fua) BY DEF IndInv, Kept
<1>6. Is(k, {"mid"}) => Begun(s)' BY <1>3, <1>4, <1>5 DEF Begun, Is
<1>7. Is(k, {"end"}) => Complete(s)' BY <1>3, <1>4, <1>5 DEF Complete, Begun, Is
<1>8. ASSUME ~overtaken' PROVE NothingSkipped(s)'
  <2>1. /\ \A l \in wire : k <= l
        /\ \A p \in Packets \ (wire \cup lost) : p < k
        /\ Packets \subseteq Nat
    BY <1>8, ReceiveNext
  <2>2. ~overtaken BY <1>8
  <2>3. NothingSkipped(fua) BY <2>2 DEF IndInv, Kept
  <2>4. fua[Len(fua)] \in Packets /\ fua[Len(fua)] < k
    <3>1. Len(fua) \in DOMAIN fua BY <1>4
    <3>2. fua[Len(fua)] \notin wire \cup lost BY <3>1 DEF IndInv, Arrived
    <3> QED BY <1>4, <2>1, <3>1, <3>2
  <2>5. ASSUME NEW l \in Packets, fua[Len(fua)] < l, l < k, Fragment(l) PROVE l \in lost
    <3>1. l \notin wire BY <1>2, <2>1, <2>5
    <3>2. CASE l \in Packets \ (wire \cup lost)
      <4>1. KeptLast BY DEF IndInv
      <4>2. l <= fua[Len(fua)] BY <2>2, <2>5, <3>2, <4>1 DEF KeptLast
      <4>3. l \in Nat /\ fua[Len(fua)] \in Nat BY <2>1, <2>4
      <4> QED BY <2>5, <4>2, <4>3
    <3> QED BY <2>5, <3>1, <3>2
  <2>6. ASSUME NEW i \in DOMAIN s, i + 1 \in DOMAIN s
        PROVE  /\ s[i] < s[i + 1]
               /\ \A l \in Packets : s[i] < l /\ l < s[i + 1] /\ Fragment(l) => l \in lost
    <3>1. CASE i = Len(fua) BY <1>3, <1>4, <2>4, <2>5, <3>1
    <3>2. CASE i # Len(fua)
      <4>1. i \in DOMAIN fua /\ i + 1 \in DOMAIN fua BY <1>3, <1>4, <2>6, <3>2
      <4>2. s[i] = fua[i] /\ s[i + 1] = fua[i + 1] BY <1>3, <1>4, <4>1
      <4> QED BY <2>3, <4>1, <4>2 DEF NothingSkipped
    <3> QED BY <3>1, <3>2
  <2> QED BY <1>2, <2>6 DEF NothingSkipped, Fragment, Is
<1>9. s # <<>> BY <1>3, <1>4
<1>10. s[1] = fua[1] BY <1>3, <1>4
<1> QED BY <1>3, <1>4, <1>6, <1>7, <1>8, <1>9, <1>10

LEMMA ReceiveKeeps == ASSUME IndInv, Receive PROVE TypeOK' /\ StreamInv'
<1> USE DEF fuaV, decV, viewV
<1>1. PICK k \in wire : /\ wire' = wire \ {k} /\ overtaken' = (overtaken \/ \E l \in wire : l < k)
                        /\ IF codec = "none" \/ Is(k, {"audio"}) THEN UNCHANGED <<fuaV, queue>>
                           ELSE IF Is(k, {"single"}) THEN QueueNal(sent[k].ts, <<k>>) /\ UNCHANGED fuaV
                           ELSE Reassemble(k)
  BY DEF Receive
<1>2. UNCHANGED <<sent, lost, codec, errors, frames, latest, view, since, got, stop>> BY DEF Receive
<1>3. TypeOK BY DEF IndInv
<1>4. Packets' = Packets /\ Item' = Item BY <1>2 DEF Packets, Item
<1>5. /\ k \in Packets /\ Packets \subseteq Nat /\ sent[k].ts \in Nat /\ sent[k].kind \in Kinds
      /\ fua \in Seq(Packets) /\ fuaTs \in Nat /\ wire \subseteq Packets
      /\ overtaken' \in BOOLEAN /\ (overtaken => overtaken')
      /\ queue \in Seq(Item) /\ Len(queue) <= MaxQueue
  BY <1>1, <1>3, PacketsShape, SMTT(30) DEF TypeOK
<1>6. wire' \subseteq Packets BY <1>1, <1>5
<1>7. InOrder'
  <2>1. CASE overtaken' BY <2>1 DEF InOrder
  <2>2. CASE ~overtaken' BY <1>1, <1>2, <2>2, ReceiveNext
  <2> QED BY <2>1, <2>2
<1>8. /\ \A p : NothingSkipped(p) => NothingSkipped(p)'
      /\ \A p : Begun(p) => Begun(p)'
      /\ \A it : Sound(it) => Sound(it)'
  BY <1>2, <1>5, SoundKeeps
<1>9. queue' = queue => queue' \in Seq(Item) /\ Len(queue') <= MaxQueue /\ DamageIsLoss'
  BY <1>5, <1>8 DEF DamageIsLoss, IndInv
<1>10. /\ Kept /\ KeptLast /\ Arrived /\ Unstarted BY DEF IndInv
<1>11. wire' \cap lost' = {} /\ \A i \in DOMAIN fua : fua[i] \notin wire' \cup lost'
  BY <1>1, <1>2, <1>10 DEF Arrived
<1>12. fua' = fua /\ fuaTs' = fuaTs => Kept' /\ Arrived' /\ Unstarted'
  BY <1>2, <1>5, <1>8, <1>10, <1>11 DEF Kept, Arrived, Unstarted
<1>13. fua' = fua /\ (fua = <<>> \/ ~Fragment(k)) => KeptLast'
  <2> SUFFICES ASSUME fua' = fua, ~Fragment(k), fua # <<>>, ~overtaken',
                      NEW p \in Packets \ (wire' \cup lost), Fragment(p)
               PROVE  p <= fua[Len(fua)]
    BY <1>2, <1>4 DEF KeptLast, Fragment, Is
  <2>1. p \in Packets \ (wire \cup lost) BY <1>1
  <2> QED BY <1>5, <1>10, <2>1 DEF KeptLast
<1>14. fua' = <<>> => Kept' /\ KeptLast' /\ Arrived' /\ Unstarted'
  BY <1>11 DEF Kept, KeptLast, Arrived, Unstarted, Begun, NothingSkipped
<1> DEFINE Goal == /\ fua' \in Seq(Packets) /\ fuaTs' \in Nat
                   /\ queue' \in Seq(Item) /\ Len(queue') <= MaxQueue /\ DamageIsLoss'
                   /\ Kept' /\ KeptLast' /\ Arrived' /\ Unstarted'
<1>15. ASSUME codec = "none" \/ Is(k, {"audio"}) PROVE Goal
  <2>1. fua' = fua /\ fuaTs' = fuaTs /\ queue' = queue BY <1>1, <1>15
  <2>2. fua = <<>> \/ ~Fragment(k) BY <1>10, <1>15 DEF Unstarted, Fragment, Is
  <2> QED BY <1>5, <1>9, <1>12, <1>13, <2>1, <2>2
<1>16. ASSUME codec # "none" /\ Is(k, {"single"}) PROVE Goal
  <2>1. fua' = fua /\ fuaTs' = fuaTs /\ QueueNal(sent[k].ts, <<k>>) BY <1>1, <1>16 DEF Is
  <2>2. ~Fragment(k) BY <1>16 DEF Fragment, Is
  <2>3. <<k>> \in Seq(Packets) /\ <<k>>[1] = k /\ Len(<<k>>) = 1 /\ DOMAIN <<k>> = {1} BY <1>5
  <2>4. Complete(<<k>>)' /\ NothingSkipped(<<k>>)' BY <1>2, <1>16, <2>3 DEF Complete, Is, NothingSkipped
  <2>5. Sound([ts |-> sent[k].ts, parts |-> <<k>>])' BY <1>2, <2>3, <2>4 DEF Sound
  <2>6. queue' \in Seq(Item) /\ Len(queue') <= MaxQueue /\ DamageIsLoss'
    BY <1>2, <1>3, <1>5, <2>1, <2>3, <2>5, QueueKeeps DEF IndInv
  <2> QED BY <1>5, <1>12, <1>13, <2>1, <2>2, <2>6
<1>17. ASSUME codec # "none" /\ Is(k, {"start"}) PROVE Goal
  <2>1. fua' = <<k>> /\ fuaTs' = sent[k].ts /\ queue' = queue BY <1>1, <1>17 DEF Is, Reassemble
  <2>2. <<k>> \in Seq(Packets) /\ <<k>>[1] = k /\ Len(<<k>>) = 1 /\ DOMAIN <<k>> = {1} BY <1>5
  <2>3. Begun(<<k>>)' /\ NothingSkipped(<<k>>)' BY <1>2, <1>17, <2>2 DEF Begun, Is, NothingSkipped
  <2>4. Kept' BY <1>2, <2>1, <2>2, <2>3 DEF Kept
  <2>5. k \notin lost BY <1>10 DEF Arrived
  <2>6. Arrived' BY <1>1, <1>2, <1>11, <2>1, <2>2, <2>5 DEF Arrived
  <2>7. KeptLast'
    <3> SUFFICES ASSUME ~overtaken', NEW p \in Packets \ (wire' \cup lost) PROVE p <= k
      BY <1>2, <1>4, <2>1, <2>2 DEF KeptLast
    <3>1. \A q \in Packets \ (wire \cup lost) : q < k BY <1>1, <1>2, ReceiveNext
    <3>2. p = k \/ p \in Packets \ (wire \cup lost) BY <1>1
    <3> QED BY <1>5, <3>1, <3>2
  <2>8. Unstarted' BY <1>2, <1>17 DEF Unstarted
  <2> QED BY <1>5, <1>9, <2>1, <2>2, <2>4, <2>6, <2>7, <2>8
<1>18. ASSUME codec # "none" /\ Is(k, {"mid", "end"}) /\ fua = <<>> PROVE Goal
  <2>1. fua' = <<>> /\ fuaTs' = fuaTs /\ queue' = queue BY <1>1, <1>18 DEF Is, Reassemble
  <2> QED BY <1>5, <1>9, <1>14, <2>1
<1>19. ASSUME codec # "none", Is(k, {"mid", "end"}), fua # <<>> PROVE Goal
  <2>1. PICK s : s = Append(fua, k) OBVIOUS
  <2>2. ~Is(k, {"audio", "single", "start"}) BY <1>19 DEF Is
  <2>3. /\ s \in Seq(Packets) /\ s # <<>> /\ s[1] = fua[1]
        /\ Len(s) = Len(fua) + 1 /\ Len(fua) \in Nat /\ Len(fua) >= 1 /\ s[Len(s)] = k
        /\ \A i \in DOMAIN s : s[i] = k \/ \E l \in DOMAIN fua : s[i] = fua[l]
        /\ Is(k, {"mid"}) => Begun(s)'
        /\ Is(k, {"end"}) => Complete(s)'
        /\ ~overtaken' => NothingSkipped(s)'
    <3>1. UNCHANGED <<sent, lost>> BY <1>2
    <3>2. wire' = wire \ {k} /\ overtaken' = (overtaken \/ \E l \in wire : l < k) BY <1>1
    <3>3. IndInv /\ k \in wire OBVIOUS
    <3>4. s \in Seq(Packets) BY ONLY <1>19, <2>1, <2>2, <3>1, <3>2, <3>3, Extended
    <3>5. Is(k, {"mid"}) => Begun(s)' BY ONLY <1>19, <2>1, <2>2, <3>1, <3>2, <3>3, Extended
    <3>6. Is(k, {"end"}) => Complete(s)' BY ONLY <1>19, <2>1, <2>2, <3>1, <3>2, <3>3, Extended
    <3>7. ~overtaken' => NothingSkipped(s)' BY ONLY <1>19, <2>1, <2>2, <3>1, <3>2, <3>3, Extended
    <3>8. s # <<>> /\ s[1] = fua[1] BY ONLY <1>19, <2>1, <2>2, <3>1, <3>2, <3>3, Extended
    <3>9. /\ Len(s) = Len(fua) + 1 /\ Len(fua) \in Nat /\ Len(fua) >= 1 /\ s[Len(s)] = k
      BY ONLY <1>19, <2>1, <2>2, <3>1, <3>2, <3>3, Extended
    <3>10. \A i \in DOMAIN s : s[i] = k \/ \E l \in DOMAIN fua : s[i] = fua[l]
      BY ONLY <1>19, <2>1, <2>2, <3>1, <3>2, <3>3, Extended
    <3> QED BY ONLY <3>4, <3>5, <3>6, <3>7, <3>8, <3>9, <3>10
  <2>4. fuaTs' = fuaTs BY <1>1, <1>19, <2>2 DEF Is, Reassemble
  <2>5. CASE Is(k, {"mid"})
    <3>1. fua' = s /\ queue' = queue BY <1>1, <1>19, <2>1, <2>5 DEF Is, Reassemble
    <3>2. Kept' BY <1>2, <1>10, <1>19, <2>3, <2>4, <2>5, <3>1 DEF Kept
    <3>3. k \notin lost BY <1>10 DEF Arrived
    <3>4. Arrived' BY <1>1, <1>2, <1>11, <2>3, <3>1, <3>3 DEF Arrived
    <3>5. KeptLast'
      <4> SUFFICES ASSUME ~overtaken', NEW p \in Packets \ (wire' \cup lost) PROVE p <= k
        BY <1>2, <1>4, <2>3, <3>1 DEF KeptLast
      <4>1. \A q \in Packets \ (wire \cup lost) : q < k BY <1>1, <1>2, ReceiveNext
      <4>2. p = k \/ p \in Packets \ (wire \cup lost) BY <1>1
      <4> QED BY <1>5, <4>1, <4>2
    <3>6. Unstarted' BY <1>2, <1>19 DEF Unstarted
    <3> QED BY <1>5, <1>9, <2>3, <2>4, <3>1, <3>2, <3>4, <3>5, <3>6
  <2>6. CASE Is(k, {"end"})
    <3>1. fua' = <<>> /\ QueueNal(fuaTs, s) BY <1>1, <1>19, <2>1, <2>3, <2>4, <2>6 DEF Is, Reassemble
    <3>2. PICK ts : ts = fuaTs OBVIOUS
    <3>4. ts \in Nat /\ QueueNal(ts, s) BY <1>5, <3>1, <3>2
    <3>5. ts = sent[s[1]].ts BY <1>10, <1>19, <2>3, <3>2 DEF Kept
    <3>6. Sound([ts |-> ts, parts |-> s])' BY <1>2, <2>3, <2>6, <3>5 DEF Sound
    <3>3. queue' \in Seq(Item) /\ Len(queue') <= MaxQueue /\ DamageIsLoss'
      BY <1>2, <1>3, <1>5, <2>3, <3>4, <3>6, QueueKeeps DEF IndInv
    <3> QED BY <1>5, <1>14, <2>4, <3>1, <3>3
  <2> QED BY <1>19, <2>5, <2>6 DEF Is
<1>21. Goal BY <1>5, <1>15, <1>16, <1>17, <1>18, <1>19 DEF Is, Kinds
<1>22. TypeOK' BY <1>2, <1>3, <1>4, <1>5, <1>6, <1>21 DEF TypeOK
<1> QED BY <1>7, <1>21, <1>22 DEF StreamInv

(* The decoder, the requests and stop() *)

\* The parts of the invariant that are about frames.
FrameInv == Woken /\ Known /\ DecoderStops /\ GoesOn /\ EveryFrameWakes /\ FreshFrames

\* What a step that neither sends, loses nor receives a packet leaves alone.
LEMMA StreamRests ==
  ASSUME IndInv, UNCHANGED <<netV, fuaV>>, codec' = "none" => codec = "none",
         queue' = queue \/ (queue # <<>> /\ queue' = Tail(queue))
  PROVE  StreamInv' /\ queue' \in Seq(Item') /\ Len(queue') <= MaxQueue
<1> USE DEF netV, fuaV
<1>1. TypeOK BY DEF IndInv
<1>2. Packets' = Packets /\ Item' = Item BY DEF Packets, Item
<1>3. InOrder' /\ KeptLast' /\ Arrived' /\ Unstarted'
  BY <1>2 DEF InOrder, KeptLast, Arrived, Unstarted, IndInv, Fragment, Is
<1>4. /\ \A p : NothingSkipped(p) => NothingSkipped(p)'
      /\ \A p : Begun(p) => Begun(p)'
      /\ \A it : Sound(it) => Sound(it)'
  BY SoundKeeps
<1>5. Kept' BY <1>4 DEF Kept, IndInv
<1>6. queue \in Seq(Item) /\ Len(queue) <= MaxQueue /\ MaxQueue \in Nat
  BY <1>1, ReceiverAssumption DEF TypeOK
<1>7. DamageIsLoss BY DEF IndInv
<1>8. CASE queue' = queue BY <1>2, <1>3, <1>4, <1>5, <1>6, <1>7, <1>8 DEF StreamInv, DamageIsLoss
<1>9. CASE queue # <<>> /\ queue' = Tail(queue)
  <2>1. /\ queue' \in Seq(Item) /\ Len(queue') = Len(queue) - 1 /\ DOMAIN queue' = 1..Len(queue) - 1
        /\ \A n \in 1..Len(queue) - 1 : queue'[n] = queue[n + 1] /\ n + 1 \in DOMAIN queue
    BY <1>6, <1>9, Shifted
  <2>2. Len(queue) \in Nat BY <1>6
  <2>3. Len(queue') <= MaxQueue BY <1>6, <2>1, <2>2
  <2>4. ASSUME NEW n \in DOMAIN queue' PROVE Sound(queue[n])'
    <3>1. Sound(queue[n + 1]) /\ queue'[n] = queue[n + 1] BY <1>7, <2>1 DEF DamageIsLoss
    <3>2. PICK it : it = queue[n + 1] OBVIOUS
    <3>3. Sound(it)' BY <1>4, <3>1, <3>2
    <3>4. queue'[n] = it BY <3>1, <3>2
    <3> QED BY <3>3, <3>4 DEF Sound
  <2>5. DamageIsLoss' BY <2>4 DEF DamageIsLoss
  <2> QED BY <1>2, <1>3, <1>5, <2>1, <2>3, <2>5 DEF StreamInv
<1> QED BY <1>8, <1>9

\* The types of what the decoder and the requests share.
FrameTypes ==
  /\ frames \in Nat /\ latest \in Nat /\ latest <= frames
  /\ errors \in Nat /\ errors <= MaxErrors
  /\ codec \in {"none", "init", "get", "busy", "ended"}
  /\ view \in [Viewers -> {"none", "waits", "woken", "fresh", "late"}]
  /\ since \in [Viewers -> Nat] /\ got \in [Viewers -> Nat]
  /\ stop \in {"no", "keepalive", "decoder", "done"}
  /\ MaxErrors \in Nat \ {0}

LEMMA FrameShape == ASSUME TypeOK PROVE FrameTypes
BY ReceiverAssumption DEF TypeOK, FrameTypes

\* The types of what it does not share.
LEMMA TypesOfParts ==
  ASSUME IndInv, UNCHANGED <<netV, fuaV>>, queue' \in Seq(Item') /\ Len(queue') <= MaxQueue,
         codec' \in {"none", "init", "get", "busy", "ended"}, errors' \in 0..MaxErrors,
         frames' \in Nat, latest' \in 0..frames',
         view' \in [Viewers -> {"none", "waits", "woken", "fresh", "late"}],
         since' \in [Viewers -> Nat], got' \in [Viewers -> Nat],
         stop' \in {"no", "keepalive", "decoder", "done"}
  PROVE  TypeOK'
<1>1. Packets' = Packets BY DEF Packets, netV
<1> QED BY <1>1 DEF IndInv, TypeOK, netV, fuaV

\* The decoder's steps that bring no frame.
LEMMA DecoderKeeps ==
  ASSUME IndInv, StartMedia \/ CodecCreated \/ Decode \/ DecodeIdle \/ DecodedNothing \/ DecodeFails
  PROVE  TypeOK' /\ StreamInv' /\ FrameInv'
<1>1. TypeOK /\ DecoderStops /\ GoesOn BY DEF IndInv
<1>2. FrameTypes BY <1>1, FrameShape
<1> USE DEF FrameTypes
<1>3. UNCHANGED <<netV, fuaV, frames, latest, viewV, stop>>
  BY DEF StartMedia, CodecCreated, Decode, DecodeIdle, DecodedNothing, DecodeFails
<1>4. /\ codec' \in {"init", "get", "busy", "ended"}
      /\ errors' \in 0..MaxErrors /\ (codec' # "ended" => errors' < MaxErrors)
      /\ stop \in {"decoder", "done"} => codec' \in {"none", "ended"}
  BY <1>1, <1>2 DEF StartMedia, CodecCreated, Decode, DecodeIdle, DecodedNothing, DecodeFails,
                    NextNal, DecoderStops, GoesOn
<1>5. queue' = queue \/ (queue # <<>> /\ queue' = Tail(queue))
  BY DEF StartMedia, CodecCreated, Decode, DecodeIdle, DecodedNothing, DecodeFails
<1>6. StreamInv' /\ queue' \in Seq(Item') /\ Len(queue') <= MaxQueue BY <1>3, <1>4, <1>5, StreamRests
<1>7. TypeOK' BY <1>2, <1>3, <1>4, <1>6, TypesOfParts DEF viewV
<1>8. Woken' /\ Known' /\ EveryFrameWakes' /\ FreshFrames'
  BY <1>3 DEF IndInv, Woken, Known, EveryFrameWakes, FreshFrames, viewV
<1>9. DecoderStops' /\ GoesOn' BY <1>3, <1>4 DEF DecoderStops, GoesOn
<1> QED BY <1>6, <1>7, <1>8, <1>9 DEF FrameInv

\* A frame wakes everybody.
LEMMA DecodedKeeps == ASSUME IndInv, Decoded PROVE TypeOK' /\ StreamInv' /\ FrameInv'
<1> USE DEF viewV
<1>1. /\ TypeOK /\ DecoderStops /\ GoesOn /\ Woken /\ Known /\ EveryFrameWakes /\ FreshFrames
  BY DEF IndInv
<1>2. FrameTypes BY <1>1, FrameShape
<1> USE DEF FrameTypes
<1>3. /\ UNCHANGED <<netV, fuaV, queue, since, got, stop>>
      /\ frames' = frames + 1 /\ latest' = frames + 1 /\ errors' = 0
      /\ codec = "busy" /\ codec' \in {"get", "ended"}
      /\ view' = [v \in Viewers |-> IF view[v] = "waits" THEN "woken" ELSE view[v]]
  BY DEF Decoded, WakeAll, NextNal
<1>4. stop \notin {"decoder", "done"} BY <1>1, <1>3 DEF DecoderStops
<1>5. StreamInv' /\ queue' \in Seq(Item') /\ Len(queue') <= MaxQueue BY <1>3, StreamRests
<1>6. TypeOK'
  <2>1. view' \in [Viewers -> {"none", "waits", "woken", "fresh", "late"}] BY <1>2, <1>3
  <2> QED BY <1>2, <1>3, <1>5, <2>1, TypesOfParts
<1>7. Woken' BY <1>1, <1>2, <1>3 DEF Woken, Known
<1>8. Known' BY <1>1, <1>2, <1>3 DEF Known
<1>9. EveryFrameWakes' BY <1>3 DEF EveryFrameWakes
<1>10. FreshFrames' BY <1>1, <1>3, <1>4 DEF FreshFrames
<1>11. DecoderStops' /\ GoesOn' BY <1>3, <1>4, ReceiverAssumption DEF DecoderStops, GoesOn
<1> QED BY <1>5, <1>6, <1>7, <1>8, <1>9, <1>10, <1>11 DEF FrameInv

LEMMA RequestKeeps == ASSUME IndInv, NEW v \in Viewers, Request(v) PROVE TypeOK' /\ StreamInv' /\ FrameInv'
<1> USE DEF decV
<1>1. /\ TypeOK /\ DecoderStops /\ GoesOn /\ Woken /\ Known /\ EveryFrameWakes /\ FreshFrames
  BY DEF IndInv
<1>2. FrameTypes BY <1>1, FrameShape
<1> USE DEF FrameTypes
<1>3. /\ UNCHANGED <<netV, fuaV, queue, decV, latest, stop>> /\ stop = "no"
      /\ view' = [view EXCEPT ![v] = "waits"]
      /\ since' = [since EXCEPT ![v] = frames] /\ got' = [got EXCEPT ![v] = 0]
  BY DEF Request
<1>4. StreamInv' /\ queue' \in Seq(Item') /\ Len(queue') <= MaxQueue BY <1>3, StreamRests
<1>5. TypeOK' BY <1>2, <1>3, <1>4, TypesOfParts
<1>6. Woken' BY <1>1, <1>2, <1>3 DEF Woken
<1>7. Known' BY <1>1, <1>2, <1>3 DEF Known
<1>8. EveryFrameWakes' BY <1>1, <1>2, <1>3 DEF EveryFrameWakes
<1>9. FreshFrames' BY <1>1, <1>2, <1>3 DEF FreshFrames
<1>10. DecoderStops' /\ GoesOn' BY <1>1, <1>3 DEF DecoderStops, GoesOn
<1> QED BY <1>4, <1>5, <1>6, <1>7, <1>8, <1>9, <1>10 DEF FrameInv

LEMMA ReturnKeeps == ASSUME IndInv, NEW v \in Viewers, Return(v) PROVE TypeOK' /\ StreamInv' /\ FrameInv'
<1> USE DEF decV
<1>1. /\ TypeOK /\ DecoderStops /\ GoesOn /\ Woken /\ Known /\ EveryFrameWakes /\ FreshFrames
  BY DEF IndInv
<1>2. FrameTypes BY <1>1, FrameShape
<1> USE DEF FrameTypes
<1>3. /\ UNCHANGED <<netV, fuaV, queue, decV, latest, since, stop>>
      /\ view[v] \in {"waits", "woken"}
      /\ view' = [view EXCEPT ![v] = IF view[v] = "woken" THEN "fresh" ELSE "late"]
      /\ got' = [got EXCEPT ![v] = latest]
  BY DEF Return
<1>4. StreamInv' /\ queue' \in Seq(Item') /\ Len(queue') <= MaxQueue BY <1>3, StreamRests
<1>5. TypeOK' BY <1>2, <1>3, <1>4, TypesOfParts
<1>6. Woken' BY <1>1, <1>2, <1>3 DEF Woken
<1>7. Known' BY <1>1, <1>2, <1>3 DEF Known
<1>8. EveryFrameWakes' BY <1>1, <1>2, <1>3 DEF EveryFrameWakes
<1>9. FreshFrames'
  <2>1. ASSUME NEW w \in Viewers, view'[w] = "fresh"
        PROVE  got'[w] > since[w] \/ (got'[w] = 0 /\ stop = "done")
    <3>1. CASE w = v
      <4>1. view[v] = "woken" /\ got'[v] = latest BY <1>2, <1>3, <2>1, <3>1
      <4> QED BY <1>1, <1>2, <3>1, <4>1 DEF Woken, FreshFrames
    <3>2. CASE w # v BY <1>1, <1>2, <1>3, <2>1, <3>2 DEF FreshFrames
    <3> QED BY <3>1, <3>2
  <2> QED BY <1>1, <1>3, <2>1 DEF FreshFrames
<1>10. DecoderStops' /\ GoesOn' BY <1>1, <1>3 DEF DecoderStops, GoesOn
<1> QED BY <1>4, <1>5, <1>6, <1>7, <1>8, <1>9, <1>10 DEF FrameInv

LEMMA StopKeeps == ASSUME IndInv, StopKeepalive \/ StopDecoder \/ StopEnds PROVE TypeOK' /\ StreamInv' /\ FrameInv'
<1> USE DEF decV, viewV
<1>1. /\ TypeOK /\ DecoderStops /\ GoesOn /\ Woken /\ Known /\ EveryFrameWakes /\ FreshFrames
  BY DEF IndInv
<1>2. FrameTypes BY <1>1, FrameShape
<1> USE DEF FrameTypes
<1>3. /\ UNCHANGED <<netV, fuaV, queue, errors, frames, viewV>>
      /\ stop \in {"no", "keepalive", "decoder"} /\ stop' \in {"keepalive", "decoder", "done"}
      /\ codec' \in {codec, "ended"} /\ (codec' = "none" => codec = "none")
      /\ stop' \in {"decoder", "done"} => codec' \in {"none", "ended"}
      /\ latest' = IF stop' = "done" THEN 0 ELSE latest
  BY <1>1 DEF StopKeepalive, StopDecoder, StopEnds, DecoderStops
<1>4. StreamInv' /\ queue' \in Seq(Item') /\ Len(queue') <= MaxQueue BY <1>3, StreamRests
<1>5. TypeOK'
  <2>1. codec' \in {"none", "init", "get", "busy", "ended"} /\ latest' \in 0..frames' BY <1>2, <1>3
  <2> QED BY <1>2, <1>3, <1>4, <2>1, TypesOfParts
<1>6. Woken' BY <1>1, <1>2, <1>3 DEF Woken
<1>7. Known' /\ EveryFrameWakes' BY <1>1, <1>3 DEF Known, EveryFrameWakes
<1>8. FreshFrames' BY <1>1, <1>3 DEF FreshFrames
<1>9. DecoderStops' /\ GoesOn' BY <1>1, <1>3 DEF DecoderStops, GoesOn
<1> QED BY <1>4, <1>5, <1>6, <1>7, <1>8, <1>9 DEF FrameInv

(* The theorems *)

LEMMA InitInv == Init => IndInv
<1> SUFFICES ASSUME Init PROVE IndInv OBVIOUS
<1>1. Packets = {} BY DEF Init, Packets
<1>2. TypeOK
  <2>1. /\ sent \in Seq([kind : Kinds, ts : Nat]) /\ fua \in Seq(Packets) /\ queue \in Seq(Item)
        /\ Len(queue) = 0
    BY DEF Init
  <2>2. 0 <= MaxQueue /\ errors \in 0..MaxErrors /\ latest \in 0..frames /\ frames \in Nat /\ fuaTs \in Nat
    BY ReceiverAssumption DEF Init
  <2>3. /\ view \in [Viewers -> {"none", "waits", "woken", "fresh", "late"}]
        /\ since \in [Viewers -> Nat] /\ got \in [Viewers -> Nat]
    BY DEF Init
  <2> QED BY <2>1, <2>2, <2>3 DEF Init, TypeOK
<1>3. InOrder /\ Kept /\ KeptLast /\ Arrived /\ Unstarted /\ DamageIsLoss
  BY <1>1 DEF Init, InOrder, Kept, KeptLast, Arrived, Unstarted, DamageIsLoss, Begun, NothingSkipped
<1>4. Woken /\ Known /\ DecoderStops /\ GoesOn /\ EveryFrameWakes /\ FreshFrames
  BY ReceiverAssumption DEF Init, Woken, Known, DecoderStops, GoesOn, EveryFrameWakes, FreshFrames
<1> QED BY <1>2, <1>3, <1>4 DEF IndInv

LEMMA NextInv == IndInv /\ [Next]_vars => IndInv'
<1> SUFFICES ASSUME IndInv, [Next]_vars PROVE TypeOK' /\ StreamInv' /\ FrameInv'
  BY DEF IndInv, StreamInv, FrameInv
<1>1. ASSUME Send \/ Lose \/ Receive PROVE TypeOK' /\ StreamInv' /\ FrameInv'
  <2>1. TypeOK' /\ StreamInv' BY <1>1, SendKeeps, LoseKeeps, ReceiveKeeps
  <2>2. UNCHANGED <<codec, errors, frames, latest, view, since, got, stop>>
    BY <1>1 DEF Send, Lose, Receive, decV, viewV
  <2>3. FrameInv'
    BY <2>2 DEF IndInv, FrameInv, Woken, Known, DecoderStops, GoesOn, EveryFrameWakes, FreshFrames
  <2> QED BY <2>1, <2>3
<1>2. CASE StartMedia \/ CodecCreated \/ Decode \/ DecodeIdle \/ DecodedNothing \/ DecodeFails
  BY <1>2, DecoderKeeps
<1>3. CASE Decoded BY <1>3, DecodedKeeps
<1>4. ASSUME NEW v \in Viewers, Request(v) \/ Return(v) PROVE TypeOK' /\ StreamInv' /\ FrameInv'
  BY <1>4, RequestKeeps, ReturnKeeps
<1>5. CASE StopKeepalive \/ StopDecoder \/ StopEnds BY <1>5, StopKeeps
<1>6. CASE UNCHANGED vars
  <2>1. TypeOK' BY <1>6 DEF IndInv, TypeOK, Item, Packets, vars, netV, fuaV, decV, viewV
  <2>2. StreamInv' BY <1>6, StreamRests DEF vars, decV
  <2>3. FrameInv'
    BY <1>6 DEF IndInv, FrameInv, Woken, Known, DecoderStops, GoesOn, EveryFrameWakes, FreshFrames,
                vars, decV, viewV
  <2> QED BY <2>1, <2>2, <2>3
<1> QED BY <1>1, <1>2, <1>3, <1>4, <1>5, <1>6 DEF Next

\* The inductive invariant of the receiver, for every stream of packets and any number of requests.
THEOREM ReceiverInv == Spec => []IndInv
<1>1. Init => IndInv BY InitInv
<1>2. IndInv /\ [Next]_vars => IndInv' BY NextInv
<1> QED BY <1>1, <1>2, PTL DEF Spec

\* What the reassembly hands to the decoder lacks only what the network lost.
THEOREM DamageIsOnlyLoss == Spec => []DamageIsLoss
<1>1. IndInv => DamageIsLoss BY DEF IndInv
<1> QED BY <1>1, ReceiverInv, PTL

\* No request sleeps through a frame, whoever clears the event.
THEOREM FramesWakeAll == Spec => []EveryFrameWakes
<1>1. IndInv => EveryFrameWakes BY DEF IndInv
<1> QED BY <1>1, ReceiverInv, PTL

\* A request that is woken returns a newer frame, or none after the end.
THEOREM WokenGetFresh == Spec => []FreshFrames
<1>1. IndInv => FreshFrames BY DEF IndInv
<1> QED BY <1>1, ReceiverInv, PTL
=============================================================================
