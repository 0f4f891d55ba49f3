------------------------- MODULE VipListenerProofs -------------------------
(***************************************************************************)
(* Proofs about VipListener: the types and the supervisor, for all values  *)
(* of the constants; and for a listener that is the only reader of its     *)
(* queue and whose messages arrive (Alone), that rings are announced once, *)
(* and before their calls are missed.                                      *)
(***************************************************************************)
EXTENDS VipListener, Integers, SequenceTheorems, FiniteSetTheorems, TLAPS

(* Sequences, element by element *)

\* One element more at the end.
LEMMA Appended ==
  ASSUME NEW S, NEW s \in Seq(S), NEW e \in S
  PROVE /\ Append(s, e) \in Seq(S)
        /\ Len(Append(s, e)) = Len(s) + 1 /\ DOMAIN Append(s, e) = 1..Len(s) + 1
        /\ \A i \in 1..Len(s) : Append(s, e)[i] = s[i]
        /\ Append(s, e)[Len(s) + 1] = e
OBVIOUS

\* The first element is gone.
LEMMA Shifted ==
  ASSUME NEW S, NEW s \in Seq(S), s # <<>>
  PROVE /\ Tail(s) \in Seq(S) /\ Head(s) \in S /\ Head(s) = s[1] /\ 1 \in DOMAIN s
        /\ Len(Tail(s)) = Len(s) - 1 /\ DOMAIN Tail(s) = 1..Len(s) - 1
        /\ \A i \in 1..Len(s) - 1 : Tail(s)[i] = s[i + 1] /\ i + 1 \in DOMAIN s
OBVIOUS

(* Types *)

\* Messages the device makes.
LEMMA MsgType == \A k \in Kinds, r \in RingIds : Msg(k, r) \in Messages
BY DEF Msg, Messages

\* What a message can stand for.
LEMMA EventType == \A m \in Messages \cup {None} : EventOf(m) \in Events \cup {"none"}
BY DEF EventOf, Events

\* Handling a message keeps the types.
LEMMA HandleType ==
  ASSUME TypeOK, NEW m \in Messages \cup {None}, Handle(m)
  PROVE /\ age' \in [Events -> 0..DedupWindow] /\ suppressed' \subseteq RingIds
        /\ pushed' \subseteq Events \X RingIds /\ shown' \in [RingIds -> 0..2]
<1>1. m.ring \in RingIds BY VipAssumption DEF Messages, None, RingIds
<1>2. DedupWindow \in Nat \ {0} BY VipAssumption
<1>3. CASE EventOf(m) = "none" BY <1>3 DEF TypeOK, Handle
<1>4. CASE EventOf(m) # "none"
  <2>1. EventOf(m) \in Events BY <1>4, EventType
  <2>2. CASE Suppressed(EventOf(m)) BY <1>1, <1>4, <2>2 DEF TypeOK, Handle
  <2>3. CASE ~Suppressed(EventOf(m))
    <3>1. /\ age' = [age EXCEPT ![EventOf(m)] = 0] /\ pushed' = pushed \cup {<<EventOf(m), m.ring>>}
          /\ shown' = shown \/ shown' = [shown EXCEPT ![m.ring] = IF @ < 2 THEN @ + 1 ELSE 2]
          /\ suppressed' = suppressed
      BY <1>4, <2>3 DEF Handle
    <3>2. age' \in [Events -> 0..DedupWindow] BY <1>2, <2>1, <3>1 DEF TypeOK
    <3>3. shown' \in [RingIds -> 0..2] BY <1>1, <3>1 DEF TypeOK
    <3> QED BY <1>1, <2>1, <3>1, <3>2, <3>3 DEF TypeOK
  <2> QED BY <2>2, <2>3
<1> QED BY <1>3, <1>4

\* A crash is recorded with its number and an age.
LEMMA RecentType ==
  ASSUME TypeOK, crashed < MaxCrashes
  PROVE Recent \subseteq (1..MaxCrashes) \X (0..CrashWindow)
BY VipAssumption DEF TypeOK, Recent

\* The steps of the listener keep the types, ...
LEMMA ListenerTypes == ASSUME TypeOK, Listener PROVE TypeOK'
<1>1. ASSUME TakeMessage PROVE TypeOK'
  <2>1. Head(queue) \in Messages /\ Tail(queue) \in Seq(Messages) /\ Len(Tail(queue)) <= MaxQueue
    BY <1>1, Shifted, VipAssumption DEF TypeOK, TakeMessage
  <2>2. Handle(Head(queue)) \/ (cur' = Head(queue) /\ UNCHANGED <<age, pushed, shown, suppressed>>)
    BY <1>1 DEF TakeMessage
  <2>3. cur' \in Messages \cup {None} BY <1>1, <2>1 DEF TakeMessage
  <2> QED BY <1>1, <2>1, <2>2, <2>3, HandleType DEF TypeOK, TakeMessage, devV
<1>2. ASSUME EventAcked PROVE TypeOK'
  <2>1. cur \in Messages \cup {None} /\ Handle(cur) BY <1>2 DEF TypeOK, EventAcked
  <2>2. alerting' \in RingIds BY <1>2, VipAssumption DEF TypeOK, EventAcked, RingIds
  <2> QED BY <1>2, <2>1, <2>2, HandleType DEF TypeOK, EventAcked
<1>3. ASSUME RenewalAck PROVE TypeOK' BY <1>3 DEF TypeOK, RenewalAck, devV, haV
<1>4. ASSUME RenewalConfirm PROVE TypeOK' BY <1>4 DEF TypeOK, RenewalConfirm, devV, haV
<1>5. ASSUME LoopCrashes PROVE TypeOK'
  BY <1>5, RecentType, VipAssumption DEF TypeOK, LoopCrashes, devV, haV
<1>6. ASSUME LoopRestarts PROVE TypeOK' BY <1>6 DEF TypeOK, LoopRestarts, devV, haV
<1> QED BY <1>1, <1>2, <1>3, <1>4, <1>5, <1>6 DEF Listener

\* ... so do those of the coordinator, the sessions and the doors, ...
LEMMA OthersTypes == ASSUME TypeOK, Others PROVE TypeOK'
<1>1. ASSUME VideoStarts PROVE TypeOK' BY <1>1 DEF TypeOK, VideoStarts, StopTask, devV, haV
<1>2. ASSUME StartTask PROVE age' \in [Events -> 0..DedupWindow]
  BY <1>2, VipAssumption DEF StartTask
<1>3. ASSUME VideoStops PROVE TypeOK' BY <1>2, <1>3 DEF TypeOK, VideoStops, StartTask, lisV, devV, haV
<1>4. ASSUME RestartNotifications PROVE TypeOK' BY <1>2, <1>4 DEF TypeOK, RestartNotifications, StartTask, devV, haV
<1>5. ASSUME queue # <<>>, queue' = Tail(queue)
      PROVE /\ queue' \in Seq(Messages) /\ Len(queue') <= MaxQueue
            /\ Head(queue).ring \in RingIds
  <2>1. Head(queue) \in Messages BY <1>5, Shifted DEF TypeOK
  <2> QED BY <1>5, <2>1, Shifted, VipAssumption DEF TypeOK, Messages
<1>6. ASSUME SessionReads PROVE TypeOK' BY <1>5, <1>6 DEF TypeOK, SessionReads, lisV, devV, haV
<1>7. ASSUME DoorOpens PROVE TypeOK' BY <1>7 DEF TypeOK, DoorOpens, lisV, haV
<1>8. ASSUME DoorReads PROVE TypeOK' BY <1>5, <1>8 DEF TypeOK, DoorReads, lisV, devV
<1>9. ASSUME DoorTimesOut PROVE TypeOK' BY <1>9 DEF TypeOK, DoorTimesOut, lisV, devV, haV
<1> QED BY <1>1, <1>3, <1>4, <1>6, <1>7, <1>8, <1>9 DEF Others

\* ... what is sent is a message and there is room for it, ...
LEMMA SendType ==
  ASSUME TypeOK, NEW k \in Kinds, NEW r \in RingIds, Send(Msg(k, r))
  PROVE queue' \in Seq(Messages) /\ Len(queue') <= MaxQueue
BY MsgType, Appended, VipAssumption DEF TypeOK, Send, Room

\* ... so do those of the device, ...
LEMMA DeviceTypes == ASSUME TypeOK, Device PROVE TypeOK'
<1> USE DEF Kinds
<1>0. 0 \in RingIds /\ 1..rings \subseteq RingIds BY VipAssumption DEF TypeOK, RingIds
<1>1. ASSUME VisitorRings PROVE TypeOK'
  <2>1. rings + 1 \in RingIds BY <1>1, VipAssumption DEF TypeOK, VisitorRings, RingIds
  <2>2. queue' \in Seq(Messages) /\ Len(queue') <= MaxQueue
    <3>1. CASE \E k \in Kinds : Send(Msg(k, rings + 1)) BY <2>1, <3>1, SendType
    <3>2. CASE Len(queue) + 1 < MaxQueue /\ queue' = queue \o <<Msg("callInit", rings + 1), Msg("alerting", rings + 1)>>
      <4>1. <<Msg("callInit", rings + 1), Msg("alerting", rings + 1)>> \in Seq(Messages) BY <2>1, MsgType
      <4> HIDE DEF Kinds
      <4> QED BY <3>2, <4>1, VipAssumption DEF TypeOK
    <3> QED BY <1>1, <3>1, <3>2 DEF VisitorRings
  <2>3. alerting' \in RingIds BY <1>1, <2>1 DEF TypeOK, VisitorRings
  <2> QED BY <1>1, <2>1, <2>2, <2>3 DEF TypeOK, VisitorRings, lisV, haV
<1>2. ASSUME Retransmits PROVE TypeOK' BY <1>2, SendType DEF TypeOK, Retransmits, lisV, devV, haV
<1>3. ASSUME CallTimesOut PROVE TypeOK' BY <1>0, <1>3, SendType DEF TypeOK, CallTimesOut, lisV, haV
<1>4. ASSUME DeviceSends PROVE TypeOK' BY <1>0, <1>4, SendType DEF TypeOK, DeviceSends, lisV, devV, haV
<1>5. ASSUME VideoKeepalive PROVE TypeOK' BY <1>0, <1>5, SendType DEF TypeOK, VideoKeepalive, lisV, devV, haV
<1>6. ASSUME DoorResponse PROVE TypeOK' BY <1>0, <1>6, SendType DEF TypeOK, DoorResponse, lisV, haV
<1> QED BY <1>1, <1>2, <1>3, <1>4, <1>5, <1>6 DEF Device

\* ... and time.
LEMMA TickTypes == ASSUME TypeOK, Tick PROVE TypeOK'
<1>1. age' \in [Events -> 0..DedupWindow] BY VipAssumption DEF TypeOK, Tick
<1>2. crashes' \subseteq (1..MaxCrashes) \X (0..CrashWindow) BY VipAssumption DEF TypeOK, Tick
<1> QED BY <1>1, <1>2 DEF TypeOK, Tick, devV, haV

\* All steps together ...
LEMMA TypesKept == TypeOK /\ [Next]_vars => TypeOK'
<1> SUFFICES ASSUME TypeOK, [Next]_vars PROVE TypeOK' OBVIOUS
<1>1. ASSUME UNCHANGED vars PROVE TypeOK' BY <1>1 DEF TypeOK, vars, lisV, devV, haV
<1> QED BY <1>1, ListenerTypes, OthersTypes, DeviceTypes, TickTypes DEF Next

\* ... and the start.
LEMMA InitTypes == Init => TypeOK
BY VipAssumption DEF Init, TypeOK, RingIds

\* The listener's attributes keep their types, whatever the windows, rings and crashes.
THEOREM VipTypes == Spec => []TypeOK
BY InitTypes, TypesKept, PTL DEF Spec

(* The supervisor *)

\* The crashes that count, and what a tick makes of a crash.
RecentOnes(S) == {c \in S : c[2] < CrashWindow}
Older(c) == <<c[1], IF c[2] < CrashWindow THEN c[2] + 1 ELSE CrashWindow>>

\* Crashes can be counted.
LEMMA CrashesFinite ==
  ASSUME NEW S \in SUBSET ((1..MaxCrashes) \X (0..CrashWindow))
  PROVE /\ IsFiniteSet(S) /\ Cardinality(S) \in Nat
        /\ IsFiniteSet(RecentOnes(S)) /\ Cardinality(RecentOnes(S)) \in Nat
<1>0. IsFiniteSet(1..MaxCrashes) /\ IsFiniteSet(0..CrashWindow)
  <2>1. MaxCrashes \in Int /\ CrashWindow \in Int BY VipAssumption
  <2> QED BY <2>1, FS_Interval
<1>1. IsFiniteSet((1..MaxCrashes) \X (0..CrashWindow)) BY <1>0, FS_Product
<1>2. IsFiniteSet(S) BY <1>1, FS_Subset
<1>3. RecentOnes(S) \in SUBSET S BY DEF RecentOnes
<1> QED BY <1>2, <1>3, FS_Subset, FS_CardinalityType

\* After a crash: all that are kept are recent, none that was recent is dropped.
LEMMA OneMore ==
  ASSUME TypeOK, CrashesNumbered, crashed < MaxCrashes
  PROVE /\ RecentOnes(Recent) = Recent /\ RecentOnes(crashes) \subseteq Recent
        /\ \A c \in Recent : c[1] <= crashed + 1 /\ \A d \in Recent : c[1] = d[1] => c = d
<1>1. \A c \in crashes : c[1] \in Nat /\ c[2] \in Nat /\ c = <<c[1], c[2]>> BY VipAssumption DEF TypeOK
<1>2. crashed \in Nat /\ 0 < CrashWindow BY VipAssumption DEF TypeOK
<1>3. RecentOnes(Recent) = Recent /\ RecentOnes(crashes) \subseteq Recent BY <1>2 DEF RecentOnes, Recent
<1>4. \A c \in Recent : c \in crashes \/ c = <<crashed + 1, 0>> BY DEF Recent
<1> QED BY <1>1, <1>2, <1>3, <1>4 DEF CrashesNumbered

\* A tick keeps the crashes and makes none of them recent.
LEMMA TimePasses ==
  ASSUME TypeOK, CrashesNumbered, Tick
  PROVE /\ CrashesNumbered'
        /\ Cardinality(crashes) <= Cardinality(crashes')
        /\ Cardinality(RecentOnes(crashes')) <= Cardinality(RecentOnes(crashes))
<1>1. \A c \in crashes : c[1] \in Nat /\ c[2] \in Nat /\ c = <<c[1], c[2]>> BY VipAssumption DEF TypeOK
<1>2. crashes' = {Older(c) : c \in crashes} /\ crashed' = crashed BY DEF Tick, Older
<1>3. \A c \in crashes : Older(c)[1] = c[1] BY DEF Older
<1>4. CrashesNumbered' BY <1>1, <1>2, <1>3 DEF CrashesNumbered
<1>5. /\ crashes \in SUBSET ((1..MaxCrashes) \X (0..CrashWindow))
      /\ crashes' \in SUBSET ((1..MaxCrashes) \X (0..CrashWindow))
  BY TickTypes DEF TypeOK
<1>6. Cardinality(crashes) <= Cardinality(crashes')
  <2> DEFINE f == [c \in crashes |-> Older(c)]
  <2>1. f \in [crashes -> crashes'] BY <1>2
  <2>2. \A c, d \in crashes : f[c] = f[d] => c = d BY <1>3 DEF CrashesNumbered
  <2>3. f \in Injection(crashes, crashes') BY <2>1, <2>2 DEF Injection, IsInjective
  <2>4. IsFiniteSet(crashes') BY <1>5, CrashesFinite
  <2> QED BY <2>3, <2>4, FS_Injection
<1>7. Cardinality(RecentOnes(crashes')) <= Cardinality(RecentOnes(crashes))
  <2> DEFINE T == {c \in crashes : c[2] + 1 < CrashWindow}
             g == [c \in T |-> Older(c)]
  <2>1. T \in SUBSET RecentOnes(crashes) BY <1>1, VipAssumption DEF RecentOnes
  <2>2. \A c \in T : Older(c) = <<c[1], c[2] + 1>> BY <1>1, VipAssumption DEF Older
  <2>3. RecentOnes(crashes') = {Older(c) : c \in T} BY <1>1, <1>2, VipAssumption DEF RecentOnes, Older
  <2>4. g \in Surjection(T, RecentOnes(crashes')) BY <2>3 DEF Surjection
  <2>5. IsFiniteSet(T) /\ Cardinality(T) <= Cardinality(RecentOnes(crashes)) BY <1>5, <2>1, CrashesFinite, FS_Subset
  <2>6. Cardinality(RecentOnes(crashes')) <= Cardinality(T) BY <2>4, <2>5, FS_Surjection
  <2>7. Cardinality(T) \in Nat BY <2>5, FS_CardinalityType
  <2>8. Cardinality(RecentOnes(crashes')) \in Nat /\ Cardinality(RecentOnes(crashes)) \in Nat BY <1>5, CrashesFinite
  <2> QED BY <2>5, <2>6, <2>7, <2>8
<1> QED BY <1>4, <1>6, <1>7

\* The inductive invariant of the supervisor.
SupervisorInv == TypeOK /\ CrashesNumbered /\ GivesUpOnBurst

\* Its parts, with the recent crashes named.
LEMMA Counted ==
  SupervisorInv => /\ CrashesNumbered
                   /\ task = "dead" => Cardinality(crashes) > RestartLimit
                   /\ Cardinality(RecentOnes(crashes)) > RestartLimit => task \in {"dead", "off"}
BY DEF SupervisorInv, GivesUpOnBurst, RecentOnes

\* Every step keeps it: only a crash adds one, only a new listener forgets them.
LEMMA SupervisorNext == SupervisorInv /\ [Next]_vars => SupervisorInv'
<1> SUFFICES ASSUME SupervisorInv, [Next]_vars PROVE CrashesNumbered' /\ GivesUpOnBurst'
  BY TypesKept DEF SupervisorInv
<1>t. TypeOK /\ TypeOK' BY TypesKept DEF SupervisorInv
<1>0. ASSUME crashes' = crashes, crashed' = crashed, task' = "dead" => task = "dead",
             task \in {"dead", "off"} => task' \in {"dead", "off"}
      PROVE CrashesNumbered' /\ GivesUpOnBurst'
  BY <1>0 DEF SupervisorInv, CrashesNumbered, GivesUpOnBurst
<1>1. ASSUME Listener, ~LoopCrashes PROVE CrashesNumbered' /\ GivesUpOnBurst'
  BY <1>0, <1>1 DEF Listener, TakeMessage, EventAcked, RenewalAck, RenewalConfirm, LoopRestarts
<1>2. ASSUME LoopCrashes PROVE CrashesNumbered' /\ GivesUpOnBurst'
  <2>1. crashes' = Recent /\ crashed' = crashed + 1 /\ crashed < MaxCrashes BY <1>2 DEF LoopCrashes
  <2>2. CrashesNumbered' BY <2>1, <1>t, OneMore DEF SupervisorInv, CrashesNumbered
  <2>3. task' = "dead" <=> Cardinality(crashes') > RestartLimit BY <1>2 DEF LoopCrashes, TooMany
  <2>4. RecentOnes(crashes') = crashes' BY <2>1, <1>t, OneMore DEF SupervisorInv
  <2> QED BY <2>2, <2>3, <2>4 DEF GivesUpOnBurst, RecentOnes
<1>3. ASSUME StartTask PROVE CrashesNumbered' /\ GivesUpOnBurst'
  <2>1. crashes' = {} /\ task' = "read" BY <1>3 DEF StartTask
  <2>2. {c \in crashes' : c[2] < CrashWindow} = {} BY <2>1
  <2>3. Cardinality({}) = 0 BY FS_EmptySet
  <2> QED BY <2>1, <2>2, <2>3, VipAssumption DEF CrashesNumbered, GivesUpOnBurst
<1>4. ASSUME Others PROVE CrashesNumbered' /\ GivesUpOnBurst'
  BY <1>0, <1>3, <1>4 DEF Others, VideoStarts, StopTask, VideoStops, RestartNotifications, SessionReads,
                          DoorOpens, DoorReads, DoorTimesOut, lisV
<1>5. ASSUME Device \/ UNCHANGED vars PROVE CrashesNumbered' /\ GivesUpOnBurst'
  BY <1>0, <1>5 DEF Device, VisitorRings, Retransmits, CallTimesOut, DeviceSends, VideoKeepalive, DoorResponse,
                    lisV, vars
<1>6. ASSUME Tick PROVE CrashesNumbered' /\ GivesUpOnBurst'
  <2>1. task' = task BY <1>6 DEF Tick
  <2>2. /\ Cardinality(crashes) \in Nat /\ Cardinality(RecentOnes(crashes)) \in Nat
        /\ Cardinality(crashes') \in Nat /\ Cardinality(RecentOnes(crashes')) \in Nat
    BY <1>t, CrashesFinite DEF TypeOK
  <2>3. /\ CrashesNumbered' /\ Cardinality(crashes) <= Cardinality(crashes')
        /\ Cardinality(RecentOnes(crashes')) <= Cardinality(RecentOnes(crashes))
    BY <1>6, <1>t, Counted, TimePasses
  <2>4. task' = "dead" => Cardinality(crashes') > RestartLimit BY <2>1, <2>2, <2>3, Counted, VipAssumption
  <2>5. Cardinality(RecentOnes(crashes')) > RestartLimit => task' \in {"dead", "off"}
    BY <2>1, <2>2, <2>3, Counted, VipAssumption
  <2> QED BY <2>3, <2>4, <2>5 DEF GivesUpOnBurst, RecentOnes
<1> QED BY <1>1, <1>2, <1>4, <1>5, <1>6 DEF Next

\* The supervisor gives up on a burst of crashes and on nothing else.
THEOREM BurstEndsIt == Spec => []GivesUpOnBurst
<1>1. Init => SupervisorInv
  <2>1. Cardinality({}) = 0 BY FS_EmptySet
  <2>2. Init => {c \in crashes : c[2] < CrashWindow} = {} BY DEF Init
  <2> QED BY <2>1, <2>2, InitTypes, VipAssumption DEF Init, SupervisorInv, CrashesNumbered, GivesUpOnBurst
<1>2. SupervisorInv => GivesUpOnBurst BY DEF SupervisorInv
<1> QED BY <1>1, <1>2, SupervisorNext, PTL DEF Spec

\* It gives up only when all the crashes it counts are recent.
THEOREM OldCrashesForgiven == Spec => NoStaleCrash
<1>1. TypeOK /\ [Next]_vars =>
        [task # "dead" /\ task' = "dead" => \A c \in crashes' : c[2] < CrashWindow]_vars
  <2> SUFFICES ASSUME TypeOK, Next, task # "dead", task' = "dead"
               PROVE \A c \in crashes' : c[2] < CrashWindow
    BY DEF vars, lisV
  <2>1. LoopCrashes
    BY DEF Next, Listener, TakeMessage, EventAcked, RenewalAck, RenewalConfirm, LoopRestarts, Others, VideoStarts,
      StopTask, VideoStops, StartTask, RestartNotifications, SessionReads, DoorOpens, DoorReads, DoorTimesOut,
      lisV, Device, VisitorRings, Retransmits, CallTimesOut, DeviceSends, VideoKeepalive, DoorResponse, Tick
  <2> QED BY <2>1, VipAssumption DEF LoopCrashes, Recent
<1> QED BY <1>1, VipTypes, PTL DEF Spec, NoStaleCrash

(* The listener alone: what it still has to do *)

\* The parts of AloneInv that are about messages and events.
Relevant == RingsKnown /\ FsmAfterCallInit /\ ShownIsOver /\ RingsToDo /\ MissedAfterRing

\* The device's part and the events are as before.
EventsKept == UNCHANGED <<rings, alerting, ended, age, pushed, shown, suppressed>>

\* The messages of before come first.
Grew == /\ Len(ToDo) <= Len(ToDo')
        /\ \A i \in DOMAIN ToDo : ToDo'[i] = ToDo[i]

\* The first message has been handled.
Dealt ==
  /\ ToDo # <<>> /\ ToDo' = Tail(ToDo) /\ Handle(ToDo[1])
  /\ alerting' \in {alerting, 0} /\ (ToDo[1] = Msg("callInit", alerting) => alerting' = 0)
  /\ UNCHANGED <<rings, ended>>

\* What is to do is messages.
LEMMA ToDoType == ASSUME TypeOK PROVE ToDo \in Seq(Messages)
BY DEF TypeOK, ToDo

\* Which kinds are rings and missed calls.
LEMMA KindEvents ==
  ASSUME NEW m \in Messages
  PROVE /\ \A r : IsRing(m, r) <=> m.kind \in {"callInit", "alerting"} /\ m.ring = r
        /\ EventOf(m) = "missed_call" <=> m.kind = "videoIdle"
        /\ EventOf(m) = "ring" <=> m.kind \in {"callInit", "alerting"}
BY DEF IsRing, EventOf

\* A message is its kind and its ring.
LEMMA MsgEqual ==
  ASSUME NEW m \in Messages, NEW k, NEW r
  PROVE m = Msg(k, r) <=> m.kind = k /\ m.ring = r
BY DEF Messages, Msg

\* Where the messages stay, what is said of them stays.
LEMMA SameToDo ==
  ASSUME TypeOK, Relevant, ToDo' = ToDo, EventsKept
  PROVE Relevant'
BY DEF Relevant, RingsKnown, FsmAfterCallInit, ShownIsOver, RingsToDo, MissedAfterRing, Handled, Suppressed, EventsKept

\* Time passes only when there is nothing to do.
LEMMA TimeKeeps ==
  ASSUME TypeOK, Relevant, Tick, ToDo = <<>>, ToDo' = ToDo
  PROVE Relevant'
BY DEF Relevant, RingsKnown, FsmAfterCallInit, ShownIsOver, RingsToDo, MissedAfterRing, Handled, Tick, devV, haV

\* Who may step when the listener is alone.
LEMMA AloneStep ==
  ASSUME Alone, TypeOK, AloneTasks, Next
  PROVE \/ TakeMessage \/ EventAcked \/ RenewalAck \/ RenewalConfirm
        \/ VisitorRings \/ Retransmits \/ CallTimesOut \/ DeviceSends \/ Tick
BY DEF Next, Listener, Others, Device, Alone, TypeOK, AloneTasks, LoopCrashes, LoopRestarts, VideoStarts, VideoStops,
       RestartNotifications, SessionReads, DoorOpens, DoorReads, DoorTimesOut, VideoKeepalive, DoorResponse

\* Nobody joins it, and each renewal gets both ACKs.
LEMMA AloneKept ==
  ASSUME Alone, TypeOK, AloneTasks, RegistrationKept, [Next]_vars
  PROVE AloneTasks' /\ RegistrationKept'
<1>0. None \notin Messages BY DEF None, Messages, Kinds
<1>1. ASSUME TakeMessage PROVE AloneTasks' /\ RegistrationKept'
  <2>1. Head(queue) \in Messages BY <1>1, Shifted DEF TypeOK, TakeMessage
  <2> QED BY <1>0, <1>1, <2>1 DEF AloneTasks, RegistrationKept, TakeMessage, devV
<1>2. ASSUME EventAcked PROVE AloneTasks' /\ RegistrationKept'
  BY <1>2 DEF AloneTasks, RegistrationKept, EventAcked
<1>3. ASSUME RenewalAck PROVE AloneTasks' /\ RegistrationKept'
  BY <1>3 DEF Alone, AloneTasks, RegistrationKept, RenewalAck, devV
<1>4. ASSUME RenewalConfirm PROVE AloneTasks' /\ RegistrationKept'
  BY <1>4 DEF Alone, TypeOK, AloneTasks, RegistrationKept, RenewalConfirm, devV
<1>5. ASSUME lisV' = lisV \/ UNCHANGED <<task, cur>>, UNCHANGED <<video, drain, owed, registered>>
      PROVE AloneTasks' /\ RegistrationKept'
  BY <1>5 DEF AloneTasks, RegistrationKept, lisV
<1>6. ASSUME VisitorRings \/ Retransmits \/ CallTimesOut \/ DeviceSends \/ Tick \/ UNCHANGED vars
      PROVE AloneTasks' /\ RegistrationKept'
  BY <1>5, <1>6 DEF VisitorRings, Retransmits, CallTimesOut, DeviceSends, Tick, lisV, devV, vars
<1> QED BY <1>1, <1>2, <1>3, <1>4, <1>6, AloneStep

\* What handling a message changes.
LEMMA HandleFacts ==
  ASSUME TypeOK, NEW m \in Messages, Handle(m)
  PROVE /\ \A r \in RingIds :
             \/ shown'[r] = shown[r]
             \/ /\ IsRing(m, r) /\ ~Suppressed("ring") /\ age'["ring"] < DedupWindow
                /\ shown'[r] = IF shown[r] < 2 THEN shown[r] + 1 ELSE 2
        /\ Suppressed("ring") => age'["ring"] < DedupWindow
        /\ \A r \in RingIds : Handled(r) \/ IsRing(m, r) => shown'[r] > 0 \/ r \in suppressed'
        /\ \A p \in pushed' : p \in pushed \/ p = <<EventOf(m), m.ring>>
<1>1. m.ring \in RingIds BY DEF Messages
<1>2. DedupWindow \in Nat \ {0} BY VipAssumption
<1>3. CASE EventOf(m) = "none" BY <1>3 DEF Handle, IsRing, Handled, Suppressed
<1>4. CASE EventOf(m) # "none" /\ Suppressed(EventOf(m))
  BY <1>1, <1>4 DEF Handle, IsRing, Handled, Suppressed, TypeOK
<1>5. CASE EventOf(m) # "none" /\ ~Suppressed(EventOf(m))
  <2>1. EventOf(m) \in Events BY <1>5, EventType
  <2>2. /\ age' = [age EXCEPT ![EventOf(m)] = 0]
        /\ pushed' = pushed \cup {<<EventOf(m), m.ring>>}
        /\ suppressed' = suppressed
        /\ IF EventOf(m) = "ring" THEN shown' = [shown EXCEPT ![m.ring] = IF @ < 2 THEN @ + 1 ELSE 2]
                                  ELSE shown' = shown
    BY <1>5 DEF Handle, EventTypes
  <2>3. "ring" \in Events BY DEF Events
  <2>4. age'["ring"] = IF EventOf(m) = "ring" THEN 0 ELSE age["ring"] BY <2>1, <2>2, <2>3 DEF TypeOK
  <2>5. \A r \in RingIds : shown'[r] = IF IsRing(m, r) THEN (IF shown[r] < 2 THEN shown[r] + 1 ELSE 2) ELSE shown[r]
    BY <1>1, <2>2 DEF TypeOK, IsRing
  <2>6. \A r \in RingIds : shown[r] \in 0..2 BY DEF TypeOK
  <2>7. \A r : IsRing(m, r) => EventOf(m) = "ring" BY DEF IsRing
  <2> QED BY <1>2, <1>5, <2>2, <2>4, <2>5, <2>6, <2>7 DEF Handled, Suppressed
<1> QED BY <1>3, <1>4, <1>5

\* Handling the first message: a ring that is announced has no announced ring before it, and what is
\* left of it is within the window.
LEMMA DealtKeeps == ASSUME TypeOK, Relevant, Dealt PROVE Relevant'
<1> DEFINE m == ToDo[1]
<1>1. /\ ToDo \in Seq(Messages) /\ m \in Messages /\ 1 \in DOMAIN ToDo
      /\ Len(ToDo) \in Nat /\ DOMAIN ToDo = 1..Len(ToDo)
      /\ DOMAIN ToDo' = 1..Len(ToDo) - 1
      /\ \A i \in DOMAIN ToDo' : ToDo'[i] = ToDo[i + 1] /\ i + 1 \in DOMAIN ToDo
  BY ToDoType, Shifted DEF Dealt
<1>2. \A i \in DOMAIN ToDo : ToDo[i] \in Messages /\ ToDo[i].ring \in RingIds
  <2>1. \A i \in DOMAIN ToDo : ToDo[i] \in Messages BY <1>1
  <2>2. \A x \in Messages : x.ring \in RingIds BY DEF Messages
  <2> QED BY <2>1, <2>2
<1>3. /\ rings \in Nat /\ rings' = rings /\ ended' = ended /\ alerting \in Nat /\ alerting' \in {alerting, 0}
      /\ 1..rings \subseteq RingIds
  BY VipAssumption DEF Dealt, TypeOK, RingIds
<1>4. Handle(m) BY DEF Dealt
<1>5. \A r \in RingIds : shown[r] \in 0..2 BY DEF TypeOK
<1>6. \A i \in DOMAIN ToDo, r \in RingIds : IsRing(ToDo[i], r) => r \in 1..rings
  BY <1>2, KindEvents DEF Relevant, RingsKnown
<1> HIDE DEF m
<1>7. RingsKnown'
  <2>1. \A i \in DOMAIN ToDo' : EventOf(ToDo'[i]) \in {"ring", "missed_call"} => ToDo'[i].ring \in 1..rings
    BY <1>1 DEF Relevant, RingsKnown
  <2>2. \A r \in RingIds : shown'[r] > 0 => r \in 1..rings
    BY <1>1, <1>4, <1>6, HandleFacts DEF Relevant, RingsKnown, m
  <2> QED BY <1>3, <2>1, <2>2 DEF Relevant, RingsKnown
<1>8. FsmAfterCallInit'
  <2> SUFFICES ASSUME NEW i \in DOMAIN ToDo', ToDo'[i] = Msg("alerting", alerting')
               PROVE \E k \in 1..i-1 : ToDo'[k] = Msg("callInit", alerting')
    BY DEF FsmAfterCallInit
  <2>1. ToDo[i + 1] = Msg("alerting", alerting') /\ i + 1 \in DOMAIN ToDo BY <1>1
  <2>2. alerting' \in 1..rings BY <1>2, <2>1, KindEvents, MsgEqual DEF Relevant, RingsKnown
  <2>3. alerting' = alerting BY <1>3, <2>2
  <2>4. PICK k \in 1..i : ToDo[k] = Msg("callInit", alerting)
    BY <1>1, <2>1, <2>3 DEF Relevant, FsmAfterCallInit
  <2>5. k # 1 BY <1>3, <2>2, <2>3, <2>4 DEF Dealt
  <2>6. i \in 1..Len(ToDo) - 1 BY <1>1
  <2>7. k - 1 \in 1..i-1 /\ k - 1 \in DOMAIN ToDo' /\ (k - 1) + 1 = k BY <1>1, <2>4, <2>5, <2>6
  <2>8. ToDo'[k - 1] = ToDo[k] BY <1>1, <2>7
  <2> QED BY <2>3, <2>4, <2>7, <2>8
<1>9. ShownIsOver'
  <2> SUFFICES ASSUME NEW r \in RingIds, shown'[r] > 0
               PROVE /\ shown'[r] = 1 /\ r # alerting'
                     /\ \A i \in DOMAIN ToDo' : IsRing(ToDo'[i], r) => age'["ring"] < DedupWindow
    BY DEF ShownIsOver, Suppressed
  <2>0. r # 0 BY <1>3, <1>7 DEF RingsKnown
  <2>1. CASE shown'[r] = shown[r]
    <3>1. shown[r] = 1 /\ r # alerting BY <2>1 DEF Relevant, ShownIsOver
    <3>2. \A i \in DOMAIN ToDo : IsRing(ToDo[i], r) => Suppressed("ring") BY <2>1 DEF Relevant, ShownIsOver
    <3>3. Suppressed("ring") => age'["ring"] < DedupWindow BY <1>1, <1>4, HandleFacts
    <3> QED BY <1>1, <1>3, <2>0, <2>1, <3>1, <3>2, <3>3
  <2>2. CASE shown'[r] # shown[r]
    <3>1. /\ IsRing(m, r) /\ ~Suppressed("ring") /\ age'["ring"] < DedupWindow
          /\ shown'[r] = IF shown[r] < 2 THEN shown[r] + 1 ELSE 2
      BY <1>1, <1>4, <2>2, HandleFacts
    <3>2. shown[r] = 0 BY <1>1, <1>5, <3>1 DEF Relevant, ShownIsOver, m
    <3>3. r # alerting'
      <4> SUFFICES ASSUME r = alerting' PROVE FALSE OBVIOUS
      <4>1. r = alerting BY <1>3, <2>0
      <4>2. m.kind \in {"callInit", "alerting"} /\ m.ring = r BY <1>1, <3>1, KindEvents
      <4>3. CASE m.kind = "callInit"
        <5>1. m = Msg("callInit", alerting) BY <1>1, <4>1, <4>2, <4>3, MsgEqual
        <5> QED BY <5>1, <2>0 DEF Dealt, m
      <4>4. CASE m.kind = "alerting"
        <5>1. m = Msg("alerting", alerting) BY <1>1, <4>1, <4>2, <4>4, MsgEqual
        <5>2. \E k \in 1..1-1 : ToDo[k] = Msg("callInit", alerting) BY <1>1, <5>1 DEF Relevant, FsmAfterCallInit, m
        <5> QED BY <5>2
      <4> QED BY <4>2, <4>3, <4>4
    <3> QED BY <3>1, <3>2, <3>3
  <2> QED BY <2>1, <2>2
<1>10. \A r \in RingIds : Handled(r) \/ IsRing(m, r) => shown'[r] > 0 \/ r \in suppressed'
  BY <1>1, <1>4, HandleFacts
<1>11. RingsToDo'
  <2>1. ASSUME NEW r \in 1..rings
        PROVE shown'[r] > 0 \/ r \in suppressed' \/ \E i \in DOMAIN ToDo' : IsRing(ToDo'[i], r)
    <3>1. CASE Handled(r) BY <1>3, <1>10, <3>1
    <3>2. CASE \E i \in DOMAIN ToDo : IsRing(ToDo[i], r)
      <4>1. PICK i \in DOMAIN ToDo : IsRing(ToDo[i], r) BY <3>2
      <4>2. CASE i = 1 BY <1>3, <1>10, <4>1, <4>2 DEF m
      <4>3. CASE i # 1
        <5>1. i - 1 \in DOMAIN ToDo' /\ (i - 1) + 1 = i BY <1>1, <4>3
        <5>2. ToDo'[i - 1] = ToDo[i] BY <1>1, <5>1
        <5> QED BY <4>1, <5>1, <5>2
      <4> QED BY <4>2, <4>3
    <3> QED BY <3>1, <3>2 DEF Relevant, RingsToDo
  <2>2. ASSUME NEW i \in DOMAIN ToDo', ToDo'[i].kind = "videoIdle"
        PROVE \/ shown'[ToDo'[i].ring] > 0 \/ ToDo'[i].ring \in suppressed'
              \/ \E k \in 1..i-1 : IsRing(ToDo'[k], ToDo'[i].ring)
    <3>1. ToDo'[i] = ToDo[i + 1] /\ i + 1 \in DOMAIN ToDo BY <1>1
    <3>2. ToDo[i + 1].ring \in RingIds BY <1>2, <3>1
    <3>3. CASE Handled(ToDo[i + 1].ring) BY <1>10, <3>1, <3>2, <3>3
    <3>4. CASE \E k \in 1..i : IsRing(ToDo[k], ToDo[i + 1].ring)
      <4>1. PICK k \in 1..i : IsRing(ToDo[k], ToDo[i + 1].ring) BY <3>4
      <4>2. CASE k = 1 BY <1>10, <3>1, <3>2, <4>1, <4>2 DEF m
      <4>3. CASE k # 1
        <5>1. i \in 1..Len(ToDo) - 1 BY <1>1
        <5>2. k - 1 \in 1..i-1 /\ k - 1 \in DOMAIN ToDo' /\ (k - 1) + 1 = k BY <1>1, <4>1, <4>3, <5>1
        <5>3. ToDo'[k - 1] = ToDo[k] BY <1>1, <5>2
        <5> QED BY <3>1, <4>1, <5>2, <5>3
      <4> QED BY <4>2, <4>3
    <3>5. (i + 1) - 1 = i BY <1>1
    <3>6. Handled(ToDo[i + 1].ring) \/ \E k \in 1..(i + 1)-1 : IsRing(ToDo[k], ToDo[i + 1].ring)
      BY <2>2, <3>1 DEF Relevant, RingsToDo
    <3> QED BY <3>3, <3>4, <3>5, <3>6
  <2> QED BY <1>3, <2>1, <2>2 DEF RingsToDo, Handled
<1>12. MissedAfterRing'
  <2> SUFFICES ASSUME NEW r \in 1..MaxRings, <<"missed_call", r>> \in pushed'
               PROVE shown'[r] > 0 \/ r \in suppressed'
    BY DEF MissedAfterRing
  <2>0. r \in RingIds BY VipAssumption DEF RingIds
  <2>1. CASE <<"missed_call", r>> \in pushed BY <1>10, <2>0, <2>1 DEF Relevant, MissedAfterRing, Handled
  <2>2. CASE <<"missed_call", r>> \notin pushed
    <3>1. EventOf(m) = "missed_call" /\ m.ring = r BY <1>1, <1>4, <2>2, HandleFacts
    <3>2. m.kind = "videoIdle" BY <1>1, <3>1, KindEvents
    <3>3. Handled(m.ring) \/ \E k \in 1..1-1 : IsRing(ToDo[k], m.ring) BY <1>1, <3>2 DEF Relevant, RingsToDo, m
    <3> QED BY <1>10, <2>0, <3>1, <3>3
  <2> QED BY <2>1, <2>2
<1> QED BY <1>7, <1>8, <1>9, <1>11, <1>12 DEF Relevant

\* New messages: about rings not announced yet, and in the right order.
LEMMA GrewKeeps ==
  ASSUME TypeOK, Relevant, Grew, ToDo' \in Seq(Messages), UNCHANGED <<age, pushed, shown, suppressed>>,
         rings' \in Nat, alerting' \in Nat, rings <= rings', alerting' <= rings', ended' \subseteq 1..rings',
         alerting' = alerting \/ alerting' \notin 0..rings,
         \A i \in DOMAIN ToDo' \ DOMAIN ToDo :
           /\ EventOf(ToDo'[i]) \in {"ring", "missed_call"} => ToDo'[i].ring \in 1..rings'
           /\ ToDo'[i] = Msg("alerting", alerting') => \E k \in 1..i-1 : ToDo'[k] = Msg("callInit", alerting')
           /\ \A r \in RingIds : IsRing(ToDo'[i], r) => shown[r] = 0
           /\ ToDo'[i].kind = "videoIdle" =>
                Handled(ToDo'[i].ring) \/ \E k \in 1..i-1 : IsRing(ToDo'[k], ToDo'[i].ring),
         \A r \in rings+1..rings' : \E i \in DOMAIN ToDo' : IsRing(ToDo'[i], r)
  PROVE Relevant'
<1> DEFINE Added == DOMAIN ToDo' \ DOMAIN ToDo
<1>1. /\ ToDo \in Seq(Messages) /\ Len(ToDo) \in Nat /\ DOMAIN ToDo = 1..Len(ToDo)
      /\ Len(ToDo') \in Nat /\ DOMAIN ToDo' = 1..Len(ToDo') /\ DOMAIN ToDo \subseteq DOMAIN ToDo'
      /\ \A i \in DOMAIN ToDo : ToDo'[i] = ToDo[i] /\ 1..i-1 \subseteq DOMAIN ToDo
  BY ToDoType DEF Grew
<1>2. /\ rings \in Nat /\ alerting \in Nat
      /\ \A r \in RingIds : shown[r] \in 0..2
  BY VipAssumption DEF TypeOK, RingIds
<1>3. \A i \in DOMAIN ToDo : ToDo[i] \in Messages BY <1>1
<1>4. RingsKnown'
  <2>1. ASSUME NEW i \in DOMAIN ToDo', EventOf(ToDo'[i]) \in {"ring", "missed_call"}
        PROVE ToDo'[i].ring \in 1..rings'
    BY <1>1, <1>2, <2>1 DEF Relevant, RingsKnown
  <2>2. \A r \in RingIds : shown'[r] > 0 => r \in 1..rings' BY <1>2 DEF Relevant, RingsKnown
  <2> QED BY <2>1, <2>2 DEF RingsKnown
<1>5. FsmAfterCallInit'
  <2> SUFFICES ASSUME NEW i \in DOMAIN ToDo, ToDo'[i] = Msg("alerting", alerting')
               PROVE \E k \in 1..i-1 : ToDo'[k] = Msg("callInit", alerting')
    BY <1>1 DEF FsmAfterCallInit
  <2>1. ToDo[i] = Msg("alerting", alerting') BY <1>1
  <2>2. alerting' \in 1..rings BY <1>3, <2>1, KindEvents, MsgEqual DEF Relevant, RingsKnown
  <2>3. alerting' = alerting BY <1>2, <2>2
  <2>4. PICK k \in 1..i-1 : ToDo[k] = Msg("callInit", alerting) BY <2>1, <2>3 DEF Relevant, FsmAfterCallInit
  <2> QED BY <1>1, <2>3, <2>4
<1>6. ShownIsOver'
  <2> SUFFICES ASSUME NEW r \in RingIds, shown[r] > 0
               PROVE /\ shown[r] = 1 /\ r # alerting'
                     /\ \A i \in DOMAIN ToDo' : IsRing(ToDo'[i], r) => age["ring"] < DedupWindow
    BY DEF ShownIsOver, Suppressed
  <2>1. shown[r] = 1 /\ r # alerting /\ r \in 1..rings BY DEF Relevant, ShownIsOver, RingsKnown
  <2>2. r # alerting' BY <1>2, <2>1
  <2>3. ASSUME NEW i \in DOMAIN ToDo', IsRing(ToDo'[i], r) PROVE age["ring"] < DedupWindow
    <3>1. i \in DOMAIN ToDo BY <2>1, <2>3
    <3>2. IsRing(ToDo[i], r) BY <1>1, <2>3, <3>1
    <3> QED BY <3>1, <3>2 DEF Relevant, ShownIsOver, Suppressed
  <2> QED BY <2>1, <2>2, <2>3
<1>7. RingsToDo'
  <2>1. ASSUME NEW r \in 1..rings'
        PROVE Handled(r) \/ \E i \in DOMAIN ToDo' : IsRing(ToDo'[i], r)
    <3>1. CASE r \in rings+1..rings' BY <3>1
    <3>2. CASE r \in 1..rings BY <1>1, <3>2 DEF Relevant, RingsToDo
    <3> QED BY <1>2, <3>1, <3>2
  <2>2. ASSUME NEW i \in DOMAIN ToDo', ToDo'[i].kind = "videoIdle"
        PROVE Handled(ToDo'[i].ring) \/ \E k \in 1..i-1 : IsRing(ToDo'[k], ToDo'[i].ring)
    <3>1. CASE i \in DOMAIN ToDo
      <4>1. ToDo'[i] = ToDo[i] /\ \A k \in 1..i-1 : ToDo'[k] = ToDo[k] BY <1>1, <3>1
      <4> QED BY <2>2, <3>1, <4>1 DEF Relevant, RingsToDo
    <3> QED BY <2>2, <3>1
  <2> QED BY <2>1, <2>2 DEF RingsToDo, Handled
<1>8. MissedAfterRing' BY DEF Relevant, MissedAfterRing
<1> QED BY <1>4, <1>5, <1>6, <1>7, <1>8 DEF Relevant

\* A message taken from the queue is still to do, unless it is dealt with at once.
LEMMA TakeKeeps == ASSUME TypeOK, AloneTasks, Relevant, TakeMessage PROVE Relevant'
<1>1. queue \in Seq(Messages) /\ queue # <<>> /\ cur = None /\ ToDo = queue
  BY DEF TypeOK, AloneTasks, TakeMessage, ToDo
<1>2. Head(queue) \in Messages /\ Head(queue) = ToDo[1] /\ queue' = Tail(queue) /\ Head(queue) # None
  <2>1. Head(queue) \in Messages /\ Head(queue) = queue[1] BY <1>1, Shifted
  <2>2. None \notin Messages BY DEF Messages, Kinds, None
  <2> QED BY <1>1, <2>1, <2>2 DEF TakeMessage
<1>3. UNCHANGED <<rings, alerting, ended>> BY DEF TakeMessage, devV
<1>4. CASE Head(queue).kind \in Acked \cup {"renewal"}
  <2>1. cur' = Head(queue) /\ UNCHANGED <<age, pushed, shown, suppressed>> BY <1>4 DEF TakeMessage
  <2>2. ToDo' = <<Head(queue)>> \o Tail(queue) BY <1>2, <2>1 DEF ToDo
  <2>3. <<Head(queue)>> \o Tail(queue) = queue BY <1>1
  <2> QED BY <1>1, <1>3, <2>1, <2>2, <2>3, SameToDo DEF EventsKept
<1>5. CASE Head(queue).kind \notin Acked \cup {"renewal"}
  <2>1. cur' = None /\ Handle(Head(queue)) BY <1>5 DEF TakeMessage
  <2>2. Head(queue) # Msg("callInit", alerting) BY <1>5 DEF Msg, Acked, Kinds
  <2>3. ToDo' = Tail(ToDo) BY <1>1, <1>2, <2>1 DEF ToDo
  <2> QED BY <1>1, <1>2, <1>3, <2>1, <2>2, <2>3, DealtKeeps DEF Dealt
<1> QED BY <1>4, <1>5

\* The message in hand is dealt with.
LEMMA InHand ==
  ASSUME TypeOK, cur # None, cur' = None, queue' = queue
  PROVE ToDo # <<>> /\ ToDo[1] = cur /\ ToDo' = Tail(ToDo) /\ cur \in Messages
<1>1. cur \in Messages /\ queue \in Seq(Messages) BY DEF TypeOK
<1>2. ToDo = <<cur>> \o queue /\ ToDo' = queue BY DEF ToDo
<1> QED BY <1>1, <1>2

\* An acknowledged message is handled, and a call init that is acknowledged is not repeated.
LEMMA AckKeeps == ASSUME Alone, TypeOK, AloneTasks, Relevant, EventAcked PROVE Relevant'
<1>1. cur # None /\ cur' = None /\ queue' = queue /\ Handle(cur) /\ UNCHANGED <<rings, ended>>
  BY DEF AloneTasks, EventAcked
<1>2. alerting' = IF cur.kind = "callInit" /\ cur.ring = alerting THEN 0 ELSE alerting
  BY DEF Alone, EventAcked
<1>3. cur = Msg("callInit", alerting) => alerting' = 0 BY <1>2 DEF Msg
<1> QED BY <1>1, <1>2, <1>3, InHand, DealtKeeps DEF Dealt

\* A renewal is not an event.
LEMMA RenewalKeeps ==
  ASSUME Alone, TypeOK, AloneTasks, Relevant, RenewalAck \/ RenewalConfirm
  PROVE Relevant'
<1>1. UNCHANGED <<rings, ended, alerting, age, pushed, shown, suppressed, queue>>
  BY DEF RenewalAck, RenewalConfirm, devV, haV
<1>2. CASE RenewalAck
  <2>1. cur' = cur BY <1>2 DEF Alone, RenewalAck
  <2>2. ToDo' = ToDo BY <1>1, <2>1 DEF ToDo
  <2> QED BY <1>1, <2>2, SameToDo DEF EventsKept
<1>3. CASE RenewalConfirm
  <2>1. cur # None /\ cur' = None /\ cur.kind = "renewal" BY <1>3 DEF AloneTasks, RenewalConfirm
  <2>2. cur \in Messages BY <2>1 DEF TypeOK
  <2>3. EventOf(cur) = "none" BY <2>1 DEF EventOf
  <2>4. Handle(cur) BY <1>1, <2>3 DEF Handle
  <2>5. cur # Msg("callInit", alerting) BY <2>1 DEF Msg
  <2> QED BY <1>1, <2>1, <2>4, <2>5, InHand, DealtKeeps DEF Dealt
<1> QED BY <1>2, <1>3

\* A message sent is the last to do.
LEMMA SentToDo ==
  ASSUME TypeOK, NEW m \in Messages, queue' = Append(queue, m), cur' = cur
  PROVE /\ Grew /\ ToDo' \in Seq(Messages) /\ ToDo \in Seq(Messages)
        /\ DOMAIN ToDo = 1..Len(ToDo) /\ Len(ToDo) \in Nat
        /\ DOMAIN ToDo' \ DOMAIN ToDo = {Len(ToDo) + 1} /\ ToDo'[Len(ToDo) + 1] = m
        /\ \A i \in DOMAIN ToDo : i \in 1..(Len(ToDo) + 1)-1
<1>1. ToDo \in Seq(Messages) BY ToDoType
<1>2. ToDo' = Append(ToDo, m)
  <2>1. CASE cur = None BY <2>1 DEF ToDo
  <2>2. CASE cur # None
    <3>1. cur \in Messages /\ queue \in Seq(Messages) BY <2>2 DEF TypeOK
    <3>2. <<cur>> \o Append(queue, m) = Append(<<cur>> \o queue, m) BY <3>1
    <3> QED BY <2>2, <3>2 DEF ToDo
  <2> QED BY <2>1, <2>2
<1>3. /\ Append(ToDo, m) \in Seq(Messages) /\ Len(ToDo) \in Nat /\ DOMAIN ToDo = 1..Len(ToDo)
      /\ Len(Append(ToDo, m)) = Len(ToDo) + 1 /\ DOMAIN Append(ToDo, m) = 1..Len(ToDo) + 1
      /\ \A i \in 1..Len(ToDo) : Append(ToDo, m)[i] = ToDo[i]
      /\ Append(ToDo, m)[Len(ToDo) + 1] = m
  BY <1>1, Appended
<1> HIDE DEF ToDo
<1> QED BY <1>2, <1>3 DEF Grew

\* What is repeated was not acknowledged, so not announced.
LEMMA RetransmitKeeps == ASSUME TypeOK, Relevant, Retransmits PROVE Relevant'
<1> DEFINE m == Msg("callInit", alerting)
           n == Len(ToDo) + 1
<1>1. /\ alerting # 0 /\ queue' = Append(queue, m) /\ cur' = cur
      /\ UNCHANGED <<rings, alerting, ended, age, pushed, shown, suppressed>>
  BY DEF Retransmits, Send, lisV, devV, haV
<1>2. /\ rings \in Nat /\ alerting \in 1..rings /\ alerting \in RingIds /\ ended \subseteq 1..rings
      /\ \A r \in RingIds : shown[r] \in 0..2
  BY <1>1, VipAssumption DEF TypeOK, RingIds, Relevant, RingsKnown
<1>3. m \in Messages BY <1>2, MsgType DEF Kinds
<1>4. m.kind = "callInit" /\ m.ring = alerting BY DEF Msg
<1> HIDE DEF m
<1>5. shown[alerting] = 0 BY <1>2 DEF Relevant, ShownIsOver
<1>6. /\ \A r : IsRing(m, r) <=> r = alerting
      /\ EventOf(m) = "ring" /\ m # Msg("alerting", alerting) /\ m.kind # "videoIdle"
  BY <1>3, <1>4, KindEvents, MsgEqual
<1>7. Grew /\ ToDo' \in Seq(Messages) /\ DOMAIN ToDo' \ DOMAIN ToDo = {n} /\ ToDo'[n] = m
  BY <1>1, <1>3, SentToDo
<1> HIDE DEF n
<1> QED BY <1>1, <1>2, <1>4, <1>5, <1>6, <1>7, GrewKeeps

\* The end of a call comes after its ring.
LEMMA MissedKeeps == ASSUME TypeOK, Relevant, CallTimesOut PROVE Relevant'
<1>1. PICK r \in 1..rings \ ended : ended' = ended \cup {r} /\ Send(Msg("videoIdle", r))
  BY DEF CallTimesOut
<1> DEFINE m == Msg("videoIdle", r)
           n == Len(ToDo) + 1
<1>2. /\ queue' = Append(queue, m) /\ cur' = cur
      /\ UNCHANGED <<rings, alerting, age, pushed, shown, suppressed>>
  BY <1>1 DEF CallTimesOut, Send, lisV, haV
<1>3. rings \in Nat /\ alerting \in Nat /\ alerting <= rings /\ r \in RingIds /\ ended' \subseteq 1..rings
  <2>1. rings \in 0..MaxRings /\ alerting \in 0..MaxRings BY DEF TypeOK, RingIds
  <2>2. alerting <= rings /\ ended \subseteq 1..rings BY DEF Relevant, RingsKnown
  <2> QED BY <1>1, <2>1, <2>2, VipAssumption DEF RingIds
<1>4. m \in Messages BY <1>3, MsgType DEF Kinds
<1>5. m.kind = "videoIdle" /\ m.ring = r BY DEF Msg
<1> HIDE DEF m
<1>6. m # Msg("alerting", alerting) /\ \A x : ~IsRing(m, x) BY <1>4, <1>5, KindEvents, MsgEqual
<1>7. /\ Grew /\ ToDo' \in Seq(Messages) /\ DOMAIN ToDo' \ DOMAIN ToDo = {n} /\ ToDo'[n] = m
      /\ \A i \in DOMAIN ToDo : i \in 1..n-1
  BY <1>2, <1>4, SentToDo
<1>8. Handled(r) \/ \E k \in 1..n-1 : IsRing(ToDo'[k], r)
  <2>1. Handled(r) \/ \E i \in DOMAIN ToDo : IsRing(ToDo[i], r) BY <1>1 DEF Relevant, RingsToDo
  <2> HIDE DEF n
  <2> QED BY <1>7, <2>1 DEF Grew
<1> HIDE DEF n
<1> QED BY <1>1, <1>2, <1>3, <1>5, <1>6, <1>7, <1>8, GrewKeeps

\* The other messages are not events, or none of these.
LEMMA SendsKeep == ASSUME TypeOK, Relevant, DeviceSends PROVE Relevant'
<1>1. PICK k \in {"renewal", "doorEntrance", "doorInternal", "fsm", "videoOther"} : Send(Msg(k, 0))
  BY DEF DeviceSends
<1> DEFINE m == Msg(k, 0)
           n == Len(ToDo) + 1
<1>2. /\ queue' = Append(queue, m) /\ cur' = cur
      /\ UNCHANGED <<rings, alerting, ended, age, pushed, shown, suppressed>>
  BY <1>1 DEF DeviceSends, Send, lisV, devV, haV
<1>3. rings \in Nat /\ alerting \in Nat /\ alerting <= rings /\ ended \subseteq 1..rings
  BY VipAssumption DEF TypeOK, RingIds, Relevant, RingsKnown
<1>4. m \in Messages
  <2>1. 0 \in RingIds BY VipAssumption DEF RingIds
  <2> QED BY <2>1, MsgType DEF Kinds
<1>5. m.kind = k BY DEF Msg
<1> HIDE DEF m
<1>6. /\ EventOf(m) \notin {"ring", "missed_call"} /\ m # Msg("alerting", alerting) /\ m.kind # "videoIdle"
      /\ \A x : ~IsRing(m, x)
  BY <1>4, <1>5, KindEvents, MsgEqual
<1>7. Grew /\ ToDo' \in Seq(Messages) /\ DOMAIN ToDo' \ DOMAIN ToDo = {n} /\ ToDo'[n] = m
  BY <1>2, <1>4, SentToDo
<1> HIDE DEF n
<1> QED BY <1>2, <1>3, <1>6, <1>7, GrewKeeps

\* A new ring: its call init, its FSM event, or both in this order.
LEMMA RingsKeep == ASSUME TypeOK, Relevant, VisitorRings PROVE Relevant'
<1> DEFINE r == rings + 1
           c == Msg("callInit", r)
           a == Msg("alerting", r)
           n == Len(ToDo) + 1
<1>1. rings' = r /\ cur' = cur /\ UNCHANGED <<ended, age, pushed, shown, suppressed>>
  BY DEF VisitorRings, lisV, haV
<1>2. /\ rings \in Nat /\ r \in Nat /\ r \in RingIds /\ alerting \in Nat /\ alerting <= rings
      /\ ended \subseteq 1..r /\ r \notin 0..rings /\ rings+1..r = {r} /\ rings <= r
      /\ \A x \in RingIds : shown[x] \in 0..2
  BY VipAssumption DEF TypeOK, RingIds, Relevant, RingsKnown, VisitorRings
<1>3. c \in Messages /\ a \in Messages BY <1>2, MsgType DEF Kinds
<1>4. c.kind = "callInit" /\ c.ring = r /\ a.kind = "alerting" /\ a.ring = r BY DEF Msg
<1>5. shown[r] = 0 BY <1>2 DEF Relevant, RingsKnown
<1> HIDE DEF c, a, r
<1>6. /\ \A x : IsRing(c, x) <=> x = r
      /\ \A x : IsRing(a, x) <=> x = r
      /\ \A x : c # Msg("alerting", x) /\ (a = Msg("alerting", x) <=> x = r)
      /\ c.kind # "videoIdle" /\ a.kind # "videoIdle" /\ r \in 1..r
  BY <1>2, <1>3, <1>4, KindEvents, MsgEqual
<1>s. /\ rings' \in Nat /\ rings <= rings' /\ ended' \subseteq 1..rings' /\ rings \in Nat
      /\ \A x \in rings+1..rings' : x = r
  BY <1>1, <1>2
<1>7. CASE queue' = Append(queue, c) /\ alerting' = r
  <2>1. Grew /\ ToDo' \in Seq(Messages) /\ DOMAIN ToDo' \ DOMAIN ToDo = {n} /\ ToDo'[n] = c
    BY <1>1, <1>3, <1>7, SentToDo
  <2> HIDE DEF n
  <2>2. alerting' \in Nat /\ alerting' <= rings' /\ alerting' \notin 0..rings BY <1>1, <1>2, <1>7
  <2>3. \A x \in rings+1..rings' : \E i \in DOMAIN ToDo' : IsRing(ToDo'[i], x) BY <1>s, <1>6, <2>1
  <2>4. \A i \in DOMAIN ToDo' \ DOMAIN ToDo : ToDo'[i] = c BY <2>1
  <2> QED BY <1>1, <1>s, <1>4, <1>5, <1>6, <2>1, <2>2, <2>3, <2>4, GrewKeeps
<1>8. CASE queue' = Append(queue, a) /\ alerting' = alerting
  <2>1. Grew /\ ToDo' \in Seq(Messages) /\ DOMAIN ToDo' \ DOMAIN ToDo = {n} /\ ToDo'[n] = a
    BY <1>1, <1>3, <1>8, SentToDo
  <2> HIDE DEF n
  <2>2. alerting' \in Nat /\ alerting' <= rings' /\ alerting' # r BY <1>1, <1>2, <1>8
  <2>3. \A x \in rings+1..rings' : \E i \in DOMAIN ToDo' : IsRing(ToDo'[i], x) BY <1>s, <1>6, <2>1
  <2>4. \A i \in DOMAIN ToDo' \ DOMAIN ToDo : ToDo'[i] = a BY <2>1
  <2> QED BY <1>1, <1>s, <1>4, <1>5, <1>6, <1>8, <2>1, <2>2, <2>3, <2>4, GrewKeeps
<1>9. CASE queue' = queue \o <<c, a>> /\ alerting' = r
  <2>1. ToDo \in Seq(Messages) /\ <<c, a>> \in Seq(Messages) BY <1>3, ToDoType
  <2>2. ToDo' = ToDo \o <<c, a>>
    <3>1. CASE cur = None BY <1>1, <1>9, <3>1 DEF ToDo
    <3>2. CASE cur # None
      <4>1. cur \in Messages /\ queue \in Seq(Messages) BY <3>2 DEF TypeOK
      <4>2. <<cur>> \o (queue \o <<c, a>>) = (<<cur>> \o queue) \o <<c, a>> BY <2>1, <4>1
      <4> QED BY <1>1, <1>9, <3>2, <4>2 DEF ToDo
    <3> QED BY <3>1, <3>2
  <2>3. /\ Grew /\ ToDo' \in Seq(Messages) /\ DOMAIN ToDo' \ DOMAIN ToDo = {n, n + 1}
        /\ ToDo'[n] = c /\ ToDo'[n + 1] = a /\ n \in 1..(n + 1)-1
    BY <2>1, <2>2 DEF Grew
  <2> HIDE DEF n
  <2>4. alerting' \in Nat /\ alerting' <= rings' /\ alerting' \notin 0..rings BY <1>1, <1>2, <1>9
  <2>5. \A x \in rings+1..rings' : \E i \in DOMAIN ToDo' : IsRing(ToDo'[i], x) BY <1>s, <1>6, <2>3
  <2>6. c = Msg("callInit", alerting') BY <1>3, <1>4, <1>9, MsgEqual
  <2>7. \A i \in DOMAIN ToDo' \ DOMAIN ToDo :
          ToDo'[i] \in {c, a} /\ (ToDo'[i] = a => \E k \in 1..i-1 : ToDo'[k] = Msg("callInit", alerting'))
    BY <1>4, <2>3, <2>6
  <2> QED BY <1>1, <1>s, <1>4, <1>5, <1>6, <2>3, <2>4, <2>5, <2>7, GrewKeeps
<1> QED BY <1>7, <1>8, <1>9 DEF VisitorRings, Send, r, c, a

\* Every step keeps AloneInv ...
LEMMA AloneNext == ASSUME Alone, AloneInv, [Next]_vars PROVE AloneInv'
<1>1. TypeOK /\ AloneTasks /\ Relevant /\ RegistrationKept BY DEF AloneInv, Relevant
<1>2. TypeOK' /\ AloneTasks' /\ RegistrationKept' BY <1>1, TypesKept, AloneKept
<1>3. ASSUME Tick PROVE Relevant'
  <2>1. ToDo = <<>> /\ ToDo' = ToDo BY <1>1, <1>3 DEF Tick, AloneTasks, ToDo
  <2> QED BY <1>1, <1>3, <2>1, TimeKeeps
<1>4. ASSUME UNCHANGED vars PROVE Relevant'
  <2>1. ToDo' = ToDo BY <1>4 DEF ToDo, vars, lisV
  <2> QED BY <1>1, <1>4, <2>1, SameToDo DEF EventsKept, vars, lisV, devV, haV
<1>5. Relevant'
  BY <1>1, <1>3, <1>4, AloneStep, TakeKeeps, AckKeeps, RenewalKeeps, RetransmitKeeps, MissedKeeps, SendsKeep, RingsKeep
<1> QED BY <1>2, <1>5 DEF AloneInv, Relevant

\* ... and it holds at first.
LEMMA AloneInit == ASSUME Alone, Init PROVE AloneInv
<1>1. TypeOK BY InitTypes
<1>2. ToDo = <<>> BY DEF Init, ToDo
<1>3. DOMAIN ToDo = {} BY <1>2
<1>4. AloneTasks /\ RegistrationKept /\ MissedAfterRing BY DEF Init, AloneTasks, RegistrationKept, MissedAfterRing
<1>5. RingsKnown /\ FsmAfterCallInit /\ ShownIsOver /\ RingsToDo
  BY <1>3 DEF Init, RingsKnown, FsmAfterCallInit, ShownIsOver, RingsToDo
<1> QED BY <1>1, <1>4, <1>5 DEF AloneInv

\* A listener that is alone with its queue: AloneInv, for any number of rings and messages and
\* any window.
THEOREM ListenerAlone == ASSUME Alone PROVE Spec => []AloneInv
<1>1. Init => AloneInv BY AloneInit
<1>2. AloneInv /\ [Next]_vars => AloneInv' BY AloneNext
<1> QED BY <1>1, <1>2, PTL DEF Spec

\* However often a ring is repeated, it is announced once.
THEOREM RingsAreAnnouncedOnce == ASSUME Alone PROVE Spec => []OncePerRing
<1>1. AloneInv => OncePerRing
  <2> SUFFICES ASSUME AloneInv, NEW r \in 1..MaxRings PROVE shown[r] <= 1 BY DEF OncePerRing
  <2>1. r \in RingIds /\ shown[r] \in 0..2 BY VipAssumption DEF AloneInv, TypeOK, RingIds
  <2> QED BY <2>1 DEF AloneInv, ShownIsOver
<1> QED BY <1>1, ListenerAlone, PTL

\* A call is reported as missed after its ring.
THEOREM MissedComesLast == ASSUME Alone PROVE Spec => []MissedAfterRing
<1>1. AloneInv => MissedAfterRing BY DEF AloneInv
<1> QED BY <1>1, ListenerAlone, PTL

\* Each renewal gets its ACK pair, so the device goes on pushing events.
THEOREM EventsKeepComing == ASSUME Alone PROVE Spec => []RegistrationKept
<1>1. AloneInv => RegistrationKept BY DEF AloneInv
<1> QED BY <1>1, ListenerAlone, PTL
(* The listener among others: where a ring can be lost *)

\* The message in hand belongs to the await that the task is suspended at.
LEMMA InHandStep == ASSUME TypeOK, CurInHand, [Next]_vars PROVE CurInHand'
<1> USE DEF TypeOK, CurInHand, lisV
<1>1. CASE Listener
  BY <1>1 DEF Listener, TakeMessage, EventAcked, RenewalAck, RenewalConfirm, LoopCrashes, LoopRestarts
<1>2. CASE Others
  BY <1>2 DEF Others, VideoStarts, StopTask, VideoStops, StartTask, RestartNotifications, SessionReads, DoorOpens,
              DoorReads, DoorTimesOut
<1>3. CASE Device \/ Tick \/ UNCHANGED vars
  BY <1>3 DEF Device, VisitorRings, Retransmits, CallTimesOut, DeviceSends, VideoKeepalive, DoorResponse, Tick, vars
<1> QED BY <1>1, <1>2, <1>3 DEF Next

\* A ring that is handled stays so, and so does one whose messages stay where they are.
LEMMA StaysInSight ==
  ASSUME TypeOK, NEW r, InSight(r), UNCHANGED <<shown, suppressed>>, alerting' = alerting \/ r # alerting,
         IsRing(cur, r) => IsRing(cur', r),
         \A i \in DOMAIN queue : IsRing(queue[i], r) => i \in DOMAIN queue' /\ queue'[i] = queue[i]
  PROVE InSight(r)'
BY DEF InSight, Handled, IsRing

\* Handling a message leaves its ring handled.
LEMMA HandledInSight ==
  ASSUME TypeOK, NEW r \in RingIds, NEW m \in Messages, Handle(m), Handled(r) \/ IsRing(m, r)
  PROVE InSight(r)'
BY HandleFacts DEF InSight, Handled

\* A reader that takes the first message leaves the others.
LEMMA TakenFromSight ==
  ASSUME TypeOK, NEW r, InSight(r), queue # <<>>, queue' = Tail(queue), UNCHANGED <<shown, suppressed, alerting>>,
         IsRing(cur, r) => IsRing(cur', r), IsRing(Head(queue), r) => IsRing(cur', r)
  PROVE InSight(r)'
<1> USE DEF InSight, Handled, IsRing
<1>1. CASE ~\E i \in DOMAIN queue : IsRing(queue[i], r) BY <1>1
<1>2. CASE \E i \in DOMAIN queue : IsRing(queue[i], r)
  <2> PICK i \in DOMAIN queue : IsRing(queue[i], r) BY <1>2
  <2>1. i \in 1..Len(queue) /\ Len(queue) \in Nat /\ Head(queue) = queue[1]
        /\ DOMAIN Tail(queue) = 1..Len(queue) - 1
        /\ \A j \in 1..Len(queue) - 1 : Tail(queue)[j] = queue[j + 1]
    BY Shifted DEF TypeOK
  <2>2. CASE i = 1 BY <2>1, <2>2
  <2>3. CASE i # 1
    <3>1. i - 1 \in DOMAIN queue' /\ queue'[i - 1] = queue[i] BY <2>1, <2>3
    <3> QED BY <3>1
  <2> QED BY <2>2, <2>3
<1> QED BY <1>1, <1>2

\* A step of the listener loses a ring only by crashing with it in hand.
LEMMA ListenerKeepsSight ==
  ASSUME TypeOK, CurInHand, Listener, NEW r \in 1..rings, InSight(r), ~InSight(r)'
  PROVE LoopCrashes /\ IsRing(cur, r)
<1>0. r \in RingIds BY VipAssumption DEF TypeOK, RingIds
<1>1. ASSUME TakeMessage PROVE FALSE
  <2>1. Head(queue) \in Messages /\ cur = None BY <1>1, Shifted DEF TakeMessage, TypeOK, CurInHand
  <2>2. ~IsRing(None, r) BY DEF IsRing, EventOf, None
  <2>3. CASE Head(queue).kind \in Acked \cup {"renewal"}
    BY <1>1, <2>1, <2>2, <2>3, TakenFromSight DEF TakeMessage, devV
  <2>4. CASE Head(queue).kind \notin Acked \cup {"renewal"}
    <3>1. Handle(Head(queue)) /\ ~IsRing(Head(queue), r) /\ EventOf(Head(queue)) # "ring"
      BY <1>1, <2>1, <2>4, KindEvents DEF TakeMessage, Acked, Kinds
    <3>2. CASE Handled(r) BY <1>0, <2>1, <3>1, <3>2, HandledInSight
    <3>3. UNCHANGED <<alerting, suppressed>>
      BY <1>1, <3>1 DEF TakeMessage, Handle, devV
    <3>4. shown' = shown BY <3>1 DEF Handle
    <3> QED BY <1>1, <2>1, <2>2, <3>1, <3>3, <3>4, TakenFromSight DEF TakeMessage
  <2> QED BY <2>3, <2>4
<1>2. ASSUME EventAcked PROVE FALSE
  <2>1. cur \in Messages /\ Handle(cur) /\ UNCHANGED queue
    BY <1>2 DEF EventAcked, TypeOK, CurInHand, None, Acked, Kinds
  <2>2. ~Handled(r) /\ ~IsRing(cur, r) BY <1>0, <2>1, HandledInSight
  <2>3. alerting' = alerting \/ r # alerting
    BY <1>2, <2>1, <2>2, KindEvents DEF EventAcked
  <2> QED BY <2>1, <2>2, <2>3 DEF InSight, Handled, IsRing
<1>3. ASSUME RenewalAck \/ RenewalConfirm PROVE FALSE
  <2>1. cur.kind = "renewal" BY <1>3 DEF RenewalAck, RenewalConfirm, CurInHand
  <2>2. ~IsRing(cur, r) BY <2>1 DEF IsRing, EventOf
  <2> QED BY <1>3, <2>2, StaysInSight DEF RenewalAck, RenewalConfirm, devV, haV
<1>4. ASSUME LoopCrashes PROVE IsRing(cur, r)
  BY <1>4, StaysInSight DEF LoopCrashes, devV, haV
<1>5. ASSUME LoopRestarts PROVE FALSE
  BY <1>5, StaysInSight DEF LoopRestarts, devV, haV
<1> QED BY <1>1, <1>2, <1>3, <1>4, <1>5 DEF Listener

\* Another reader loses a ring only by taking it, the coordinator only by cancelling the listener.
LEMMA OthersKeepSight ==
  ASSUME TypeOK, CurInHand, Others, NEW r \in 1..rings, InSight(r), ~InSight(r)'
  PROVE \/ (SessionReads \/ DoorReads) /\ IsRing(Head(queue), r)
        \/ (VideoStarts \/ RestartNotifications) /\ IsRing(cur, r)
<1> USE DEF devV, haV, lisV
<1>1. CASE VideoStarts BY <1>1, StaysInSight DEF VideoStarts
<1>2. ASSUME VideoStops PROVE FALSE
  <2>1. cur' = cur BY <1>2 DEF VideoStops, StartTask, TypeOK, CurInHand
  <2> QED BY <1>2, <2>1, StaysInSight DEF VideoStops
<1>3. CASE RestartNotifications BY <1>3, StaysInSight DEF RestartNotifications
<1>4. CASE SessionReads BY <1>4, TakenFromSight DEF SessionReads
<1>5. CASE DoorReads BY <1>5, TakenFromSight DEF DoorReads
<1>6. ASSUME DoorOpens \/ DoorTimesOut PROVE FALSE
  BY <1>6, StaysInSight DEF DoorOpens, DoorTimesOut
<1> QED BY <1>1, <1>2, <1>3, <1>4, <1>5, <1>6 DEF Others

\* The device only adds messages; it stops repeating a ring when the next visitor comes.
LEMMA DeviceKeepsSight ==
  ASSUME TypeOK, Device \/ Tick, NEW r \in 1..rings, InSight(r), ~InSight(r)'
  PROVE VisitorRings /\ r = alerting
<1> USE DEF devV, haV, lisV
<1>1. UNCHANGED <<cur, shown, suppressed>>
  BY DEF Device, VisitorRings, Retransmits, CallTimesOut, DeviceSends, VideoKeepalive, DoorResponse, Tick
<1>2. \A i \in DOMAIN queue : i \in DOMAIN queue' /\ queue'[i] = queue[i]
  <2>1. \A m, n : DOMAIN queue = 1..Len(queue) /\ Len(queue) \in Nat
                /\ DOMAIN Append(queue, m) = 1..Len(queue) + 1
                /\ \A i \in 1..Len(queue) : Append(queue, m)[i] = queue[i] /\ (queue \o <<m, n>>)[i] = queue[i]
                /\ DOMAIN (queue \o <<m, n>>) = 1..Len(queue) + 2
    BY DEF TypeOK
  <2>2. CASE VisitorRings BY <2>1, <2>2 DEF VisitorRings, Send
  <2>3. CASE Retransmits \/ CallTimesOut BY <2>1, <2>3 DEF Retransmits, CallTimesOut, Send
  <2>4. CASE DeviceSends \/ VideoKeepalive \/ DoorResponse
    BY <2>1, <2>4 DEF DeviceSends, VideoKeepalive, DoorResponse, Send
  <2>5. CASE Tick BY <2>5 DEF Tick
  <2> QED BY <2>2, <2>3, <2>4, <2>5 DEF Device
<1>3. alerting' # alerting /\ r = alerting BY <1>1, <1>2, StaysInSight
<1>4. VisitorRings
  BY <1>3 DEF Device, Retransmits, CallTimesOut, DeviceSends, VideoKeepalive, DoorResponse, Tick
<1> QED BY <1>3, <1>4

\* With every reader, restart, crash and failed acknowledgement there is, a ring gets out of sight
\* nowhere but where RingsLostOnlyThere says.
THEOREM RingsAreLostOnlyThere == Spec => RingsLostOnlyThere
<1>1. Init => CurInHand BY DEF Init, CurInHand
<1>2. TypeOK /\ CurInHand /\ [Next]_vars => CurInHand' BY InHandStep
<1>3. TypeOK /\ CurInHand /\ [Next]_vars =>
        [\A r \in 1..rings : InSight(r) /\ ~InSight(r)' =>
           \/ (SessionReads \/ DoorReads) /\ IsRing(Head(queue), r)
           \/ (VideoStarts \/ RestartNotifications \/ LoopCrashes) /\ IsRing(cur, r)
           \/ VisitorRings /\ r = alerting]_vars
  BY ListenerKeepsSight, OthersKeepSight, DeviceKeepsSight DEF Next
<1> QED BY <1>1, <1>2, <1>3, VipTypes, PTL DEF Spec, RingsLostOnlyThere
============================================================================
