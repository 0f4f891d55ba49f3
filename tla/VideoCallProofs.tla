-------------------------- MODULE VideoCallProofs --------------------------
EXTENDS VideoCallLife, TLAPS

(* Every lemma over Next has one step per action of VideoCall. *)

\* A new session satisfies the invariant, with and without the coordinator's CTPP.
LEMMA InitInv == Init => IndInv
<1> SUFFICES ASSUME Init PROVE IndInv OBVIOUS
<1> USE VideoAssumption DEF Init, Cleaners, Names
<1>1. TypeOK
  <2>1. reg \in [Names -> {"none", "this", "next", "coordinator"}] OBVIOUS
  <2>2. doors \in 0..MaxDoors /\ messages \in 0..MaxMessages OBVIOUS
  <2>3. clean \in [Cleaners -> {"idle", "timer", "monitor", "receiver", "done"}] OBVIOUS
  <2> QED BY <2>1, <2>2, <2>3 DEF TypeOK
<1>2. LockHeld /\ Phases BY DEF LockHeld, Phases
<1>3. MonitorGone /\ ChannelsReleased BY DEF MonitorGone, ChannelsReleased
<1>4. CtppOwned /\ CoordinatorKeepsCtpp BY DEF CtppOwned, CoordinatorKeepsCtpp
<1> QED BY <1>1, <1>2, <1>3, <1>4 DEF IndInv

\* A task is cancelled only when it has been taken.
LEMMA TakeType ==
  ASSUME TypeOK, NEW t \in {"timer", "monitor"}, NEW r \in BOOLEAN, Take(t, r)
  PROVE killed' \subseteq taken' /\ taken' \subseteq {"timer", "monitor"}
BY DEF TypeOK, Take

\* The beginning of a clean-up keeps the types of what it changes.
LEMMA BeginType ==
  ASSUME TypeOK, NEW x \in Cleaners, CleanupBegins(x)
  PROVE /\ killed' \subseteq taken' /\ taken' \subseteq {"timer", "monitor"}
        /\ clean' \in [Cleaners -> {"idle", "timer", "monitor", "receiver", "done"}]
        /\ active' \in BOOLEAN
<1>1. Take("timer", timer = "sleep") BY DEF CleanupBegins
<1>2. killed' \subseteq taken' /\ taken' \subseteq {"timer", "monitor"} BY <1>1, TakeType
<1> QED BY <1>2 DEF CleanupBegins, TypeOK

\* A counter of the session's own, shared or not, is a number.
LEMMA AdvanceType ==
  ASSUME TypeOK, NEW step \in {Byte4, Byte5}, Advance(step)
  PROVE counter' \in Nat /\ sent' \subseteq Nat /\ repeats' \subseteq {"link", "own", "other"}
BY DEF TypeOK, Advance, Repeated, Byte4, Byte5

\* ... and so when the link goes before it.
LEMMA LinkType ==
  ASSUME TypeOK, LinkAndConfig
  PROVE counter' \in Nat /\ sent' \subseteq Nat /\ repeats' \subseteq {"link", "own", "other"}
BY DEF TypeOK, LinkAndConfig, Repeated, Byte4

\* The shared counter goes on by one; the message counts if it is one of this call.
LEMMA SharedCases ==
  ASSUME AdvanceShared
  PROVE /\ shared' = shared + 1 /\ counter' = counter /\ behind' = behind
        /\ behind => sent' = sent /\ repeats' = repeats
        /\ ~behind => sent' = sent \cup {shared + 1} /\ repeats' \subseteq repeats \cup {"other"}
<1>1. CASE behind BY <1>1 DEF AdvanceShared, Byte4
<1>2. CASE ~behind BY <1>2 DEF AdvanceShared, Repeated, Byte4
<1> QED BY <1>1, <1>2

LEMMA SharedType ==
  ASSUME TypeOK, AdvanceShared
  PROVE /\ counter' \in Nat /\ shared' \in Nat /\ behind' \in BOOLEAN /\ sent' \subseteq Nat
        /\ repeats' \subseteq {"link", "own", "other"}
<1>1. /\ shared' = shared + 1 /\ counter' = counter /\ behind' = behind
      /\ behind => sent' = sent /\ repeats' = repeats
      /\ ~behind => sent' = sent \cup {shared + 1} /\ repeats' \subseteq repeats \cup {"other"}
  BY SharedCases
<1>2. counter \in Nat /\ shared \in Nat /\ behind \in BOOLEAN /\ sent \subseteq Nat
      /\ repeats \subseteq {"link", "own", "other"}
  BY DEF TypeOK
<1> HIDE DEF TypeOK
<1>3. counter' \in Nat /\ shared' \in Nat BY <1>1, <1>2
<1>4. behind' \in BOOLEAN BY <1>1, <1>2, Zenon
<1>5. CASE behind
  <2>1. sent' = sent /\ repeats' = repeats BY <1>1, <1>5
  <2> QED BY <1>2, <1>3, <1>4, <2>1, Zenon
<1>6. CASE ~behind
  <2>1. sent' = sent \cup {shared + 1} /\ repeats' \subseteq repeats \cup {"other"} BY <1>1, <1>6
  <2>2. sent' \subseteq Nat BY <1>2, <2>1
  <2>3. repeats' \subseteq {"link", "own", "other"} BY <1>2, <2>1
  <2> QED BY <1>3, <1>4, <2>2, <2>3, Zenon
<1> QED BY <1>5, <1>6

LEMMA ShareType ==
  ASSUME counter' \in Nat, Share
  PROVE shared' \in Nat /\ behind' \in BOOLEAN
BY DEF Share

\* The attributes and coroutines keep their types.
LEMMA TypeStep == IndInv /\ [Next]_vars => TypeOK'
<1> SUFFICES ASSUME IndInv, [Next]_vars PROVE TypeOK' OBVIOUS
<1> USE DEF IndInv, TypeOK, Cleaners, Names, cntV, taskV, cleanV, coordV
<1>1. CASE OpenCtpp BY <1>1 DEF OpenCtpp
<1>2. CASE CallInit BY <1>2 DEF CallInit, FreshCall
<1>3. CASE Codec
  <2>1. Advance(Byte4) BY <1>3 DEF Codec
  <2>2. counter' \in Nat /\ sent' \subseteq Nat /\ repeats' \subseteq {"link", "own", "other"} BY <2>1, AdvanceType
  <2> QED BY <1>3, <2>2 DEF Codec
<1>4. CASE RtpcLink
  <2>1. LinkAndConfig BY <1>4 DEF RtpcLink
  <2>2. counter' \in Nat /\ sent' \subseteq Nat /\ repeats' \subseteq {"link", "own", "other"} BY <2>1, LinkType
  <2> QED BY <1>4, <2>2 DEF RtpcLink
<1>5. CASE StartMedia
  <2>1. Advance(Byte4) /\ Share BY <1>5 DEF StartMedia
  <2>2. counter' \in Nat /\ sent' \subseteq Nat /\ repeats' \subseteq {"link", "own", "other"} BY <2>1, AdvanceType
  <2>3. shared' \in Nat /\ behind' \in BOOLEAN BY <2>1, <2>2, ShareType
  <2> QED BY <1>5, <2>2, <2>3 DEF StartMedia
<1>6. CASE StartReturns BY <1>6 DEF StartReturns
<1>7. CASE StartCleansUp BY <1>7, BeginType DEF StartCleansUp
<1>8. CASE StartFails BY <1>8 DEF StartFails, Failing
<1>9. CASE MonitorReads BY <1>9, VideoAssumption DEF MonitorReads, Monitors
<1>10. CASE MonitorExits BY <1>10 DEF MonitorExits, Monitors
<1>11. CASE MonitorAcks
  <2>1. Advance(Byte4) /\ Share BY <1>11 DEF MonitorAcks
  <2>2. counter' \in Nat /\ sent' \subseteq Nat /\ repeats' \subseteq {"link", "own", "other"} BY <2>1, AdvanceType
  <2>3. shared' \in Nat /\ behind' \in BOOLEAN BY <2>1, <2>2, ShareType
  <2> QED BY <1>11, <2>2, <2>3 DEF MonitorAcks
<1>12. CASE MonitorAcked BY <1>12 DEF MonitorAcked, Release, Monitors
<1>13. CASE Reestablish
  <2>1. Advance(Byte5) BY <1>13 DEF Reestablish
  <2>2. counter' \in Nat /\ sent' \subseteq Nat /\ repeats' \subseteq {"link", "own", "other"} BY <2>1, AdvanceType
  <2> QED BY <1>13, <2>2 DEF Reestablish
<1>14. CASE ReestablishCall BY <1>14 DEF ReestablishCall, FreshCall, Monitors
<1>15. CASE ReestablishCodec
  <2>1. LinkAndConfig BY <1>15 DEF ReestablishCodec
  <2>2. counter' \in Nat /\ sent' \subseteq Nat /\ repeats' \subseteq {"link", "own", "other"} BY <2>1, LinkType
  <2> QED BY <1>15, <2>2 DEF ReestablishCodec
<1>16. CASE Reestablished
  <2>1. Advance(Byte4) /\ Share BY <1>16 DEF Reestablished
  <2>2. counter' \in Nat /\ sent' \subseteq Nat /\ repeats' \subseteq {"link", "own", "other"} BY <2>1, AdvanceType
  <2>3. shared' \in Nat /\ behind' \in BOOLEAN BY <2>1, <2>2, ShareType
  <2> QED BY <1>16, <2>2, <2>3 DEF Reestablished, Release
<1>17. CASE ReestablishFails
  <2>1. ended' \subseteq {"call_end", "timeout"} BY <1>17 DEF ReestablishFails
  <2>2. lock' \in {"free", "monitor", "answer", "door"} BY <1>17 DEF ReestablishFails, Release
  <2>3. active' \in BOOLEAN BY <1>17 DEF ReestablishFails
  <2> QED BY <1>17, <2>1, <2>2, <2>3 DEF ReestablishFails
<1>18. CASE MonitorCancelled BY <1>18 DEF MonitorCancelled, Release, Monitors
<1>19. CASE AnswerSends
  <2>1. AdvanceShared BY <1>19 DEF AnswerSends, OtherSends
  <2> QED BY <1>19, <2>1, SharedType DEF AnswerSends, OtherSends, Free
<1>20. CASE AnswerSent BY <1>20 DEF AnswerSent, Release
<1>21. CASE OpenDoor BY <1>21, VideoAssumption DEF OpenDoor
<1>22. CASE DoorSends
  <2>1. AdvanceShared BY <1>22 DEF DoorSends, OtherSends
  <2> QED BY <1>22, <2>1, SharedType DEF DoorSends, OtherSends, Free
<1>23. CASE DoorSent BY <1>23 DEF DoorSent, Release
<1>24. CASE TimerElapses BY <1>24, BeginType DEF TimerElapses
<1>25. CASE TimerCancelled BY <1>25 DEF TimerCancelled
<1>26. ASSUME NEW x \in Cleaners, CleanupMonitor(x) PROVE TypeOK' BY <1>26 DEF CleanupMonitor, Take
<1>27. ASSUME NEW x \in Cleaners, CleanupReceiver(x) PROVE TypeOK' BY <1>27 DEF CleanupReceiver
<1>28. ASSUME NEW x \in Cleaners, CleanupEnds(x) PROVE TypeOK' BY <1>28 DEF CleanupEnds, Removed
<1>29. CASE Withdraw BY <1>29 DEF Withdraw
<1>30. CASE StopCalled BY <1>30, BeginType DEF StopCalled
<1>31. CASE NextStarts BY <1>31 DEF NextStarts
<1>32. CASE UNCHANGED vars BY <1>32 DEF vars
<1> QED BY <1>1, <1>2, <1>3, <1>4, <1>5, <1>6, <1>7, <1>8, <1>9, <1>10, <1>11, <1>12, <1>13, <1>14, <1>15, <1>16, <1>17, <1>18, <1>19, <1>20, <1>21, <1>22, <1>23, <1>24, <1>25, <1>26, <1>27, <1>28, <1>29, <1>30, <1>31, <1>32 DEF Next, StartStep, MonitorStep, OtherStep, CleanupStep

\* The lock is taken only when free and released by its holder.
LEMMA LockStep == IndInv /\ [Next]_vars => LockHeld'
<1> SUFFICES ASSUME IndInv, [Next]_vars PROVE LockHeld' OBVIOUS
<1> USE DEF IndInv, TypeOK, LockHeld, Phases, cntV, taskV, cleanV, coordV
<1>1. CASE OpenCtpp BY <1>1 DEF OpenCtpp
<1>2. CASE CallInit BY <1>2 DEF CallInit, FreshCall
<1>3. CASE Codec BY <1>3 DEF Codec, Advance
<1>4. CASE RtpcLink BY <1>4 DEF RtpcLink, LinkAndConfig
<1>5. CASE StartMedia BY <1>5 DEF StartMedia, Advance, Share
<1>6. CASE StartReturns BY <1>6 DEF StartReturns
<1>7. CASE StartCleansUp BY <1>7 DEF StartCleansUp, CleanupBegins, Take
<1>8. CASE StartFails BY <1>8 DEF StartFails, Failing
<1>9. CASE MonitorReads BY <1>9 DEF MonitorReads, Monitors
<1>10. CASE MonitorExits BY <1>10 DEF MonitorExits, Monitors
<1>11. CASE MonitorAcks BY <1>11 DEF MonitorAcks, Advance, Share, Monitors
<1>12. CASE MonitorAcked BY <1>12 DEF MonitorAcked, Release, Monitors
<1>13. CASE Reestablish BY <1>13 DEF Reestablish, Advance, Monitors
<1>14. CASE ReestablishCall BY <1>14 DEF ReestablishCall, FreshCall, Monitors
<1>15. CASE ReestablishCodec BY <1>15 DEF ReestablishCodec, LinkAndConfig, Monitors
<1>16. CASE Reestablished BY <1>16 DEF Reestablished, Release, Advance, Share, Monitors
<1>17. CASE ReestablishFails BY <1>17 DEF ReestablishFails, Release, Monitors
<1>18. CASE MonitorCancelled BY <1>18 DEF MonitorCancelled, Release, Monitors
<1>19. CASE AnswerSends BY <1>19 DEF AnswerSends, OtherSends, AdvanceShared, Free
<1>20. CASE AnswerSent BY <1>20 DEF AnswerSent, Release
<1>21. CASE OpenDoor BY <1>21 DEF OpenDoor
<1>22. CASE DoorSends BY <1>22 DEF DoorSends, OtherSends, AdvanceShared, Free
<1>23. CASE DoorSent BY <1>23 DEF DoorSent, Release
<1>24. CASE TimerElapses BY <1>24 DEF TimerElapses, CleanupBegins, Take
<1>25. CASE TimerCancelled BY <1>25 DEF TimerCancelled
<1>26. ASSUME NEW x \in Cleaners, CleanupMonitor(x) PROVE LockHeld' BY <1>26 DEF CleanupMonitor, Take
<1>27. ASSUME NEW x \in Cleaners, CleanupReceiver(x) PROVE LockHeld' BY <1>27 DEF CleanupReceiver
<1>28. ASSUME NEW x \in Cleaners, CleanupEnds(x) PROVE LockHeld' BY <1>28 DEF CleanupEnds, Removed
<1>29. CASE Withdraw BY <1>29 DEF Withdraw
<1>30. CASE StopCalled BY <1>30 DEF StopCalled, CleanupBegins, Take
<1>31. CASE NextStarts BY <1>31 DEF NextStarts
<1>32. CASE UNCHANGED vars BY <1>32 DEF vars
<1> QED BY <1>1, <1>2, <1>3, <1>4, <1>5, <1>6, <1>7, <1>8, <1>9, <1>10, <1>11, <1>12, <1>13, <1>14, <1>15, <1>16, <1>17, <1>18, <1>19, <1>20, <1>21, <1>22, <1>23, <1>24, <1>25, <1>26, <1>27, <1>28, <1>29, <1>30, <1>31, <1>32 DEF Next, StartStep, MonitorStep, OtherStep, CleanupStep

\* The monitor and the timeout exist only once start() has got that far.
LEMMA PhaseStep == IndInv /\ [Next]_vars => Phases'
<1> SUFFICES ASSUME IndInv, [Next]_vars PROVE Phases' OBVIOUS
<1> USE DEF IndInv, TypeOK, Phases, Cleaners, Names, cntV, taskV, cleanV, coordV
<1>1. CASE OpenCtpp BY <1>1 DEF OpenCtpp
<1>2. CASE CallInit BY <1>2 DEF CallInit, FreshCall
<1>3. CASE Codec BY <1>3 DEF Codec, Advance
<1>4. CASE RtpcLink BY <1>4 DEF RtpcLink, LinkAndConfig
<1>5. CASE StartMedia BY <1>5 DEF StartMedia, Advance, Share
<1>6. CASE StartReturns BY <1>6 DEF StartReturns
<1>7. CASE StartCleansUp BY <1>7 DEF StartCleansUp, CleanupBegins, Take
<1>8. CASE StartFails BY <1>8 DEF StartFails, Failing
<1>9. CASE MonitorReads BY <1>9 DEF MonitorReads, Monitors
<1>10. CASE MonitorExits BY <1>10 DEF MonitorExits, Monitors
<1>11. CASE MonitorAcks BY <1>11 DEF MonitorAcks, Advance, Share, Monitors
<1>12. CASE MonitorAcked BY <1>12 DEF MonitorAcked, Release, Monitors
<1>13. CASE Reestablish BY <1>13 DEF Reestablish, Advance, Monitors
<1>14. CASE ReestablishCall BY <1>14 DEF ReestablishCall, FreshCall, Monitors
<1>15. CASE ReestablishCodec BY <1>15 DEF ReestablishCodec, LinkAndConfig, Monitors
<1>16. CASE Reestablished BY <1>16 DEF Reestablished, Release, Advance, Share, Monitors
<1>17. CASE ReestablishFails BY <1>17 DEF ReestablishFails, Release, Monitors
<1>18. CASE MonitorCancelled BY <1>18 DEF MonitorCancelled, Release, Monitors
<1>19. CASE AnswerSends BY <1>19 DEF AnswerSends, OtherSends, AdvanceShared, Free
<1>20. CASE AnswerSent BY <1>20 DEF AnswerSent, Release
<1>21. CASE OpenDoor BY <1>21 DEF OpenDoor
<1>22. CASE DoorSends BY <1>22 DEF DoorSends, OtherSends, AdvanceShared, Free
<1>23. CASE DoorSent BY <1>23 DEF DoorSent, Release
<1>24. CASE TimerElapses BY <1>24 DEF TimerElapses, CleanupBegins, Take
<1>25. CASE TimerCancelled BY <1>25 DEF TimerCancelled
<1>26. ASSUME NEW x \in Cleaners, CleanupMonitor(x) PROVE Phases' BY <1>26 DEF CleanupMonitor, Take
<1>27. ASSUME NEW x \in Cleaners, CleanupReceiver(x) PROVE Phases' BY <1>27 DEF CleanupReceiver
<1>28. ASSUME NEW x \in Cleaners, CleanupEnds(x) PROVE Phases' BY <1>28 DEF CleanupEnds, Removed
<1>29. CASE Withdraw BY <1>29 DEF Withdraw
<1>30. CASE StopCalled BY <1>30 DEF StopCalled, CleanupBegins, Take
<1>31. CASE NextStarts BY <1>31 DEF NextStarts
<1>32. CASE UNCHANGED vars BY <1>32 DEF vars
<1> QED BY <1>1, <1>2, <1>3, <1>4, <1>5, <1>6, <1>7, <1>8, <1>9, <1>10, <1>11, <1>12, <1>13, <1>14, <1>15, <1>16, <1>17, <1>18, <1>19, <1>20, <1>21, <1>22, <1>23, <1>24, <1>25, <1>26, <1>27, <1>28, <1>29, <1>30, <1>31, <1>32 DEF Next, StartStep, MonitorStep, OtherStep, CleanupStep

\* No clean-up leaves a monitor that can still send.
LEMMA MonitorStepGone == IndInv /\ [Next]_vars => MonitorGone'
<1> SUFFICES ASSUME IndInv, [Next]_vars PROVE MonitorGone' OBVIOUS
<1> USE DEF IndInv, TypeOK, Phases, MonitorGone, Cleaners, Names, cntV, taskV, cleanV, coordV
<1>1. CASE OpenCtpp BY <1>1 DEF OpenCtpp
<1>2. CASE CallInit BY <1>2 DEF CallInit, FreshCall
<1>3. CASE Codec BY <1>3 DEF Codec, Advance
<1>4. CASE RtpcLink BY <1>4 DEF RtpcLink, LinkAndConfig
<1>5. CASE StartMedia BY <1>5 DEF StartMedia, Advance, Share
<1>6. CASE StartReturns BY <1>6 DEF StartReturns
<1>7. CASE StartCleansUp BY <1>7 DEF StartCleansUp, CleanupBegins, Take
<1>8. CASE StartFails BY <1>8 DEF StartFails, Failing
<1>9. CASE MonitorReads BY <1>9 DEF MonitorReads, Monitors
<1>10. CASE MonitorExits BY <1>10 DEF MonitorExits, Monitors
<1>11. CASE MonitorAcks BY <1>11 DEF MonitorAcks, Advance, Share, Monitors
<1>12. CASE MonitorAcked BY <1>12 DEF MonitorAcked, Release, Monitors
<1>13. CASE Reestablish BY <1>13 DEF Reestablish, Advance, Monitors
<1>14. CASE ReestablishCall BY <1>14 DEF ReestablishCall, FreshCall, Monitors
<1>15. CASE ReestablishCodec BY <1>15 DEF ReestablishCodec, LinkAndConfig, Monitors
<1>16. CASE Reestablished BY <1>16 DEF Reestablished, Release, Advance, Share, Monitors
<1>17. CASE ReestablishFails BY <1>17 DEF ReestablishFails, Release, Monitors
<1>18. CASE MonitorCancelled BY <1>18 DEF MonitorCancelled, Release, Monitors
<1>19. CASE AnswerSends BY <1>19 DEF AnswerSends, OtherSends, AdvanceShared, Free
<1>20. CASE AnswerSent BY <1>20 DEF AnswerSent, Release
<1>21. CASE OpenDoor BY <1>21 DEF OpenDoor
<1>22. CASE DoorSends BY <1>22 DEF DoorSends, OtherSends, AdvanceShared, Free
<1>23. CASE DoorSent BY <1>23 DEF DoorSent, Release
<1>24. CASE TimerElapses BY <1>24 DEF TimerElapses, CleanupBegins, Take
<1>25. CASE TimerCancelled BY <1>25 DEF TimerCancelled
<1>26. ASSUME NEW x \in Cleaners, CleanupMonitor(x) PROVE MonitorGone' BY <1>26 DEF CleanupMonitor, Take
<1>27. ASSUME NEW x \in Cleaners, CleanupReceiver(x) PROVE MonitorGone' BY <1>27 DEF CleanupReceiver
<1>28. ASSUME NEW x \in Cleaners, CleanupEnds(x) PROVE MonitorGone' BY <1>28 DEF CleanupEnds, Removed
<1>29. CASE Withdraw BY <1>29 DEF Withdraw
<1>30. CASE StopCalled BY <1>30 DEF StopCalled, CleanupBegins, Take
<1>31. CASE NextStarts BY <1>31 DEF NextStarts
<1>32. CASE UNCHANGED vars BY <1>32 DEF vars
<1> QED BY <1>1, <1>2, <1>3, <1>4, <1>5, <1>6, <1>7, <1>8, <1>9, <1>10, <1>11, <1>12, <1>13, <1>14, <1>15, <1>16, <1>17, <1>18, <1>19, <1>20, <1>21, <1>22, <1>23, <1>24, <1>25, <1>26, <1>27, <1>28, <1>29, <1>30, <1>31, <1>32 DEF Next, StartStep, MonitorStep, OtherStep, CleanupStep

\* A CTPP that the session opened is its own.
LEMMA CtppStep == IndInv /\ [Next]_vars => CtppOwned'
<1> SUFFICES ASSUME IndInv, [Next]_vars PROVE CtppOwned' OBVIOUS
<1> USE DEF IndInv, TypeOK, Phases, CtppOwned, Cleaners, Names, cntV, taskV, cleanV, coordV
<1>1. CASE OpenCtpp BY <1>1 DEF OpenCtpp
<1>2. CASE CallInit BY <1>2 DEF CallInit, FreshCall
<1>3. CASE Codec BY <1>3 DEF Codec, Advance
<1>4. CASE RtpcLink BY <1>4 DEF RtpcLink, LinkAndConfig
<1>5. CASE StartMedia BY <1>5 DEF StartMedia, Advance, Share
<1>6. CASE StartReturns BY <1>6 DEF StartReturns
<1>7. CASE StartCleansUp BY <1>7 DEF StartCleansUp, CleanupBegins, Take
<1>8. CASE StartFails BY <1>8 DEF StartFails, Failing
<1>9. CASE MonitorReads BY <1>9 DEF MonitorReads, Monitors
<1>10. CASE MonitorExits BY <1>10 DEF MonitorExits, Monitors
<1>11. CASE MonitorAcks BY <1>11 DEF MonitorAcks, Advance, Share, Monitors
<1>12. CASE MonitorAcked BY <1>12 DEF MonitorAcked, Release, Monitors
<1>13. CASE Reestablish BY <1>13 DEF Reestablish, Advance, Monitors
<1>14. CASE ReestablishCall BY <1>14 DEF ReestablishCall, FreshCall, Monitors
<1>15. CASE ReestablishCodec BY <1>15 DEF ReestablishCodec, LinkAndConfig, Monitors
<1>16. CASE Reestablished BY <1>16 DEF Reestablished, Release, Advance, Share, Monitors
<1>17. CASE ReestablishFails BY <1>17 DEF ReestablishFails, Release, Monitors
<1>18. CASE MonitorCancelled BY <1>18 DEF MonitorCancelled, Release, Monitors
<1>19. CASE AnswerSends BY <1>19 DEF AnswerSends, OtherSends, AdvanceShared, Free
<1>20. CASE AnswerSent BY <1>20 DEF AnswerSent, Release
<1>21. CASE OpenDoor BY <1>21 DEF OpenDoor
<1>22. CASE DoorSends BY <1>22 DEF DoorSends, OtherSends, AdvanceShared, Free
<1>23. CASE DoorSent BY <1>23 DEF DoorSent, Release
<1>24. CASE TimerElapses BY <1>24 DEF TimerElapses, CleanupBegins, Take
<1>25. CASE TimerCancelled BY <1>25 DEF TimerCancelled
<1>26. ASSUME NEW x \in Cleaners, CleanupMonitor(x) PROVE CtppOwned' BY <1>26 DEF CleanupMonitor, Take
<1>27. ASSUME NEW x \in Cleaners, CleanupReceiver(x) PROVE CtppOwned' BY <1>27 DEF CleanupReceiver
<1>28. ASSUME NEW x \in Cleaners, CleanupEnds(x) PROVE CtppOwned' BY <1>28 DEF CleanupEnds, Removed
<1>29. CASE Withdraw BY <1>29 DEF Withdraw
<1>30. CASE StopCalled BY <1>30 DEF StopCalled, CleanupBegins, Take
<1>31. CASE NextStarts BY <1>31 DEF NextStarts
<1>32. CASE UNCHANGED vars BY <1>32 DEF vars
<1> QED BY <1>1, <1>2, <1>3, <1>4, <1>5, <1>6, <1>7, <1>8, <1>9, <1>10, <1>11, <1>12, <1>13, <1>14, <1>15, <1>16, <1>17, <1>18, <1>19, <1>20, <1>21, <1>22, <1>23, <1>24, <1>25, <1>26, <1>27, <1>28, <1>29, <1>30, <1>31, <1>32 DEF Next, StartStep, MonitorStep, OtherStep, CleanupStep

\* No step after a clean-up registers a channel of the session.
LEMMA ChannelStep == IndInv /\ [Next]_vars => ChannelsReleased'
<1> SUFFICES ASSUME IndInv, [Next]_vars PROVE ChannelsReleased' OBVIOUS
<1> USE DEF IndInv, TypeOK, Phases, MonitorGone, CtppOwned, ChannelsReleased, Cleaners, Names, cntV, taskV, cleanV, coordV
<1>1. CASE OpenCtpp BY <1>1 DEF OpenCtpp
<1>2. CASE CallInit BY <1>2 DEF CallInit, FreshCall
<1>3. CASE Codec BY <1>3 DEF Codec, Advance
<1>4. CASE RtpcLink BY <1>4 DEF RtpcLink, LinkAndConfig
<1>5. CASE StartMedia BY <1>5 DEF StartMedia, Advance, Share
<1>6. CASE StartReturns BY <1>6 DEF StartReturns
<1>7. CASE StartCleansUp BY <1>7 DEF StartCleansUp, CleanupBegins, Take
<1>8. CASE StartFails BY <1>8 DEF StartFails, Failing
<1>9. CASE MonitorReads BY <1>9 DEF MonitorReads, Monitors
<1>10. CASE MonitorExits BY <1>10 DEF MonitorExits, Monitors
<1>11. CASE MonitorAcks BY <1>11 DEF MonitorAcks, Advance, Share, Monitors
<1>12. CASE MonitorAcked BY <1>12 DEF MonitorAcked, Release, Monitors
<1>13. CASE Reestablish BY <1>13 DEF Reestablish, Advance, Monitors
<1>14. CASE ReestablishCall BY <1>14 DEF ReestablishCall, FreshCall, Monitors
<1>15. CASE ReestablishCodec BY <1>15 DEF ReestablishCodec, LinkAndConfig, Monitors
<1>16. CASE Reestablished BY <1>16 DEF Reestablished, Release, Advance, Share, Monitors
<1>17. CASE ReestablishFails BY <1>17 DEF ReestablishFails, Release, Monitors
<1>18. CASE MonitorCancelled BY <1>18 DEF MonitorCancelled, Release, Monitors
<1>19. CASE AnswerSends BY <1>19 DEF AnswerSends, OtherSends, AdvanceShared, Free
<1>20. CASE AnswerSent BY <1>20 DEF AnswerSent, Release
<1>21. CASE OpenDoor BY <1>21 DEF OpenDoor
<1>22. CASE DoorSends BY <1>22 DEF DoorSends, OtherSends, AdvanceShared, Free
<1>23. CASE DoorSent BY <1>23 DEF DoorSent, Release
<1>24. CASE TimerElapses BY <1>24 DEF TimerElapses, CleanupBegins, Take
<1>25. CASE TimerCancelled BY <1>25 DEF TimerCancelled
<1>26. ASSUME NEW x \in Cleaners, CleanupMonitor(x) PROVE ChannelsReleased' BY <1>26 DEF CleanupMonitor, Take
<1>27. ASSUME NEW x \in Cleaners, CleanupReceiver(x) PROVE ChannelsReleased' BY <1>27 DEF CleanupReceiver
<1>28. ASSUME NEW x \in Cleaners, CleanupEnds(x) PROVE ChannelsReleased' BY <1>28 DEF CleanupEnds, Removed
<1>29. CASE Withdraw BY <1>29 DEF Withdraw
<1>30. CASE StopCalled BY <1>30 DEF StopCalled, CleanupBegins, Take
<1>31. CASE NextStarts BY <1>31 DEF NextStarts
<1>32. CASE UNCHANGED vars BY <1>32 DEF vars
<1> QED BY <1>1, <1>2, <1>3, <1>4, <1>5, <1>6, <1>7, <1>8, <1>9, <1>10, <1>11, <1>12, <1>13, <1>14, <1>15, <1>16, <1>17, <1>18, <1>19, <1>20, <1>21, <1>22, <1>23, <1>24, <1>25, <1>26, <1>27, <1>28, <1>29, <1>30, <1>31, <1>32 DEF Next, StartStep, MonitorStep, OtherStep, CleanupStep

\* The coordinator's CTPP stays registered.
LEMMA KeepStep == IndInv /\ [Next]_vars => CoordinatorKeepsCtpp'
<1> SUFFICES ASSUME IndInv, [Next]_vars PROVE CoordinatorKeepsCtpp' OBVIOUS
<1> USE DEF IndInv, TypeOK, Phases, CtppOwned, CoordinatorKeepsCtpp, Cleaners, Names, cntV, taskV, cleanV, coordV
<1>1. CASE OpenCtpp BY <1>1 DEF OpenCtpp
<1>2. CASE CallInit BY <1>2 DEF CallInit, FreshCall
<1>3. CASE Codec BY <1>3 DEF Codec, Advance
<1>4. CASE RtpcLink BY <1>4 DEF RtpcLink, LinkAndConfig
<1>5. CASE StartMedia BY <1>5 DEF StartMedia, Advance, Share
<1>6. CASE StartReturns BY <1>6 DEF StartReturns
<1>7. CASE StartCleansUp BY <1>7 DEF StartCleansUp, CleanupBegins, Take
<1>8. CASE StartFails BY <1>8 DEF StartFails, Failing
<1>9. CASE MonitorReads BY <1>9 DEF MonitorReads, Monitors
<1>10. CASE MonitorExits BY <1>10 DEF MonitorExits, Monitors
<1>11. CASE MonitorAcks BY <1>11 DEF MonitorAcks, Advance, Share, Monitors
<1>12. CASE MonitorAcked BY <1>12 DEF MonitorAcked, Release, Monitors
<1>13. CASE Reestablish BY <1>13 DEF Reestablish, Advance, Monitors
<1>14. CASE ReestablishCall BY <1>14 DEF ReestablishCall, FreshCall, Monitors
<1>15. CASE ReestablishCodec BY <1>15 DEF ReestablishCodec, LinkAndConfig, Monitors
<1>16. CASE Reestablished BY <1>16 DEF Reestablished, Release, Advance, Share, Monitors
<1>17. CASE ReestablishFails BY <1>17 DEF ReestablishFails, Release, Monitors
<1>18. CASE MonitorCancelled BY <1>18 DEF MonitorCancelled, Release, Monitors
<1>19. CASE AnswerSends BY <1>19 DEF AnswerSends, OtherSends, AdvanceShared, Free
<1>20. CASE AnswerSent BY <1>20 DEF AnswerSent, Release
<1>21. CASE OpenDoor BY <1>21 DEF OpenDoor
<1>22. CASE DoorSends BY <1>22 DEF DoorSends, OtherSends, AdvanceShared, Free
<1>23. CASE DoorSent BY <1>23 DEF DoorSent, Release
<1>24. CASE TimerElapses BY <1>24 DEF TimerElapses, CleanupBegins, Take
<1>25. CASE TimerCancelled BY <1>25 DEF TimerCancelled
<1>26. ASSUME NEW x \in Cleaners, CleanupMonitor(x) PROVE CoordinatorKeepsCtpp' BY <1>26 DEF CleanupMonitor, Take
<1>27. ASSUME NEW x \in Cleaners, CleanupReceiver(x) PROVE CoordinatorKeepsCtpp' BY <1>27 DEF CleanupReceiver
<1>28. ASSUME NEW x \in Cleaners, CleanupEnds(x) PROVE CoordinatorKeepsCtpp' BY <1>28 DEF CleanupEnds, Removed
<1>29. CASE Withdraw BY <1>29 DEF Withdraw
<1>30. CASE StopCalled BY <1>30 DEF StopCalled, CleanupBegins, Take
<1>31. CASE NextStarts BY <1>31 DEF NextStarts
<1>32. CASE UNCHANGED vars BY <1>32 DEF vars
<1> QED BY <1>1, <1>2, <1>3, <1>4, <1>5, <1>6, <1>7, <1>8, <1>9, <1>10, <1>11, <1>12, <1>13, <1>14, <1>15, <1>16, <1>17, <1>18, <1>19, <1>20, <1>21, <1>22, <1>23, <1>24, <1>25, <1>26, <1>27, <1>28, <1>29, <1>30, <1>31, <1>32 DEF Next, StartStep, MonitorStep, OtherStep, CleanupStep

\* All that the invariant says, always.
THEOREM VideoInv == Spec => []IndInv
<1>1. IndInv /\ [Next]_vars => IndInv'
  BY TypeStep, LockStep, PhaseStep, MonitorStepGone, CtppStep, ChannelStep, KeepStep DEF IndInv
<1> QED BY InitInv, <1>1, PTL DEF Spec

\* The types.
THEOREM VideoTypes == Spec => []TypeOK
<1>1. IndInv => TypeOK BY DEF IndInv
<1> QED BY VideoInv, <1>1, PTL

\* After any of the clean-ups, overlapping ones too, no channel of the session is registered.
THEOREM ChannelsAreReleased == Spec => []ChannelsReleased
<1>1. IndInv => ChannelsReleased BY DEF IndInv
<1> QED BY VideoInv, <1>1, PTL

\* A session that reuses the coordinator's CTPP leaves it registered.
THEOREM CtppIsKept == Spec => []CoordinatorKeepsCtpp
<1>1. IndInv => CoordinatorKeepsCtpp BY DEF IndInv
<1> QED BY VideoInv, <1>1, PTL

\* The step formulas of HandshakeExclusive and QuietAfterStop.
Undisturbed ==
  (door # "sending" /\ door' = "sending") \/ (answer # "sending" /\ answer' = "sending")
    => monitor \notin {"init", "codec", "accept"}
Quiet == clean["stop"] = "done" => counter' = counter

\* A door or an answer goes out only while the lock is free, and a renewal holds it.
LEMMA UndisturbedStep == IndInv /\ [Next]_vars => Undisturbed
<1> SUFFICES ASSUME IndInv, [Next]_vars PROVE Undisturbed OBVIOUS
<1> USE DEF IndInv, LockHeld, Undisturbed, cntV, taskV, cleanV, coordV
<1>1. CASE OpenCtpp BY <1>1 DEF OpenCtpp
<1>2. CASE CallInit BY <1>2 DEF CallInit, FreshCall
<1>3. CASE Codec BY <1>3 DEF Codec, Advance
<1>4. CASE RtpcLink BY <1>4 DEF RtpcLink, LinkAndConfig
<1>5. CASE StartMedia BY <1>5 DEF StartMedia, Advance, Share
<1>6. CASE StartReturns BY <1>6 DEF StartReturns
<1>7. CASE StartCleansUp BY <1>7 DEF StartCleansUp, CleanupBegins, Take
<1>8. CASE StartFails BY <1>8 DEF StartFails, Failing
<1>9. CASE MonitorReads BY <1>9 DEF MonitorReads, Monitors
<1>10. CASE MonitorExits BY <1>10 DEF MonitorExits, Monitors
<1>11. CASE MonitorAcks BY <1>11 DEF MonitorAcks, Advance, Share, Monitors
<1>12. CASE MonitorAcked BY <1>12 DEF MonitorAcked, Release, Monitors
<1>13. CASE Reestablish BY <1>13 DEF Reestablish, Advance, Monitors
<1>14. CASE ReestablishCall BY <1>14 DEF ReestablishCall, FreshCall, Monitors
<1>15. CASE ReestablishCodec BY <1>15 DEF ReestablishCodec, LinkAndConfig, Monitors
<1>16. CASE Reestablished BY <1>16 DEF Reestablished, Release, Advance, Share, Monitors
<1>17. CASE ReestablishFails BY <1>17 DEF ReestablishFails, Release, Monitors
<1>18. CASE MonitorCancelled BY <1>18 DEF MonitorCancelled, Release, Monitors
<1>19. CASE AnswerSends BY <1>19 DEF AnswerSends, OtherSends, AdvanceShared, Free
<1>20. CASE AnswerSent BY <1>20 DEF AnswerSent, Release
<1>21. CASE OpenDoor BY <1>21 DEF OpenDoor
<1>22. CASE DoorSends BY <1>22 DEF DoorSends, OtherSends, AdvanceShared, Free
<1>23. CASE DoorSent BY <1>23 DEF DoorSent, Release
<1>24. CASE TimerElapses BY <1>24 DEF TimerElapses, CleanupBegins, Take
<1>25. CASE TimerCancelled BY <1>25 DEF TimerCancelled
<1>26. ASSUME NEW x \in Cleaners, CleanupMonitor(x) PROVE Undisturbed BY <1>26 DEF CleanupMonitor, Take
<1>27. ASSUME NEW x \in Cleaners, CleanupReceiver(x) PROVE Undisturbed BY <1>27 DEF CleanupReceiver
<1>28. ASSUME NEW x \in Cleaners, CleanupEnds(x) PROVE Undisturbed BY <1>28 DEF CleanupEnds, Removed
<1>29. CASE Withdraw BY <1>29 DEF Withdraw
<1>30. CASE StopCalled BY <1>30 DEF StopCalled, CleanupBegins, Take
<1>31. CASE NextStarts BY <1>31 DEF NextStarts
<1>32. CASE UNCHANGED vars BY <1>32 DEF vars
<1> QED BY <1>1, <1>2, <1>3, <1>4, <1>5, <1>6, <1>7, <1>8, <1>9, <1>10, <1>11, <1>12, <1>13, <1>14, <1>15, <1>16, <1>17, <1>18, <1>19, <1>20, <1>21, <1>22, <1>23, <1>24, <1>25, <1>26, <1>27, <1>28, <1>29, <1>30, <1>31, <1>32 DEF Next, StartStep, MonitorStep, OtherStep, CleanupStep

\* After stop() nobody is left who counts on.
LEMMA QuietStep == IndInv /\ [Next]_vars => Quiet
<1> SUFFICES ASSUME IndInv, [Next]_vars PROVE Quiet OBVIOUS
<1> USE DEF IndInv, Phases, MonitorGone, Quiet, Cleaners, Names, cntV, taskV, cleanV, coordV
<1>1. CASE OpenCtpp BY <1>1 DEF OpenCtpp
<1>2. CASE CallInit BY <1>2 DEF CallInit, FreshCall
<1>3. CASE Codec BY <1>3 DEF Codec, Advance
<1>4. CASE RtpcLink BY <1>4 DEF RtpcLink, LinkAndConfig
<1>5. CASE StartMedia BY <1>5 DEF StartMedia, Advance, Share
<1>6. CASE StartReturns BY <1>6 DEF StartReturns
<1>7. CASE StartCleansUp BY <1>7 DEF StartCleansUp, CleanupBegins, Take
<1>8. CASE StartFails BY <1>8 DEF StartFails, Failing
<1>9. CASE MonitorReads BY <1>9 DEF MonitorReads, Monitors
<1>10. CASE MonitorExits BY <1>10 DEF MonitorExits, Monitors
<1>11. CASE MonitorAcks BY <1>11 DEF MonitorAcks, Advance, Share, Monitors
<1>12. CASE MonitorAcked BY <1>12 DEF MonitorAcked, Release, Monitors
<1>13. CASE Reestablish BY <1>13 DEF Reestablish, Advance, Monitors
<1>14. CASE ReestablishCall BY <1>14 DEF ReestablishCall, FreshCall, Monitors
<1>15. CASE ReestablishCodec BY <1>15 DEF ReestablishCodec, LinkAndConfig, Monitors
<1>16. CASE Reestablished BY <1>16 DEF Reestablished, Release, Advance, Share, Monitors
<1>17. CASE ReestablishFails BY <1>17 DEF ReestablishFails, Release, Monitors
<1>18. CASE MonitorCancelled BY <1>18 DEF MonitorCancelled, Release, Monitors
<1>19. CASE AnswerSends BY <1>19 DEF AnswerSends, OtherSends, AdvanceShared, Free
<1>20. CASE AnswerSent BY <1>20 DEF AnswerSent, Release
<1>21. CASE OpenDoor BY <1>21 DEF OpenDoor
<1>22. CASE DoorSends BY <1>22 DEF DoorSends, OtherSends, AdvanceShared, Free
<1>23. CASE DoorSent BY <1>23 DEF DoorSent, Release
<1>24. CASE TimerElapses BY <1>24 DEF TimerElapses, CleanupBegins, Take
<1>25. CASE TimerCancelled BY <1>25 DEF TimerCancelled
<1>26. ASSUME NEW x \in Cleaners, CleanupMonitor(x) PROVE Quiet BY <1>26 DEF CleanupMonitor, Take
<1>27. ASSUME NEW x \in Cleaners, CleanupReceiver(x) PROVE Quiet BY <1>27 DEF CleanupReceiver
<1>28. ASSUME NEW x \in Cleaners, CleanupEnds(x) PROVE Quiet BY <1>28 DEF CleanupEnds, Removed
<1>29. CASE Withdraw BY <1>29 DEF Withdraw
<1>30. CASE StopCalled BY <1>30 DEF StopCalled, CleanupBegins, Take
<1>31. CASE NextStarts BY <1>31 DEF NextStarts
<1>32. CASE UNCHANGED vars BY <1>32 DEF vars
<1> QED BY <1>1, <1>2, <1>3, <1>4, <1>5, <1>6, <1>7, <1>8, <1>9, <1>10, <1>11, <1>12, <1>13, <1>14, <1>15, <1>16, <1>17, <1>18, <1>19, <1>20, <1>21, <1>22, <1>23, <1>24, <1>25, <1>26, <1>27, <1>28, <1>29, <1>30, <1>31, <1>32 DEF Next, StartStep, MonitorStep, OtherStep, CleanupStep

\* A renewal is one handshake on the wire.
THEOREM HandshakeIsExclusive == Spec => HandshakeExclusive
BY VideoInv, UndisturbedStep, PTL DEF Spec, HandshakeExclusive, Undisturbed

\* The monitor sends no more once stop() has returned.
THEOREM QuietWhenStopped == Spec => QuietAfterStop
BY VideoInv, QuietStep, PTL DEF Spec, QuietAfterStop, Quiet

\* What the mapping needs beyond IndInv: a session that is being cleaned up is down, doors are
\* for sessions that run, and each callback belongs to a coroutine that is over.
LifeInv ==
  /\ \A x \in Cleaners : clean[x] # "idle" => ~active
  /\ clean["start"] \in {"timer", "monitor", "receiver"} => start = "clean"
  /\ door # "none" => start = "done"
  /\ "call_end" \in ended => monitor = "over"
  /\ "timeout" \in ended => clean["timer"] = "done"

LEMMA LifeInvInit == Init => LifeInv
BY DEF Init, LifeInv, Cleaners

LEMMA LifeInvStep == IndInv /\ LifeInv /\ [Next]_vars => LifeInv'
<1> SUFFICES ASSUME IndInv, LifeInv, [Next]_vars PROVE LifeInv' OBVIOUS
<1> USE DEF IndInv, TypeOK, Phases, LifeInv, Cleaners, Names, cntV, taskV, cleanV, coordV
<1>1. CASE OpenCtpp BY <1>1 DEF OpenCtpp
<1>2. CASE CallInit BY <1>2 DEF CallInit, FreshCall
<1>3. CASE Codec BY <1>3 DEF Codec, Advance
<1>4. CASE RtpcLink BY <1>4 DEF RtpcLink, LinkAndConfig
<1>5. CASE StartMedia BY <1>5 DEF StartMedia, Advance, Share
<1>6. CASE StartReturns BY <1>6 DEF StartReturns
<1>7. CASE StartCleansUp BY <1>7 DEF StartCleansUp, CleanupBegins, Take
<1>8. CASE StartFails BY <1>8 DEF StartFails, Failing
<1>9. CASE MonitorReads BY <1>9 DEF MonitorReads, Monitors
<1>10. CASE MonitorExits BY <1>10 DEF MonitorExits, Monitors
<1>11. CASE MonitorAcks BY <1>11 DEF MonitorAcks, Advance, Share, Monitors
<1>12. CASE MonitorAcked BY <1>12 DEF MonitorAcked, Release, Monitors
<1>13. CASE Reestablish BY <1>13 DEF Reestablish, Advance, Monitors
<1>14. CASE ReestablishCall BY <1>14 DEF ReestablishCall, FreshCall, Monitors
<1>15. CASE ReestablishCodec BY <1>15 DEF ReestablishCodec, LinkAndConfig, Monitors
<1>16. CASE Reestablished BY <1>16 DEF Reestablished, Release, Advance, Share, Monitors
<1>17. CASE ReestablishFails BY <1>17 DEF ReestablishFails, Release, Monitors
<1>18. CASE MonitorCancelled BY <1>18 DEF MonitorCancelled, Release, Monitors
<1>19. CASE AnswerSends BY <1>19 DEF AnswerSends, OtherSends, AdvanceShared, Free
<1>20. CASE AnswerSent BY <1>20 DEF AnswerSent, Release
<1>21. CASE OpenDoor BY <1>21 DEF OpenDoor
<1>22. CASE DoorSends BY <1>22 DEF DoorSends, OtherSends, AdvanceShared, Free
<1>23. CASE DoorSent BY <1>23 DEF DoorSent, Release
<1>24. CASE TimerElapses BY <1>24 DEF TimerElapses, CleanupBegins, Take
<1>25. CASE TimerCancelled BY <1>25 DEF TimerCancelled
<1>26. ASSUME NEW x \in Cleaners, CleanupMonitor(x) PROVE LifeInv' BY <1>26 DEF CleanupMonitor, Take
<1>27. ASSUME NEW x \in Cleaners, CleanupReceiver(x) PROVE LifeInv' BY <1>27 DEF CleanupReceiver
<1>28. ASSUME NEW x \in Cleaners, CleanupEnds(x) PROVE LifeInv' BY <1>28 DEF CleanupEnds, Removed
<1>29. CASE Withdraw BY <1>29 DEF Withdraw
<1>30. CASE StopCalled BY <1>30 DEF StopCalled, CleanupBegins, Take
<1>31. CASE NextStarts BY <1>31 DEF NextStarts
<1>32. CASE UNCHANGED vars BY <1>32 DEF vars
<1> QED BY <1>1, <1>2, <1>3, <1>4, <1>5, <1>6, <1>7, <1>8, <1>9, <1>10, <1>11, <1>12, <1>13, <1>14, <1>15, <1>16, <1>17, <1>18, <1>19, <1>20, <1>21, <1>22, <1>23, <1>24, <1>25, <1>26, <1>27, <1>28, <1>29, <1>30, <1>31, <1>32 DEF Next, StartStep, MonitorStep, OtherStep, CleanupStep

----------------------------------------------------------------------------
(* Counters *)

\* What sends nothing repeats nothing.
LEMMA KeepReuse == repeats' = repeats => (Reused' <=> Reused)
BY DEF Reused

\* start() and the monitor repeat a counter exactly when theirs has been sent.
LEMMA AdvanceReuse ==
  ASSUME NEW step \in {Byte4, Byte5}, Advance(step)
  PROVE Reused' <=> Reused \/ counter + step \in sent
BY DEF Advance, Repeated, Reused

\* The link aside, so does a video config,
LEMMA LinkReuse ==
  ASSUME LinkAndConfig
  PROVE Reused' <=> Reused \/ counter + Byte4 \in sent
BY DEF LinkAndConfig, Repeated, Reused

\* ... and an answer or a door, if its counter is one of this call.
LEMMA SharedReuse ==
  ASSUME AdvanceShared
  PROVE Reused' <=> Reused \/ (~behind /\ shared + Byte4 \in sent)
<1>1. CASE behind BY <1>1 DEF AdvanceShared, Reused
<1>2. CASE ~behind BY <1>2 DEF AdvanceShared, Repeated, Reused
<1> QED BY <1>1, <1>2

\* How the counters of a call stand to each other as long as only the link has repeated one: a copy that
\* is not shared yet is the last one sent, and between the monitor's copy and the shared one lie
\* only counters of the answer and the doors.
CountInv ==
  ~Reused =>
    /\ monitor \in {"none", "codec", "accept"} => behind
    /\ monitor \in {"read", "ack", "acking", "end", "init"} => ~behind
    /\ behind => \A k \in sent : k <= counter
    /\ ~behind => \A k \in sent : k <= shared \/ k = counter
    /\ monitor # "none" => counter \in sent
    /\ monitor \in {"read", "ack", "acking", "end"} =>
         counter <= shared /\ (counter + 1)..shared \subseteq sent
    /\ monitor = "init" => counter > shared

LEMMA CountInit == Init => CountInv
BY DEF Init, CountInv

\* The monitor and the others keep the counters that way while they take turns.
LEMMA CountStep == IndInv /\ LifeInv /\ CountInv /\ [Next]_vars => CountInv'
<1> SUFFICES ASSUME IndInv, LifeInv, CountInv, [Next]_vars PROVE CountInv' OBVIOUS
<1> USE KeepReuse DEF IndInv, TypeOK, LockHeld, Phases, LifeInv, CountInv, Cleaners, Names, Byte4, Byte5, cntV, taskV, cleanV, coordV
<1>1. CASE OpenCtpp BY <1>1 DEF OpenCtpp
<1>2. CASE CallInit BY <1>2 DEF CallInit, FreshCall
<1>3. CASE Codec
  <2>1. Reused' <=> Reused \/ counter + 1 \in sent BY <1>3, AdvanceReuse DEF Codec
  <2> QED BY <1>3, <2>1 DEF Codec, Advance
<1>4. CASE RtpcLink
  <2>1. Reused' <=> Reused \/ counter + 1 \in sent BY <1>4, LinkReuse DEF RtpcLink
  <2> QED BY <1>4, <2>1 DEF RtpcLink, LinkAndConfig
<1>5. CASE StartMedia
  <2>1. Reused' <=> Reused \/ counter + 1 \in sent BY <1>5, AdvanceReuse DEF StartMedia
  <2> QED BY <1>5, <2>1 DEF StartMedia, Advance, Share
<1>6. CASE StartReturns BY <1>6 DEF StartReturns
<1>7. CASE StartCleansUp BY <1>7 DEF StartCleansUp, CleanupBegins, Take
<1>8. CASE StartFails BY <1>8 DEF StartFails, Failing
<1>9. CASE MonitorReads BY <1>9 DEF MonitorReads, Monitors
<1>10. CASE MonitorExits BY <1>10 DEF MonitorExits, Monitors
<1>11. CASE MonitorAcks
  <2> SUFFICES ASSUME ~Reused' PROVE CountInv' BY DEF CountInv
  <2>1. monitor = "ack" /\ monitor' = "acking" BY <1>11 DEF MonitorAcks
  <2>a. Reused' <=> Reused \/ counter + 1 \in sent BY <1>11, AdvanceReuse DEF MonitorAcks
  <2>2. counter' = counter + 1 /\ sent' = sent \cup {counter + 1} /\ counter + 1 \notin sent /\ ~Reused
    BY <1>11, <2>a DEF MonitorAcks, Advance
  <2>3. shared' = counter + 1 /\ ~behind' BY <1>11, <2>2 DEF MonitorAcks, Share
  <2>4. counter = shared BY <2>1, <2>2
  <2>5. \A k \in sent' : k <= shared' BY <2>1, <2>2, <2>3, <2>4
  <2> QED BY <2>1, <2>2, <2>3, <2>5
<1>12. CASE MonitorAcked BY <1>12 DEF MonitorAcked, Release, Monitors
<1>13. CASE Reestablish
  <2> SUFFICES ASSUME ~Reused' PROVE CountInv' BY DEF CountInv
  <2>1. monitor = "end" /\ monitor' = "init" BY <1>13 DEF Reestablish
  <2>a. Reused' <=> Reused \/ counter + 256 \in sent BY <1>13, AdvanceReuse DEF Reestablish
  <2>2. counter' = counter + 256 /\ sent' = sent \cup {counter + 256} /\ counter + 256 \notin sent /\ ~Reused
    BY <1>13, <2>a DEF Reestablish, Advance
  <2>3. shared' = shared /\ behind' = behind /\ ~behind BY <1>13, <2>1, <2>2 DEF Reestablish
  <2>4. counter + 256 > shared BY <2>1, <2>2
  <2>5. counter <= shared BY <2>1, <2>2
  <2>6. \A k \in sent' : k <= shared \/ k = counter + 256 BY <2>2, <2>3, <2>5
  <2> QED BY <2>1, <2>2, <2>3, <2>4, <2>6
<1>14. CASE ReestablishCall BY <1>14 DEF ReestablishCall, FreshCall, Monitors
<1>15. CASE ReestablishCodec
  <2>1. Reused' <=> Reused \/ counter + 1 \in sent BY <1>15, LinkReuse DEF ReestablishCodec
  <2> QED BY <1>15, <2>1 DEF ReestablishCodec, LinkAndConfig, Monitors
<1>16. CASE Reestablished
  <2>1. Reused' <=> Reused \/ counter + 1 \in sent BY <1>16, AdvanceReuse DEF Reestablished
  <2> QED BY <1>16, <2>1 DEF Reestablished, Release, Advance, Share, Monitors
<1>17. CASE ReestablishFails BY <1>17 DEF ReestablishFails, Release, Monitors
<1>18. CASE MonitorCancelled BY <1>18 DEF MonitorCancelled, Release, Monitors
<1>19. CASE AnswerSends
  <2>1. Reused' <=> Reused \/ (~behind /\ shared + 1 \in sent) BY <1>19, SharedReuse DEF AnswerSends, OtherSends
  <2>2. /\ shared' = shared + 1 /\ counter' = counter /\ behind' = behind
        /\ behind => sent' = sent
        /\ ~behind => sent' = sent \cup {shared + 1}
    BY <1>19, SharedCases DEF AnswerSends, OtherSends
  <2>3. monitor' = monitor /\ monitor \notin {"init", "codec", "accept"} BY <1>19 DEF AnswerSends, OtherSends, Free
  <2>4. SUFFICES ASSUME ~Reused' PROVE CountInv' OBVIOUS
  <2>5. CASE behind BY <2>1, <2>2, <2>3, <2>4, <2>5
  <2>6. CASE ~behind
    <3>1. ~Reused BY <2>1, <2>4
    <3>2. sent' = sent \cup {shared + 1} /\ ~behind' BY <2>2, <2>6
    <3>3. \A k \in sent' : k <= shared' \/ k = counter'
      <4>1. \A k \in sent : k <= shared \/ k = counter BY <2>6, <3>1
      <4> QED BY <2>2, <3>2, <4>1
    <3>4. monitor # "none" => counter \in sent BY <3>1
    <3>5. monitor \in {"read", "ack", "acking", "end"} => (counter' + 1)..shared' \subseteq sent'
      <4>1. monitor \in {"read", "ack", "acking", "end"} => counter <= shared /\ (counter + 1)..shared \subseteq sent
        BY <3>1
      <4> QED BY <2>2, <3>2, <4>1
    <3> QED BY <2>2, <2>3, <2>6, <3>1, <3>2, <3>3, <3>4, <3>5
  <2> QED BY <2>5, <2>6
<1>20. CASE AnswerSent BY <1>20 DEF AnswerSent, Release
<1>21. CASE OpenDoor BY <1>21 DEF OpenDoor
<1>22. CASE DoorSends
  <2>1. Reused' <=> Reused \/ (~behind /\ shared + 1 \in sent) BY <1>22, SharedReuse DEF DoorSends, OtherSends
  <2>2. /\ shared' = shared + 1 /\ counter' = counter /\ behind' = behind
        /\ behind => sent' = sent
        /\ ~behind => sent' = sent \cup {shared + 1}
    BY <1>22, SharedCases DEF DoorSends, OtherSends
  <2>3. monitor' = monitor /\ monitor \notin {"init", "codec", "accept"} BY <1>22 DEF DoorSends, OtherSends, Free
  <2>4. SUFFICES ASSUME ~Reused' PROVE CountInv' OBVIOUS
  <2>5. CASE behind BY <2>1, <2>2, <2>3, <2>4, <2>5
  <2>6. CASE ~behind
    <3>1. ~Reused BY <2>1, <2>4
    <3>2. sent' = sent \cup {shared + 1} /\ ~behind' BY <2>2, <2>6
    <3>3. \A k \in sent' : k <= shared' \/ k = counter'
      <4>1. \A k \in sent : k <= shared \/ k = counter BY <2>6, <3>1
      <4> QED BY <2>2, <3>2, <4>1
    <3>4. monitor # "none" => counter \in sent BY <3>1
    <3>5. monitor \in {"read", "ack", "acking", "end"} => (counter' + 1)..shared' \subseteq sent'
      <4>1. monitor \in {"read", "ack", "acking", "end"} => counter <= shared /\ (counter + 1)..shared \subseteq sent
        BY <3>1
      <4> QED BY <2>2, <3>2, <4>1
    <3> QED BY <2>2, <2>3, <2>6, <3>1, <3>2, <3>3, <3>4, <3>5
  <2> QED BY <2>5, <2>6
<1>23. CASE DoorSent BY <1>23 DEF DoorSent, Release
<1>24. CASE TimerElapses BY <1>24 DEF TimerElapses, CleanupBegins, Take
<1>25. CASE TimerCancelled BY <1>25 DEF TimerCancelled
<1>26. ASSUME NEW x \in Cleaners, CleanupMonitor(x) PROVE CountInv' BY <1>26 DEF CleanupMonitor, Take
<1>27. ASSUME NEW x \in Cleaners, CleanupReceiver(x) PROVE CountInv' BY <1>27 DEF CleanupReceiver
<1>28. ASSUME NEW x \in Cleaners, CleanupEnds(x) PROVE CountInv' BY <1>28 DEF CleanupEnds, Removed
<1>29. CASE Withdraw BY <1>29 DEF Withdraw
<1>30. CASE StopCalled BY <1>30 DEF StopCalled, CleanupBegins, Take
<1>31. CASE NextStarts BY <1>31 DEF NextStarts
<1>32. CASE UNCHANGED vars BY <1>32 DEF vars
<1> QED BY <1>1, <1>2, <1>3, <1>4, <1>5, <1>6, <1>7, <1>8, <1>9, <1>10, <1>11, <1>12, <1>13, <1>14, <1>15, <1>16, <1>17, <1>18, <1>19, <1>20, <1>21, <1>22, <1>23, <1>24, <1>25, <1>26, <1>27, <1>28, <1>29, <1>30, <1>31, <1>32 DEF Next, StartStep, MonitorStep, OtherStep, CleanupStep

\* The step formula of ReusedOnlyThere.
ReuseStep ==
  ~Reused =>
    (Reused' <=> \/ monitor \in {"ack", "end"} /\ counter' # counter /\ counter' <= shared
                 \/ monitor = "over" /\ ~behind /\ shared' # shared /\ shared' = counter)

\* Only the steps that count can send a counter twice.
LEMMA ReuseOnce == IndInv /\ LifeInv /\ CountInv /\ [Next]_vars => ReuseStep
<1> SUFFICES ASSUME IndInv, LifeInv, CountInv, [Next]_vars PROVE ReuseStep OBVIOUS
<1> USE KeepReuse DEF IndInv, TypeOK, LockHeld, Phases, LifeInv, CountInv, ReuseStep, Cleaners, Names, Byte4, Byte5, cntV, taskV, cleanV, coordV
<1>1. CASE OpenCtpp BY <1>1 DEF OpenCtpp
<1>2. CASE CallInit BY <1>2 DEF CallInit, FreshCall
<1>3. CASE Codec
  <2>1. Reused' <=> Reused \/ counter + 1 \in sent BY <1>3, AdvanceReuse DEF Codec
  <2> QED BY <1>3, <2>1 DEF Codec, Advance
<1>4. CASE RtpcLink
  <2>1. Reused' <=> Reused \/ counter + 1 \in sent BY <1>4, LinkReuse DEF RtpcLink
  <2> QED BY <1>4, <2>1 DEF RtpcLink, LinkAndConfig
<1>5. CASE StartMedia
  <2>1. Reused' <=> Reused \/ counter + 1 \in sent BY <1>5, AdvanceReuse DEF StartMedia
  <2> QED BY <1>5, <2>1 DEF StartMedia, Advance, Share
<1>6. CASE StartReturns BY <1>6 DEF StartReturns
<1>7. CASE StartCleansUp BY <1>7 DEF StartCleansUp, CleanupBegins, Take
<1>8. CASE StartFails BY <1>8 DEF StartFails, Failing
<1>9. CASE MonitorReads BY <1>9 DEF MonitorReads, Monitors
<1>10. CASE MonitorExits BY <1>10 DEF MonitorExits, Monitors
<1>11. CASE MonitorAcks
  <2> SUFFICES ASSUME ~Reused PROVE ReuseStep BY DEF ReuseStep
  <2>1. monitor = "ack" /\ counter' = counter + 1 /\ (Reused' <=> counter + 1 \in sent)
    BY <1>11, AdvanceReuse DEF MonitorAcks, Advance
  <2>2. counter <= shared /\ ~behind BY <2>1
  <2>3. counter + 1 \in sent => counter + 1 <= shared BY <2>1, <2>2
  <2>4. counter + 1 <= shared => counter + 1 \in sent BY <2>1
  <2>5. shared' = counter + 1 /\ counter' # counter BY <1>11, <2>1 DEF MonitorAcks, Share
  <2> QED BY <2>1, <2>3, <2>4, <2>5
<1>12. CASE MonitorAcked BY <1>12 DEF MonitorAcked, Release, Monitors
<1>13. CASE Reestablish
  <2> SUFFICES ASSUME ~Reused PROVE ReuseStep BY DEF ReuseStep
  <2>1. monitor = "end" /\ counter' = counter + 256 /\ (Reused' <=> counter + 256 \in sent)
    BY <1>13, AdvanceReuse DEF Reestablish, Advance
  <2>2. counter <= shared /\ ~behind BY <2>1
  <2>3. counter + 256 \in sent => counter + 256 <= shared BY <2>1, <2>2
  <2>4. counter + 256 <= shared => counter + 256 \in sent BY <2>1
  <2> QED BY <2>1, <2>3, <2>4
<1>14. CASE ReestablishCall BY <1>14 DEF ReestablishCall, FreshCall, Monitors
<1>15. CASE ReestablishCodec
  <2>1. Reused' <=> Reused \/ counter + 1 \in sent BY <1>15, LinkReuse DEF ReestablishCodec
  <2> QED BY <1>15, <2>1 DEF ReestablishCodec, LinkAndConfig, Monitors
<1>16. CASE Reestablished
  <2>1. Reused' <=> Reused \/ counter + 1 \in sent BY <1>16, AdvanceReuse DEF Reestablished
  <2> QED BY <1>16, <2>1 DEF Reestablished, Release, Advance, Share, Monitors
<1>17. CASE ReestablishFails BY <1>17 DEF ReestablishFails, Release, Monitors
<1>18. CASE MonitorCancelled BY <1>18 DEF MonitorCancelled, Release, Monitors
<1>19. CASE AnswerSends
  <2> SUFFICES ASSUME ~Reused PROVE ReuseStep BY DEF ReuseStep
  <2>1. shared' = shared + 1 /\ counter' = counter /\ (Reused' <=> ~behind /\ shared + 1 \in sent)
    BY <1>19, SharedReuse DEF AnswerSends, OtherSends, AdvanceShared
  <2>2. monitor \in {"read", "ack", "end", "over"} BY <1>19 DEF AnswerSends, OtherSends, Free
  <2>3. ~behind /\ shared + 1 \in sent => shared + 1 = counter BY <2>2
  <2>4. counter \in sent BY <2>2
  <2>5. monitor # "over" => counter <= shared BY <2>2
  <2> QED BY <2>1, <2>2, <2>3, <2>4, <2>5
<1>20. CASE AnswerSent BY <1>20 DEF AnswerSent, Release
<1>21. CASE OpenDoor BY <1>21 DEF OpenDoor
<1>22. CASE DoorSends
  <2> SUFFICES ASSUME ~Reused PROVE ReuseStep BY DEF ReuseStep
  <2>1. shared' = shared + 1 /\ counter' = counter /\ (Reused' <=> ~behind /\ shared + 1 \in sent)
    BY <1>22, SharedReuse DEF DoorSends, OtherSends, AdvanceShared
  <2>2. monitor \in {"read", "ack", "end", "over"} BY <1>22 DEF DoorSends, OtherSends, Free
  <2>3. ~behind /\ shared + 1 \in sent => shared + 1 = counter BY <2>2
  <2>4. counter \in sent BY <2>2
  <2>5. monitor # "over" => counter <= shared BY <2>2
  <2> QED BY <2>1, <2>2, <2>3, <2>4, <2>5
<1>23. CASE DoorSent BY <1>23 DEF DoorSent, Release
<1>24. CASE TimerElapses BY <1>24 DEF TimerElapses, CleanupBegins, Take
<1>25. CASE TimerCancelled BY <1>25 DEF TimerCancelled
<1>26. ASSUME NEW x \in Cleaners, CleanupMonitor(x) PROVE ReuseStep BY <1>26 DEF CleanupMonitor, Take
<1>27. ASSUME NEW x \in Cleaners, CleanupReceiver(x) PROVE ReuseStep BY <1>27 DEF CleanupReceiver
<1>28. ASSUME NEW x \in Cleaners, CleanupEnds(x) PROVE ReuseStep BY <1>28 DEF CleanupEnds, Removed
<1>29. CASE Withdraw BY <1>29 DEF Withdraw
<1>30. CASE StopCalled BY <1>30 DEF StopCalled, CleanupBegins, Take
<1>31. CASE NextStarts BY <1>31 DEF NextStarts
<1>32. CASE UNCHANGED vars BY <1>32 DEF vars
<1> QED BY <1>1, <1>2, <1>3, <1>4, <1>5, <1>6, <1>7, <1>8, <1>9, <1>10, <1>11, <1>12, <1>13, <1>14, <1>15, <1>16, <1>17, <1>18, <1>19, <1>20, <1>21, <1>22, <1>23, <1>24, <1>25, <1>26, <1>27, <1>28, <1>29, <1>30, <1>31, <1>32 DEF Next, StartStep, MonitorStep, OtherStep, CleanupStep

\* The link aside, the first message to repeat a counter is an ACK of the monitor whose copy is behind,
\* or of a door that has caught up with a monitor that is over.
THEOREM CountersReusedOnlyThere == Spec => ReusedOnlyThere
BY VideoInv, LifeInvInit, LifeInvStep, CountInit, CountStep, ReuseOnce, PTL DEF Spec, ReusedOnlyThere, ReuseStep

----------------------------------------------------------------------------
(* The registry *)

\* The step formula of TakenOnlyThere.
TakenStep ==
  \A n \in Names : reg[n] \notin {"none", "this"} /\ reg'[n] # reg[n] =>
    /\ reg[n] = "next" /\ reg'[n] = "none" /\ (n = "CTPP" => owns)
    /\ \E x \in {"stop", "timer"} : clean[x] = "receiver" /\ clean'[x] = "done"

\* What the registry says before somebody else has come: media channels are of this session until the
\* next one starts, nobody registers them for the coordinator, and a renewal's is of this session.
OthersInv ==
  /\ reg["media"] # "coordinator" /\ reg["renewal"] \in {"none", "this"}
  /\ reg["media"] = "next" \/ reg["CTPP"] = "next" => next
  /\ next => released
  /\ owns => reg["CTPP"] # "coordinator"
  /\ start = "open" => ~owns
  /\ clean["start"] # "idle" => ~released

LEMMA OthersInit == Init => OthersInv
BY DEF Init, OthersInv, Cleaners, Names

LEMMA OthersStep == IndInv /\ OthersInv /\ [Next]_vars => OthersInv'
<1> SUFFICES ASSUME IndInv, OthersInv, [Next]_vars PROVE OthersInv' OBVIOUS
<1> USE DEF IndInv, TypeOK, Phases, CtppOwned, CoordinatorKeepsCtpp, OthersInv, Cleaners, Names, cntV, taskV, cleanV, coordV
<1>1. CASE OpenCtpp BY <1>1 DEF OpenCtpp
<1>2. CASE CallInit BY <1>2 DEF CallInit, FreshCall
<1>3. CASE Codec BY <1>3 DEF Codec, Advance
<1>4. CASE RtpcLink BY <1>4 DEF RtpcLink, LinkAndConfig
<1>5. CASE StartMedia BY <1>5 DEF StartMedia, Advance, Share
<1>6. CASE StartReturns BY <1>6 DEF StartReturns
<1>7. CASE StartCleansUp BY <1>7 DEF StartCleansUp, CleanupBegins, Take
<1>8. CASE StartFails BY <1>8 DEF StartFails, Failing
<1>9. CASE MonitorReads BY <1>9 DEF MonitorReads, Monitors
<1>10. CASE MonitorExits BY <1>10 DEF MonitorExits, Monitors
<1>11. CASE MonitorAcks BY <1>11 DEF MonitorAcks, Advance, Share, Monitors
<1>12. CASE MonitorAcked BY <1>12 DEF MonitorAcked, Release, Monitors
<1>13. CASE Reestablish BY <1>13 DEF Reestablish, Advance, Monitors
<1>14. CASE ReestablishCall BY <1>14 DEF ReestablishCall, FreshCall, Monitors
<1>15. CASE ReestablishCodec BY <1>15 DEF ReestablishCodec, LinkAndConfig, Monitors
<1>16. CASE Reestablished BY <1>16 DEF Reestablished, Release, Advance, Share, Monitors
<1>17. CASE ReestablishFails BY <1>17 DEF ReestablishFails, Release, Monitors
<1>18. CASE MonitorCancelled BY <1>18 DEF MonitorCancelled, Release, Monitors
<1>19. CASE AnswerSends BY <1>19 DEF AnswerSends, OtherSends, AdvanceShared, Free
<1>20. CASE AnswerSent BY <1>20 DEF AnswerSent, Release
<1>21. CASE OpenDoor BY <1>21 DEF OpenDoor
<1>22. CASE DoorSends BY <1>22 DEF DoorSends, OtherSends, AdvanceShared, Free
<1>23. CASE DoorSent BY <1>23 DEF DoorSent, Release
<1>24. CASE TimerElapses BY <1>24 DEF TimerElapses, CleanupBegins, Take
<1>25. CASE TimerCancelled BY <1>25 DEF TimerCancelled
<1>26. ASSUME NEW x \in Cleaners, CleanupMonitor(x) PROVE OthersInv' BY <1>26 DEF CleanupMonitor, Take
<1>27. ASSUME NEW x \in Cleaners, CleanupReceiver(x) PROVE OthersInv' BY <1>27 DEF CleanupReceiver
<1>28. ASSUME NEW x \in Cleaners, CleanupEnds(x) PROVE OthersInv' BY <1>28 DEF CleanupEnds, Removed
<1>29. CASE Withdraw BY <1>29 DEF Withdraw
<1>30. CASE StopCalled BY <1>30 DEF StopCalled, CleanupBegins, Take
<1>31. CASE NextStarts BY <1>31 DEF NextStarts
<1>32. CASE UNCHANGED vars BY <1>32 DEF vars
<1> QED BY <1>1, <1>2, <1>3, <1>4, <1>5, <1>6, <1>7, <1>8, <1>9, <1>10, <1>11, <1>12, <1>13, <1>14, <1>15, <1>16, <1>17, <1>18, <1>19, <1>20, <1>21, <1>22, <1>23, <1>24, <1>25, <1>26, <1>27, <1>28, <1>29, <1>30, <1>31, <1>32 DEF Next, StartStep, MonitorStep, OtherStep, CleanupStep

\* The steps that write the registry take nothing but there.
LEMMA TakeOnce == IndInv /\ OthersInv /\ [Next]_vars => TakenStep
<1> SUFFICES ASSUME IndInv, OthersInv, [Next]_vars PROVE TakenStep OBVIOUS
<1> USE DEF IndInv, TypeOK, Phases, MonitorGone, CtppOwned, CoordinatorKeepsCtpp, OthersInv, TakenStep, Cleaners, Names, cntV, taskV, cleanV, coordV
<1>1. CASE OpenCtpp BY <1>1 DEF OpenCtpp
<1>2. CASE CallInit BY <1>2 DEF CallInit, FreshCall
<1>3. CASE Codec BY <1>3 DEF Codec, Advance
<1>4. CASE RtpcLink BY <1>4 DEF RtpcLink, LinkAndConfig
<1>5. CASE StartMedia BY <1>5 DEF StartMedia, Advance, Share
<1>6. CASE StartReturns BY <1>6 DEF StartReturns
<1>7. CASE StartCleansUp BY <1>7 DEF StartCleansUp, CleanupBegins, Take
<1>8. CASE StartFails BY <1>8 DEF StartFails, Failing
<1>9. CASE MonitorReads BY <1>9 DEF MonitorReads, Monitors
<1>10. CASE MonitorExits BY <1>10 DEF MonitorExits, Monitors
<1>11. CASE MonitorAcks BY <1>11 DEF MonitorAcks, Advance, Share, Monitors
<1>12. CASE MonitorAcked BY <1>12 DEF MonitorAcked, Release, Monitors
<1>13. CASE Reestablish BY <1>13 DEF Reestablish, Advance, Monitors
<1>14. CASE ReestablishCall BY <1>14 DEF ReestablishCall, FreshCall, Monitors
<1>15. CASE ReestablishCodec BY <1>15 DEF ReestablishCodec, LinkAndConfig, Monitors
<1>16. CASE Reestablished BY <1>16 DEF Reestablished, Release, Advance, Share, Monitors
<1>17. CASE ReestablishFails BY <1>17 DEF ReestablishFails, Release, Monitors
<1>18. CASE MonitorCancelled BY <1>18 DEF MonitorCancelled, Release, Monitors
<1>19. CASE AnswerSends BY <1>19 DEF AnswerSends, OtherSends, AdvanceShared, Free
<1>20. CASE AnswerSent BY <1>20 DEF AnswerSent, Release
<1>21. CASE OpenDoor BY <1>21 DEF OpenDoor
<1>22. CASE DoorSends BY <1>22 DEF DoorSends, OtherSends, AdvanceShared, Free
<1>23. CASE DoorSent BY <1>23 DEF DoorSent, Release
<1>24. CASE TimerElapses BY <1>24 DEF TimerElapses, CleanupBegins, Take
<1>25. CASE TimerCancelled BY <1>25 DEF TimerCancelled
<1>26. ASSUME NEW x \in Cleaners, CleanupMonitor(x) PROVE TakenStep BY <1>26 DEF CleanupMonitor, Take
<1>27. ASSUME NEW x \in Cleaners, CleanupReceiver(x) PROVE TakenStep BY <1>27 DEF CleanupReceiver
<1>28. ASSUME NEW x \in Cleaners, CleanupEnds(x) PROVE TakenStep BY <1>28 DEF CleanupEnds, Removed
<1>29. CASE Withdraw BY <1>29 DEF Withdraw
<1>30. CASE StopCalled BY <1>30 DEF StopCalled, CleanupBegins, Take
<1>31. CASE NextStarts BY <1>31 DEF NextStarts
<1>32. CASE UNCHANGED vars BY <1>32 DEF vars
<1> QED BY <1>1, <1>2, <1>3, <1>4, <1>5, <1>6, <1>7, <1>8, <1>9, <1>10, <1>11, <1>12, <1>13, <1>14, <1>15, <1>16, <1>17, <1>18, <1>19, <1>20, <1>21, <1>22, <1>23, <1>24, <1>25, <1>26, <1>27, <1>28, <1>29, <1>30, <1>31, <1>32 DEF Next, StartStep, MonitorStep, OtherStep, CleanupStep

\* A channel of somebody else leaves the registry only at the end of a clean-up by stop() or the
\* timeout, after the next session has started.
THEOREM ChannelsTakenOnlyThere == Spec => TakenOnlyThere
BY VideoInv, OthersInit, OthersStep, TakeOnce, PTL DEF Spec, TakenOnlyThere, TakenStep

----------------------------------------------------------------------------
(* VideoCall implements SessionLife *)

\* Every step of the session's coroutines is one of its life, or none.
LEMMA LifeStep == IndInv /\ LifeInv /\ [Next]_vars => [Life!Next]_Life!vars
<1> SUFFICES ASSUME IndInv, LifeInv, [Next]_vars PROVE [Life!Next]_Life!vars OBVIOUS
<1> USE DEF IndInv, TypeOK, LockHeld, Phases, MonitorGone, LifeInv, Cleaners, Names, cntV, taskV, cleanV, coordV,
            phaseBar, resultBar, speakerBar, heldBar, overBar
<1>1. CASE OpenCtpp
  <2>1. phaseBar = "starting" /\ phaseBar' = "starting" BY <1>1 DEF OpenCtpp
  <2>2. ~overBar BY <1>1 DEF OpenCtpp
  <2>3. heldBar' = heldBar \cup {"CTPP"} \/ heldBar' = heldBar
    <3>1. CASE reg["CTPP"] = "none" BY <1>1, <3>1 DEF OpenCtpp
    <3>2. CASE reg["CTPP"] # "none" BY <1>1, <3>2 DEF OpenCtpp
    <3> QED BY <3>1, <3>2
  <2>4. resultBar' = resultBar /\ speakerBar' = speakerBar BY <1>1 DEF OpenCtpp
  <2>5. overBar' = overBar /\ released' = released /\ ended' = ended BY <1>1 DEF OpenCtpp
  <2> HIDE DEF phaseBar, resultBar, speakerBar, heldBar, overBar
  <2>6. Life!Acquire \/ UNCHANGED Life!vars
    BY <2>1, <2>2, <2>3, <2>4, <2>5 DEF Life!Acquire, Life!Channels, Life!vars
  <2> QED BY <2>6 DEF Life!Next
<1>2. CASE CallInit
  <2>1. phaseBar = "starting" /\ phaseBar' = "starting" BY <1>2 DEF CallInit
  <2>2. ~overBar BY <1>2 DEF CallInit
  <2>3. heldBar' = heldBar \cup {"media"} BY <1>2 DEF CallInit
  <2>4. resultBar' = resultBar /\ speakerBar' = speakerBar BY <1>2 DEF CallInit
  <2>5. overBar' = overBar /\ released' = released /\ ended' = ended BY <1>2 DEF CallInit
  <2> HIDE DEF phaseBar, resultBar, speakerBar, heldBar, overBar
  <2>6. Life!Acquire
    BY <2>1, <2>2, <2>3, <2>4, <2>5 DEF Life!Acquire, Life!Channels
  <2> QED BY <2>6 DEF Life!Next
<1>3. CASE Codec BY <1>3 DEF Codec, Advance, Life!vars
<1>4. CASE RtpcLink BY <1>4 DEF RtpcLink, LinkAndConfig, Life!vars
<1>5. CASE StartMedia
  <2>1. Life!GoUp BY <1>5 DEF StartMedia, Advance, Share, Life!GoUp
  <2> QED BY <2>1 DEF Life!Next
<1>6. CASE StartReturns
  <2>1. Life!Return BY <1>6 DEF StartReturns, Life!Return
  <2> QED BY <2>1 DEF Life!Next
<1>7. CASE StartCleansUp BY <1>7 DEF StartCleansUp, CleanupBegins, Take, Life!vars
<1>8. CASE StartFails
  <2>1. Life!Fail BY <1>8 DEF StartFails, Failing, Life!Fail
  <2> QED BY <2>1 DEF Life!Next
<1>9. CASE MonitorReads BY <1>9 DEF MonitorReads, Monitors, Life!vars
<1>10. CASE MonitorExits BY <1>10 DEF MonitorExits, Monitors, Life!vars
<1>11. CASE MonitorAcks
  <2>1. Life!Begin BY <1>11 DEF MonitorAcks, Advance, Share, Monitors, Life!Begin
  <2> QED BY <2>1 DEF Life!Next
<1>12. CASE MonitorAcked
  <2>1. Life!End BY <1>12 DEF MonitorAcked, Release, Monitors, Life!End
  <2> QED BY <2>1 DEF Life!Next
<1>13. CASE Reestablish
  <2>1. Life!Begin BY <1>13 DEF Reestablish, Advance, Monitors, Life!Begin
  <2> QED BY <2>1 DEF Life!Next
<1>14. CASE ReestablishCall
  <2>1. speakerBar = "renewal" /\ speakerBar' = "renewal" BY <1>14 DEF ReestablishCall
  <2>2. ~overBar BY <1>14 DEF ReestablishCall, Monitors
  <2>3. heldBar' = heldBar \cup {"renewal"} BY <1>14 DEF ReestablishCall
  <2>4. phaseBar' = phaseBar /\ resultBar' = resultBar BY <1>14 DEF ReestablishCall
  <2>5. overBar' = overBar /\ released' = released /\ ended' = ended BY <1>14 DEF ReestablishCall
  <2> HIDE DEF phaseBar, resultBar, speakerBar, heldBar, overBar
  <2>6. Life!Acquire \/ UNCHANGED Life!vars
    BY <2>1, <2>2, <2>3, <2>4, <2>5 DEF Life!Acquire, Life!Channels, Life!vars
  <2> QED BY <2>6 DEF Life!Next
<1>15. CASE ReestablishCodec BY <1>15 DEF ReestablishCodec, LinkAndConfig, Monitors, Life!vars
<1>16. CASE Reestablished
  <2>1. Life!End BY <1>16 DEF Reestablished, Release, Advance, Share, Monitors, Life!End
  <2> QED BY <2>1 DEF Life!Next
<1>17. CASE ReestablishFails
  <2>1. Life!TellCallEnd BY <1>17 DEF ReestablishFails, Release, Monitors, Life!TellCallEnd
  <2> QED BY <2>1 DEF Life!Next
<1>18. CASE MonitorCancelled
  <2>1. Life!End \/ UNCHANGED Life!vars BY <1>18 DEF MonitorCancelled, Release, Monitors, Life!End, Life!vars
  <2> QED BY <2>1 DEF Life!Next
<1>19. CASE AnswerSends
  <2>1. Life!Begin BY <1>19 DEF AnswerSends, OtherSends, AdvanceShared, Free, Life!Begin
  <2> QED BY <2>1 DEF Life!Next
<1>20. CASE AnswerSent
  <2>1. Life!End BY <1>20 DEF AnswerSent, Release, Life!End
  <2> QED BY <2>1 DEF Life!Next
<1>21. CASE OpenDoor BY <1>21 DEF OpenDoor, Life!vars
<1>22. CASE DoorSends
  <2>1. Life!Begin BY <1>22 DEF DoorSends, OtherSends, AdvanceShared, Free, Life!Begin
  <2> QED BY <2>1 DEF Life!Next
<1>23. CASE DoorSent
  <2>1. Life!End BY <1>23 DEF DoorSent, Release, Life!End
  <2> QED BY <2>1 DEF Life!Next
<1>24. CASE TimerElapses
  <2>1. Life!GoDown \/ UNCHANGED Life!vars BY <1>24 DEF TimerElapses, CleanupBegins, Take, Life!GoDown, Life!vars
  <2> QED BY <2>1 DEF Life!Next
<1>25. CASE TimerCancelled BY <1>25 DEF TimerCancelled, Life!vars
<1>26. ASSUME NEW x \in Cleaners, CleanupMonitor(x) PROVE [Life!Next]_Life!vars BY <1>26 DEF CleanupMonitor, Take, Life!vars
<1>27. ASSUME NEW x \in Cleaners, CleanupReceiver(x) PROVE [Life!Next]_Life!vars BY <1>27 DEF CleanupReceiver, Life!vars
<1>28. ASSUME NEW x \in Cleaners, CleanupEnds(x) PROVE [Life!Next]_Life!vars
  <2>1. overBar' = TRUE /\ released' = released
    <3>1. clean'[x] = "done" BY <1>28 DEF CleanupEnds
    <3>2. overBar' BY <3>1
    <3> QED BY <1>28, <3>2, Zenon DEF CleanupEnds, coordV
  <2>2. heldBar' = {} BY <1>28 DEF CleanupEnds, Removed, IndInv, CtppOwned
  <2>3. speakerBar' = speakerBar BY <1>28 DEF CleanupEnds
  <2>4. CASE x = "start"
    <3>1. start = "clean" /\ start' = "raised" BY <1>28, <2>4 DEF CleanupEnds
    <3>2. phaseBar = "failed" /\ phaseBar' = "failed" BY <3>1
    <3>3. resultBar = "pending" /\ resultBar' = "raised" BY <3>1
    <3>4. ended' = ended BY <1>28, <2>4 DEF CleanupEnds
    <3> HIDE DEF phaseBar, resultBar, speakerBar, heldBar, overBar
    <3>5. Life!Close BY <2>1, <2>2, <2>3, <3>2, <3>3, <3>4 DEF Life!Close
    <3> QED BY <3>5 DEF Life!Next
  <2>5. CASE x # "start"
    <3>1. start = "done" /\ start' = start /\ ~active /\ active' = active BY <1>28, <2>5 DEF CleanupEnds
    <3>2. phaseBar = "down" /\ phaseBar' = "down" BY <3>1
    <3>3. resultBar' = resultBar BY <3>1
    <3>4. \/ ended' = ended /\ released
          \/ ended' = ended \cup {"timeout"} /\ "timeout" \notin ended
      BY <1>28, <2>5 DEF CleanupEnds
    <3> HIDE DEF phaseBar, resultBar, speakerBar, heldBar, overBar
    <3>5. Life!Close BY <2>1, <2>2, <2>3, <3>2, <3>3, <3>4 DEF Life!Close
    <3> QED BY <3>5 DEF Life!Next
  <2> QED BY <2>4, <2>5
<1>29. CASE Withdraw
  <2>1. Life!Withdraw BY <1>29 DEF Withdraw, Life!Withdraw
  <2> QED BY <2>1 DEF Life!Next
<1>30. CASE StopCalled
  <2>1. Life!GoDown \/ UNCHANGED Life!vars BY <1>30 DEF StopCalled, CleanupBegins, Take, Life!GoDown, Life!vars
  <2> QED BY <2>1 DEF Life!Next
<1>31. CASE NextStarts
  <2>1. Life!Yield BY <1>31 DEF NextStarts, Life!Yield
  <2> QED BY <2>1 DEF Life!Next
<1>32. CASE UNCHANGED vars BY <1>32 DEF vars, Life!vars
<1> QED BY <1>1, <1>2, <1>3, <1>4, <1>5, <1>6, <1>7, <1>8, <1>9, <1>10, <1>11, <1>12, <1>13, <1>14, <1>15, <1>16, <1>17, <1>18, <1>19, <1>20, <1>21, <1>22, <1>23, <1>24, <1>25, <1>26, <1>27, <1>28, <1>29, <1>30, <1>31, <1>32 DEF Next, StartStep, MonitorStep, OtherStep, CleanupStep

\* VideoCall implements the safety part of SessionLife: each step maps to a step of it or to none.
THEOREM KeepsSafety == Spec => Life!Safety
<1>1. Init => Life!Init
  BY DEF Init, Life!Init, phaseBar, resultBar, speakerBar, heldBar, overBar, Cleaners
<1> QED BY <1>1, VideoInv, LifeInvInit, LifeInvStep, LifeStep, PTL DEF Spec, Life!Safety
============================================================================
