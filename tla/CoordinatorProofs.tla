-------------------------- MODULE CoordinatorProofs --------------------------
EXTENDS Coordinator, TLAPS

(* Every proof over Next has one step per action of Coordinator; TypeStep comes first. *)

\* The attributes have their types when async_setup has returned.
LEMMA InitType == Init => TypeOK
<1> SUFFICES ASSUME Init PROVE TypeOK OBVIOUS
<1>1. TypeClients BY DEF Init, TypeClients
<1>2. TypeListeners BY DEF Init, TypeListeners
<1>3. TypeSessions BY DEF Init, TypeSessions
<1>4. TypeTasks BY DEF Init, TypeTasks, PCs
<1>5. TypeFlags BY DEF Init, TypeFlags
<1>6. TypeCounters BY CoordinatorAssumption DEF Init, TypeCounters
<1> QED BY <1>1, <1>2, <1>3, <1>4, <1>5, <1>6 DEF TypeOK

\* A call of async_start_video keeps the types of the session variables.
LEMMA StartSessions ==
  ASSUME TypeOK, NEW user, AsyncStartVideo(user)
  PROVE TypeSessions'
<1> USE DEF TypeOK, TypeSessions, TypeClients, AsyncStartVideo, Yields, sesV
<1>1. CASE StartGo /\ UNCHANGED timer
  BY <1>1 DEF StartGo, StopSnapshot, StartPause, StartSession
<1>2. CASE RecBegin("start")
  BY <1>2 DEF RecBegin, CleanupBegin
<1> QED BY <1>1, <1>2

\* The steps of a task inside _reconnect keep the types ...
LEMMA TypeRec ==
  ASSUME TypeOK, NEW t \in Tasks, RecStep(t)
  PROVE TypeOK'
<1> USE DEF TypeOK, RecStep, RecVideoDone, RecVipDone, RecConnectOk, RecFail, RecSetupOk, RecCtppOpened, RecCtppDone, RecCtppFailed
<1>1. TypeClients' BY DEF TypeClients, TypeTasks, conV, RecWithdraw, RecToVip, RecToConnect, AwaitListener, CtppReleased, RecReturn, CountFailure
<1>2. TypeListeners' BY DEF TypeListeners, TypeClients, TypeTasks, lisV, RecWithdraw, RecToVip, RecToConnect, AwaitListener, CtppReleased, RecReturn, CountFailure
<1>3. TypeSessions' BY DEF TypeSessions, TypeTasks, sesV, RecWithdraw, RecToVip, RecToConnect, AwaitListener, CtppReleased, RecReturn, CountFailure
<1>4. TypeTasks' BY DEF TypeTasks, TypeListeners, TypeSessions, tskV, PCs, RecWithdraw, RecToVip, RecToConnect, AwaitListener, CtppReleased, RecReturn, CountFailure
<1>5. TypeFlags' BY ZenonT(40) DEF TypeFlags, gateV, restV, pollV, RecWithdraw, RecToVip, RecToConnect, AwaitListener, CtppReleased, RecReturn, CountFailure
<1>6. TypeCounters' BY CoordinatorAssumption DEF TypeCounters, restV, pollV, envV, RecWithdraw, RecToVip, RecToConnect, AwaitListener, CtppReleased, RecReturn, CountFailure
<1> QED BY <1>1, <1>2, <1>3, <1>4, <1>5, <1>6

\* ... as do those of a task inside async_stop_video,
LEMMA TypeStop ==
  ASSUME TypeOK, NEW t \in Tasks, StopStep(t)
  PROVE TypeOK'
<1> USE DEF TypeOK, StopStep, StopCallbacksDone, StopTeardownDone, StopReturn, DelayedStop
<1>1. TypeClients' BY DEF TypeClients, TypeTasks, conV, StopSnapshot, CleanupBegin, CtppReleased, EnsureVipListener
<1>2. TypeListeners' BY DEF TypeListeners, TypeClients, TypeTasks, lisV, StopSnapshot, CleanupBegin, CtppReleased, EnsureVipListener
<1>3. TypeSessions' BY DEF TypeSessions, TypeTasks, sesV, StopSnapshot, CleanupBegin, CtppReleased, EnsureVipListener
<1>4. TypeTasks' BY DEF TypeTasks, TypeListeners, TypeSessions, tskV, PCs, StopSnapshot, CleanupBegin, CtppReleased, EnsureVipListener
<1>5. TypeFlags' BY ZenonT(40) DEF TypeFlags, gateV, restV, pollV, StopSnapshot, CleanupBegin, CtppReleased, EnsureVipListener
<1>6. TypeCounters' BY CoordinatorAssumption DEF TypeCounters, restV, pollV, envV, StopSnapshot, CleanupBegin, CtppReleased, EnsureVipListener
<1> QED BY <1>1, <1>2, <1>3, <1>4, <1>5, <1>6

\* ... of the task that holds _video_start_lock,
LEMMA TypeStart ==
  ASSUME TypeOK, StartStep
  PROVE TypeOK'
<1> USE DEF TypeOK, StartStep, StartResume, StartStopped, StartPaused, StartSignalled, StartFailed, StartPublish, StartReturn
<1>1. TypeClients' BY DEF TypeClients, TypeTasks, conV, StartGo, StopSnapshot, StartPause, StartSession, AwaitListener, CtppReleased, Tasks
<1>2. TypeListeners' BY DEF TypeListeners, TypeClients, TypeTasks, lisV, StartGo, StopSnapshot, StartPause, StartSession, AwaitListener, CtppReleased, Tasks
<1>3. TypeSessions'
<2>1. CASE StartResume \/ StartStopped \/ StartPaused
  BY <2>1 DEF TypeSessions, TypeTasks, TypeClients, StartGo, StopSnapshot, StartPause, StartSession, Tasks
<2>2. CASE StartSignalled \/ StartFailed \/ StartPublish \/ StartReturn
  BY <2>2 DEF TypeSessions, TypeTasks, sesV, Tasks
<2> QED BY <2>1, <2>2
<1>4. TypeTasks' BY DEF TypeTasks, TypeListeners, TypeSessions, tskV, PCs, StartGo, StopSnapshot, StartPause, StartSession, AwaitListener, CtppReleased, Tasks
<1>5. TypeFlags' BY ZenonT(40) DEF TypeFlags, gateV, restV, pollV, StartGo, StopSnapshot, StartPause, StartSession, AwaitListener, CtppReleased, Tasks
<1>6. TypeCounters' BY CoordinatorAssumption DEF TypeCounters, restV, pollV, envV, StartGo, StopSnapshot, StartPause, StartSession, AwaitListener, CtppReleased, Tasks
<1> QED BY <1>1, <1>2, <1>3, <1>4, <1>5, <1>6

\* ... of async_restart_notifications and async_shutdown,
LEMMA TypeShut ==
  ASSUME TypeOK, RestartNotificationsStopped \/ ShutStep
  PROVE TypeOK'
<1> USE DEF TypeOK, ShutStep, RestartNotificationsStopped, ShutVideoStopped, ShutVipStopped, ShutRtspStopped, ShutDisconnected
<1>1. TypeClients' BY DEF TypeClients, TypeTasks, conV, ShutVip, AwaitListener, EnsureVipListener, Tasks
<1>2. TypeListeners' BY DEF TypeListeners, TypeClients, TypeTasks, lisV, ShutVip, AwaitListener, EnsureVipListener, Tasks
<1>3. TypeSessions' BY DEF TypeSessions, TypeTasks, sesV, ShutVip, AwaitListener, EnsureVipListener, Tasks
<1>4. TypeTasks' BY DEF TypeTasks, TypeListeners, TypeSessions, tskV, PCs, ShutVip, AwaitListener, EnsureVipListener, Tasks
<1>5. TypeFlags' BY DEF TypeFlags, gateV, restV, pollV, ShutVip, AwaitListener, EnsureVipListener, Tasks
<1>6. TypeCounters' BY CoordinatorAssumption DEF TypeCounters, restV, pollV, envV, ShutVip, AwaitListener, EnsureVipListener, Tasks
<1> QED BY <1>1, <1>2, <1>3, <1>4, <1>5, <1>6

\* ... of the published session and its timeout task,
LEMMA TypeSession ==
  ASSUME TypeOK, NEW s \in Sessions, SessionStep(s)
  PROVE TypeOK'
<1> USE DEF TypeOK, SessionStep, CallEnds, TimeoutFires, TimeoutCallback
<1>1. TypeClients' BY DEF TypeClients, TypeTasks, conV, OnVideoCallEnd, CtppReleased
<1>2. TypeListeners' BY DEF TypeListeners, TypeClients, TypeTasks, lisV, OnVideoCallEnd, CtppReleased
<1>3. TypeSessions' BY DEF TypeSessions, TypeTasks, sesV, OnVideoCallEnd, CtppReleased
<1>4. TypeTasks' BY DEF TypeTasks, TypeListeners, TypeSessions, tskV, PCs, OnVideoCallEnd, CtppReleased
<1>5. TypeFlags' BY DEF TypeFlags, gateV, restV, pollV, OnVideoCallEnd, CtppReleased
<1>6. TypeCounters' BY CoordinatorAssumption DEF TypeCounters, restV, pollV, envV, OnVideoCallEnd, CtppReleased
<1> QED BY <1>1, <1>2, <1>3, <1>4, <1>5, <1>6

\* ... of the entities that call into the coordinator,
LEMMA TypeUser ==
  ASSUME TypeOK, UserStep
  PROVE TypeOK'
<1> USE DEF TypeOK, UserStep, PressStart, PressStop, RemoveCamera, PressDoor, PressRestartNotifications, AsyncShutdown
<1>1. TypeClients' BY DEF TypeClients, TypeTasks, conV, Press, AsyncStartVideo, Yields, AsyncStopVideo, StartGo, RecBegin, RecToVip, RecToConnect, StopSnapshot, StartPause, StartSession, AwaitListener, CleanupBegin, EnsureVipListener, ShutVip, Tasks
<1>2. TypeListeners' BY DEF TypeListeners, TypeClients, TypeTasks, lisV, Press, AsyncStartVideo, Yields, AsyncStopVideo, StartGo, RecBegin, RecToVip, RecToConnect, StopSnapshot, StartPause, StartSession, AwaitListener, CleanupBegin, EnsureVipListener, ShutVip, Tasks
<1>3. TypeSessions'
<2>1. CASE PressStart
  BY <2>1, StartSessions DEF TypeOK
<2>2. CASE PressRestartNotifications \/ AsyncShutdown
  BY <2>2 DEF TypeSessions, sesV, StopSnapshot
<2>3. CASE \E t \in StopTasks : PressStop(t) \/ RemoveCamera(t) \/ PressDoor(t)
  BY <2>3 DEF TypeSessions, sesV, AsyncStopVideo, StopSnapshot
<2> QED BY <2>1, <2>2, <2>3
<1>4. TypeTasks' BY DEF TypeTasks, TypeListeners, TypeSessions, tskV, PCs, Press, AsyncStartVideo, Yields, AsyncStopVideo, StartGo, RecBegin, RecToVip, RecToConnect, StopSnapshot, StartPause, StartSession, AwaitListener, CleanupBegin, EnsureVipListener, ShutVip, Tasks
<1>5. TypeFlags'
<2>1. CASE PressStart
  BY <2>1 DEF TypeFlags, gateV, pollV, AsyncStartVideo, Yields, StartGo, RecBegin, StopSnapshot
<2>2. CASE PressRestartNotifications \/ AsyncShutdown
  BY <2>2, ZenonT(40) DEF TypeFlags, gateV, pollV, StopSnapshot, ShutVip
<2>3. CASE \E t \in StopTasks : PressStop(t) \/ RemoveCamera(t) \/ PressDoor(t)
  BY <2>3 DEF TypeFlags, gateV, pollV, AsyncStopVideo, StopSnapshot
<2> QED BY <2>1, <2>2, <2>3
<1>6. TypeCounters' BY CoordinatorAssumption DEF TypeCounters, restV, pollV, envV, Press, AsyncStartVideo, Yields, AsyncStopVideo, StartGo, RecBegin, RecToVip, RecToConnect, StopSnapshot, StartPause, StartSession, AwaitListener, CleanupBegin, EnsureVipListener, ShutVip, Tasks
<1> QED BY <1>1, <1>2, <1>3, <1>4, <1>5, <1>6

\* ... and of the event loop and the network.
LEMMA TypeEvent ==
  ASSUME TypeOK, AutoRestart \/ AsyncUpdateData \/ KeepaliveExits \/ \E c \in Clients : ConnectionLost(c)
  PROVE TypeOK'
<1> USE DEF TypeOK, AutoRestart, AsyncUpdateData, KeepaliveExits, ConnectionLost
<1>1. TypeClients' BY DEF TypeClients, TypeTasks, conV, AsyncStartVideo, Yields, StartGo, RecBegin, RecToVip, RecToConnect, StopSnapshot, StartPause, StartSession, AwaitListener, CleanupBegin, Tasks
<1>2. TypeListeners' BY DEF TypeListeners, TypeClients, TypeTasks, lisV, AsyncStartVideo, Yields, StartGo, RecBegin, RecToVip, RecToConnect, StopSnapshot, StartPause, StartSession, AwaitListener, CleanupBegin, Tasks
<1>3. TypeSessions'
<2>1. CASE AutoRestart
  BY <2>1, StartSessions DEF TypeOK
<2>2. CASE AsyncUpdateData \/ KeepaliveExits \/ \E c \in Clients : ConnectionLost(c)
  BY <2>2 DEF TypeSessions, sesV, RecBegin, CleanupBegin
<2> QED BY <2>1, <2>2
<1>4. TypeTasks' BY DEF TypeTasks, TypeListeners, TypeSessions, tskV, PCs, AsyncStartVideo, Yields, StartGo, RecBegin, RecToVip, RecToConnect, StopSnapshot, StartPause, StartSession, AwaitListener, CleanupBegin, Tasks
<1>5. TypeFlags' BY ZenonT(40) DEF TypeFlags, gateV, restV, pollV, AsyncStartVideo, Yields, StartGo, RecBegin, RecToVip, RecToConnect, StopSnapshot, StartPause, StartSession, AwaitListener, CleanupBegin, Tasks
<1>6. TypeCounters' BY CoordinatorAssumption DEF TypeCounters, restV, pollV, envV, AsyncStartVideo, Yields, StartGo, RecBegin, RecToVip, RecToConnect, StopSnapshot, StartPause, StartSession, AwaitListener, CleanupBegin, Tasks
<1> QED BY <1>1, <1>2, <1>3, <1>4, <1>5, <1>6

\* Every step keeps the types.
LEMMA TypeStep == TypeOK /\ [Next]_vars => TypeOK'
<1> SUFFICES ASSUME TypeOK, [Next]_vars PROVE TypeOK' OBVIOUS
<1>1. CASE TaskStep BY <1>1, TypeRec, TypeStop, TypeStart, TypeShut DEF TaskStep, Reconnectors, Tasks
<1>2. CASE \E s \in Sessions : SessionStep(s) BY <1>2, TypeSession
<1>3. CASE UserStep BY <1>3, TypeUser
<1>4. CASE AutoRestart \/ AsyncUpdateData \/ KeepaliveExits \/ \E c \in Clients : ConnectionLost(c)
  BY <1>4, TypeEvent
<1>5. CASE UNCHANGED vars
  BY <1>5 DEF TypeOK, TypeClients, TypeListeners, TypeSessions, TypeTasks, TypeFlags, TypeCounters,
              vars, conV, lisV, sesV, gateV, tskV, restV, pollV, envV
<1> QED BY <1>1, <1>2, <1>3, <1>4, <1>5 DEF Next

\* The attributes of the coordinator and its suspended tasks keep their types.
THEOREM TypeCorrect == Spec => []TypeOK
  BY InitType, TypeStep, PTL DEF Spec

\* What a call of async_start_video does to the slot, the gate and its own task ...
LEMMA StartGoEffect ==
  ASSUME TypeOK, StartGo
  PROVE \/ StopSnapshot("start") /\ video # None
        \/ /\ video = None /\ UNCHANGED <<video, ready>>
           /\ \/ /\ pc' \in {[pc EXCEPT !["start"] = p] : p \in {"pause", "idle"}}
                 /\ UNCHANGED held
              \/ /\ pc' = [pc EXCEPT !["start"] = "signal"]
                 /\ \E s \in Sessions : FreshSession(s) /\ held' = [held EXCEPT !["start"] = s]
  BY DEF StartGo, StopSnapshot, StartPause, StartSession, AwaitListener, lisV

\* ... and what the beginning of a _reconnect does.
LEMMA RecBeginEffect ==
  ASSUME TypeOK, NEW t \in Tasks, RecBegin(t)
  PROVE /\ UNCHANGED <<video, ready, rtsp, new>>
        /\ held' \in {held, [held EXCEPT ![t] = video]}
        /\ \/ /\ pc' \in {[pc EXCEPT ![t] = p] : p \in {"rec_video", "rec_vip"}}
              /\ UNCHANGED <<client, conn>>
           \/ pc' = [pc EXCEPT ![t] = "rec_conn"] /\ client' = None
  BY DEF RecBegin, RecToVip, RecToConnect, AwaitListener, gateV, conV

\* Taking the published session out of its slot keeps ownership exclusive.
LEMMA OwnedSnapshot ==
  ASSUME TypeOK, SessionsOwned, NEW t \in Tasks, StopSnapshot(t), video # None
  PROVE SessionsOwned'
  BY CoordinatorAssumption DEF SessionsOwned, Owns, Stopping, StopSnapshot, TypeOK, TypeTasks, TypeSessions

\* Starting a session that nobody holds keeps ownership exclusive.
LEMMA OwnedFresh ==
  ASSUME TypeOK, SessionsOwned, NEW s \in Sessions, FreshSession(s), UNCHANGED video,
         pc' = [pc EXCEPT !["start"] = "signal"], held' = [held EXCEPT !["start"] = s]
  PROVE SessionsOwned'
  BY DEF SessionsOwned, Owns, Stopping, FreshSession, TypeOK, TypeTasks, TypeSessions, Tasks

\* A task that holds nothing after its step, as a stopper or starter, keeps it so too.
LEMMA OwnedKept ==
  ASSUME TypeOK, SessionsOwned, NEW t \in Tasks, NEW p, pc' = [pc EXCEPT ![t] = p],
         p \notin {"stop_cb", "stop_tear", "signal", "gate"}, video' \in {video, None},
         NEW x, held' \in {held, [held EXCEPT ![t] = x]}
  PROVE SessionsOwned'
  BY CoordinatorAssumption DEF SessionsOwned, Owns, Stopping, TypeOK, TypeTasks, TypeSessions

\* The three ways on from the reset of the user-stop flag in async_start_video.
LEMMA OwnedGo ==
  ASSUME TypeOK, SessionsOwned, StartGo
  PROVE SessionsOwned'
<1> "start" \in Tasks BY DEF Tasks
<1>1. CASE StopSnapshot("start") /\ video # None BY <1>1, OwnedSnapshot
<1>2. CASE UNCHANGED <<video, held>> /\ \E p \in {"pause", "idle"} : pc' = [pc EXCEPT !["start"] = p]
  BY <1>2, OwnedKept
<1>3. CASE /\ UNCHANGED video /\ pc' = [pc EXCEPT !["start"] = "signal"]
           /\ \E s \in Sessions : FreshSession(s) /\ held' = [held EXCEPT !["start"] = s]
  BY <1>3, OwnedFresh
<1> QED BY <1>1, <1>2, <1>3, StartGoEffect

\* A call of async_start_video keeps ownership exclusive.
LEMMA OwnedStart ==
  ASSUME TypeOK, SessionsOwned, NEW user, AsyncStartVideo(user)
  PROVE SessionsOwned'
<1>1. CASE StartGo BY <1>1, OwnedGo
<1>2. CASE RecBegin("start")
  <2>1. "start" \in Tasks BY DEF Tasks
  <2>2. UNCHANGED video /\ held' \in {held, [held EXCEPT !["start"] = video]}
        /\ \E p \in {"rec_video", "rec_vip", "rec_conn"} : pc' = [pc EXCEPT !["start"] = p]
    BY <1>2, <2>1, RecBeginEffect
  <2> QED BY <2>1, <2>2, CoordinatorAssumption
          DEF SessionsOwned, Owns, Stopping, TypeOK, TypeTasks, TypeSessions
<1>3. CASE UNCHANGED <<sesV, tskV>> BY <1>3 DEF SessionsOwned, Owns, Stopping, sesV, tskV
<1> QED BY <1>1, <1>2, <1>3 DEF AsyncStartVideo

\* A stop takes a published session, a start a fresh one: nobody else owns either.
LEMMA OwnedStep ==
  ASSUME TypeOK, TypeOK', SessionsOwned, [Next]_vars
  PROVE SessionsOwned'
<1> USE DEF SessionsOwned, Owns, Stopping, TypeOK, TypeTasks, TypeSessions, Tasks, sesV, tskV, FreshSession
<1>1. CASE \E t \in Reconnectors : RecStep(t)
<2> PICK t \in Reconnectors : RecStep(t) BY <1>1
<2> t \in Tasks BY DEF Reconnectors, Tasks
<2>1. CASE RecVideoDone(t)
  <3>1. video' = None /\ held' = [held EXCEPT ![t] = None]
        /\ \E p \in {"rec_vip", "rec_conn"} : pc' = [pc EXCEPT ![t] = p]
    BY <2>1 DEF RecVideoDone, RecWithdraw, RecToVip, RecToConnect, AwaitListener
  <3> QED BY <3>1, OwnedKept, CoordinatorAssumption
<2>2. CASE RecVipDone(t) BY <2>2 DEF RecVipDone, RecToConnect
<2>3. CASE RecConnectOk(t) BY <2>3 DEF RecConnectOk
<2>4. CASE RecFail(t) BY <2>4 DEF RecFail
<2>5. CASE RecSetupOk(t) BY <2>5 DEF RecSetupOk, RecReturn
<2>6. CASE RecCtppOpened(t) BY <2>6 DEF RecCtppOpened
<2>7. CASE RecCtppDone(t) BY <2>7 DEF RecCtppDone, RecReturn
<2>8. CASE RecCtppFailed(t) BY <2>8 DEF RecCtppFailed, RecReturn
<2> QED BY <1>1, <2>1, <2>2, <2>3, <2>4, <2>5, <2>6, <2>7, <2>8 DEF RecStep
<1>2. CASE \E t \in Tasks : StopStep(t)
<2> PICK t \in Tasks : StopStep(t) BY <1>2
<2>1. CASE StopCallbacksDone(t) BY <2>1 DEF StopCallbacksDone, CleanupBegin
<2>2. CASE StopTeardownDone(t) BY <2>2 DEF StopTeardownDone
<2>3. CASE StopReturn(t) BY <2>3 DEF StopReturn
<2>4. CASE DelayedStop(t)
  BY <2>4, OwnedSnapshot, OwnedKept, CoordinatorAssumption DEF DelayedStop
<2> QED BY <1>2, <2>1, <2>2, <2>3, <2>4 DEF StopStep
<1>3. CASE StartStep
<2>1. CASE StartResume
  BY <2>1, OwnedGo DEF StartResume
<2>2. CASE StartStopped BY <2>2 DEF StartStopped, StartPause, StartSession, AwaitListener
<2>3. CASE StartPaused BY <2>3 DEF StartPaused, StartSession
<2>4. CASE StartSignalled BY <2>4 DEF StartSignalled
<2>5. CASE StartFailed BY <2>5 DEF StartFailed
<2>6. CASE StartPublish BY <2>6 DEF StartPublish
<2>7. CASE StartReturn BY <2>7 DEF StartReturn
<2> QED BY <1>3, <2>1, <2>2, <2>3, <2>4, <2>5, <2>6, <2>7 DEF StartStep
<1>4. CASE RestartNotificationsStopped \/ ShutStep
<2>1. CASE RestartNotificationsStopped BY <2>1 DEF RestartNotificationsStopped
<2>2. CASE ShutVideoStopped BY <2>2 DEF ShutVideoStopped, ShutVip, AwaitListener
<2>3. CASE ShutVipStopped BY <2>3 DEF ShutVipStopped
<2>4. CASE ShutRtspStopped BY <2>4 DEF ShutRtspStopped
<2>5. CASE ShutDisconnected BY <2>5 DEF ShutDisconnected
<2> QED BY <1>4, <2>1, <2>2, <2>3, <2>4, <2>5 DEF ShutStep
<1>5. CASE \E s \in Sessions : SessionStep(s)
<2> PICK s \in Sessions : SessionStep(s) BY <1>5
<2>1. CASE CallEnds(s) BY <2>1 DEF CallEnds
<2>2. CASE TimeoutFires(s) BY <2>2 DEF TimeoutFires
<2>3. CASE TimeoutCallback(s) BY <2>3 DEF TimeoutCallback
<2> QED BY <1>5, <2>1, <2>2, <2>3 DEF SessionStep
<1>6. CASE UserStep
<2>1. CASE PressStart
  BY <2>1, OwnedStart DEF PressStart
<2>2. CASE \E t \in StopTasks : PressStop(t) \/ RemoveCamera(t) \/ PressDoor(t)
  <3> PICK t \in StopTasks : PressStop(t) \/ RemoveCamera(t) \/ PressDoor(t) BY <2>2
  <3>1. CASE AsyncStopVideo(t)
    BY <3>1, OwnedSnapshot DEF AsyncStopVideo
  <3>2. CASE PressDoor(t)
    BY <3>2, OwnedKept, CoordinatorAssumption DEF PressDoor
  <3> QED BY <3>1, <3>2 DEF PressStop, RemoveCamera
<2>3. CASE PressRestartNotifications BY <2>3 DEF PressRestartNotifications, AwaitListener
<2>4. CASE AsyncShutdown
  BY <2>4, OwnedSnapshot DEF AsyncShutdown, ShutVip, AwaitListener
<2> QED BY <1>6, <2>1, <2>2, <2>3, <2>4 DEF UserStep
<1>7. CASE AutoRestart \/ AsyncUpdateData \/ KeepaliveExits \/ \E c \in Clients : ConnectionLost(c)
<2>1. CASE AutoRestart
  BY <2>1, OwnedStart DEF AutoRestart
<2>2. CASE AsyncUpdateData BY <2>2 DEF AsyncUpdateData, RecBegin, RecToVip, RecToConnect, AwaitListener
<2>3. CASE KeepaliveExits BY <2>3 DEF KeepaliveExits
<2>4. CASE \E c \in Clients : ConnectionLost(c) BY <2>4 DEF ConnectionLost
<2> QED BY <1>7, <2>1, <2>2, <2>3, <2>4
<1>8. CASE UNCHANGED vars BY <1>8 DEF vars, conV, lisV, sesV, gateV, tskV, restV
<1> QED BY <1>1, <1>2, <1>3, <1>4, <1>5, <1>6, <1>7, <1>8 DEF Next, TaskStep

\* The event and the slot change together.
LEMMA ReadyStep ==
  ASSUME TypeOK, TypeOK', SessionsOwned, ReadyEventMatchesSession, [Next]_vars
  PROVE ReadyEventMatchesSession'
<1> USE DEF ReadyEventMatchesSession, TypeOK, TypeTasks, TypeSessions, TypeFlags, sesV, gateV
<1>1. CASE \E t \in Reconnectors : RecStep(t)
<2> PICK t \in Reconnectors : RecStep(t) BY <1>1
<2> t \in Tasks BY DEF Reconnectors, Tasks
<2>1. CASE RecVideoDone(t) BY <2>1 DEF RecVideoDone, RecWithdraw, RecToVip, RecToConnect, AwaitListener
<2>2. CASE RecVipDone(t) BY <2>2 DEF RecVipDone, RecToConnect
<2>3. CASE RecConnectOk(t) BY <2>3 DEF RecConnectOk
<2>4. CASE RecFail(t) BY <2>4 DEF RecFail
<2>5. CASE RecSetupOk(t) BY <2>5 DEF RecSetupOk, RecReturn
<2>6. CASE RecCtppOpened(t) BY <2>6 DEF RecCtppOpened
<2>7. CASE RecCtppDone(t) BY <2>7 DEF RecCtppDone, RecReturn
<2>8. CASE RecCtppFailed(t) BY <2>8 DEF RecCtppFailed, RecReturn
<2> QED BY <1>1, <2>1, <2>2, <2>3, <2>4, <2>5, <2>6, <2>7, <2>8 DEF RecStep
<1>2. CASE \E t \in Tasks : StopStep(t)
<2> PICK t \in Tasks : StopStep(t) BY <1>2
<2>1. CASE StopCallbacksDone(t) BY <2>1 DEF StopCallbacksDone, CleanupBegin
<2>2. CASE StopTeardownDone(t) BY <2>2 DEF StopTeardownDone
<2>3. CASE StopReturn(t) BY <2>3 DEF StopReturn
<2>4. CASE DelayedStop(t) BY <2>4 DEF DelayedStop, StopSnapshot
<2> QED BY <1>2, <2>1, <2>2, <2>3, <2>4 DEF StopStep
<1>3. CASE StartStep
<2>1. CASE StartResume BY <2>1 DEF StartResume, StartGo, StopSnapshot, StartPause, StartSession, AwaitListener
<2>2. CASE StartStopped BY <2>2 DEF StartStopped, StartPause, StartSession, AwaitListener
<2>3. CASE StartPaused BY <2>3 DEF StartPaused, StartSession
<2>4. CASE StartSignalled BY <2>4 DEF StartSignalled
<2>5. CASE StartFailed BY <2>5 DEF StartFailed
<2>6. CASE StartPublish
  BY <2>6, CoordinatorAssumption DEF StartPublish, SessionsOwned, Owns, Tasks
<2>7. CASE StartReturn BY <2>7 DEF StartReturn
<2> QED BY <1>3, <2>1, <2>2, <2>3, <2>4, <2>5, <2>6, <2>7 DEF StartStep
<1>4. CASE RestartNotificationsStopped \/ ShutStep
<2>1. CASE RestartNotificationsStopped BY <2>1 DEF RestartNotificationsStopped
<2>2. CASE ShutVideoStopped BY <2>2 DEF ShutVideoStopped, ShutVip, AwaitListener
<2>3. CASE ShutVipStopped BY <2>3 DEF ShutVipStopped
<2>4. CASE ShutRtspStopped BY <2>4 DEF ShutRtspStopped
<2>5. CASE ShutDisconnected BY <2>5 DEF ShutDisconnected
<2> QED BY <1>4, <2>1, <2>2, <2>3, <2>4, <2>5 DEF ShutStep
<1>5. CASE \E s \in Sessions : SessionStep(s)
<2> PICK s \in Sessions : SessionStep(s) BY <1>5
<2>1. CASE CallEnds(s) BY <2>1 DEF CallEnds
<2>2. CASE TimeoutFires(s) BY <2>2 DEF TimeoutFires
<2>3. CASE TimeoutCallback(s) BY <2>3 DEF TimeoutCallback
<2> QED BY <1>5, <2>1, <2>2, <2>3 DEF SessionStep
<1>6. CASE UserStep
<2>1. CASE PressStart BY <2>1 DEF PressStart, AsyncStartVideo, Yields, StartGo, RecBegin, RecToVip, RecToConnect, StopSnapshot, StartPause, StartSession, AwaitListener
<2>2. CASE \E t \in StopTasks : PressStop(t) \/ RemoveCamera(t) \/ PressDoor(t) BY <2>2 DEF PressStop, RemoveCamera, PressDoor, AsyncStopVideo, StopSnapshot
<2>3. CASE PressRestartNotifications BY <2>3 DEF PressRestartNotifications, AwaitListener
<2>4. CASE AsyncShutdown BY <2>4 DEF AsyncShutdown, StopSnapshot, ShutVip, AwaitListener
<2> QED BY <1>6, <2>1, <2>2, <2>3, <2>4 DEF UserStep
<1>7. CASE AutoRestart \/ AsyncUpdateData \/ KeepaliveExits \/ \E c \in Clients : ConnectionLost(c)
<2>1. CASE AutoRestart BY <2>1 DEF AutoRestart, AsyncStartVideo, Yields, StartGo, RecBegin, RecToVip, RecToConnect, StopSnapshot, StartPause, StartSession, AwaitListener
<2>2. CASE AsyncUpdateData BY <2>2 DEF AsyncUpdateData, RecBegin, RecToVip, RecToConnect, AwaitListener
<2>3. CASE KeepaliveExits BY <2>3 DEF KeepaliveExits
<2>4. CASE \E c \in Clients : ConnectionLost(c) BY <2>4 DEF ConnectionLost
<2> QED BY <1>7, <2>1, <2>2, <2>3, <2>4
<1>8. CASE UNCHANGED vars BY <1>8 DEF vars, conV, lisV, sesV, gateV, tskV, restV
<1> QED BY <1>1, <1>2, <1>3, <1>4, <1>5, <1>6, <1>7, <1>8 DEF Next, TaskStep

\* A stop's snapshot makes it the witness; other steps keep the witness there was.
LEMMA GateSnapshot ==
  ASSUME TypeOK, NEW t \in Tasks, StopSnapshot(t)
  PROVE PlayGateClosed'
  BY DEF PlayGateClosed, Stopping, StopSnapshot, TypeOK, TypeTasks

\* A step of a task that is not a stopper, and does not open the gate, keeps the witness.
LEMMA GateKept ==
  ASSUME TypeOK, PlayGateClosed, NEW t \in Tasks, NEW p, pc' = [pc EXCEPT ![t] = p], ~Stopping(t),
         rtsp' => rtsp, UNCHANGED video
  PROVE PlayGateClosed'
  BY DEF PlayGateClosed, Stopping, TypeOK, TypeTasks

\* A call of async_start_video leaves the PLAY gate as it is.
LEMMA GateStart ==
  ASSUME TypeOK, PlayGateClosed, NEW user, AsyncStartVideo(user)
  PROVE PlayGateClosed'
<1>0. "start" \in Tasks BY DEF Tasks
<1>1. CASE StartGo /\ UNCHANGED rtsp /\ pc["start"] = "idle"
  <2>1. ~Stopping("start") BY <1>1 DEF Stopping
  <2>2. CASE StopSnapshot("start") BY <2>2, <1>0, GateSnapshot
  <2>3. CASE UNCHANGED video /\ \E p \in {"pause", "idle", "signal"} : pc' = [pc EXCEPT !["start"] = p]
    BY <2>3, <2>1, <1>0, <1>1, GateKept
  <2> QED BY <1>1, <2>2, <2>3, StartGoEffect
<1>2. CASE RecBegin("start") /\ pc["start"] = "idle"
  <2>1. ~Stopping("start") BY <1>2 DEF Stopping
  <2>2. UNCHANGED <<video, rtsp>>
        /\ \E p \in {"rec_video", "rec_vip", "rec_conn"} : pc' = [pc EXCEPT !["start"] = p]
    BY <1>2, <1>0, RecBeginEffect
  <2> QED BY <1>0, <2>1, <2>2, GateKept
<1>3. CASE UNCHANGED <<sesV, gateV, tskV>> BY <1>3 DEF PlayGateClosed, Stopping, sesV, gateV, tskV
<1> QED BY <1>1, <1>2, <1>3 DEF AsyncStartVideo, Yields, Locked

\* Whoever empties the slot closes the gate or is a stop on its way there.
LEMMA GateStep ==
  ASSUME TypeOK, TypeOK', SessionsOwned, PlayGateClosed, [Next]_vars
  PROVE PlayGateClosed'
<1> USE DEF PlayGateClosed, Stopping, TypeOK, TypeTasks, TypeSessions, TypeFlags, Tasks, sesV, gateV, tskV
<1>1. CASE \E t \in Reconnectors : RecStep(t)
<2> PICK t \in Reconnectors : RecStep(t) BY <1>1
<2> t \in Tasks BY DEF Reconnectors, Tasks
<2>1. CASE RecVideoDone(t) BY <2>1 DEF RecVideoDone, RecWithdraw, RecToVip, RecToConnect, AwaitListener
<2>2. CASE RecVipDone(t) BY <2>2 DEF RecVipDone, RecToConnect
<2>3. CASE RecConnectOk(t) BY <2>3 DEF RecConnectOk
<2>4. CASE RecFail(t) BY <2>4 DEF RecFail
<2>5. CASE RecSetupOk(t) BY <2>5 DEF RecSetupOk, RecReturn
<2>6. CASE RecCtppOpened(t) BY <2>6 DEF RecCtppOpened
<2>7. CASE RecCtppDone(t) BY <2>7 DEF RecCtppDone, RecReturn
<2>8. CASE RecCtppFailed(t) BY <2>8 DEF RecCtppFailed, RecReturn
<2> QED BY <1>1, <2>1, <2>2, <2>3, <2>4, <2>5, <2>6, <2>7, <2>8 DEF RecStep
<1>2. CASE \E t \in Tasks : StopStep(t)
<2> PICK t \in Tasks : StopStep(t) BY <1>2
<2>1. CASE StopCallbacksDone(t) BY <2>1 DEF StopCallbacksDone, CleanupBegin
<2>2. CASE StopTeardownDone(t) BY <2>2 DEF StopTeardownDone
<2>3. CASE StopReturn(t) BY <2>3 DEF StopReturn
<2>4. CASE DelayedStop(t) BY <2>4 DEF DelayedStop, StopSnapshot
<2> QED BY <1>2, <2>1, <2>2, <2>3, <2>4 DEF StopStep
<1>3. CASE StartStep
<2>1. CASE StartResume BY <2>1 DEF StartResume, StartGo, StopSnapshot, StartPause, StartSession, AwaitListener
<2>2. CASE StartStopped BY <2>2 DEF StartStopped, StartPause, StartSession, AwaitListener
<2>3. CASE StartPaused BY <2>3 DEF StartPaused, StartSession
<2>4. CASE StartSignalled BY <2>4 DEF StartSignalled
<2>5. CASE StartFailed BY <2>5 DEF StartFailed
<2>6. CASE StartPublish
  BY <2>6, CoordinatorAssumption DEF StartPublish, SessionsOwned, Owns
<2>7. CASE StartReturn BY <2>7 DEF StartReturn
<2> QED BY <1>3, <2>1, <2>2, <2>3, <2>4, <2>5, <2>6, <2>7 DEF StartStep
<1>4. CASE RestartNotificationsStopped \/ ShutStep
<2>1. CASE RestartNotificationsStopped BY <2>1 DEF RestartNotificationsStopped
<2>2. CASE ShutVideoStopped BY <2>2 DEF ShutVideoStopped, ShutVip, AwaitListener
<2>3. CASE ShutVipStopped BY <2>3 DEF ShutVipStopped
<2>4. CASE ShutRtspStopped BY <2>4 DEF ShutRtspStopped
<2>5. CASE ShutDisconnected BY <2>5 DEF ShutDisconnected
<2> QED BY <1>4, <2>1, <2>2, <2>3, <2>4, <2>5 DEF ShutStep
<1>5. CASE \E s \in Sessions : SessionStep(s)
<2> PICK s \in Sessions : SessionStep(s) BY <1>5
<2>1. CASE CallEnds(s) BY <2>1 DEF CallEnds
<2>2. CASE TimeoutFires(s) BY <2>2 DEF TimeoutFires
<2>3. CASE TimeoutCallback(s) BY <2>3 DEF TimeoutCallback
<2> QED BY <1>5, <2>1, <2>2, <2>3 DEF SessionStep
<1>6. CASE UserStep
<2>1. CASE PressStart
  BY <2>1, GateStart DEF PressStart
<2>2. CASE \E t \in StopTasks : PressStop(t) \/ RemoveCamera(t) \/ PressDoor(t)
  <3> PICK t \in StopTasks : PressStop(t) \/ RemoveCamera(t) \/ PressDoor(t) BY <2>2
  <3>1. CASE AsyncStopVideo(t) /\ pc[t] = "idle"
    BY <3>1, GateSnapshot DEF AsyncStopVideo
  <3>2. CASE PressDoor(t)
    BY <3>2, GateKept DEF PressDoor
  <3> QED BY <3>1, <3>2 DEF PressStop, RemoveCamera
<2>3. CASE PressRestartNotifications BY <2>3 DEF PressRestartNotifications, AwaitListener
<2>4. CASE AsyncShutdown
  <3>1. CASE StopSnapshot("shutdown") BY <3>1, GateSnapshot
  <3>2. CASE video = None /\ ShutVip /\ UNCHANGED <<held, video, ready>> /\ pc["shutdown"] = "idle"
    BY <3>2, GateKept, ZenonT(40) DEF ShutVip, AwaitListener
  <3> QED BY <2>4, <3>1, <3>2 DEF AsyncShutdown, Press
<2> QED BY <1>6, <2>1, <2>2, <2>3, <2>4 DEF UserStep
<1>7. CASE AutoRestart \/ AsyncUpdateData \/ KeepaliveExits \/ \E c \in Clients : ConnectionLost(c)
<2>1. CASE AutoRestart
  BY <2>1, GateStart DEF AutoRestart
<2>2. CASE AsyncUpdateData BY ZenonT(40), <2>2 DEF AsyncUpdateData, RecBegin, RecToVip, RecToConnect, AwaitListener
<2>3. CASE KeepaliveExits BY <2>3 DEF KeepaliveExits
<2>4. CASE \E c \in Clients : ConnectionLost(c) BY <2>4 DEF ConnectionLost
<2> QED BY <1>7, <2>1, <2>2, <2>3, <2>4
<1>8. CASE UNCHANGED vars BY <1>8 DEF vars, conV, lisV, sesV, gateV, tskV, restV
<1> QED BY <1>1, <1>2, <1>3, <1>4, <1>5, <1>6, <1>7, <1>8 DEF Next, TaskStep

\* The slot stays empty while a start is between its nested stop and its publication.
LEMMA SlotStep ==
  ASSUME TypeOK, TypeOK', SlotEmpty, [Next]_vars
  PROVE SlotEmpty'
<1> USE DEF SlotEmpty, TypeOK, TypeTasks, TypeSessions, Tasks, sesV, tskV
<1>1. CASE \E t \in Reconnectors : RecStep(t)
<2> PICK t \in Reconnectors : RecStep(t) BY <1>1
<2> t \in Tasks BY DEF Reconnectors, Tasks
<2>1. CASE RecVideoDone(t) BY <2>1 DEF RecVideoDone, RecWithdraw, RecToVip, RecToConnect, AwaitListener
<2>2. CASE RecVipDone(t) BY <2>2 DEF RecVipDone, RecToConnect
<2>3. CASE RecConnectOk(t) BY <2>3 DEF RecConnectOk
<2>4. CASE RecFail(t) BY <2>4 DEF RecFail
<2>5. CASE RecSetupOk(t) BY <2>5 DEF RecSetupOk, RecReturn
<2>6. CASE RecCtppOpened(t) BY <2>6 DEF RecCtppOpened
<2>7. CASE RecCtppDone(t) BY <2>7 DEF RecCtppDone, RecReturn
<2>8. CASE RecCtppFailed(t) BY <2>8 DEF RecCtppFailed, RecReturn
<2> QED BY <1>1, <2>1, <2>2, <2>3, <2>4, <2>5, <2>6, <2>7, <2>8 DEF RecStep
<1>2. CASE \E t \in Tasks : StopStep(t)
<2> PICK t \in Tasks : StopStep(t) BY <1>2
<2>1. CASE StopCallbacksDone(t) BY <2>1 DEF StopCallbacksDone, CleanupBegin
<2>2. CASE StopTeardownDone(t) BY <2>2 DEF StopTeardownDone
<2>3. CASE StopReturn(t) BY <2>3 DEF StopReturn
<2>4. CASE DelayedStop(t) BY <2>4 DEF DelayedStop, StopSnapshot
<2> QED BY <1>2, <2>1, <2>2, <2>3, <2>4 DEF StopStep
<1>3. CASE StartStep
<2>1. CASE StartResume BY <2>1 DEF StartResume, StartGo, StopSnapshot, StartPause, StartSession, AwaitListener
<2>2. CASE StartStopped BY <2>2 DEF StartStopped, StartPause, StartSession, AwaitListener
<2>3. CASE StartPaused BY <2>3 DEF StartPaused, StartSession
<2>4. CASE StartSignalled BY <2>4 DEF StartSignalled
<2>5. CASE StartFailed BY <2>5 DEF StartFailed
<2>6. CASE StartPublish BY <2>6 DEF StartPublish
<2>7. CASE StartReturn BY <2>7 DEF StartReturn
<2> QED BY <1>3, <2>1, <2>2, <2>3, <2>4, <2>5, <2>6, <2>7 DEF StartStep
<1>4. CASE RestartNotificationsStopped \/ ShutStep
<2>1. CASE RestartNotificationsStopped BY <2>1 DEF RestartNotificationsStopped
<2>2. CASE ShutVideoStopped BY <2>2 DEF ShutVideoStopped, ShutVip, AwaitListener
<2>3. CASE ShutVipStopped BY <2>3 DEF ShutVipStopped
<2>4. CASE ShutRtspStopped BY <2>4 DEF ShutRtspStopped
<2>5. CASE ShutDisconnected BY <2>5 DEF ShutDisconnected
<2> QED BY <1>4, <2>1, <2>2, <2>3, <2>4, <2>5 DEF ShutStep
<1>5. CASE \E s \in Sessions : SessionStep(s)
<2> PICK s \in Sessions : SessionStep(s) BY <1>5
<2>1. CASE CallEnds(s) BY <2>1 DEF CallEnds
<2>2. CASE TimeoutFires(s) BY <2>2 DEF TimeoutFires
<2>3. CASE TimeoutCallback(s) BY <2>3 DEF TimeoutCallback
<2> QED BY <1>5, <2>1, <2>2, <2>3 DEF SessionStep
<1>6. CASE UserStep
<2>1. CASE PressStart BY <2>1 DEF PressStart, AsyncStartVideo, Yields, StartGo, RecBegin, RecToVip, RecToConnect, StopSnapshot, StartPause, StartSession, AwaitListener
<2>2. CASE \E t \in StopTasks : PressStop(t) \/ RemoveCamera(t) \/ PressDoor(t) BY <2>2 DEF PressStop, RemoveCamera, PressDoor, AsyncStopVideo, StopSnapshot
<2>3. CASE PressRestartNotifications BY <2>3 DEF PressRestartNotifications, AwaitListener
<2>4. CASE AsyncShutdown BY <2>4 DEF AsyncShutdown, StopSnapshot, ShutVip, AwaitListener
<2> QED BY <1>6, <2>1, <2>2, <2>3, <2>4 DEF UserStep
<1>7. CASE AutoRestart \/ AsyncUpdateData \/ KeepaliveExits \/ \E c \in Clients : ConnectionLost(c)
<2>1. CASE AutoRestart BY <2>1 DEF AutoRestart, AsyncStartVideo, Yields, StartGo, RecBegin, RecToVip, RecToConnect, StopSnapshot, StartPause, StartSession, AwaitListener
<2>2. CASE AsyncUpdateData BY <2>2 DEF AsyncUpdateData, RecBegin, RecToVip, RecToConnect, AwaitListener
<2>3. CASE KeepaliveExits BY <2>3 DEF KeepaliveExits
<2>4. CASE \E c \in Clients : ConnectionLost(c) BY <2>4 DEF ConnectionLost
<2> QED BY <1>7, <2>1, <2>2, <2>3, <2>4
<1>8. CASE UNCHANGED vars BY <1>8 DEF vars, conV, lisV, sesV, gateV, tskV, restV
<1> QED BY <1>1, <1>2, <1>3, <1>4, <1>5, <1>6, <1>7, <1>8 DEF Next, TaskStep

\* A step of a task that is not inside _reconnect, and touches no connection.
LEMMA KeepaliveKept ==
  ASSUME TypeOK, KeepaliveDue, NEW t \in Tasks, NEW p, pc' = [pc EXCEPT ![t] = p],
         pc[t] \notin {"rec_video", "rec_vip", "rec_ctpp", "rec_init"}, t = "shutdown" => pc[t] = "idle",
         UNCHANGED <<client, conn, new, keepalive>>
  PROVE KeepaliveDue'
  BY DEF KeepaliveDue, Up, TypeOK, TypeTasks, Tasks

\* A call of async_start_video keeps the keepalive, or begins a _reconnect.
LEMMA KeepaliveStart ==
  ASSUME TypeOK, KeepaliveDue, NEW user, AsyncStartVideo(user)
  PROVE KeepaliveDue'
<1>0. "start" \in Tasks BY DEF Tasks
<1>1. CASE StartGo /\ UNCHANGED <<client, conn, new, keepalive>> /\ pc["start"] = "idle"
  <2>1. \E p \in {"stop_cb", "pause", "idle", "signal"} : pc' = [pc EXCEPT !["start"] = p]
    BY <1>1, StartGoEffect DEF StopSnapshot
  <2> QED BY <1>0, <1>1, <2>1, KeepaliveKept
<1>2. CASE RecBegin("start")
  BY <1>0, <1>2, RecBeginEffect DEF KeepaliveDue, Up, TypeOK, TypeTasks
<1>3. CASE UNCHANGED <<conV, tskV, keepalive>> BY <1>3 DEF KeepaliveDue, Up, conV, tskV
<1> QED BY <1>1, <1>2, <1>3 DEF AsyncStartVideo, Yields, Locked

\* A client is published only by a reconnect that goes on to start its keepalive.
LEMMA KeepaliveStep ==
  ASSUME TypeOK, TypeOK', KeepaliveDue, [Next]_vars
  PROVE KeepaliveDue'
<1> USE DEF KeepaliveDue, Up, TypeOK, TypeTasks, TypeClients, TypeFlags, Tasks, conV, tskV, restV, FreshClient
<1>1. CASE \E t \in Reconnectors : RecStep(t)
<2> PICK t \in Reconnectors : RecStep(t) BY <1>1
<2> t \in Tasks BY DEF Reconnectors, Tasks
<2>1. CASE RecVideoDone(t) BY <2>1 DEF RecVideoDone, RecWithdraw, RecToVip, RecToConnect, AwaitListener
<2>2. CASE RecVipDone(t) BY <2>2 DEF RecVipDone, RecToConnect
<2>3. CASE RecConnectOk(t) BY <2>3 DEF RecConnectOk
<2>4. CASE RecFail(t)
  <3>1. new' = [new EXCEPT ![t] = None] /\ pc' = [pc EXCEPT ![t] = "idle"]
        /\ pc[t] \in {"rec_conn", "rec_setup"} /\ UNCHANGED <<client, keepalive>>
    BY <2>4 DEF RecFail
  <3>2. Up(client)' => Up(client) BY <2>4 DEF RecFail
  <3>3. pc'["shutdown"] = pc["shutdown"] BY <3>1 DEF Reconnectors
  <3> QED BY <3>1, <3>2, <3>3
<2>5. CASE RecSetupOk(t) BY <2>5 DEF RecSetupOk, RecReturn
<2>6. CASE RecCtppOpened(t) BY <2>6 DEF RecCtppOpened
<2>7. CASE RecCtppDone(t) BY <2>7 DEF RecCtppDone, RecReturn
<2>8. CASE RecCtppFailed(t) BY <2>8 DEF RecCtppFailed, RecReturn
<2> QED BY <1>1, <2>1, <2>2, <2>3, <2>4, <2>5, <2>6, <2>7, <2>8 DEF RecStep
<1>2. CASE \E t \in Tasks : StopStep(t)
<2> PICK t \in Tasks : StopStep(t) BY <1>2
<2>1. CASE StopCallbacksDone(t) BY <2>1 DEF StopCallbacksDone, CleanupBegin
<2>2. CASE StopTeardownDone(t) BY <2>2 DEF StopTeardownDone
<2>3. CASE StopReturn(t)
  BY <2>3, KeepaliveKept, CoordinatorAssumption DEF StopReturn
<2>4. CASE DelayedStop(t)
  BY <2>4, KeepaliveKept, CoordinatorAssumption DEF DelayedStop, StopSnapshot
<2> QED BY <1>2, <2>1, <2>2, <2>3, <2>4 DEF StopStep
<1>3. CASE StartStep
<2>1. CASE StartResume BY <2>1 DEF StartResume, StartGo, StopSnapshot, StartPause, StartSession, AwaitListener
<2>2. CASE StartStopped BY <2>2 DEF StartStopped, StartPause, StartSession, AwaitListener
<2>3. CASE StartPaused BY <2>3 DEF StartPaused, StartSession
<2>4. CASE StartSignalled BY <2>4 DEF StartSignalled
<2>5. CASE StartFailed BY <2>5 DEF StartFailed
<2>6. CASE StartPublish BY <2>6 DEF StartPublish
<2>7. CASE StartReturn BY <2>7 DEF StartReturn
<2> QED BY <1>3, <2>1, <2>2, <2>3, <2>4, <2>5, <2>6, <2>7 DEF StartStep
<1>4. CASE RestartNotificationsStopped \/ ShutStep
<2>1. CASE RestartNotificationsStopped BY <2>1 DEF RestartNotificationsStopped
<2>2. CASE ShutVideoStopped BY <2>2 DEF ShutVideoStopped, ShutVip, AwaitListener
<2>3. CASE ShutVipStopped BY <2>3 DEF ShutVipStopped
<2>4. CASE ShutRtspStopped BY <2>4 DEF ShutRtspStopped
<2>5. CASE ShutDisconnected BY <2>5 DEF ShutDisconnected
<2> QED BY <1>4, <2>1, <2>2, <2>3, <2>4, <2>5 DEF ShutStep
<1>5. CASE \E s \in Sessions : SessionStep(s)
<2> PICK s \in Sessions : SessionStep(s) BY <1>5
<2>1. CASE CallEnds(s) BY <2>1 DEF CallEnds
<2>2. CASE TimeoutFires(s) BY <2>2 DEF TimeoutFires
<2>3. CASE TimeoutCallback(s) BY <2>3 DEF TimeoutCallback
<2> QED BY <1>5, <2>1, <2>2, <2>3 DEF SessionStep
<1>6. CASE UserStep
<2>1. CASE PressStart
  BY <2>1, KeepaliveStart DEF PressStart
<2>2. CASE \E t \in StopTasks : PressStop(t) \/ RemoveCamera(t) \/ PressDoor(t) BY <2>2 DEF PressStop, RemoveCamera, PressDoor, AsyncStopVideo, StopSnapshot
<2>3. CASE PressRestartNotifications BY <2>3 DEF PressRestartNotifications, AwaitListener
<2>4. CASE AsyncShutdown BY <2>4 DEF AsyncShutdown, StopSnapshot, ShutVip, AwaitListener
<2> QED BY <1>6, <2>1, <2>2, <2>3, <2>4 DEF UserStep
<1>7. CASE AutoRestart \/ AsyncUpdateData \/ KeepaliveExits \/ \E c \in Clients : ConnectionLost(c)
<2>1. CASE AutoRestart
  BY <2>1, KeepaliveStart DEF AutoRestart
<2>2. CASE AsyncUpdateData BY <2>2 DEF AsyncUpdateData, RecBegin, RecToVip, RecToConnect, AwaitListener
<2>3. CASE KeepaliveExits BY <2>3 DEF KeepaliveExits
<2>4. CASE \E c \in Clients : ConnectionLost(c) BY <2>4 DEF ConnectionLost
<2> QED BY <1>7, <2>1, <2>2, <2>3, <2>4
<1>8. CASE UNCHANGED vars BY <1>8 DEF vars, conV, lisV, sesV, gateV, tskV, restV
<1> QED BY <1>1, <1>2, <1>3, <1>4, <1>5, <1>6, <1>7, <1>8 DEF Next, TaskStep

\* Taking the published session out of its slot leaves it with the task that took it.
LEMMA HeldSnapshot ==
  ASSUME TypeOK, SessionsOwned, HeldInUse, DeadWhenLetGo, NEW t \in Tasks, StopSnapshot(t), video # None,
         UNCHANGED sess, pc[t] \notin {"stop_cb", "stop_tear", "signal", "gate", "rec_video"}
  PROVE HeldInUse' /\ DeadWhenLetGo'
<1> USE DEF HeldInUse, DeadWhenLetGo, SessionsOwned, Owns, Stopping, SlotEmpty, TypeOK, TypeTasks, TypeSessions, Tasks, Reconnectors, FreshSession, sesV, tskV
<1>1. video \in Sessions OBVIOUS
<1>2. HeldInUse' BY <1>1 DEF StopSnapshot
<1>3. DeadWhenLetGo' BY <1>1, CoordinatorAssumption DEF StopSnapshot
<1> QED BY <1>2, <1>3

\* A reconnect holds the published session while it stops it.
LEMMA HeldReconnect ==
  ASSUME TypeOK, SessionsOwned, HeldInUse, DeadWhenLetGo, NEW t \in Reconnectors, RecBegin(t), pc[t] = "idle"
  PROVE HeldInUse' /\ DeadWhenLetGo'
<1> USE DEF HeldInUse, DeadWhenLetGo, SessionsOwned, Owns, Stopping, SlotEmpty, TypeOK, TypeTasks, TypeSessions, Tasks, Reconnectors, FreshSession, sesV, tskV
<1>1. CASE video # None
  <2>1. /\ UNCHANGED video /\ sess' = [sess EXCEPT ![video] = "dead"]
        /\ held' = [held EXCEPT ![t] = video] /\ pc' = [pc EXCEPT ![t] = "rec_video"]
    BY <1>1 DEF RecBegin, CleanupBegin
  <2>2. HeldInUse' BY <2>1
  <2>3. DeadWhenLetGo' BY <1>1, <2>1
  <2> QED BY <2>2, <2>3
<1>2. CASE video = None
  <2>1. /\ UNCHANGED <<video, sess, held>>
        /\ \E p \in {"rec_vip", "rec_conn"} : pc' = [pc EXCEPT ![t] = p]
    BY <1>2 DEF RecBegin, RecToVip, RecToConnect, AwaitListener
  <2>2. HeldInUse' BY <2>1
  <2>3. DeadWhenLetGo' BY <2>1
  <2> QED BY <2>2, <2>3
<1> QED BY <1>1, <1>2

\* A call of async_start_video holds the session it stops or starts.
LEMMA HeldStart ==
  ASSUME TypeOK, SessionsOwned, SlotEmpty, HeldInUse, DeadWhenLetGo, NEW user, AsyncStartVideo(user)
  PROVE HeldInUse' /\ DeadWhenLetGo'
<1> USE DEF HeldInUse, DeadWhenLetGo, SessionsOwned, Owns, Stopping, SlotEmpty, TypeOK, TypeTasks, TypeSessions, Tasks, Reconnectors, FreshSession, sesV, tskV
<1>0. "start" \in Tasks OBVIOUS
<1>1. CASE StartGo /\ pc["start"] = "idle"
  <2>1. CASE StopSnapshot("start") /\ video # None
    BY <1>0, <1>1, <2>1, HeldSnapshot DEF StartGo, StopSnapshot
  <2>2. CASE video = None
    <3>1. HeldInUse' BY <1>1, <2>2, CoordinatorAssumption DEF StartGo, StartPause, StartSession, AwaitListener
    <3>2. DeadWhenLetGo' BY <1>1, <2>2, CoordinatorAssumption DEF StartGo, StartPause, StartSession, AwaitListener
    <3> QED BY <3>1, <3>2
  <2> QED BY <2>1, <2>2, <1>1, StartGoEffect
<1>2. CASE RecBegin("start") /\ pc["start"] = "idle"
  BY <1>2, HeldReconnect
<1>3. CASE UNCHANGED <<sesV, tskV>> BY <1>3
<1> QED BY <1>1, <1>2, <1>3 DEF AsyncStartVideo, Yields, Locked

\* A task holds a session from its snapshot or creation until that session is dead.
LEMMA HeldStep ==
  ASSUME TypeOK, TypeOK', SessionsOwned, SlotEmpty, HeldInUse, DeadWhenLetGo, [Next]_vars
  PROVE HeldInUse' /\ DeadWhenLetGo'
<1> USE DEF HeldInUse, DeadWhenLetGo, SessionsOwned, Owns, Stopping, SlotEmpty, TypeOK, TypeTasks, TypeSessions, Tasks, Reconnectors, FreshSession, sesV, tskV
<1>1. CASE \E t \in Reconnectors : RecStep(t)
<2> PICK t \in Reconnectors : RecStep(t) BY <1>1
<2> t \in Tasks BY DEF Reconnectors, Tasks
<2>1. CASE RecVideoDone(t) BY <2>1 DEF RecVideoDone, RecWithdraw, RecToVip, RecToConnect, AwaitListener
<2>2. CASE RecVipDone(t) BY <2>2 DEF RecVipDone, RecToConnect
<2>3. CASE RecConnectOk(t) BY <2>3 DEF RecConnectOk
<2>4. CASE RecFail(t) BY <2>4 DEF RecFail
<2>5. CASE RecSetupOk(t) BY <2>5 DEF RecSetupOk, RecReturn
<2>6. CASE RecCtppOpened(t) BY <2>6 DEF RecCtppOpened
<2>7. CASE RecCtppDone(t) BY <2>7 DEF RecCtppDone, RecReturn
<2>8. CASE RecCtppFailed(t) BY <2>8 DEF RecCtppFailed, RecReturn
<2> QED BY <1>1, <2>1, <2>2, <2>3, <2>4, <2>5, <2>6, <2>7, <2>8 DEF RecStep
<1>2. CASE \E t \in Tasks : StopStep(t)
<2> PICK t \in Tasks : StopStep(t) BY <1>2
<2>1. CASE StopCallbacksDone(t)
  <3>1. HeldInUse' BY <2>1 DEF StopCallbacksDone, CleanupBegin
  <3>2. DeadWhenLetGo' BY <2>1, CoordinatorAssumption DEF StopCallbacksDone, CleanupBegin
  <3> QED BY <3>1, <3>2
<2>2. CASE StopTeardownDone(t) BY <2>2 DEF StopTeardownDone
<2>3. CASE StopReturn(t) BY <2>3 DEF StopReturn
<2>4. CASE DelayedStop(t) BY <2>4 DEF DelayedStop, StopSnapshot
<2> QED BY <1>2, <2>1, <2>2, <2>3, <2>4 DEF StopStep
<1>3. CASE StartStep
<2>1. CASE StartResume BY <2>1 DEF StartResume, StartGo, StopSnapshot, StartPause, StartSession, AwaitListener
<2>2. CASE StartStopped BY <2>2 DEF StartStopped, StartPause, StartSession, AwaitListener
<2>3. CASE StartPaused BY <2>3 DEF StartPaused, StartSession
<2>4. CASE StartSignalled
  <3>1. /\ UNCHANGED <<video, held>> /\ sess' = [sess EXCEPT ![held["start"]] = "live"]
        /\ pc["start"] = "signal" /\ pc' = [pc EXCEPT !["start"] = "gate"]
    BY <2>4 DEF StartSignalled
  <3>2. HeldInUse' BY <3>1
  <3>3. ASSUME NEW t \in Tasks, pc[t] \in {"stop_tear", "rec_video"}, t \in Reconnectors \/ pc[t] = "stop_tear"
        PROVE held[t] # None /\ sess'[held[t]] = "dead" /\ held[t] # held["start"]
    <4>1. held[t] \in Sessions /\ sess[held[t]] = "dead" BY <3>3
    <4>2. held[t] # held["start"] BY <3>1, <3>3, <4>1
    <4> QED BY <3>1, <4>1, <4>2, CoordinatorAssumption
  <3> QED BY <3>1, <3>2, <3>3
<2>5. CASE StartFailed BY <2>5 DEF StartFailed
<2>6. CASE StartPublish BY <2>6 DEF StartPublish
<2>7. CASE StartReturn BY <2>7 DEF StartReturn
<2> QED BY <1>3, <2>1, <2>2, <2>3, <2>4, <2>5, <2>6, <2>7 DEF StartStep
<1>4. CASE RestartNotificationsStopped \/ ShutStep
<2>1. CASE RestartNotificationsStopped BY <2>1 DEF RestartNotificationsStopped
<2>2. CASE ShutVideoStopped BY <2>2 DEF ShutVideoStopped, ShutVip, AwaitListener
<2>3. CASE ShutVipStopped BY <2>3 DEF ShutVipStopped
<2>4. CASE ShutRtspStopped BY <2>4 DEF ShutRtspStopped
<2>5. CASE ShutDisconnected BY <2>5 DEF ShutDisconnected
<2> QED BY <1>4, <2>1, <2>2, <2>3, <2>4, <2>5 DEF ShutStep
<1>5. CASE \E s \in Sessions : SessionStep(s)
<2> PICK s \in Sessions : SessionStep(s) BY <1>5
<2>1. CASE CallEnds(s) BY <2>1 DEF CallEnds
<2>2. CASE TimeoutFires(s) BY <2>2 DEF TimeoutFires
<2>3. CASE TimeoutCallback(s) BY <2>3 DEF TimeoutCallback
<2> QED BY <1>5, <2>1, <2>2, <2>3 DEF SessionStep
<1>6. CASE UserStep
<2>1. CASE PressStart BY <2>1, HeldStart DEF PressStart
<2>2. CASE \E t \in StopTasks : PressStop(t) \/ RemoveCamera(t) \/ PressDoor(t) BY <2>2 DEF PressStop, RemoveCamera, PressDoor, AsyncStopVideo, StopSnapshot
<2>3. CASE PressRestartNotifications BY <2>3 DEF PressRestartNotifications, AwaitListener
<2>4. CASE AsyncShutdown
  BY <2>4, HeldSnapshot, CoordinatorAssumption DEF AsyncShutdown, ShutVip, AwaitListener, Press
<2> QED BY <1>6, <2>1, <2>2, <2>3, <2>4 DEF UserStep
<1>7. CASE AutoRestart \/ AsyncUpdateData \/ KeepaliveExits \/ \E c \in Clients : ConnectionLost(c)
<2>1. CASE AutoRestart BY <2>1, HeldStart DEF AutoRestart
<2>2. CASE AsyncUpdateData
  BY <2>2, HeldReconnect DEF AsyncUpdateData
<2>3. CASE KeepaliveExits BY <2>3 DEF KeepaliveExits
<2>4. CASE \E c \in Clients : ConnectionLost(c) BY <2>4 DEF ConnectionLost
<2> QED BY <1>7, <2>1, <2>2, <2>3, <2>4
<1>8. CASE UNCHANGED vars BY <1>8 DEF vars, conV, lisV, sesV, gateV, tskV, restV
<1> QED BY <1>1, <1>2, <1>3, <1>4, <1>5, <1>6, <1>7, <1>8 DEF Next, TaskStep

\* No other task ends the session that is being started.
LEMMA StartingStep ==
  ASSUME TypeOK, TypeOK', SessionsOwned, SlotEmpty, StartingLives, [Next]_vars
  PROVE StartingLives'
<1> USE DEF StartingLives, SlotEmpty, SessionsOwned, Owns, Stopping, FreshSession, TypeOK, TypeTasks, TypeSessions, Tasks, sesV, tskV
<1>1. CASE \E t \in Reconnectors : RecStep(t)
<2> PICK t \in Reconnectors : RecStep(t) BY <1>1
<2> t \in Tasks BY DEF Reconnectors, Tasks
<2>1. CASE RecVideoDone(t) BY <2>1 DEF RecVideoDone, RecWithdraw, RecToVip, RecToConnect, AwaitListener
<2>2. CASE RecVipDone(t) BY <2>2 DEF RecVipDone, RecToConnect
<2>3. CASE RecConnectOk(t) BY <2>3 DEF RecConnectOk
<2>4. CASE RecFail(t) BY <2>4 DEF RecFail
<2>5. CASE RecSetupOk(t) BY <2>5 DEF RecSetupOk, RecReturn
<2>6. CASE RecCtppOpened(t) BY <2>6 DEF RecCtppOpened
<2>7. CASE RecCtppDone(t) BY <2>7 DEF RecCtppDone, RecReturn
<2>8. CASE RecCtppFailed(t) BY <2>8 DEF RecCtppFailed, RecReturn
<2> QED BY <1>1, <2>1, <2>2, <2>3, <2>4, <2>5, <2>6, <2>7, <2>8 DEF RecStep
<1>2. CASE \E t \in Tasks : StopStep(t)
<2> PICK t \in Tasks : StopStep(t) BY <1>2
<2>1. CASE StopCallbacksDone(t) BY <2>1 DEF StopCallbacksDone, CleanupBegin
<2>2. CASE StopTeardownDone(t) BY <2>2 DEF StopTeardownDone
<2>3. CASE StopReturn(t) BY <2>3 DEF StopReturn
<2>4. CASE DelayedStop(t) BY <2>4 DEF DelayedStop, StopSnapshot
<2> QED BY <1>2, <2>1, <2>2, <2>3, <2>4 DEF StopStep
<1>3. CASE StartStep
<2>1. CASE StartResume BY <2>1 DEF StartResume, StartGo, StopSnapshot, StartPause, StartSession, AwaitListener
<2>2. CASE StartStopped BY <2>2 DEF StartStopped, StartPause, StartSession, AwaitListener
<2>3. CASE StartPaused BY <2>3 DEF StartPaused, StartSession
<2>4. CASE StartSignalled BY <2>4 DEF StartSignalled
<2>5. CASE StartFailed BY <2>5 DEF StartFailed
<2>6. CASE StartPublish BY <2>6 DEF StartPublish
<2>7. CASE StartReturn BY <2>7 DEF StartReturn
<2> QED BY <1>3, <2>1, <2>2, <2>3, <2>4, <2>5, <2>6, <2>7 DEF StartStep
<1>4. CASE RestartNotificationsStopped \/ ShutStep
<2>1. CASE RestartNotificationsStopped BY <2>1 DEF RestartNotificationsStopped
<2>2. CASE ShutVideoStopped BY <2>2 DEF ShutVideoStopped, ShutVip, AwaitListener
<2>3. CASE ShutVipStopped BY <2>3 DEF ShutVipStopped
<2>4. CASE ShutRtspStopped BY <2>4 DEF ShutRtspStopped
<2>5. CASE ShutDisconnected BY <2>5 DEF ShutDisconnected
<2> QED BY <1>4, <2>1, <2>2, <2>3, <2>4, <2>5 DEF ShutStep
<1>5. CASE \E s \in Sessions : SessionStep(s)
<2> PICK s \in Sessions : SessionStep(s) BY <1>5
<2>1. CASE CallEnds(s) BY <2>1 DEF CallEnds
<2>2. CASE TimeoutFires(s) BY <2>2 DEF TimeoutFires
<2>3. CASE TimeoutCallback(s) BY <2>3 DEF TimeoutCallback
<2> QED BY <1>5, <2>1, <2>2, <2>3 DEF SessionStep
<1>6. CASE UserStep
<2>1. CASE PressStart BY <2>1 DEF PressStart, AsyncStartVideo, Yields, StartGo, RecBegin, RecToVip, RecToConnect, StopSnapshot, StartPause, StartSession, AwaitListener
<2>2. CASE \E t \in StopTasks : PressStop(t) \/ RemoveCamera(t) \/ PressDoor(t) BY <2>2 DEF PressStop, RemoveCamera, PressDoor, AsyncStopVideo, StopSnapshot
<2>3. CASE PressRestartNotifications BY <2>3 DEF PressRestartNotifications, AwaitListener
<2>4. CASE AsyncShutdown BY <2>4 DEF AsyncShutdown, StopSnapshot, ShutVip, AwaitListener
<2> QED BY <1>6, <2>1, <2>2, <2>3, <2>4 DEF UserStep
<1>7. CASE AutoRestart \/ AsyncUpdateData \/ KeepaliveExits \/ \E c \in Clients : ConnectionLost(c)
<2>1. CASE AutoRestart BY <2>1 DEF AutoRestart, AsyncStartVideo, Yields, StartGo, RecBegin, RecToVip, RecToConnect, StopSnapshot, StartPause, StartSession, AwaitListener
<2>2. CASE AsyncUpdateData BY <2>2 DEF AsyncUpdateData, RecBegin, RecToVip, RecToConnect, AwaitListener
<2>3. CASE KeepaliveExits BY <2>3 DEF KeepaliveExits
<2>4. CASE \E c \in Clients : ConnectionLost(c) BY <2>4 DEF ConnectionLost
<2> QED BY <1>7, <2>1, <2>2, <2>3, <2>4
<1>8. CASE UNCHANGED vars BY <1>8 DEF vars, conV, lisV, sesV, gateV, tskV, restV
<1> QED BY <1>1, <1>2, <1>3, <1>4, <1>5, <1>6, <1>7, <1>8 DEF Next, TaskStep

\* A listener that somebody waits for is cancelled and stays so.
LEMMA ListenersStep ==
  ASSUME TypeOK, TypeOK', ListenersStopped, [Next]_vars
  PROVE ListenersStopped'
<1> USE DEF ListenersStopped, AwaitsListener, FreshListener, TypeOK, TypeTasks, TypeListeners, Tasks, lisV, tskV
<1>1. CASE \E t \in Reconnectors : RecStep(t)
<2> PICK t \in Reconnectors : RecStep(t) BY <1>1
<2> t \in Tasks BY DEF Reconnectors, Tasks
<2>1. CASE RecVideoDone(t) BY <2>1 DEF RecVideoDone, RecWithdraw, RecToVip, RecToConnect, AwaitListener
<2>2. CASE RecVipDone(t) BY <2>2 DEF RecVipDone, RecToConnect
<2>3. CASE RecConnectOk(t) BY <2>3 DEF RecConnectOk
<2>4. CASE RecFail(t) BY <2>4 DEF RecFail
<2>5. CASE RecSetupOk(t) BY <2>5 DEF RecSetupOk, RecReturn
<2>6. CASE RecCtppOpened(t) BY <2>6 DEF RecCtppOpened
<2>7. CASE RecCtppDone(t) BY <2>7 DEF RecCtppDone, RecReturn
<2>8. CASE RecCtppFailed(t) BY <2>8 DEF RecCtppFailed, RecReturn
<2> QED BY <1>1, <2>1, <2>2, <2>3, <2>4, <2>5, <2>6, <2>7, <2>8 DEF RecStep
<1>2. CASE \E t \in Tasks : StopStep(t)
<2> PICK t \in Tasks : StopStep(t) BY <1>2
<2>1. CASE StopCallbacksDone(t) BY <2>1 DEF StopCallbacksDone, CleanupBegin
<2>2. CASE StopTeardownDone(t) BY <2>2 DEF StopTeardownDone, EnsureVipListener
<2>3. CASE StopReturn(t) BY <2>3 DEF StopReturn
<2>4. CASE DelayedStop(t) BY <2>4 DEF DelayedStop, StopSnapshot
<2> QED BY <1>2, <2>1, <2>2, <2>3, <2>4 DEF StopStep
<1>3. CASE StartStep
<2>1. CASE StartResume BY <2>1 DEF StartResume, StartGo, StopSnapshot, StartPause, StartSession, AwaitListener
<2>2. CASE StartStopped BY <2>2 DEF StartStopped, StartPause, StartSession, AwaitListener
<2>3. CASE StartPaused BY <2>3 DEF StartPaused, StartSession
<2>4. CASE StartSignalled BY <2>4 DEF StartSignalled
<2>5. CASE StartFailed BY <2>5 DEF StartFailed
<2>6. CASE StartPublish BY <2>6 DEF StartPublish
<2>7. CASE StartReturn BY <2>7 DEF StartReturn
<2> QED BY <1>3, <2>1, <2>2, <2>3, <2>4, <2>5, <2>6, <2>7 DEF StartStep
<1>4. CASE RestartNotificationsStopped \/ ShutStep
<2>1. CASE RestartNotificationsStopped BY <2>1 DEF RestartNotificationsStopped, EnsureVipListener
<2>2. CASE ShutVideoStopped BY <2>2 DEF ShutVideoStopped, ShutVip, AwaitListener
<2>3. CASE ShutVipStopped BY <2>3 DEF ShutVipStopped
<2>4. CASE ShutRtspStopped BY <2>4 DEF ShutRtspStopped
<2>5. CASE ShutDisconnected BY <2>5 DEF ShutDisconnected
<2> QED BY <1>4, <2>1, <2>2, <2>3, <2>4, <2>5 DEF ShutStep
<1>5. CASE \E s \in Sessions : SessionStep(s)
<2> PICK s \in Sessions : SessionStep(s) BY <1>5
<2>1. CASE CallEnds(s) BY <2>1 DEF CallEnds
<2>2. CASE TimeoutFires(s) BY <2>2 DEF TimeoutFires
<2>3. CASE TimeoutCallback(s) BY <2>3 DEF TimeoutCallback
<2> QED BY <1>5, <2>1, <2>2, <2>3 DEF SessionStep
<1>6. CASE UserStep
<2>1. CASE PressStart BY <2>1 DEF PressStart, AsyncStartVideo, Yields, StartGo, RecBegin, RecToVip, RecToConnect, StopSnapshot, StartPause, StartSession, AwaitListener
<2>2. CASE \E t \in StopTasks : PressStop(t) \/ RemoveCamera(t) \/ PressDoor(t) BY <2>2 DEF PressStop, RemoveCamera, PressDoor, AsyncStopVideo, StopSnapshot
<2>3. CASE PressRestartNotifications BY <2>3 DEF PressRestartNotifications, EnsureVipListener, AwaitListener
<2>4. CASE AsyncShutdown BY <2>4 DEF AsyncShutdown, StopSnapshot, ShutVip, AwaitListener
<2> QED BY <1>6, <2>1, <2>2, <2>3, <2>4 DEF UserStep
<1>7. CASE AutoRestart \/ AsyncUpdateData \/ KeepaliveExits \/ \E c \in Clients : ConnectionLost(c)
<2>1. CASE AutoRestart BY <2>1 DEF AutoRestart, AsyncStartVideo, Yields, StartGo, RecBegin, RecToVip, RecToConnect, StopSnapshot, StartPause, StartSession, AwaitListener
<2>2. CASE AsyncUpdateData BY <2>2 DEF AsyncUpdateData, RecBegin, RecToVip, RecToConnect, AwaitListener
<2>3. CASE KeepaliveExits BY <2>3 DEF KeepaliveExits
<2>4. CASE \E c \in Clients : ConnectionLost(c) BY <2>4 DEF ConnectionLost
<2> QED BY <1>7, <2>1, <2>2, <2>3, <2>4
<1>8. CASE UNCHANGED vars BY <1>8 DEF vars, conV, lisV, sesV, gateV, tskV, restV
<1> QED BY <1>1, <1>2, <1>3, <1>4, <1>5, <1>6, <1>7, <1>8 DEF Next, TaskStep

----------------------------------------------------------------------------
(* The inductive invariant and what it implies *)

\* Nothing is held, published or suspended when async_setup has returned.
LEMMA InitInd == Init => IndInv
<1> SUFFICES ASSUME Init PROVE IndInv OBVIOUS
<1>1. TypeOK BY InitType
<1>2. SessionsOwned BY DEF Init, SessionsOwned, Owns, Stopping
<1>3. SlotEmpty BY DEF Init, SlotEmpty
<1>4. KeepaliveDue BY DEF Init, KeepaliveDue
<1>5. ReadyEventMatchesSession BY DEF Init, ReadyEventMatchesSession
<1>6. PlayGateClosed BY DEF Init, PlayGateClosed
<1>7. HeldInUse BY DEF Init, HeldInUse
<1>8. DeadWhenLetGo BY DEF Init, DeadWhenLetGo, Tasks, Reconnectors
<1>9. StartingLives BY DEF Init, StartingLives, Tasks
<1>10. ListenersStopped BY DEF Init, ListenersStopped, AwaitsListener
<1> QED BY <1>1, <1>2, <1>3, <1>4, <1>5, <1>6, <1>7, <1>8, <1>9, <1>10 DEF IndInv

\* Every step of the event loop preserves every conjunct.
LEMMA IndStep == IndInv /\ [Next]_vars => IndInv'
<1> SUFFICES ASSUME IndInv, [Next]_vars PROVE IndInv' OBVIOUS
<1> USE DEF IndInv
<1>1. TypeOK' BY TypeStep
<1>2. SessionsOwned' BY <1>1, OwnedStep
<1>3. SlotEmpty' BY <1>1, SlotStep
<1>4. KeepaliveDue' BY <1>1, KeepaliveStep
<1>5. ReadyEventMatchesSession' BY <1>1, ReadyStep
<1>6. PlayGateClosed' BY <1>1, GateStep
<1>7. HeldInUse' /\ DeadWhenLetGo' BY <1>1, HeldStep
<1>8. StartingLives' BY <1>1, StartingStep
<1>9. ListenersStopped' BY <1>1, ListenersStep
<1> QED BY <1>1, <1>2, <1>3, <1>4, <1>5, <1>6, <1>7, <1>8, <1>9

\* IndInv is an invariant of the coordinator, for any number of clients, sessions and tasks.
THEOREM IndCorrect == Spec => []IndInv
  BY InitInd, IndStep, PTL DEF Spec

\* Overlapping async_stop_video calls never tear down the same session, nor a published one.
THEOREM StopsAreExclusive == Spec => []NoDoubleStop
<1>1. IndInv => NoDoubleStop
  BY CoordinatorAssumption DEF IndInv, SessionsOwned, Owns, NoDoubleStop
<1> QED BY <1>1, IndCorrect, PTL

\* _video_ready_event is set exactly while a session is published.
THEOREM ReadyEventCorrect == Spec => []ReadyEventMatchesSession
<1>1. IndInv => ReadyEventMatchesSession BY DEF IndInv
<1> QED BY <1>1, IndCorrect, PTL

\* No path leaves the PLAY gate open behind a session that is gone.
THEOREM PlayGateCorrect == Spec => []PlayGateClosed
<1>1. IndInv => PlayGateClosed BY DEF IndInv
<1> QED BY <1>1, IndCorrect, PTL

\* Publishing a session never overwrites, and so leaks, another one.
THEOREM StartCorrect == Spec => []StartFindsSlotEmpty
<1>1. IndInv => StartFindsSlotEmpty BY DEF IndInv, SlotEmpty, StartFindsSlotEmpty
<1> QED BY <1>1, IndCorrect, PTL

\* Outside a reconnect a published live connection has its keepalive task.
THEOREM KeepaliveCorrect == Spec => []LiveConnectionKeptAlive
<1>1. ASSUME IndInv, Up(client), pc["shutdown"] = "idle", \A t \in Tasks : ~Reconnecting(t)
      PROVE keepalive
  BY <1>1 DEF IndInv, KeepaliveDue, Reconnecting
<1>2. IndInv => LiveConnectionKeptAlive BY <1>1 DEF LiveConnectionKeptAlive
<1> QED BY <1>2, IndCorrect, PTL

----------------------------------------------------------------------------
(* What a step can lose *)

\* Taking the published session out of its slot leaves it with the task that took it.
LEMMA ReachableSnapshot ==
  ASSUME TypeOK, HeldInUse, NoOrphanSession, NEW t \in Tasks, StopSnapshot(t), video # None,
         UNCHANGED sess, pc[t] \notin {"stop_cb", "stop_tear", "signal", "gate", "rec_video"}
  PROVE NoOrphanSession'
<1> USE DEF HeldInUse, NoOrphanSession, Stopping, TypeOK, TypeTasks, TypeSessions
<1>1. held[t] = None OBVIOUS
<1>2. video' = None /\ held' = [held EXCEPT ![t] = video] BY DEF StopSnapshot
<1>3. \A s \in Sessions : s # None BY CoordinatorAssumption
<1> QED BY <1>1, <1>2, <1>3

\* A reconnect holds the session that it stops.
LEMMA ReachableReconnect ==
  ASSUME TypeOK, HeldInUse, NoOrphanSession, NEW t \in Reconnectors, RecBegin(t), pc[t] = "idle"
  PROVE NoOrphanSession'
<1> USE DEF HeldInUse, NoOrphanSession, Stopping, TypeOK, TypeTasks, TypeSessions
<1>0. t \in Tasks BY DEF Tasks, Reconnectors
<1>1. CASE video # None
  <2>1. /\ UNCHANGED video /\ sess' = [sess EXCEPT ![video] = "dead"]
        /\ held' = [held EXCEPT ![t] = video]
    BY <1>1 DEF RecBegin, CleanupBegin
  <2>2. \A s \in Sessions : sess'[s] # "dead" => sess[s] # "dead" BY <2>1
  <2>3. held[t] = None BY <1>0
  <2>4. \A s \in Sessions : s # None BY CoordinatorAssumption
  <2> QED BY <2>1, <2>2, <2>3, <2>4
<1>2. CASE video = None
  BY <1>2 DEF RecBegin, RecToVip, RecToConnect, AwaitListener
<1> QED BY <1>1, <1>2

\* A call of async_start_video leaves the session it stops or starts with its task.
LEMMA ReachableStart ==
  ASSUME TypeOK, HeldInUse, NoOrphanSession, NEW user, AsyncStartVideo(user)
  PROVE NoOrphanSession'
<1> USE DEF HeldInUse, NoOrphanSession, Stopping, TypeOK, TypeTasks, TypeSessions, sesV, tskV
<1>0. "start" \in Tasks BY DEF Tasks
<1>4. \A s \in Sessions : s # None BY CoordinatorAssumption
<1>1. CASE StartGo /\ pc["start"] = "idle"
  <2>1. CASE StopSnapshot("start") /\ video # None
    BY <1>0, <1>1, <2>1, ReachableSnapshot DEF StartGo
  <2>2. CASE video = None
    BY <1>0, <1>1, <1>4, <2>2 DEF StartGo, StartPause, StartSession, AwaitListener
  <2> QED BY <2>1, <2>2, <1>1, StartGoEffect
<1>2. CASE RecBegin("start") /\ pc["start"] = "idle"
  BY <1>2, ReachableReconnect DEF Reconnectors
<1>3. CASE UNCHANGED <<sesV, tskV>> BY <1>3
<1> QED BY <1>1, <1>2, <1>3 DEF AsyncStartVideo, Yields, Locked

\* An active session stays published or held, unless a reconnect clears a slot that is not the one
\* it stopped the session of.
LEMMA ReachableStep ==
  ASSUME TypeOK, TypeOK', SessionsOwned, SlotEmpty, HeldInUse, DeadWhenLetGo, NoOrphanSession, [Next]_vars,
         \A t \in Reconnectors : RecVideoDone(t) => video \in {held[t], None}
  PROVE NoOrphanSession'
<1> USE DEF NoOrphanSession, SlotEmpty, HeldInUse, DeadWhenLetGo, SessionsOwned, Owns, Stopping, TypeOK, TypeTasks, TypeSessions, Tasks, FreshSession, sesV, tskV
<1>1. CASE \E t \in Reconnectors : RecStep(t)
<2> PICK t \in Reconnectors : RecStep(t) BY <1>1
<2> t \in Tasks BY DEF Reconnectors, Tasks
<2>1. CASE RecVideoDone(t)
  <3>1. video \in {held[t], None} /\ sess[held[t]] = "dead" BY <2>1 DEF RecVideoDone
  <3>2. video' = None /\ held' = [held EXCEPT ![t] = None] /\ UNCHANGED sess
    BY <2>1 DEF RecVideoDone, RecWithdraw, RecToVip, RecToConnect, AwaitListener
  <3> QED BY <3>1, <3>2, CoordinatorAssumption
<2>2. CASE RecVipDone(t) BY <2>2 DEF RecVipDone, RecToConnect
<2>3. CASE RecConnectOk(t) BY <2>3 DEF RecConnectOk
<2>4. CASE RecFail(t) BY <2>4 DEF RecFail
<2>5. CASE RecSetupOk(t) BY <2>5 DEF RecSetupOk, RecReturn
<2>6. CASE RecCtppOpened(t) BY <2>6 DEF RecCtppOpened
<2>7. CASE RecCtppDone(t) BY <2>7 DEF RecCtppDone, RecReturn
<2>8. CASE RecCtppFailed(t) BY <2>8 DEF RecCtppFailed, RecReturn
<2> QED BY <1>1, <2>1, <2>2, <2>3, <2>4, <2>5, <2>6, <2>7, <2>8 DEF RecStep
<1>2. CASE \E t \in Tasks : StopStep(t)
<2> PICK t \in Tasks : StopStep(t) BY <1>2
<2>1. CASE StopCallbacksDone(t) BY <2>1 DEF StopCallbacksDone, CleanupBegin
<2>2. CASE StopTeardownDone(t) BY <2>2 DEF StopTeardownDone
<2>3. CASE StopReturn(t) BY <2>3 DEF StopReturn
<2>4. CASE DelayedStop(t) BY <2>4 DEF DelayedStop, StopSnapshot
<2> QED BY <1>2, <2>1, <2>2, <2>3, <2>4 DEF StopStep
<1>3. CASE StartStep
<2>1. CASE StartResume BY <2>1 DEF StartResume, StartGo, StopSnapshot, StartPause, StartSession, AwaitListener
<2>2. CASE StartStopped BY <2>2, CoordinatorAssumption DEF StartStopped, StartPause, StartSession, AwaitListener
<2>3. CASE StartPaused BY <2>3, CoordinatorAssumption DEF StartPaused, StartSession
<2>4. CASE StartSignalled BY <2>4 DEF StartSignalled
<2>5. CASE StartFailed BY <2>5 DEF StartFailed
<2>6. CASE StartPublish BY <2>6, CoordinatorAssumption DEF StartPublish
<2>7. CASE StartReturn BY <2>7 DEF StartReturn
<2> QED BY <1>3, <2>1, <2>2, <2>3, <2>4, <2>5, <2>6, <2>7 DEF StartStep
<1>4. CASE RestartNotificationsStopped \/ ShutStep
<2>1. CASE RestartNotificationsStopped BY <2>1 DEF RestartNotificationsStopped
<2>2. CASE ShutVideoStopped BY <2>2 DEF ShutVideoStopped, ShutVip, AwaitListener
<2>3. CASE ShutVipStopped BY <2>3 DEF ShutVipStopped
<2>4. CASE ShutRtspStopped BY <2>4 DEF ShutRtspStopped
<2>5. CASE ShutDisconnected BY <2>5 DEF ShutDisconnected
<2> QED BY <1>4, <2>1, <2>2, <2>3, <2>4, <2>5 DEF ShutStep
<1>5. CASE \E s \in Sessions : SessionStep(s)
<2> PICK s \in Sessions : SessionStep(s) BY <1>5
<2>1. CASE CallEnds(s) BY <2>1 DEF CallEnds
<2>2. CASE TimeoutFires(s) BY <2>2 DEF TimeoutFires
<2>3. CASE TimeoutCallback(s) BY <2>3 DEF TimeoutCallback
<2> QED BY <1>5, <2>1, <2>2, <2>3 DEF SessionStep
<1>6. CASE UserStep
<2>1. CASE PressStart BY <2>1, ReachableStart DEF PressStart
<2>2. CASE \E t \in StopTasks : PressStop(t) \/ RemoveCamera(t) \/ PressDoor(t) BY <2>2 DEF PressStop, RemoveCamera, PressDoor, AsyncStopVideo, StopSnapshot
<2>3. CASE PressRestartNotifications BY <2>3 DEF PressRestartNotifications, AwaitListener
<2>4. CASE AsyncShutdown
  BY <2>4, ReachableSnapshot, CoordinatorAssumption DEF AsyncShutdown, ShutVip, AwaitListener, Press
<2> QED BY <1>6, <2>1, <2>2, <2>3, <2>4 DEF UserStep
<1>7. CASE AutoRestart \/ AsyncUpdateData \/ KeepaliveExits \/ \E c \in Clients : ConnectionLost(c)
<2>1. CASE AutoRestart BY <2>1, ReachableStart DEF AutoRestart
<2>2. CASE AsyncUpdateData
  BY <2>2, ReachableReconnect DEF AsyncUpdateData, Reconnectors
<2>3. CASE KeepaliveExits BY <2>3 DEF KeepaliveExits
<2>4. CASE \E c \in Clients : ConnectionLost(c) BY <2>4 DEF ConnectionLost
<2> QED BY <1>7, <2>1, <2>2, <2>3, <2>4
<1>8. CASE UNCHANGED vars BY <1>8 DEF vars, conV, lisV, sesV, gateV, tskV, restV
<1> QED BY <1>1, <1>2, <1>3, <1>4, <1>5, <1>6, <1>7, <1>8 DEF Next, TaskStep

\* A call of async_start_video closes the connection whose client it replaces.
LEMMA ConnectionsStart ==
  ASSUME TypeOK, ConnectionsOwned, NEW user, AsyncStartVideo(user)
  PROVE ConnectionsOwned'
<1>1. CASE StartGo /\ UNCHANGED <<client, conn, new>> /\ pc["start"] = "idle"
  <2>1. \E p \in {"stop_cb", "pause", "idle", "signal"} : pc' = [pc EXCEPT !["start"] = p]
    BY <1>1, StartGoEffect DEF StopSnapshot
  <2> QED BY <1>1, <2>1 DEF ConnectionsOwned, TypeOK, TypeTasks, Tasks, Reconnectors
<1>2. CASE RecBegin("start") /\ pc["start"] = "idle"
  BY <1>2 DEF ConnectionsOwned, TypeOK, TypeTasks, TypeClients, Tasks, Reconnectors, conV,
              RecBegin, RecToVip, RecToConnect, AwaitListener
<1>3. CASE UNCHANGED <<conV, tskV>> BY <1>3 DEF ConnectionsOwned, conV, tskV
<1> QED BY <1>1, <1>2, <1>3 DEF AsyncStartVideo, Yields, Locked

\* A connection that is up stays published or in the hands of the reconnect that sets it up, except in
\* the two places where one is forgotten.
LEMMA OwnedConnections ==
  ASSUME TypeOK, TypeOK', ConnectionsOwned, [Next]_vars,
         \A t \in Reconnectors : RecSetupOk(t) => client = None,
         ShutDisconnected => ~Up(client)
  PROVE ConnectionsOwned'
<1> USE DEF ConnectionsOwned, Up, TypeOK, TypeTasks, TypeClients, Tasks, FreshClient, Reconnectors, conV, tskV
<1>1. CASE \E t \in Reconnectors : RecStep(t)
<2> PICK t \in Reconnectors : RecStep(t) BY <1>1
<2> t \in Tasks BY DEF Reconnectors, Tasks
<2>1. CASE RecVideoDone(t) BY <2>1 DEF RecVideoDone, RecWithdraw, RecToVip, RecToConnect, AwaitListener
<2>2. CASE RecVipDone(t) BY <2>2 DEF RecVipDone, RecToConnect
<2>3. CASE RecConnectOk(t) BY <2>3 DEF RecConnectOk
<2>4. CASE RecFail(t) BY <2>4 DEF RecFail
<2>5. CASE RecSetupOk(t) BY <2>5, CoordinatorAssumption DEF RecSetupOk, RecReturn
<2>6. CASE RecCtppOpened(t) BY <2>6 DEF RecCtppOpened
<2>7. CASE RecCtppDone(t) BY <2>7 DEF RecCtppDone, RecReturn
<2>8. CASE RecCtppFailed(t) BY <2>8 DEF RecCtppFailed, RecReturn
<2> QED BY <1>1, <2>1, <2>2, <2>3, <2>4, <2>5, <2>6, <2>7, <2>8 DEF RecStep
<1>2. CASE \E t \in Tasks : StopStep(t)
<2> PICK t \in Tasks : StopStep(t) BY <1>2
<2>1. CASE StopCallbacksDone(t) BY <2>1 DEF StopCallbacksDone, CleanupBegin
<2>2. CASE StopTeardownDone(t) BY <2>2 DEF StopTeardownDone
<2>3. CASE StopReturn(t) BY <2>3 DEF StopReturn
<2>4. CASE DelayedStop(t) BY <2>4 DEF DelayedStop, StopSnapshot
<2> QED BY <1>2, <2>1, <2>2, <2>3, <2>4 DEF StopStep
<1>3. CASE StartStep
<2>1. CASE StartResume BY <2>1 DEF StartResume, StartGo, StopSnapshot, StartPause, StartSession, AwaitListener
<2>2. CASE StartStopped BY <2>2 DEF StartStopped, StartPause, StartSession, AwaitListener
<2>3. CASE StartPaused BY <2>3 DEF StartPaused, StartSession
<2>4. CASE StartSignalled BY <2>4 DEF StartSignalled
<2>5. CASE StartFailed BY <2>5 DEF StartFailed
<2>6. CASE StartPublish BY <2>6 DEF StartPublish
<2>7. CASE StartReturn BY <2>7 DEF StartReturn
<2> QED BY <1>3, <2>1, <2>2, <2>3, <2>4, <2>5, <2>6, <2>7 DEF StartStep
<1>4. CASE RestartNotificationsStopped \/ ShutStep
<2>1. CASE RestartNotificationsStopped BY <2>1 DEF RestartNotificationsStopped
<2>2. CASE ShutVideoStopped BY <2>2 DEF ShutVideoStopped, ShutVip, AwaitListener
<2>3. CASE ShutVipStopped BY <2>3 DEF ShutVipStopped
<2>4. CASE ShutRtspStopped BY <2>4 DEF ShutRtspStopped
<2>5. CASE ShutDisconnected BY <2>5 DEF ShutDisconnected
<2> QED BY <1>4, <2>1, <2>2, <2>3, <2>4, <2>5 DEF ShutStep
<1>5. CASE \E s \in Sessions : SessionStep(s)
<2> PICK s \in Sessions : SessionStep(s) BY <1>5
<2>1. CASE CallEnds(s) BY <2>1 DEF CallEnds
<2>2. CASE TimeoutFires(s) BY <2>2 DEF TimeoutFires
<2>3. CASE TimeoutCallback(s) BY <2>3 DEF TimeoutCallback
<2> QED BY <1>5, <2>1, <2>2, <2>3 DEF SessionStep
<1>6. CASE UserStep
<2>1. CASE PressStart BY <2>1, ConnectionsStart DEF PressStart
<2>2. CASE \E t \in StopTasks : PressStop(t) \/ RemoveCamera(t) \/ PressDoor(t) BY <2>2 DEF PressStop, RemoveCamera, PressDoor, AsyncStopVideo, StopSnapshot
<2>3. CASE PressRestartNotifications BY <2>3 DEF PressRestartNotifications, AwaitListener
<2>4. CASE AsyncShutdown BY <2>4 DEF AsyncShutdown, StopSnapshot, ShutVip, AwaitListener
<2> QED BY <1>6, <2>1, <2>2, <2>3, <2>4 DEF UserStep
<1>7. CASE AutoRestart \/ AsyncUpdateData \/ KeepaliveExits \/ \E c \in Clients : ConnectionLost(c)
<2>1. CASE AutoRestart BY <2>1, ConnectionsStart DEF AutoRestart
<2>2. CASE AsyncUpdateData BY <2>2 DEF AsyncUpdateData, RecBegin, RecToVip, RecToConnect, AwaitListener
<2>3. CASE KeepaliveExits BY <2>3 DEF KeepaliveExits
<2>4. CASE \E c \in Clients : ConnectionLost(c) BY <2>4 DEF ConnectionLost
<2> QED BY <1>7, <2>1, <2>2, <2>3, <2>4
<1>8. CASE UNCHANGED vars BY <1>8 DEF vars, conV, lisV, sesV, gateV, tskV, restV
<1> QED BY <1>1, <1>2, <1>3, <1>4, <1>5, <1>6, <1>7, <1>8 DEF Next, TaskStep

\* A listener that runs stays the coordinator's own, except in the two places where one is forgotten.
LEMMA OwnedListeners ==
  ASSUME TypeOK, TypeOK', ListenersStopped, ListenersOwned, [Next]_vars,
         \A t \in Reconnectors : RecCtppDone(t) => vip = None,
         \A t \in Tasks : AwaitsListener(t) /\ lheld'[t] = None => vip \in {lheld[t], None}
  PROVE ListenersOwned'
<1> USE CoordinatorAssumption DEF ListenersOwned, ListenersStopped, AwaitsListener, FreshListener, TypeOK, TypeTasks, TypeListeners, Tasks, lisV, tskV
<1>1. CASE \E t \in Reconnectors : RecStep(t)
<2> PICK t \in Reconnectors : RecStep(t) BY <1>1
<2> t \in Tasks BY DEF Reconnectors, Tasks
<2>1. CASE RecVideoDone(t) BY <2>1 DEF RecVideoDone, RecWithdraw, RecToVip, RecToConnect, AwaitListener
<2>2. CASE RecVipDone(t) BY <2>2 DEF RecVipDone, RecToConnect
<2>3. CASE RecConnectOk(t) BY <2>3 DEF RecConnectOk
<2>4. CASE RecFail(t) BY <2>4 DEF RecFail
<2>5. CASE RecSetupOk(t) BY <2>5 DEF RecSetupOk, RecReturn
<2>6. CASE RecCtppOpened(t) BY <2>6 DEF RecCtppOpened
<2>7. CASE RecCtppDone(t)
  <3>1. vip = None BY <2>7
  <3>2. \E l \in Listeners : vip' = l /\ listen' = [listen EXCEPT ![l] = new[t]] BY <2>7 DEF RecCtppDone
  <3> QED BY <3>1, <3>2
<2>8. CASE RecCtppFailed(t) BY <2>8 DEF RecCtppFailed, RecReturn
<2> QED BY <1>1, <2>1, <2>2, <2>3, <2>4, <2>5, <2>6, <2>7, <2>8 DEF RecStep
<1>2. CASE \E t \in Tasks : StopStep(t)
<2> PICK t \in Tasks : StopStep(t) BY <1>2
<2>1. CASE StopCallbacksDone(t) BY <2>1 DEF StopCallbacksDone, CleanupBegin
<2>2. CASE StopTeardownDone(t) BY <2>2 DEF StopTeardownDone, EnsureVipListener
<2>3. CASE StopReturn(t) BY <2>3 DEF StopReturn
<2>4. CASE DelayedStop(t) BY <2>4 DEF DelayedStop, StopSnapshot
<2> QED BY <1>2, <2>1, <2>2, <2>3, <2>4 DEF StopStep
<1>3. CASE StartStep
<2>1. CASE StartResume BY <2>1 DEF StartResume, StartGo, StopSnapshot, StartPause, StartSession, AwaitListener
<2>2. CASE StartStopped BY <2>2 DEF StartStopped, StartPause, StartSession, AwaitListener
<2>3. CASE StartPaused BY <2>3 DEF StartPaused, StartSession
<2>4. CASE StartSignalled BY <2>4 DEF StartSignalled
<2>5. CASE StartFailed BY <2>5 DEF StartFailed
<2>6. CASE StartPublish BY <2>6 DEF StartPublish
<2>7. CASE StartReturn BY <2>7 DEF StartReturn
<2> QED BY <1>3, <2>1, <2>2, <2>3, <2>4, <2>5, <2>6, <2>7 DEF StartStep
<1>4. CASE RestartNotificationsStopped \/ ShutStep
<2>1. CASE RestartNotificationsStopped BY <2>1 DEF RestartNotificationsStopped, EnsureVipListener
<2>2. CASE ShutVideoStopped BY <2>2 DEF ShutVideoStopped, ShutVip, AwaitListener
<2>3. CASE ShutVipStopped BY <2>3 DEF ShutVipStopped
<2>4. CASE ShutRtspStopped BY <2>4 DEF ShutRtspStopped
<2>5. CASE ShutDisconnected BY <2>5 DEF ShutDisconnected
<2> QED BY <1>4, <2>1, <2>2, <2>3, <2>4, <2>5 DEF ShutStep
<1>5. CASE \E s \in Sessions : SessionStep(s)
<2> PICK s \in Sessions : SessionStep(s) BY <1>5
<2>1. CASE CallEnds(s) BY <2>1 DEF CallEnds
<2>2. CASE TimeoutFires(s) BY <2>2 DEF TimeoutFires
<2>3. CASE TimeoutCallback(s) BY <2>3 DEF TimeoutCallback
<2> QED BY <1>5, <2>1, <2>2, <2>3 DEF SessionStep
<1>6. CASE UserStep
<2>1. CASE PressStart BY <2>1 DEF PressStart, AsyncStartVideo, Yields, StartGo, RecBegin, RecToVip, RecToConnect, StopSnapshot, StartPause, StartSession, AwaitListener
<2>2. CASE \E t \in StopTasks : PressStop(t) \/ RemoveCamera(t) \/ PressDoor(t) BY <2>2 DEF PressStop, RemoveCamera, PressDoor, AsyncStopVideo, StopSnapshot
<2>3. CASE PressRestartNotifications BY <2>3 DEF PressRestartNotifications, EnsureVipListener, AwaitListener
<2>4. CASE AsyncShutdown BY <2>4 DEF AsyncShutdown, StopSnapshot, ShutVip, AwaitListener
<2> QED BY <1>6, <2>1, <2>2, <2>3, <2>4 DEF UserStep
<1>7. CASE AutoRestart \/ AsyncUpdateData \/ KeepaliveExits \/ \E c \in Clients : ConnectionLost(c)
<2>1. CASE AutoRestart BY <2>1 DEF AutoRestart, AsyncStartVideo, Yields, StartGo, RecBegin, RecToVip, RecToConnect, StopSnapshot, StartPause, StartSession, AwaitListener
<2>2. CASE AsyncUpdateData BY <2>2 DEF AsyncUpdateData, RecBegin, RecToVip, RecToConnect, AwaitListener
<2>3. CASE KeepaliveExits BY <2>3 DEF KeepaliveExits
<2>4. CASE \E c \in Clients : ConnectionLost(c) BY <2>4 DEF ConnectionLost
<2> QED BY <1>7, <2>1, <2>2, <2>3, <2>4
<1>8. CASE UNCHANGED vars BY <1>8 DEF vars, conV, lisV, sesV, gateV, tskV, restV
<1> QED BY <1>1, <1>2, <1>3, <1>4, <1>5, <1>6, <1>7, <1>8 DEF Next, TaskStep

\* Sessions, connections and listeners are lost nowhere but in the steps that LostOnlyThere names.
THEOREM NothingElseIsLost == Spec => LostOnlyThere
<1>1. IndInv /\ IndInv' /\ [Next]_vars =>
        [NoOrphanSession /\ ~NoOrphanSession' =>
           \E t \in Reconnectors : RecVideoDone(t) /\ video \notin {held[t], None}]_vars
  BY ReachableStep DEF IndInv
<1>2. IndInv /\ IndInv' /\ [Next]_vars =>
        [ConnectionsOwned /\ ~ConnectionsOwned' =>
           \/ \E t \in Reconnectors : RecSetupOk(t) /\ client # None
           \/ ShutDisconnected /\ Up(client)]_vars
  BY OwnedConnections DEF IndInv
<1>3. IndInv /\ IndInv' /\ [Next]_vars =>
        [ListenersOwned /\ ~ListenersOwned' =>
           \/ \E t \in Reconnectors : RecCtppDone(t) /\ vip # None
           \/ \E t \in Tasks : AwaitsListener(t) /\ lheld'[t] = None /\ vip \notin {lheld[t], None}]_vars
  BY OwnedListeners DEF IndInv
<1> QED BY <1>1, <1>2, <1>3, IndCorrect, PTL
        DEF Spec, LostOnlyThere, SessionsLostOnlyThere, ConnectionsLostOnlyThere, ListenersLostOnlyThere

\* The step formula of StopStands.
StandsStep ==
  /\ ~Locked /\ (\E t \in StopTasks : PressStop(t) \/ PressDoor(t)) => StoppedByUser'
  /\ StoppedByUser /\ ~StoppedByUser' => PressStart

\* A user stop takes the session out of its slot, or announces the stop that will.
LEMMA StopsNow ==
  ASSUME TypeOK, ~Locked, NEW t \in StopTasks, PressStop(t) \/ PressDoor(t)
  PROVE StoppedByUser'
<1> USE CoordinatorAssumption DEF StoppedByUser, Locked, TypeOK, TypeTasks, Tasks, sesV, tskV
<1>1. CASE PressStop(t) BY <1>1 DEF PressStop, AsyncStopVideo, StopSnapshot
<1>2. CASE PressDoor(t) BY <1>2 DEF PressDoor
<1> QED BY <1>1, <1>2

\* Only a start sets the flag back or publishes, and only the user starts while it is set.
LEMMA StandsOn ==
  ASSUME TypeOK, TypeOK', StoppedByUser, [Next]_vars, ~PressStart
  PROVE StoppedByUser'
<1> USE CoordinatorAssumption DEF StoppedByUser, Locked, FreshSession, TypeOK, TypeTasks, TypeSessions, Tasks, sesV, tskV, restV
<1>1. CASE \E t \in Reconnectors : RecStep(t)
<2> PICK t \in Reconnectors : RecStep(t) BY <1>1
<2> t \in Tasks BY DEF Reconnectors, Tasks
<2>1. CASE RecVideoDone(t) BY <2>1 DEF RecVideoDone, RecWithdraw, RecToVip, RecToConnect, AwaitListener
<2>2. CASE RecVipDone(t) BY <2>2 DEF RecVipDone, RecToConnect
<2>3. CASE RecConnectOk(t) BY <2>3 DEF RecConnectOk
<2>4. CASE RecFail(t) BY <2>4 DEF RecFail
<2>5. CASE RecSetupOk(t) BY <2>5 DEF RecSetupOk, RecReturn
<2>6. CASE RecCtppOpened(t) BY <2>6 DEF RecCtppOpened
<2>7. CASE RecCtppDone(t) BY <2>7 DEF RecCtppDone, RecReturn
<2>8. CASE RecCtppFailed(t) BY <2>8 DEF RecCtppFailed, RecReturn
<2> QED BY <1>1, <2>1, <2>2, <2>3, <2>4, <2>5, <2>6, <2>7, <2>8 DEF RecStep
<1>2. CASE \E t \in Tasks : StopStep(t)
<2> PICK t \in Tasks : StopStep(t) BY <1>2
<2>1. CASE StopCallbacksDone(t) BY <2>1 DEF StopCallbacksDone, CleanupBegin
<2>2. CASE StopTeardownDone(t) BY <2>2 DEF StopTeardownDone
<2>3. CASE StopReturn(t) BY <2>3 DEF StopReturn
<2>4. CASE DelayedStop(t) BY <2>4 DEF DelayedStop, StopSnapshot
<2> QED BY <1>2, <2>1, <2>2, <2>3, <2>4 DEF StopStep
<1>3. CASE StartStep
<2>1. CASE StartResume BY <2>1 DEF StartResume, StartGo, StopSnapshot, StartPause, StartSession, AwaitListener
<2>2. CASE StartStopped BY <2>2 DEF StartStopped, StartPause, StartSession, AwaitListener
<2>3. CASE StartPaused BY <2>3 DEF StartPaused, StartSession
<2>4. CASE StartSignalled BY <2>4 DEF StartSignalled
<2>5. CASE StartFailed BY <2>5 DEF StartFailed
<2>6. CASE StartPublish BY <2>6 DEF StartPublish
<2>7. CASE StartReturn BY <2>7 DEF StartReturn
<2> QED BY <1>3, <2>1, <2>2, <2>3, <2>4, <2>5, <2>6, <2>7 DEF StartStep
<1>4. CASE RestartNotificationsStopped \/ ShutStep
<2>1. CASE RestartNotificationsStopped BY <2>1 DEF RestartNotificationsStopped
<2>2. CASE ShutVideoStopped BY <2>2 DEF ShutVideoStopped, ShutVip, AwaitListener
<2>3. CASE ShutVipStopped BY <2>3 DEF ShutVipStopped
<2>4. CASE ShutRtspStopped BY <2>4 DEF ShutRtspStopped
<2>5. CASE ShutDisconnected BY <2>5 DEF ShutDisconnected
<2> QED BY <1>4, <2>1, <2>2, <2>3, <2>4, <2>5 DEF ShutStep
<1>5. CASE \E s \in Sessions : SessionStep(s)
<2> PICK s \in Sessions : SessionStep(s) BY <1>5
<2>1. CASE CallEnds(s) BY <2>1 DEF CallEnds
<2>2. CASE TimeoutFires(s) BY <2>2 DEF TimeoutFires
<2>3. CASE TimeoutCallback(s) BY <2>3 DEF TimeoutCallback
<2> QED BY <1>5, <2>1, <2>2, <2>3 DEF SessionStep
<1>6. CASE UserStep
<2>1. CASE PressStart BY <2>1
<2>2. CASE \E t \in StopTasks : PressStop(t) \/ RemoveCamera(t) \/ PressDoor(t)
  <3> PICK t \in StopTasks : PressStop(t) \/ RemoveCamera(t) \/ PressDoor(t) BY <2>2
  <3>1. t # "start" OBVIOUS
  <3>2. CASE PressStop(t) BY <3>1, <3>2 DEF PressStop, AsyncStopVideo, StopSnapshot
  <3>3. CASE RemoveCamera(t) BY <3>1, <3>3 DEF RemoveCamera, AsyncStopVideo, StopSnapshot
  <3>4. CASE PressDoor(t) BY <3>1, <3>4 DEF PressDoor
  <3> QED BY <3>2, <3>3, <3>4
<2>3. CASE PressRestartNotifications BY <2>3 DEF PressRestartNotifications, AwaitListener
<2>4. CASE AsyncShutdown BY <2>4 DEF AsyncShutdown, StopSnapshot, ShutVip, AwaitListener
<2> QED BY <1>6, <2>1, <2>2, <2>3, <2>4 DEF UserStep
<1>7. CASE AutoRestart \/ AsyncUpdateData \/ KeepaliveExits \/ \E c \in Clients : ConnectionLost(c)
<2>1. CASE AutoRestart BY <2>1 DEF AutoRestart, AsyncStartVideo, Yields
<2>2. CASE AsyncUpdateData
  <3>1. UNCHANGED userStop /\ pc'["start"] = pc["start"] BY <2>2 DEF AsyncUpdateData, RecBegin, RecToVip, RecToConnect, AwaitListener
  <3>2. UNCHANGED video /\ (sess' = sess \/ (video # None /\ sess' = [sess EXCEPT ![video] = "dead"]))
    BY <2>2 DEF AsyncUpdateData, RecBegin, CleanupBegin
  <3>3. \A t \in StopTasks : pc'[t] = pc[t]
    BY <2>2 DEF AsyncUpdateData, RecBegin, RecToVip, RecToConnect, AwaitListener
  <3>4. video # None => sess'[video] # "live" \/ sess'[video] = sess[video] BY <3>2
  <3> QED BY <3>1, <3>2, <3>3, <3>4
<2>3. CASE KeepaliveExits BY <2>3 DEF KeepaliveExits
<2>4. CASE \E c \in Clients : ConnectionLost(c) BY <2>4 DEF ConnectionLost
<2> QED BY <1>7, <2>1, <2>2, <2>3, <2>4
<1>8. CASE UNCHANGED vars BY <1>8 DEF vars, conV, lisV, sesV, gateV, tskV, restV
<1> QED BY <1>1, <1>2, <1>3, <1>4, <1>5, <1>6, <1>7, <1>8 DEF Next, TaskStep

\* A user stop, with no start under way, stands until the user starts video.
THEOREM UserStopStands == Spec => StopStands
<1>1. IndInv /\ IndInv' /\ [Next]_vars => [StandsStep]_vars
  BY StopsNow, StandsOn DEF IndInv, StandsStep
<1> QED BY <1>1, IndCorrect, PTL DEF Spec, StopStands, StandsStep

\* Without drops the health check never reconnects, and a start only after the unload.
LEMMA ConnectedStep ==
  ASSUME MaxDrops = 0, TypeOK, TypeOK', SessionsOwned, SlotEmpty, Connected, [Next]_vars
  PROVE Connected'
<1> USE DEF Connected, Up, Reconnecting, TypeOK, TypeTasks, TypeClients, TypeCounters, TypeFlags, Tasks, Press, conV, sesV, tskV, pollV, envV, restV
<1>1. CASE \E t \in Reconnectors : RecStep(t)
<2> PICK t \in Reconnectors : RecStep(t) BY <1>1
<2>1. pc[t] \in {"rec_video", "rec_vip", "rec_conn", "rec_setup", "rec_ctpp", "rec_init"}
  BY DEF RecStep, RecVideoDone, RecVipDone, RecConnectOk, RecFail, RecSetupOk, RecCtppOpened,
         RecCtppDone, RecCtppFailed
<2>2. t = "start" /\ pc["shutdown"] \in {"sd_disc", "done"} BY <2>1 DEF Reconnectors
<2>3. UNCHANGED <<drops, refresh>> /\ \E p : p # "rec_video" /\ pc' = [pc EXCEPT ![t] = p]
  <3>1. CASE RecVideoDone(t) \/ RecVipDone(t) \/ RecConnectOk(t)
    BY <3>1 DEF RecVideoDone, RecVipDone, RecConnectOk, RecToVip, RecToConnect, AwaitListener
  <3>2. CASE RecFail(t) \/ RecSetupOk(t)
    BY <3>2 DEF RecFail, CountFailure, RecSetupOk, RecReturn
  <3>3. CASE RecCtppOpened(t) \/ RecCtppDone(t) \/ RecCtppFailed(t)
    BY <3>3 DEF RecCtppOpened, RecCtppDone, RecCtppFailed, RecReturn
  <3> QED BY <3>1, <3>2, <3>3 DEF RecStep
<2> QED BY <2>2, <2>3
<1>2. CASE \E t \in Tasks : StopStep(t)
<2> PICK t \in Tasks : StopStep(t) BY <1>2
<2>1. CASE StopCallbacksDone(t) BY <2>1 DEF StopCallbacksDone, CleanupBegin
<2>2. CASE StopTeardownDone(t) BY <2>2 DEF StopTeardownDone
<2>3. CASE StopReturn(t) BY <2>3 DEF StopReturn
<2>4. CASE DelayedStop(t) BY <2>4 DEF DelayedStop, StopSnapshot
<2> QED BY <1>2, <2>1, <2>2, <2>3, <2>4 DEF StopStep
<1>3. CASE StartStep
<2>1. CASE StartResume BY <2>1 DEF StartResume, StartGo, StopSnapshot, StartPause, StartSession, AwaitListener
<2>2. CASE StartStopped BY <2>2 DEF StartStopped, StartPause, StartSession, AwaitListener
<2>3. CASE StartPaused BY <2>3 DEF StartPaused, StartSession
<2>4. CASE StartSignalled BY <2>4 DEF StartSignalled
<2>5. CASE StartFailed BY <2>5 DEF StartFailed
<2>6. CASE StartPublish BY <2>6 DEF StartPublish
<2>7. CASE StartReturn BY <2>7 DEF StartReturn
<2> QED BY <1>3, <2>1, <2>2, <2>3, <2>4, <2>5, <2>6, <2>7 DEF StartStep
<1>4. CASE RestartNotificationsStopped \/ ShutStep
<2>1. CASE RestartNotificationsStopped BY <2>1 DEF RestartNotificationsStopped
<2>2. CASE ShutVideoStopped BY <2>2 DEF ShutVideoStopped, ShutVip, AwaitListener
<2>3. CASE ShutVipStopped BY <2>3 DEF ShutVipStopped
<2>4. CASE ShutRtspStopped BY <2>4 DEF ShutRtspStopped
<2>5. CASE ShutDisconnected BY <2>5 DEF ShutDisconnected
<2> QED BY <1>4, <2>1, <2>2, <2>3, <2>4, <2>5 DEF ShutStep
<1>5. CASE \E s \in Sessions : SessionStep(s)
<2> PICK s \in Sessions : SessionStep(s) BY <1>5
<2>1. CASE CallEnds(s) BY <2>1 DEF CallEnds
<2>2. CASE TimeoutFires(s) BY <2>2 DEF TimeoutFires
<2>3. CASE TimeoutCallback(s) BY <2>3 DEF TimeoutCallback
<2> QED BY <1>5, <2>1, <2>2, <2>3 DEF SessionStep
<1>6. CASE UserStep
<2>1. CASE PressStart BY <2>1 DEF PressStart, AsyncStartVideo, Yields, StartGo, RecBegin, RecToVip, RecToConnect, StopSnapshot, StartPause, StartSession, AwaitListener
<2>2. CASE \E t \in StopTasks : PressStop(t) \/ RemoveCamera(t) \/ PressDoor(t)
  <3> PICK t \in StopTasks : PressStop(t) \/ RemoveCamera(t) \/ PressDoor(t) BY <2>2
  <3>1. UNCHANGED <<drops, refresh, client, conn>> /\ pc[t] = "idle" /\ video' \in {video, None}
        /\ (UNCHANGED pc \/ \E p : pc' = [pc EXCEPT ![t] = p])
        /\ (UNCHANGED held \/ \E x : held' = [held EXCEPT ![t] = x])
    BY DEF PressStop, RemoveCamera, PressDoor, AsyncStopVideo, StopSnapshot
  <3> QED BY <3>1, CoordinatorAssumption
<2>3. CASE PressRestartNotifications BY <2>3 DEF PressRestartNotifications, AwaitListener
<2>4. CASE AsyncShutdown BY <2>4 DEF AsyncShutdown, StopSnapshot, ShutVip, AwaitListener
<2> QED BY <1>6, <2>1, <2>2, <2>3, <2>4 DEF UserStep
<1>7. CASE AutoRestart \/ AsyncUpdateData \/ KeepaliveExits \/ \E c \in Clients : ConnectionLost(c)
<2>1. CASE AutoRestart BY <2>1 DEF AutoRestart, AsyncStartVideo, Yields, StartGo, RecBegin, RecToVip, RecToConnect, StopSnapshot, StartPause, StartSession, AwaitListener
<2>2. CASE AsyncUpdateData
  <3>1. Healthy BY <2>2 DEF AsyncUpdateData, Healthy
  <3> QED BY <2>2, <3>1 DEF AsyncUpdateData
<2>3. CASE KeepaliveExits BY <2>3 DEF KeepaliveExits
<2>4. CASE \E c \in Clients : ConnectionLost(c) BY <2>4 DEF ConnectionLost
<2> QED BY <1>7, <2>1, <2>2, <2>3, <2>4
<1>8. CASE UNCHANGED vars BY <1>8 DEF vars, conV, lisV, sesV, gateV, tskV, restV
<1> QED BY <1>1, <1>2, <1>3, <1>4, <1>5, <1>6, <1>7, <1>8 DEF Next, TaskStep

\* As long as no connection is dropped, nothing is lost at all.
THEOREM UndroppedCorrect ==
  ASSUME MaxDrops = 0
  PROVE  Spec => []UndroppedInv
<1>1. Init => UndroppedInv
  <2> SUFFICES ASSUME Init PROVE UndroppedInv OBVIOUS
  <2>1. IndInv BY InitInd
  <2>2. Connected BY CoordinatorAssumption DEF Init, Connected, Up, Reconnecting, Tasks
  <2>3. NoOrphanSession BY DEF Init, NoOrphanSession
  <2> QED BY <2>1, <2>2, <2>3 DEF UndroppedInv
<1>2. UndroppedInv /\ [Next]_vars => UndroppedInv'
  <2> SUFFICES ASSUME UndroppedInv, [Next]_vars PROVE UndroppedInv' OBVIOUS
  <2>1. IndInv' BY IndStep DEF UndroppedInv
  <2>2. Connected' BY <2>1, ConnectedStep DEF UndroppedInv, IndInv
  <2>3. \A t \in Reconnectors : RecVideoDone(t) => video \in {held[t], None}
    BY DEF UndroppedInv, Connected, RecVideoDone, Reconnectors
  <2>4. NoOrphanSession' BY <2>1, <2>3, ReachableStep DEF UndroppedInv, IndInv
  <2> QED BY <2>1, <2>2, <2>4 DEF UndroppedInv
<1> QED BY <1>1, <1>2, PTL DEF Spec

\* As long as no connection is dropped, a stop can still reach every active session.
THEOREM SessionsReachable ==
  ASSUME MaxDrops = 0
  PROVE  Spec => []NoOrphanSession
<1>1. UndroppedInv => NoOrphanSession BY DEF UndroppedInv
<1> QED BY <1>1, UndroppedCorrect, PTL
==============================================================================
