------------------------ MODULE CoordinatorSlotProofs ------------------------
(* Coordinator implements the safety part of VideoSlot, under the mapping of CoordinatorSlot. *)
EXTENDS CoordinatorSlot, CoordinatorProofs

\* Where a task stands when the slot knows of it: stopping a session, or starting one.
Slotted == {"stop_cb", "stop_tear", "signal", "gate"}

\* A step between other awaits neither starts nor stops a session.
LEMMA BarsKept ==
  ASSUME \A u \in Tasks : \/ pc'[u] = pc[u] /\ held'[u] = held[u]
                          \/ pc[u] \notin Slotted /\ pc'[u] \notin Slotted
  PROVE startingBar' = startingBar /\ stoppingBar' = stoppingBar
  BY DEF Slotted, startingBar, stoppingBar, Stopping, Tasks

\* The sessions that talk to the device change with sess alone, ...
LEMMA ActiveKept ==
  ASSUME UNCHANGED sess PROVE activeBar' = activeBar
  BY DEF activeBar

\* ... which loses the one that dies ...
LEMMA ActiveDies ==
  ASSUME TypeOK, NEW s, sess' = [sess EXCEPT ![s] = "dead"] PROVE activeBar' = activeBar \ {s}
  BY DEF activeBar, TypeOK, TypeSessions

\* ... and gains the one that starts.
LEMMA ActiveStarts ==
  ASSUME TypeOK, NEW s \in Sessions, NEW x \in {"signal", "live"}, sess' = [sess EXCEPT ![s] = x]
  PROVE activeBar' = activeBar \cup {s}
  BY DEF activeBar, TypeOK, TypeSessions

\* A snapshot of async_stop_video withdraws the published session.
LEMMA WithdrawStep ==
  ASSUME IndInv, NEW t \in Tasks, StopSnapshot(t), video # None, UNCHANGED <<sess, rtsp>>, pc[t] \notin Slotted
  PROVE Slot!Withdraw
<1> USE DEF IndInv, TypeOK, TypeTasks, TypeSessions, Slotted
<1>1. pc' = [pc EXCEPT ![t] = "stop_cb"] /\ held' = [held EXCEPT ![t] = video] BY DEF StopSnapshot
<1>2. startingBar' = startingBar BY <1>1 DEF startingBar, Tasks
<1>3. stoppingBar' = stoppingBar \cup {video} BY <1>1 DEF stoppingBar, Stopping
<1> QED BY <1>2, <1>3, ActiveKept DEF StopSnapshot, Slot!Withdraw

\* session.start() begins a session of which nothing is left, or fails at once.
LEMMA BeginStep ==
  ASSUME IndInv, StartSession, video = None, UNCHANGED <<video, ready, rtsp>>, pc["start"] \notin Slotted
  PROVE [Slot!Next]_(Slot!vars)
<1> USE DEF IndInv, TypeOK, TypeTasks, TypeSessions, Slotted
<1>1. CASE client = None
  <2>1. pc' = [pc EXCEPT !["start"] = "idle"] /\ UNCHANGED <<sess, held>> BY <1>1 DEF StartSession
  <2>2. startingBar' = startingBar /\ stoppingBar' = stoppingBar BY <2>1, BarsKept
  <2> QED BY <2>1, <2>2, ActiveKept DEF Slot!vars
<1>2. CASE client # None
  <2> PICK s \in Sessions :
        /\ FreshSession(s)
        /\ sess' = [sess EXCEPT ![s] = "signal"]
        /\ held' = [held EXCEPT !["start"] = s] /\ pc' = [pc EXCEPT !["start"] = "signal"]
    BY <1>2 DEF StartSession
  <2>1. startingBar = None /\ startingBar' = s BY DEF startingBar, Tasks
  <2>2. s \notin stoppingBar /\ stoppingBar' = stoppingBar
    BY CoordinatorAssumption DEF stoppingBar, Stopping, FreshSession, Tasks
  <2>3. s \notin activeBar /\ activeBar' = activeBar \cup {s}
    BY ActiveStarts DEF FreshSession, activeBar
  <2>4. Slot!Begin(s) BY <2>1, <2>2, <2>3 DEF Slot!Begin
  <2> QED BY <2>4 DEF Slot!Next
<1> QED BY <1>1, <1>2

\* ... after the listener was paused, if there was one.
LEMMA PauseStep ==
  ASSUME IndInv, StartPause, video = None, UNCHANGED <<video, ready, rtsp>>, pc["start"] \notin Slotted
  PROVE [Slot!Next]_(Slot!vars)
<1>1. CASE vip # None
  <2>1. pc' = [pc EXCEPT !["start"] = "pause"] /\ UNCHANGED <<sess, held>>
    BY <1>1 DEF StartPause, AwaitListener
  <2>2. startingBar' = startingBar /\ stoppingBar' = stoppingBar
    BY <2>1, BarsKept DEF Slotted, IndInv, TypeOK, TypeTasks
  <2> QED BY <2>1, <2>2, ActiveKept DEF Slot!vars
<1>2. CASE vip = None BY <1>2, BeginStep DEF StartPause
<1> QED BY <1>1, <1>2

\* From the reset of _video_stopped_by_user on, a start first withdraws the session it finds.
LEMMA GoStep ==
  ASSUME IndInv, StartGo, UNCHANGED rtsp, pc["start"] \notin Slotted
  PROVE [Slot!Next]_(Slot!vars)
<1>1. CASE video # None
  <2>1. Slot!Withdraw BY <1>1, WithdrawStep DEF StartGo, Tasks
  <2> QED BY <2>1 DEF Slot!Next
<1>2. CASE video = None BY <1>2, PauseStep DEF StartGo
<1> QED BY <1>1, <1>2

\* The first step of a _reconnect ends the published session, and leaves it in the slot.
LEMMA ReconnectStep ==
  ASSUME IndInv, NEW t \in Tasks, RecBegin(t), pc[t] \notin Slotted
  PROVE [Slot!Next]_(Slot!vars)
<1> USE DEF IndInv, TypeOK, TypeTasks, TypeSessions, Slotted
<1>1. UNCHANGED <<video, ready, rtsp>> BY DEF RecBegin, gateV
<1>2. startingBar' = startingBar /\ stoppingBar' = stoppingBar
  <2>1. /\ \E p \in {"rec_video", "rec_vip", "rec_conn"} : pc' = [pc EXCEPT ![t] = p]
        /\ held' \in {held, [held EXCEPT ![t] = video]}
    BY RecBeginEffect
  <2> QED BY <2>1, BarsKept
<1>3. CASE video # None
  <2>1. activeBar' = activeBar \ {video} BY <1>3, ActiveDies DEF RecBegin, CleanupBegin
  <2>2. Slot!Die(video) BY <1>1, <1>2, <2>1 DEF Slot!Die
  <2> QED BY <1>3, <2>2 DEF Slot!Next
<1>4. CASE video = None
  <2>1. activeBar' = activeBar BY <1>4, ActiveKept DEF RecBegin
  <2> QED BY <1>1, <1>2, <2>1 DEF Slot!vars
<1> QED BY <1>3, <1>4

\* A call of async_start_video is dropped, replaces a dead client first, or goes on.
LEMMA StartStepOfSlot ==
  ASSUME IndInv, NEW user, AsyncStartVideo(user)
  PROVE [Slot!Next]_(Slot!vars)
<1>1. CASE UNCHANGED <<sesV, gateV, tskV>>
  BY <1>1 DEF sesV, gateV, tskV, Slot!vars, startingBar, stoppingBar, activeBar, Stopping
<1>2. CASE StartGo /\ UNCHANGED rtsp /\ pc["start"] = "idle" BY <1>2, GoStep DEF Slotted
<1>3. CASE RecBegin("start") /\ pc["start"] = "idle" BY <1>3, ReconnectStep DEF Slotted, Tasks
<1> QED BY <1>1, <1>2, <1>3 DEF AsyncStartVideo, Yields, Locked

\* Every step of the coordinator is a step of the slot, or leaves it alone.
LEMMA NextStepOfSlot ==
  ASSUME IndInv, IndInv', [Next]_vars
  PROVE [Slot!Next]_(Slot!vars)
<1> USE DEF IndInv, TypeOK, TypeTasks, TypeSessions, Slotted, sesV, gateV
<1>1. CASE \E t \in Reconnectors : RecStep(t)
  <2> PICK t \in Reconnectors : RecStep(t) BY <1>1
  <2>0. t \in Tasks BY DEF Reconnectors, Tasks
  <2>1. pc[t] \notin Slotted /\ \E p : p \notin Slotted /\ pc' = [pc EXCEPT ![t] = p]
    <3>1. CASE RecVideoDone(t) \/ RecVipDone(t) \/ RecConnectOk(t) \/ RecFail(t)
      BY <3>1 DEF RecVideoDone, RecVipDone, RecConnectOk, RecFail, RecToVip, RecToConnect, AwaitListener
    <3>2. CASE RecSetupOk(t) \/ RecCtppOpened(t) \/ RecCtppDone(t) \/ RecCtppFailed(t)
      BY <3>2 DEF RecSetupOk, RecCtppOpened, RecCtppDone, RecCtppFailed, RecReturn
    <3> QED BY <3>1, <3>2 DEF RecStep
  <2>2. UNCHANGED sess /\ \A u \in Tasks \ {t} : held'[u] = held[u]
    BY <2>0 DEF RecStep, RecVideoDone, RecVipDone, RecConnectOk, RecFail, RecSetupOk, RecCtppOpened,
               RecCtppDone, RecCtppFailed
  <2>3. startingBar' = startingBar /\ stoppingBar' = stoppingBar /\ activeBar' = activeBar
    BY <2>0, <2>1, <2>2, BarsKept, ActiveKept
  <2>4. CASE RecVideoDone(t)
    <3>1. Slot!Drop BY <2>3, <2>4 DEF RecVideoDone, RecWithdraw, Slot!Drop
    <3> QED BY <3>1 DEF Slot!Next
  <2>5. CASE ~RecVideoDone(t)
    <3>1. UNCHANGED <<video, ready, rtsp>>
      BY <2>5 DEF RecStep, RecVipDone, RecConnectOk, RecFail, RecSetupOk, RecCtppOpened, RecCtppDone,
                  RecCtppFailed
    <3> QED BY <2>3, <3>1 DEF Slot!vars
  <2> QED BY <2>4, <2>5
<1>2. CASE \E t \in Tasks : StopStep(t)
  <2> PICK t \in Tasks : StopStep(t) BY <1>2
  <2>1. CASE StopCallbacksDone(t)
    <3>1. held[t] \in Sessions BY <2>1 DEF StopCallbacksDone, SessionsOwned, Owns, Stopping
    <3>2. pc[t] = "stop_cb" /\ pc' = [pc EXCEPT ![t] = "stop_tear"] /\ UNCHANGED <<held, video, ready, rtsp>>
      BY <2>1 DEF StopCallbacksDone
    <3>3. startingBar' = startingBar BY <3>2 DEF startingBar, Tasks
    <3>4. stoppingBar' = stoppingBar BY <3>2 DEF stoppingBar, Stopping
    <3>5. activeBar' = activeBar \ {held[t]} BY <2>1, ActiveDies DEF StopCallbacksDone, CleanupBegin
    <3>6. Slot!Die(held[t]) BY <3>2, <3>3, <3>4, <3>5 DEF Slot!Die
    <3> QED BY <3>1, <3>6 DEF Slot!Next
  <2>2. CASE StopTeardownDone(t)
    <3>1. /\ pc[t] = "stop_tear" /\ pc' = [pc EXCEPT ![t] = "stop_notify"]
          /\ held' = [held EXCEPT ![t] = None] /\ UNCHANGED <<video, sess, ready>> /\ rtsp' = FALSE
      BY <2>2 DEF StopTeardownDone
    <3>2. held[t] \in Sessions /\ \A u \in Tasks \ {t} : Stopping(u) => held[u] # held[t]
      BY <3>1 DEF SessionsOwned, Owns, Stopping
    <3>3. startingBar' = startingBar BY <3>1 DEF startingBar, Tasks
    <3>4. held[t] \in stoppingBar /\ stoppingBar' = stoppingBar \ {held[t]}
      BY <3>1, <3>2 DEF stoppingBar, Stopping
    <3>5. held[t] \notin activeBar /\ activeBar' = activeBar
      BY <3>1, <3>2 DEF DeadWhenLetGo, activeBar
    <3>6. Slot!TornDown(held[t]) BY <3>1, <3>3, <3>4, <3>5 DEF Slot!TornDown
    <3> QED BY <3>2, <3>6 DEF Slot!Next
  <2>3. CASE StopReturn(t)
    <3>1. startingBar' = startingBar /\ stoppingBar' = stoppingBar /\ activeBar' = activeBar
      BY <2>3, BarsKept, ActiveKept DEF StopReturn
    <3> QED BY <2>3, <3>1 DEF StopReturn, Slot!vars
  <2>4. CASE DelayedStop(t)
    <3>1. CASE video # None /\ StopSnapshot(t)
      <4>1. Slot!Withdraw BY <2>4, <3>1, WithdrawStep DEF DelayedStop
      <4> QED BY <4>1 DEF Slot!Next
    <3>2. CASE pc' = [pc EXCEPT ![t] = "idle"] /\ UNCHANGED <<held, video, ready>>
      <4>1. startingBar' = startingBar /\ stoppingBar' = stoppingBar /\ activeBar' = activeBar
        BY <2>4, <3>2, BarsKept, ActiveKept DEF DelayedStop
      <4> QED BY <2>4, <3>2, <4>1 DEF DelayedStop, Slot!vars
    <3> QED BY <2>4, <3>1, <3>2 DEF DelayedStop
  <2> QED BY <2>1, <2>2, <2>3, <2>4 DEF StopStep
<1>3. CASE StartStep
  <2>0. "start" \in Tasks BY DEF Tasks
  <2>1. CASE StartResume BY <2>1, GoStep DEF StartResume
  <2>2. CASE StartStopped
    BY <2>2, PauseStep DEF StartStopped, SlotEmpty
  <2>3. CASE StartPaused
    BY <2>3, BeginStep DEF StartPaused, SlotEmpty
  <2>4. CASE StartSignalled
    <3>1. /\ pc["start"] = "signal" /\ pc' = [pc EXCEPT !["start"] = "gate"]
          /\ UNCHANGED <<held, video, ready, rtsp>> /\ sess' = [sess EXCEPT ![held["start"]] = "live"]
      BY <2>4 DEF StartSignalled
    <3>2. held["start"] \in Sessions /\ sess[held["start"]] = "signal"
      BY <2>0, <3>1 DEF SessionsOwned, Owns, StartingLives
    <3>3. startingBar' = startingBar /\ stoppingBar' = stoppingBar
      BY <2>0, <3>1 DEF startingBar, stoppingBar, Stopping
    <3>4. activeBar' = activeBar BY <3>1, <3>2 DEF activeBar
    <3> QED BY <3>1, <3>3, <3>4 DEF Slot!vars
  <2>5. CASE StartFailed
    <3>1. /\ pc["start"] = "signal" /\ pc' = [pc EXCEPT !["start"] = "idle"]
          /\ held' = [held EXCEPT !["start"] = None] /\ UNCHANGED <<video, ready, rtsp>>
          /\ sess' = [sess EXCEPT ![held["start"]] = "dead"]
      BY <2>5 DEF StartFailed
    <3>2. held["start"] # None BY <2>0, <3>1, CoordinatorAssumption DEF SessionsOwned, Owns
    <3>3. startingBar = held["start"] /\ startingBar' = None BY <2>0, <3>1 DEF startingBar
    <3>4. stoppingBar' = stoppingBar BY <2>0, <3>1 DEF stoppingBar, Stopping
    <3>5. activeBar' = activeBar \ {held["start"]} BY <3>1, ActiveDies
    <3>6. Slot!Fail BY <3>1, <3>2, <3>3, <3>4, <3>5 DEF Slot!Fail
    <3> QED BY <3>6 DEF Slot!Next
  <2>6. CASE StartPublish
    <3>1. /\ pc["start"] = "gate" /\ pc' = [pc EXCEPT !["start"] = "notify"]
          /\ held' = [held EXCEPT !["start"] = None] /\ video' = held["start"] /\ ready' = TRUE
          /\ rtsp' \in BOOLEAN /\ UNCHANGED sess
      BY <2>6 DEF StartPublish
    <3>2. held["start"] # None /\ video = None
      BY <2>0, <3>1, CoordinatorAssumption DEF SessionsOwned, Owns, SlotEmpty
    <3>3. startingBar = held["start"] /\ startingBar' = None BY <2>0, <3>1 DEF startingBar
    <3>4. stoppingBar' = stoppingBar BY <2>0, <3>1 DEF stoppingBar, Stopping
    <3>5. Slot!Publish BY <3>1, <3>2, <3>3, <3>4, ActiveKept DEF Slot!Publish
    <3> QED BY <3>5 DEF Slot!Next
  <2>7. CASE StartReturn
    <3>1. startingBar' = startingBar /\ stoppingBar' = stoppingBar /\ activeBar' = activeBar
      BY <2>7, BarsKept, ActiveKept DEF StartReturn
    <3> QED BY <2>7, <3>1 DEF StartReturn, Slot!vars
  <2> QED BY <1>3, <2>1, <2>2, <2>3, <2>4, <2>5, <2>6, <2>7 DEF StartStep
<1>4. CASE RestartNotificationsStopped \/ ShutStep
  <2>1. UNCHANGED <<sess, video, ready>> /\ rtsp' \in {rtsp, FALSE}
    BY <1>4, ZenonT(40) DEF RestartNotificationsStopped, ShutStep, ShutVideoStopped, ShutVipStopped, ShutRtspStopped,
                  ShutDisconnected, ShutVip
  <2>2. startingBar' = startingBar /\ stoppingBar' = stoppingBar
    <3>1. \E t \in Tasks : /\ UNCHANGED held /\ pc[t] \notin Slotted
                         /\ \E p : p \notin Slotted /\ pc' = [pc EXCEPT ![t] = p]
      <4>1. CASE RestartNotificationsStopped BY <4>1 DEF RestartNotificationsStopped, Tasks
      <4>2. CASE ShutVideoStopped BY <4>2 DEF ShutVideoStopped, ShutVip, AwaitListener, Tasks
      <4>3. CASE ShutVipStopped BY <4>3 DEF ShutVipStopped, Tasks
      <4>4. CASE ShutRtspStopped \/ ShutDisconnected BY <4>4 DEF ShutRtspStopped, ShutDisconnected, Tasks
      <4> QED BY <1>4, <4>1, <4>2, <4>3, <4>4 DEF ShutStep
    <3> QED BY <3>1, BarsKept
  <2> HIDE DEF IndInv
  <2>3. [Slot!CloseGate]_(Slot!vars)
    BY <2>1, <2>2, ActiveKept DEF Slot!CloseGate, Slot!vars
  <2> QED BY <2>3 DEF Slot!Next
<1>5. CASE \E s \in Sessions : SessionStep(s)
  <2> PICK s \in Sessions : SessionStep(s) BY <1>5
  <2>1. UNCHANGED <<video, ready, rtsp>>
    BY DEF SessionStep, CallEnds, TimeoutFires, TimeoutCallback
  <2>2. startingBar' = startingBar /\ stoppingBar' = stoppingBar
    BY BarsKept DEF SessionStep, CallEnds, TimeoutFires, TimeoutCallback, tskV
  <2>3. UNCHANGED sess \/ sess' = [sess EXCEPT ![s] = "dead"]
    BY DEF SessionStep, CallEnds, TimeoutFires, TimeoutCallback
  <2>4. [Slot!Die(s)]_(Slot!vars)
    BY <2>1, <2>2, <2>3, ActiveKept, ActiveDies DEF Slot!Die, Slot!vars
  <2> QED BY <2>4 DEF Slot!Next
<1>6. CASE UserStep
  <2>1. CASE PressStart BY <2>1, StartStepOfSlot DEF PressStart
  <2>2. CASE \E t \in StopTasks : PressStop(t) \/ RemoveCamera(t) \/ PressDoor(t)
    <3> PICK t \in StopTasks : PressStop(t) \/ RemoveCamera(t) \/ PressDoor(t) BY <2>2
    <3>0. t \in Tasks /\ pc[t] = "idle" /\ UNCHANGED <<sess, rtsp>>
      BY DEF PressStop, RemoveCamera, PressDoor, AsyncStopVideo, Tasks
    <3>1. CASE video # None /\ StopSnapshot(t)
      <4>1. Slot!Withdraw BY <3>0, <3>1, WithdrawStep
      <4> QED BY <4>1 DEF Slot!Next
    <3>2. CASE UNCHANGED <<held, video, ready>> /\ pc' \in {pc, [pc EXCEPT ![t] = "delay"]}
      <4>1. startingBar' = startingBar /\ stoppingBar' = stoppingBar /\ activeBar' = activeBar
        BY <3>0, <3>2, BarsKept, ActiveKept
      <4> QED BY <3>0, <3>2, <4>1 DEF Slot!vars
    <3> QED BY <3>1, <3>2 DEF PressStop, RemoveCamera, PressDoor, AsyncStopVideo
  <2>3. CASE PressRestartNotifications
    <3>1. /\ UNCHANGED <<sess, held, video, ready, rtsp>> /\ pc["renotif"] = "idle"
          /\ pc' \in {pc, [pc EXCEPT !["renotif"] = "rn_stop"]}
      BY <2>3 DEF PressRestartNotifications, AwaitListener
    <3>2. startingBar' = startingBar /\ stoppingBar' = stoppingBar /\ activeBar' = activeBar
      BY <3>1, BarsKept, ActiveKept
    <3> QED BY <3>1, <3>2 DEF Slot!vars
  <2>4. CASE AsyncShutdown
    <3>0. "shutdown" \in Tasks /\ pc["shutdown"] = "idle" /\ UNCHANGED sess
      BY <2>4 DEF AsyncShutdown, Press, Tasks
    <3>1. CASE video # None
      <4>1. Slot!Withdraw BY <2>4, <3>0, <3>1, WithdrawStep DEF AsyncShutdown
      <4> QED BY <4>1 DEF Slot!Next
    <3>2. CASE video = None
      <4>1. /\ UNCHANGED <<held, video, ready>> /\ rtsp' \in {rtsp, FALSE}
            /\ \E p \in {"sd_vip", "sd_rtsp"} : pc' = [pc EXCEPT !["shutdown"] = p]
        BY <2>4, <3>2 DEF AsyncShutdown, ShutVip, AwaitListener
      <4>2. startingBar' = startingBar /\ stoppingBar' = stoppingBar /\ activeBar' = activeBar
        BY <3>0, <4>1, BarsKept, ActiveKept
      <4>3. [Slot!CloseGate]_(Slot!vars) BY <4>1, <4>2 DEF Slot!CloseGate, Slot!vars
      <4> QED BY <4>3 DEF Slot!Next
    <3> QED BY <3>1, <3>2
  <2> QED BY <1>6, <2>1, <2>2, <2>3, <2>4 DEF UserStep
<1>7. CASE AutoRestart BY <1>7, StartStepOfSlot DEF AutoRestart
<1>8. CASE AsyncUpdateData
  <2>1. CASE RecBegin("update") /\ pc["update"] = "idle"
    BY <2>1, ReconnectStep DEF Tasks, Reconnectors
  <2>2. CASE UNCHANGED <<sesV, gateV, tskV>>
    BY <2>2 DEF tskV, Slot!vars, startingBar, stoppingBar, activeBar, Stopping
  <2> QED BY <1>8, <2>1, <2>2 DEF AsyncUpdateData
<1>9. CASE KeepaliveExits \/ (\E c \in Clients : ConnectionLost(c)) \/ UNCHANGED vars
  <2>1. UNCHANGED <<sesV, gateV, tskV>> BY <1>9 DEF KeepaliveExits, ConnectionLost, vars
  <2> QED BY <2>1 DEF tskV, Slot!vars, startingBar, stoppingBar, activeBar, Stopping
<1> QED BY <1>1, <1>2, <1>3, <1>4, <1>5, <1>6, <1>7, <1>8, <1>9 DEF Next, TaskStep

\* Coordinator implements the safety part of VideoSlot: however starts, stops, reconnects, session
\* ends and unloading interleave, one session at a time is started, published and withdrawn.
THEOREM KeepsSlotSafety == Spec => Slot!Safety
<1>1. Init => Slot!Init
  BY DEF Init, Slot!Init, startingBar, stoppingBar, activeBar, Stopping, Tasks
<1>2. IndInv /\ IndInv' /\ [Next]_vars => [Slot!Next]_(Slot!vars)
  BY NextStepOfSlot
<1> QED BY <1>1, <1>2, IndCorrect, PTL DEF Spec, Slot!Safety
==============================================================================
