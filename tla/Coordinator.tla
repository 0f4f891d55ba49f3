---------------------------- MODULE Coordinator ----------------------------
(***************************************************************************)
(* ComelitLocalCoordinator: one object that owns the TCP client, the VIP   *)
(* listener, the published video session and the PLAY gate of the RTSP     *)
(* server, and whose methods run as interleaved asyncio tasks.             *)
(*                                                                         *)
(* A task runs without interruption from one await that really suspends to *)
(* the next; pc[t] names the await at which task t is parked.              *)
(***************************************************************************)
EXTENDS Naturals

CONSTANTS
  None,            \* Python's None
  Clients,         \* IconaBridgeClient objects (ids are reused once unreferenced)
  Listeners,       \* VipEventListener objects
  Sessions,        \* VideoCallSession objects
  StopTasks,       \* tasks running a Stop press, a door press' delayed stop, a camera removal
  Notifications,   \* option: push notifications enabled
  StartMayFail,    \* can the device refuse or time out the call signalling?
  Buttons,         \* which of AllButtons are used
  MaxDrops,        \* bound: connections the device or the network drops
  MaxPresses,      \* bound: button presses and entity removals
  MaxRestarts      \* bound: scheduled _auto_restart_video tasks

Tasks == StopTasks \cup {"start", "update", "renotif", "shutdown"}

Reconnectors == {"start", "update"}   \* the tasks that call _reconnect

AllButtons == {"start", "stop", "camera", "door", "notifications", "unload"}

ASSUME CoordinatorAssumption ==
  /\ None \notin Clients \cup Listeners \cup Sessions
  /\ StopTasks \cap {"start", "update", "renotif", "shutdown"} = {}
  /\ Buttons \subseteq AllButtons
  /\ Notifications \in BOOLEAN /\ StartMayFail \in BOOLEAN
  /\ MaxDrops \in Nat /\ MaxPresses \in Nat /\ MaxRestarts \in Nat

VARIABLES
  client,     \* _client
  conn,       \* per client: "up" (connected), "lost" (dropped, not closed), "closed"
  ctpp,       \* per client: its CTPP channel: "none", "coord" or "session" (who opened it)
  vip,        \* _vip_listener
  listen,     \* per listener: the client whose CTPP queue its running task reads, or None
  video,      \* _video_session
  sess,       \* per session: "dead" (not _active), "signal" (start() signalling), "live"
  on,         \* per session: the client it was created with
  timer,      \* per session: its _auto_timeout_loop: "off", "armed", "firing"
  userStop,   \* _video_stopped_by_user
  ready,      \* _video_ready_event is set
  rtsp,       \* the RTSP server's PLAY gate is open (mark_ready)
  keepalive,  \* the keepalive task runs
  failures,   \* _consecutive_reconnect_failures, saturating at 2
  available,  \* the last refresh did not raise UpdateFailed
  refresh,    \* a refresh requested by _on_client_disconnect has not run yet
  restarts,   \* _auto_restart_video tasks scheduled and not yet run
  byUser,     \* the running start was an explicit user action
  pc,         \* where each task is suspended
  held,       \* per task: the session it is stopping or starting
  lheld,      \* per task: the listener whose end it awaits
  new,        \* per task: the client its _reconnect is setting up
  drops, presses

conV == <<client, conn, ctpp>>
lisV == <<vip, listen>>
sesV == <<video, sess, on, timer>>
gateV == <<ready, rtsp>>
pollV == <<failures, available, refresh>>
tskV == <<pc, held, lheld, new>>
envV == <<drops, presses>>
restV == <<pollV, envV, userStop, keepalive, restarts, byUser>>
vars == <<conV, lisV, sesV, gateV, tskV, restV>>

----------------------------------------------------------------------------
(* State predicates and helpers *)

Up(c) == c # None /\ conn[c] = "up"

\* Mutant: the lock is not tested.
NeverLocked == FALSE

\* _video_start_lock.locked()
Locked == pc["start"] # "idle"

\* Ids that no variable refers to any more, so a new object may take them.
FreshClient(c) ==
  /\ conn[c] # "up" /\ c # client
  /\ \A s \in Sessions : on[s] # c
  /\ \A l \in Listeners : listen[l] # c
  /\ \A t \in Tasks : new[t] # c
FreshListener(l) == l # vip /\ listen[l] = None /\ \A t \in Tasks : lheld[t] # l
FreshSession(s) == /\ sess[s] = "dead" /\ timer[s] = "off" /\ s # video
                   /\ \A t \in Tasks : held[t] # s

\* Session s is referred to by nothing but task t.
OnlyHolder(t, s) == timer[s] # "firing" /\ s # video /\ \A u \in Tasks \ {t} : held[u] # s

\* VideoCallSession._cleanup up to its first await: inactive, timeout task cancelled
\* (unless that task is the one cleaning up).
CleanupBegin(s) ==
  /\ sess' = [sess EXCEPT ![s] = "dead"]
  /\ timer' = [timer EXCEPT ![s] = IF @ = "armed" THEN "off" ELSE @]

\* The channel registry once session s has given back the CTPP channel it owns.
CtppReleased(s) ==
  IF on[s] # None /\ ctpp[on[s]] = "session" THEN [ctpp EXCEPT ![on[s]] = "none"] ELSE ctpp

----------------------------------------------------------------------------
(* _ensure_vip_listener: v is the listener, C the CTPP channels at the call. *)
(* VipEventListener.start() only looks the channel up, so it does not suspend. *)

EnsureVipListener(v, C) ==
  IF v = None /\ client # None /\ Notifications /\ C[client] # "none"
  THEN \E l \in Listeners : /\ FreshListener(l)
                            /\ vip' = l
                            /\ listen' = [listen EXCEPT ![l] = client]
  ELSE vip' = v /\ UNCHANGED listen

\* VipEventListener.stop_task: task t cancels the listener and awaits its end at p.
AwaitListener(t, p) ==
  /\ listen' = [listen EXCEPT ![vip] = None]
  /\ lheld' = [lheld EXCEPT ![t] = vip]
  /\ pc' = [pc EXCEPT ![t] = p]
  /\ UNCHANGED vip

----------------------------------------------------------------------------
(* _reconnect by task t: "update", or "start" when nested in async_start_video *)

\* Mutant: the old client is forgotten, not closed.
RecToConnectKeepsOpen(t, C) ==
  /\ client' = None
  /\ ctpp' = IF client # None THEN [C EXCEPT ![client] = "none"] ELSE C
  /\ pc' = [pc EXCEPT ![t] = "rec_conn"]
  /\ UNCHANGED conn

\* Forget and close the old client, then connect a new one.  C: CTPP channels by now.
RecToConnect(t, C) ==
  /\ client' = None
  /\ conn' = IF client # None THEN [conn EXCEPT ![client] = "closed"] ELSE conn
  /\ ctpp' = IF client # None THEN [C EXCEPT ![client] = "none"] ELSE C
  /\ pc' = [pc EXCEPT ![t] = "rec_conn"]

RecToVip(t, C) ==
  IF vip # None THEN AwaitListener(t, "rec_vip") /\ ctpp' = C /\ UNCHANGED <<client, conn>>
                ELSE RecToConnect(t, C) /\ UNCHANGED <<vip, listen, lheld>>

RecBegin(t) ==
  /\ keepalive' = FALSE
  /\ IF video # None
     THEN /\ CleanupBegin(video)
          /\ held' = [held EXCEPT ![t] = video]
          /\ pc' = [pc EXCEPT ![t] = "rec_video"]
          /\ UNCHANGED <<conV, lisV, lheld>>
     ELSE RecToVip(t, ctpp) /\ UNCHANGED <<sess, timer, held>>
  /\ UNCHANGED <<video, on, gateV, new>>

\* Mutants: the ready event, or the PLAY gate, is forgotten.
RecWithdrawKeepsEvent == video' = None /\ rtsp' = FALSE /\ UNCHANGED ready
RecWithdrawKeepsGate == video' = None /\ ready' = FALSE /\ UNCHANGED rtsp

\* Whatever session is published now is withdrawn.
RecWithdraw == video' = None /\ ready' = FALSE /\ rtsp' = FALSE

\* session.stop() has returned.
RecVideoDone(t) ==
  /\ pc[t] = "rec_video"
  /\ RecWithdraw
  /\ held' = [held EXCEPT ![t] = None]
  /\ on' = [on EXCEPT ![held[t]] = None]
  /\ RecToVip(t, CtppReleased(held[t]))
  /\ UNCHANGED <<sess, timer, new, restV>>

RecVipDone(t) ==
  /\ pc[t] = "rec_vip"
  /\ vip' = None
  /\ lheld' = [lheld EXCEPT ![t] = None]
  /\ RecToConnect(t, ctpp)
  /\ UNCHANGED <<listen, sesV, gateV, held, new, restV>>

\* The device accepts one of the (up to four) connection attempts.
RecConnectOk(t) ==
  /\ pc[t] = "rec_conn"
  /\ \E c \in Clients : /\ FreshClient(c)
                        /\ conn' = [conn EXCEPT ![c] = "up"]
                        /\ new' = [new EXCEPT ![t] = c]
  /\ pc' = [pc EXCEPT ![t] = "rec_setup"]
  /\ UNCHANGED <<client, ctpp, lisV, sesV, gateV, held, lheld, restV>>

\* A refresh whose _reconnect raised: the first in a row is forgiven.
CountFailure == /\ failures' = IF failures < 2 THEN failures + 1 ELSE 2
                /\ available' = (failures = 0)

\* _reconnect raises: every connect failed, or authentication, configuration or push
\* registration did and the new client is disconnected.
\* async_start_video turns it into a RuntimeError.
RecFail(t) ==
  /\ pc[t] \in {"rec_conn", "rec_setup"}
  /\ conn' = IF pc[t] = "rec_setup" THEN [conn EXCEPT ![new[t]] = "closed"] ELSE conn
  /\ new' = [new EXCEPT ![t] = None]
  /\ pc' = [pc EXCEPT ![t] = "idle"]
  /\ IF t = "update" THEN CountFailure ELSE UNCHANGED <<failures, available>>
  /\ UNCHANGED <<client, ctpp, lisV, sesV, gateV, held, lheld, refresh, envV, userStop, keepalive,
                 restarts, byUser>>

\* Mutant: no keepalive task is started.
RecReturnSilent(t) ==
  /\ new' = [new EXCEPT ![t] = None]
  /\ pc' = [pc EXCEPT ![t] = IF t = "start" THEN "go" ELSE "idle"]
  /\ IF t = "update" THEN failures' = 0 /\ available' = TRUE ELSE UNCHANGED <<failures, available>>
  /\ UNCHANGED keepalive

\* _reconnect returns to the task that called it.
RecReturn(t) ==
  /\ keepalive' = TRUE
  /\ new' = [new EXCEPT ![t] = None]
  /\ pc' = [pc EXCEPT ![t] = IF t = "start" THEN "go" ELSE "idle"]
  /\ IF t = "update" THEN failures' = 0 /\ available' = TRUE ELSE UNCHANGED <<failures, available>>

\* Authenticated, configured, registered: the new client is published, also when its connection has
\* dropped since the last reply.
RecSetupOk(t) ==
  /\ pc[t] = "rec_setup"
  /\ client' = new[t]
  /\ IF Notifications
     THEN /\ pc' = [pc EXCEPT ![t] = "rec_ctpp"]
          /\ UNCHANGED <<keepalive, new, failures, available>>
     ELSE RecReturn(t)
  /\ UNCHANGED <<conn, ctpp, lisV, sesV, gateV, held, lheld, refresh, envV, userStop, restarts, byUser>>

\* The device has opened CTPP, unless a session's own open has taken its place in the registry.
RecCtppOpened(t) ==
  /\ pc[t] = "rec_ctpp" /\ conn[new[t]] = "up" /\ ctpp[new[t]] = "none"
  /\ ctpp' = [ctpp EXCEPT ![new[t]] = "coord"]
  /\ pc' = [pc EXCEPT ![t] = "rec_init"]
  /\ UNCHANGED <<client, conn, lisV, sesV, gateV, held, lheld, new, restV>>

\* CSPB opened, CTPP initialised: the listener is attached.
RecCtppDone(t) ==
  /\ pc[t] = "rec_init" /\ ctpp[new[t]] # "none"
  /\ \E l \in Listeners : /\ FreshListener(l)
                          /\ vip' = l
                          /\ listen' = [listen EXCEPT ![l] = new[t]]
  /\ RecReturn(t)
  /\ UNCHANGED <<client, conn, ctpp, sesV, gateV, held, lheld, refresh, envV, userStop, restarts, byUser>>

\* Opening or initialising CTPP failed: only a warning, there is no listener.
RecCtppFailed(t) ==
  /\ pc[t] \in {"rec_ctpp", "rec_init"}
  /\ RecReturn(t)
  /\ UNCHANGED <<client, conn, ctpp, lisV, sesV, gateV, held, lheld, refresh, envV, userStop, restarts, byUser>>

----------------------------------------------------------------------------
(* async_stop_video by task t *)

\* Mutant: the session is not cleared before the first await.
StopSnapshotKeepsSession(t) ==
  /\ held' = [held EXCEPT ![t] = video]
  /\ ready' = FALSE
  /\ pc' = [pc EXCEPT ![t] = "stop_cb"]
  /\ UNCHANGED video

\* Snapshot and clear before the first await, then await the stop callbacks.
StopSnapshot(t) ==
  /\ held' = [held EXCEPT ![t] = video]
  /\ video' = None
  /\ ready' = FALSE
  /\ pc' = [pc EXCEPT ![t] = "stop_cb"]

\* The stop callbacks are done: session.stop() begins.
StopCallbacksDone(t) ==
  /\ pc[t] = "stop_cb"
  /\ CleanupBegin(held[t])
  /\ pc' = [pc EXCEPT ![t] = "stop_tear"]
  /\ UNCHANGED <<conV, lisV, video, on, gateV, held, lheld, new, restV>>

\* session.stop() has returned: the finally block, up to the state-change callbacks.
StopTeardownDone(t) ==
  /\ pc[t] = "stop_tear"
  /\ ctpp' = CtppReleased(held[t])
  /\ on' = IF OnlyHolder(t, held[t]) THEN [on EXCEPT ![held[t]] = None] ELSE on
  /\ held' = [held EXCEPT ![t] = None]
  /\ rtsp' = FALSE
  /\ IF Locked THEN UNCHANGED lisV ELSE EnsureVipListener(vip, CtppReleased(held[t]))
  /\ pc' = [pc EXCEPT ![t] = "stop_notify"]
  /\ UNCHANGED <<client, conn, video, sess, timer, ready, lheld, new, restV>>

\* A stop that is a task of its own ends with its callbacks.
StopReturn(t) ==
  /\ pc[t] = "stop_notify" /\ t \in StopTasks
  /\ pc' = [pc EXCEPT ![t] = "idle"]
  /\ UNCHANGED <<conV, lisV, sesV, gateV, held, lheld, new, restV>>

----------------------------------------------------------------------------
(* async_start_video: the task that holds _video_start_lock *)

\* session.start() begins; without a client it fails at once.  A session takes the
\* CTPP channel the client has, or opens one of its own.
StartSession ==
  IF client = None
  THEN /\ pc' = [pc EXCEPT !["start"] = "idle"]
       /\ UNCHANGED <<sess, on, ctpp, held>>
  ELSE \E s \in Sessions :
       /\ FreshSession(s)
       /\ sess' = [sess EXCEPT ![s] = "signal"]
       /\ on' = [on EXCEPT ![s] = client]
       /\ ctpp' = [ctpp EXCEPT ![client] = IF @ = "none" THEN "session" ELSE @]
       /\ held' = [held EXCEPT !["start"] = s]
       /\ pc' = [pc EXCEPT !["start"] = "signal"]

\* Pause the listener, if there is one, then start the session.
StartPause ==
  IF vip # None THEN AwaitListener("start", "pause") /\ UNCHANGED <<sess, on, ctpp, held>>
                ELSE StartSession /\ UNCHANGED <<lisV, lheld>>

\* From the reset of the flag to the first await after it.
StartGo ==
  /\ userStop' = FALSE
  /\ IF video # None THEN StopSnapshot("start") /\ UNCHANGED <<sess, on, ctpp, lisV, lheld>>
                     ELSE StartPause /\ UNCHANGED <<video, ready>>

\* Mutant: an automatic restart takes no notice of a user stop.
NeverYields(user) == FALSE

\* An automatic restart gives way to a user stop.
Yields(user) == userStop /\ ~user

\* A call of async_start_video.  It is dropped when the lock is held, there is no
\* client, or it yields; a dead client is replaced first.
AsyncStartVideo(user) ==
  IF Locked \/ client = None \/ Yields(user)
  THEN UNCHANGED <<conV, lisV, sesV, gateV, tskV, userStop, keepalive, byUser>>
  ELSE /\ byUser' = user
       /\ IF Up(client) THEN StartGo /\ UNCHANGED <<client, conn, timer, rtsp, new, keepalive>>
                        ELSE RecBegin("start") /\ UNCHANGED userStop

\* The nested _reconnect has returned.
StartResume ==
  /\ pc["start"] = "go"
  /\ StartGo
  /\ UNCHANGED <<client, conn, timer, rtsp, new, pollV, envV, keepalive, restarts, byUser>>

\* The nested async_stop_video has returned.
StartStopped ==
  /\ pc["start"] = "stop_notify"
  /\ StartPause
  /\ UNCHANGED <<client, conn, video, timer, gateV, new, restV>>

\* The paused listener's task has ended.
StartPaused ==
  /\ pc["start"] = "pause"
  /\ vip' = None
  /\ lheld' = [lheld EXCEPT !["start"] = None]
  /\ StartSession
  /\ UNCHANGED <<listen, client, conn, video, timer, gateV, new, restV>>

\* Call signalling succeeded: monitor running, waiting for the first NAL.
StartSignalled ==
  /\ pc["start"] = "signal" /\ conn[on[held["start"]]] = "up"
  /\ sess' = [sess EXCEPT ![held["start"]] = "live"]
  /\ pc' = [pc EXCEPT !["start"] = "gate"]
  /\ UNCHANGED <<conV, lisV, video, on, timer, gateV, held, lheld, new, restV>>

\* Call signalling failed: the session cleans up and VideoCallError ends the start.
StartFailed ==
  LET s == held["start"] IN
  /\ pc["start"] = "signal" /\ (StartMayFail \/ conn[on[s]] # "up")
  /\ sess' = [sess EXCEPT ![s] = "dead"]
  /\ on' = [on EXCEPT ![s] = None]
  /\ ctpp' = CtppReleased(s)
  /\ held' = [held EXCEPT !["start"] = None]
  /\ pc' = [pc EXCEPT !["start"] = "idle"]
  /\ UNCHANGED <<client, conn, lisV, video, timer, gateV, lheld, new, restV>>

\* The readiness gate opened or timed out: the session is published.
StartPublish ==
  /\ pc["start"] = "gate"
  /\ timer' = [timer EXCEPT ![held["start"]] = "armed"]
  /\ video' = held["start"]
  /\ held' = [held EXCEPT !["start"] = None]
  /\ ready' = TRUE
  /\ rtsp' = (pc["shutdown"] \notin {"sd_disc", "done"})
  /\ pc' = [pc EXCEPT !["start"] = "notify"]
  /\ UNCHANGED <<conV, lisV, sess, on, lheld, new, restV>>

\* The state-change callbacks are done: the lock is released.
StartReturn ==
  /\ pc["start"] = "notify"
  /\ pc' = [pc EXCEPT !["start"] = "idle"]
  /\ UNCHANGED <<conV, lisV, sesV, gateV, held, lheld, new, restV>>

----------------------------------------------------------------------------
(* Session callbacks and the restarts they schedule *)

\* Mutant: the condition is inverted.
OnVideoCallEndInverted ==
  IF userStop THEN restarts' = restarts + 1 ELSE UNCHANGED restarts

\* _on_video_call_end
OnVideoCallEnd ==
  IF userStop THEN UNCHANGED restarts ELSE restarts' = restarts + 1

\* The session's monitor failed to renew the call: inactive, on_call_end.
CallEnds(s) ==
  /\ sess[s] = "live" /\ restarts < MaxRestarts
  /\ sess' = [sess EXCEPT ![s] = "dead"]
  /\ OnVideoCallEnd
  /\ UNCHANGED <<conV, lisV, video, on, timer, gateV, tskV, pollV, envV, userStop, keepalive, byUser>>

\* A task suspended since before the published session was published: its start, or a
\* _reconnect that had already found no session to stop.
OlderThanVideo(t) == pc[t] \in {"notify", "rec_vip", "rec_conn", "rec_setup", "rec_ctpp", "rec_init"}

\* _auto_timeout_loop: the 120 s are over and _cleanup begins.  Every other await is
\* bounded below 120 s, so tasks older than the published session are done by now.
TimeoutFires(s) ==
  /\ timer[s] = "armed"
  /\ s = video => \A t \in Tasks : ~OlderThanVideo(t)
  /\ timer' = [timer EXCEPT ![s] = "firing"]
  /\ sess' = [sess EXCEPT ![s] = "dead"]
  /\ UNCHANGED <<conV, lisV, video, on, gateV, tskV, restV>>

\* The timed-out session has cleaned up: on_timeout.
TimeoutCallback(s) ==
  /\ timer[s] = "firing" /\ restarts < MaxRestarts
  /\ timer' = [timer EXCEPT ![s] = "off"]
  /\ ctpp' = CtppReleased(s)
  /\ on' = [on EXCEPT ![s] = None]
  /\ OnVideoCallEnd
  /\ UNCHANGED <<client, conn, lisV, video, sess, gateV, tskV, pollV, envV, userStop, keepalive, byUser>>

\* _auto_restart_video
AutoRestart ==
  /\ restarts > 0
  /\ restarts' = restarts - 1
  /\ AsyncStartVideo(FALSE)
  /\ UNCHANGED <<pollV, envV>>

----------------------------------------------------------------------------
(* Buttons and entities *)

\* The entities are unloaded before async_shutdown runs.
Press(b) == /\ b \in Buttons /\ pc["shutdown"] = "idle"
            /\ presses < MaxPresses /\ presses' = presses + 1
            /\ UNCHANGED drops

\* Start Video Feed
PressStart ==
  /\ Press("start")
  /\ AsyncStartVideo(TRUE)
  /\ UNCHANGED <<pollV, restarts>>

\* async_stop_video called by a task of its own; nothing published means nothing to do.
AsyncStopVideo(t) ==
  /\ IF video # None THEN StopSnapshot(t) ELSE UNCHANGED <<pc, held, video, ready>>
  /\ UNCHANGED <<conV, lisV, sess, on, timer, rtsp, lheld, new, pollV, keepalive, restarts, byUser>>

\* Stop Video Feed
PressStop(t) ==
  /\ Press("stop") /\ pc[t] = "idle" /\ t \in StopTasks
  /\ userStop' = TRUE
  /\ AsyncStopVideo(t)

\* ComelitIntercomCamera.async_will_remove_from_hass
RemoveCamera(t) ==
  /\ Press("camera") /\ pc[t] = "idle" /\ t \in StopTasks
  /\ AsyncStopVideo(t)
  /\ UNCHANGED userStop

\* A door was opened during an active session: the user stop is recorded now, the
\* session is stopped ten seconds later.
PressDoor(t) ==
  /\ Press("door") /\ pc[t] = "idle" /\ t \in StopTasks
  /\ video # None /\ sess[video] = "live"
  /\ userStop' = TRUE
  /\ pc' = [pc EXCEPT ![t] = "delay"]
  /\ UNCHANGED <<conV, lisV, sesV, gateV, held, lheld, new, pollV, keepalive, restarts, byUser>>

DelayedStop(t) ==
  /\ pc[t] = "delay" /\ t \in StopTasks
  /\ IF video # None /\ sess[video] = "live"
     THEN StopSnapshot(t)
     ELSE pc' = [pc EXCEPT ![t] = "idle"] /\ UNCHANGED <<held, video, ready>>
  /\ UNCHANGED <<conV, lisV, sess, on, timer, rtsp, lheld, new, restV>>

\* async_restart_notifications
PressRestartNotifications ==
  /\ Press("notifications") /\ pc["renotif"] = "idle" /\ Notifications
  /\ IF vip # None THEN AwaitListener("renotif", "rn_stop")
                   ELSE EnsureVipListener(None, ctpp) /\ UNCHANGED <<pc, lheld>>
  /\ UNCHANGED <<conV, sesV, gateV, held, new, pollV, userStop, keepalive, restarts, byUser>>

RestartNotificationsStopped ==
  /\ pc["renotif"] = "rn_stop"
  /\ EnsureVipListener(None, ctpp)
  /\ lheld' = [lheld EXCEPT !["renotif"] = None]
  /\ pc' = [pc EXCEPT !["renotif"] = "idle"]
  /\ UNCHANGED <<conV, sesV, gateV, held, new, restV>>

----------------------------------------------------------------------------
(* async_shutdown *)

\* From the listener on: stop it, then the RTSP server.
ShutVip ==
  IF vip # None THEN AwaitListener("shutdown", "sd_vip") /\ UNCHANGED rtsp
  ELSE /\ pc' = [pc EXCEPT !["shutdown"] = "sd_rtsp"]
       /\ rtsp' = FALSE
       /\ UNCHANGED <<lisV, lheld>>

AsyncShutdown ==
  /\ Press("unload")
  /\ keepalive' = FALSE
  /\ IF video # None THEN StopSnapshot("shutdown") /\ UNCHANGED <<lisV, lheld, rtsp>>
                     ELSE ShutVip /\ UNCHANGED <<held, video, ready>>
  /\ UNCHANGED <<conV, sess, on, timer, new, pollV, userStop, restarts, byUser>>

ShutVideoStopped ==
  /\ pc["shutdown"] = "stop_notify"
  /\ ShutVip
  /\ UNCHANGED <<conV, sesV, ready, held, new, restV>>

ShutVipStopped ==
  /\ pc["shutdown"] = "sd_vip"
  /\ vip' = None
  /\ lheld' = [lheld EXCEPT !["shutdown"] = None]
  /\ rtsp' = FALSE
  /\ pc' = [pc EXCEPT !["shutdown"] = "sd_rtsp"]
  /\ UNCHANGED <<conV, listen, sesV, ready, held, new, restV>>

\* The RTSP server is gone: disconnect the client, if there is one.
ShutRtspStopped ==
  /\ pc["shutdown"] = "sd_rtsp"
  /\ rtsp' = FALSE
  /\ IF client # None THEN /\ conn' = [conn EXCEPT ![client] = "closed"]
                           /\ ctpp' = [ctpp EXCEPT ![client] = "none"]
                           /\ pc' = [pc EXCEPT !["shutdown"] = "sd_disc"]
     ELSE /\ pc' = [pc EXCEPT !["shutdown"] = "done"]
          /\ UNCHANGED <<conn, ctpp>>
  /\ UNCHANGED <<client, lisV, sesV, ready, held, lheld, new, restV>>

ShutDisconnected ==
  /\ pc["shutdown"] = "sd_disc"
  /\ client' = None
  /\ pc' = [pc EXCEPT !["shutdown"] = "done"]
  /\ UNCHANGED <<conn, ctpp, lisV, sesV, gateV, held, lheld, new, restV>>

----------------------------------------------------------------------------
(* Health check, keepalive, connection loss *)

\* Mutant: a missing client counts as a healthy connection.
HealthyWithoutClient == client = None \/ Up(client)

\* The test of _async_update_data (the configuration is never lost).
Healthy == Up(client)

\* _async_update_data, run by the 30 s poll while entities listen, or by a requested
\* refresh; Home Assistant runs one refresh at a time.
AsyncUpdateData ==
  /\ pc["update"] = "idle"
  /\ refresh \/ pc["shutdown"] = "idle"
  /\ refresh' = FALSE
  /\ IF Healthy THEN /\ available' = TRUE
                     /\ UNCHANGED <<conV, lisV, sesV, gateV, tskV, keepalive>>
                ELSE RecBegin("update") /\ UNCHANGED available
  /\ UNCHANGED <<failures, envV, userStop, restarts, byUser>>

\* The keepalive loop wakes up without a connected client and returns.
KeepaliveExits ==
  /\ keepalive /\ ~Up(client)
  /\ keepalive' = FALSE
  /\ UNCHANGED <<conV, lisV, sesV, gateV, tskV, pollV, envV, userStop, restarts, byUser>>

\* A receive loop sees EOF, an error or 120 s of silence.  Only a client that was
\* published has the disconnect callback.
ConnectionLost(c) ==
  /\ conn[c] = "up" /\ drops < MaxDrops
  /\ conn' = [conn EXCEPT ![c] = "lost"]
  /\ drops' = drops + 1
  /\ refresh' = (refresh \/ (client # None /\ \A t \in Tasks : ~(pc[t] = "rec_setup" /\ new[t] = c)))
  /\ UNCHANGED <<client, ctpp, lisV, sesV, gateV, tskV, failures, available, presses, userStop,
                 keepalive, restarts, byUser>>

----------------------------------------------------------------------------
(* Initially async_setup has returned; with notifications on, its listener may have failed. *)
Init ==
  /\ client \in Clients
  /\ conn = [c \in Clients |-> IF c = client THEN "up" ELSE "closed"]
  /\ ctpp \in {[c \in Clients |-> IF c = client THEN o ELSE "none"] : o \in {"none", "coord"}}
  /\ vip \in Listeners \cup {None}
  /\ vip # None => Notifications /\ ctpp[client] = "coord"
  /\ ~Notifications => ctpp[client] = "none"
  /\ listen = [l \in Listeners |-> IF l = vip THEN client ELSE None]
  /\ video = None
  /\ sess = [s \in Sessions |-> "dead"]
  /\ on = [s \in Sessions |-> None]
  /\ timer = [s \in Sessions |-> "off"]
  /\ userStop = FALSE /\ ready = FALSE /\ rtsp = FALSE
  /\ keepalive = TRUE
  /\ failures = 0 /\ available = TRUE /\ refresh = FALSE
  /\ restarts = 0
  /\ byUser = FALSE
  /\ pc = [t \in Tasks |-> "idle"]
  /\ held = [t \in Tasks |-> None]
  /\ lheld = [t \in Tasks |-> None]
  /\ new = [t \in Tasks |-> None]
  /\ drops = 0 /\ presses = 0

RecStep(t) == RecVideoDone(t) \/ RecVipDone(t) \/ RecConnectOk(t) \/ RecFail(t) \/ RecSetupOk(t)
              \/ RecCtppOpened(t) \/ RecCtppDone(t) \/ RecCtppFailed(t)
StopStep(t) == StopCallbacksDone(t) \/ StopTeardownDone(t) \/ StopReturn(t) \/ DelayedStop(t)
StartStep == \/ StartResume \/ StartStopped \/ StartPaused \/ StartSignalled \/ StartFailed
             \/ StartPublish \/ StartReturn
ShutStep == ShutVideoStopped \/ ShutVipStopped \/ ShutRtspStopped \/ ShutDisconnected

\* The next step of a suspended task, whichever await it is parked at.
TaskStep == \/ \E t \in Reconnectors : RecStep(t)
            \/ \E t \in Tasks : StopStep(t)
            \/ StartStep \/ RestartNotificationsStopped \/ ShutStep

SessionStep(s) == CallEnds(s) \/ TimeoutFires(s) \/ TimeoutCallback(s)

UserStep == \/ PressStart \/ PressRestartNotifications \/ AsyncShutdown
            \/ \E t \in StopTasks : PressStop(t) \/ RemoveCamera(t) \/ PressDoor(t)

Next ==
  \/ TaskStep
  \/ \E s \in Sessions : SessionStep(s)
  \/ UserStep
  \/ AutoRestart \/ AsyncUpdateData \/ KeepaliveExits
  \/ \E c \in Clients : ConnectionLost(c)

Spec == Init /\ [][Next]_vars

----------------------------------------------------------------------------
PCs == {"idle", "delay", "rec_video", "rec_vip", "rec_conn", "rec_setup", "rec_ctpp", "rec_init", "go",
        "stop_cb", "stop_tear", "stop_notify", "pause", "signal", "gate", "notify",
        "rn_stop", "sd_vip", "sd_rtsp", "sd_disc", "done"}

TypeClients == /\ client \in Clients \cup {None}
               /\ conn \in [Clients -> {"up", "lost", "closed"}]
               /\ ctpp \in [Clients -> {"none", "coord", "session"}]
TypeListeners == /\ vip \in Listeners \cup {None}
                 /\ listen \in [Listeners -> Clients \cup {None}]
TypeSessions == /\ video \in Sessions \cup {None}
                /\ sess \in [Sessions -> {"dead", "signal", "live"}]
                /\ on \in [Sessions -> Clients \cup {None}]
                /\ timer \in [Sessions -> {"off", "armed", "firing"}]
TypeTasks == /\ pc \in [Tasks -> PCs]
             /\ held \in [Tasks -> Sessions \cup {None}]
             /\ lheld \in [Tasks -> Listeners \cup {None}]
             /\ new \in [Tasks -> Clients \cup {None}]
TypeFlags == /\ userStop \in BOOLEAN /\ ready \in BOOLEAN /\ rtsp \in BOOLEAN
             /\ keepalive \in BOOLEAN /\ available \in BOOLEAN /\ refresh \in BOOLEAN
             /\ byUser \in BOOLEAN
TypeCounters == /\ failures \in 0..2 /\ restarts \in 0..MaxRestarts
                /\ drops \in 0..MaxDrops /\ presses \in 0..MaxPresses

\* The types of the coordinator's attributes and of the suspended tasks.
TypeOK == /\ TypeClients /\ TypeListeners /\ TypeSessions
          /\ TypeTasks /\ TypeFlags /\ TypeCounters

----------------------------------------------------------------------------
(* Safety *)

\* Task t is inside async_stop_video with its session snapshot.
Stopping(t) == pc[t] \in {"stop_cb", "stop_tear"}
Reconnecting(t) == pc[t] \in {"rec_video", "rec_vip", "rec_conn", "rec_setup", "rec_ctpp", "rec_init"}

\* async_stop_video snapshots and clears _video_session before it awaits anything, so
\* two overlapping stops never hold the same session, nor one that is published.
NoDoubleStop ==
  \A t \in Tasks : Stopping(t) =>
    /\ held[t] # None /\ held[t] # video
    /\ \A u \in Tasks \ {t} : Stopping(u) => held[u] # held[t]

\* stream_source() waits on _video_ready_event and then hands out the RTSP URL: in every
\* interleaving of starts, stops and reconnects the event is set exactly while a session
\* is published.
ReadyEventMatchesSession == ready <=> video # None

\* The PLAY gate of the RTSP server is open without a published session only while some
\* async_stop_video is still on its way to mark_not_ready; no path leaves it open.
PlayGateClosed == rtsp /\ video = None => \E t \in Tasks : Stopping(t)

\* Whichever of two overlapping _reconnects published the client, its connection is kept
\* alive once no reconnect is in progress: every publication is followed by
\* _start_keepalive, and no cancellation or exit of the loop outlives its connection.
LiveConnectionKeptAlive ==
  Up(client) /\ pc["shutdown"] = "idle" /\ (\A t \in Tasks : ~Reconnecting(t)) => keepalive

\* A session is started only with the slot empty: the start lock and the nested stop see
\* to it that publishing never overwrites, and so leaks, a published session.
StartFindsSlotEmpty == pc["start"] \in {"pause", "signal", "gate"} => video = None

\* Every active session can still be reached by a stop: it is published, or held by the
\* task that is starting or stopping it.
NoOrphanSession ==
  \A s \in Sessions : sess[s] # "dead" => s = video \/ \E t \in Tasks : held[t] = s

----------------------------------------------------------------------------
(* The inductive strengthening of the safety invariants (proved in CoordinatorProofs) *)

\* Task t alone answers for the session it holds: it is stopping or starting it.
Owns(t) == Stopping(t) \/ (t = "start" /\ pc[t] \in {"signal", "gate"})

SessionsOwned ==
  \A t \in Tasks : Owns(t) =>
    /\ held[t] \in Sessions /\ held[t] # video
    /\ \A u \in Tasks \ {t} : Owns(u) => held[u] # held[t]

\* From its nested stop to the publication a start finds the slot empty.
SlotEmpty ==
  pc["start"] \in {"stop_cb", "stop_tear", "stop_notify", "pause", "signal", "gate"} => video = None

\* A published live client is kept alive, or a reconnect is about to replace it or to
\* start its keepalive.
KeepaliveDue ==
  Up(client) /\ pc["shutdown"] = "idle" =>
    \/ keepalive
    \/ \E t \in Tasks : pc[t] \in {"rec_video", "rec_vip"} \/ (pc[t] \in {"rec_ctpp", "rec_init"} /\ new[t] = client)

\* A session is held only by who answers for it or withdraws it ...
HeldInUse ==
  \A t \in Tasks : held[t] # None => Stopping(t) \/ pc[t] \in {"signal", "gate", "rec_video"}

\* ... and is dead before it is let go; nobody starts the session that a reconnect has stopped.
DeadWhenLetGo ==
  /\ \A t \in Tasks : pc[t] = "stop_tear" => held[t] # None /\ sess[held[t]] = "dead"
  /\ \A t \in Reconnectors : pc[t] = "rec_video" =>
       /\ held[t] # None /\ sess[held[t]] = "dead"
       /\ pc["start"] \in {"signal", "gate"} => held[t] # held["start"]

\* The session being started is alive until it fails or is published, and no timeout runs for it.
StartingLives ==
  pc["start"] \in {"signal", "gate"} =>
    /\ timer[held["start"]] = "off"
    /\ pc["start"] = "signal" => sess[held["start"]] = "signal"

\* Who awaits the end of a listener has cancelled it, and nobody starts it again meanwhile.
AwaitsListener(t) == pc[t] \in {"rec_vip", "pause", "rn_stop", "sd_vip"}
ListenersStopped ==
  \A t \in Tasks : /\ AwaitsListener(t) => lheld[t] # None
                   /\ lheld[t] # None => listen[lheld[t]] = None

IndInv ==
  /\ TypeOK /\ SessionsOwned /\ SlotEmpty /\ HeldInUse /\ DeadWhenLetGo /\ StartingLives
  /\ ListenersStopped
  /\ KeepaliveDue /\ ReadyEventMatchesSession /\ PlayGateClosed

\* As long as no connection is dropped: only unloading disconnects the client, only a start that
\* unloading has overtaken reconnects, and it stops the session that is published.
Connected ==
  /\ drops = 0 /\ ~refresh /\ pc["update"] = "idle"
  /\ pc["shutdown"] \notin {"sd_disc", "done"} => Up(client) /\ ~Reconnecting("start")
  /\ pc["start"] = "rec_video" => video \in {held["start"], None}

UndroppedInv == IndInv /\ Connected /\ NoOrphanSession

\* Every connection that is up can be closed: its client is published, or being set up.
ConnectionsOwned ==
  \A c \in Clients : conn[c] = "up" =>
    c = client \/ \E t \in Reconnectors : pc[t] = "rec_setup" /\ new[t] = c

\* Every listener that runs can be stopped: it is _vip_listener.
ListenersOwned == \A l \in Listeners : listen[l] # None => l = vip

\* The user has stopped video while no start was under way: nothing is published that lives, but for
\* what the delayed stop of a door press is about to stop.
StoppedByUser ==
  /\ userStop /\ ~Locked
  /\ video = None \/ sess[video] # "live" \/ \E t \in StopTasks : pc[t] = "delay"

(* What a step may never do *)

\* A user stop stands until the user starts video again: neither a restart that was scheduled before
\* it nor the end of the session, a reconnect or a delayed stop that races it brings video back.
StopStands ==
  [][/\ ~Locked /\ (\E t \in StopTasks : PressStop(t) \/ PressDoor(t)) => StoppedByUser'
     /\ StoppedByUser /\ ~StoppedByUser' => PressStart]_vars

\* A session is lost only where a reconnect clears a slot that another session has taken while it
\* stopped the one it had found there; overlapping tasks and dropped connections cost no other.
SessionsLostOnlyThere ==
  [][NoOrphanSession /\ ~NoOrphanSession' =>
     \E t \in Reconnectors : RecVideoDone(t) /\ video \notin {held[t], None}]_vars

\* A connection stays open, with nobody left to close it, only where the second of two overlapping
\* reconnects publishes its client over that of the first, or unloading forgets the client that a
\* reconnect has published meanwhile.
ConnectionsLostOnlyThere ==
  [][ConnectionsOwned /\ ~ConnectionsOwned' =>
     \/ \E t \in Reconnectors : RecSetupOk(t) /\ client # None
     \/ ShutDisconnected /\ Up(client)]_vars

\* A listener runs on, with nobody left to stop it, only where a reconnect attaches its listener over
\* another, or a task back from stopping one listener clears away another that has come meanwhile.
ListenersLostOnlyThere ==
  [][ListenersOwned /\ ~ListenersOwned' =>
     \/ \E t \in Reconnectors : RecCtppDone(t) /\ vip # None
     \/ \E t \in Tasks : AwaitsListener(t) /\ lheld'[t] = None /\ vip \notin {lheld[t], None}]_vars

\* Whatever overlaps, fails or is dropped, no other step costs a session, a connection or a listener.
LostOnlyThere == SessionsLostOnlyThere /\ ConnectionsLostOnlyThere /\ ListenersLostOnlyThere

----------------------------------------------------------------------------
(* Liveness *)

\* A suspended task is resumed, the event loop runs scheduled tasks, the poll interval
\* and the session timeout elapse.
Fairness ==
  /\ \A t \in Reconnectors : WF_vars(RecStep(t))
  /\ \A t \in Tasks : WF_vars(StopStep(t))
  /\ WF_vars(StartStep) /\ WF_vars(RestartNotificationsStopped) /\ WF_vars(ShutStep)
  /\ \A s \in Sessions : WF_vars(TimeoutFires(s)) /\ WF_vars(TimeoutCallback(s))
  /\ WF_vars(AutoRestart) /\ WF_vars(AsyncUpdateData)

\* The device is not out of reach for ever: of infinitely many attempts some succeed.
DeviceReachable ==
  \A t \in Reconnectors : SF_vars(RecConnectOk(t)) /\ SF_vars(RecSetupOk(t))

FairSpec == Spec /\ Fairness /\ DeviceReachable

\* The health check restores a lost connection, whatever else was going on.
ConnectionRecovers == ~Up(client) ~> Up(client) \/ pc["shutdown"] # "idle"

\* A published session that died without a user stop is replaced or withdrawn.
DeadSessionReplaced ==
  (video # None /\ sess[video] = "dead" /\ ~userStop) ~>
    (video = None \/ sess[video] = "live" \/ userStop \/ pc["shutdown"] # "idle")

----------------------------------------------------------------------------
(* What comments, docstrings and the README say and the code does not do *)

\* coordinator.py:651-654: teardown must not "leave the listener permanently paused - it
\* would stay deaf until coordinator reconnect": a listener that a start paused comes
\* back, unless a session was published meanwhile or the integration is unloaded.
PausedListenerResumes ==
  pc["start"] = "pause" ~>
    (pc["start"] # "pause" /\ (vip # None \/ video # None \/ pc["shutdown"] # "idle"))

\* coordinator.py:465-466: the listener is paused "so it doesn't consume CTPP messages
\* meant for the video session": nobody else reads the CTPP queue of a live session.
ListenerPausedDuringVideo ==
  video # None /\ sess[video] = "live" => \A l \in Listeners : listen[l] # on[video]

\* coordinator.py:421-424: "Auto-restarts are silently dropped if the user has since
\* stopped video": an auto-restart never publishes after a user stop.
AutoRestartYields ==
  [][video' # None /\ video' # video /\ ~byUser => ~userStop]_vars

\* coordinator.py:288 "Disconnect from the device.": after async_shutdown no client and
\* no connection is left.
ShutdownDisconnects ==
  pc["shutdown"] = "done" => client = None /\ \A c \in Clients : conn[c] # "up"

\* README.md:232 "Single shared TCP connection ... the device only accepts one client at
\* a time": never are two connections up.
SingleConnection == \A c, d \in Clients : conn[c] = "up" /\ conn[d] = "up" => c = d

\* coordinator.py:641 "Block future PLAYs until the next session is ready": once a session
\* is published and its start is over, the PLAY gate is open.
PublishedIsPlayable == video # None /\ ~Locked => rtsp

\* README.md:233 "pressing a door button while video is active automatically stops the
\* video session 10 s later".
DoorStopsVideo == \A t \in StopTasks : pc[t] = "delay" ~> video = None
============================================================================
