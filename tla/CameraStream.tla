---------------------------- MODULE CameraStream ----------------------------
(***************************************************************************)
(* One camera: its RTSP server (rtsp_server.py), the coordinator that fans *)
(* one gateway media session out to the RTSP clients and the camera's      *)
(* forced teardown (camera.py), and the StreamSession itself               *)
(* (media_pipeline.py).  The dialer and the SIP listener are reduced to    *)
(* what the session sees of them: a dial or an accepted ring that          *)
(* succeeds or fails, a call the gateway may end, a hangup that is         *)
(* awaited.                                                                *)
(*                                                                         *)
(* Everything runs on one event loop.  A task is at one of the awaits      *)
(* named by pc; an action is the code between two awaits.                  *)
(***************************************************************************)
EXTENDS Naturals, Sequences, SequencesExt, FiniteSets

CONSTANTS Clients,     \* RTSP connections (go2rtc, the LAN proxy, ...)
          Closers,     \* names for _delayed_close tasks that are alive
          Teardowns,   \* names for _force_teardown tasks
          Remover,     \* the task removing the entity
          Watcher,     \* the task watching for the end of the current call
          NoTask,
          Switching,   \* the camera has an index: MESSAGE d:<n> after a dial
          Removable,   \* the entity may be removed
          AwaitsPeers, \* Server.wait_closed waits for connections (3.12.1 on)
          MaxCalls,    \* bound: calls set up by open()
          MaxSignals,  \* bound: armed-changed signals that close the gate
          MaxStarts    \* bound: RtspServer.start()

ASSUME CameraAssumption ==
  /\ Clients \cap Closers = {} /\ Teardowns \cap (Clients \cup Closers) = {}
  /\ {Remover, Watcher} \cap (Clients \cup Closers \cup Teardowns) = {} /\ Remover # Watcher
  /\ NoTask \notin Clients \cup Closers \cup Teardowns \cup {Remover, Watcher}
  /\ {Switching, Removable, AwaitsPeers} \subseteq BOOLEAN
  /\ MaxCalls \in Nat /\ MaxSignals \in Nat /\ MaxStarts \in Nat

VARIABLES
  allowed,    \* is_stream_allowed for this camera's station
  signals,    \* signals so far
  pc,         \* where each task stands
  \* RtspServer
  starts, slot, listening,   \* _server, and the sockets that listen
  sessions,   \* _sessions
  conn,       \* writer of each client: "none", "open", "closing"
  \* StationStreamCoordinator
  clients,    \* _rtsp_play_sessions
  handlers,   \* the session's packet handlers are the coordinator's
  closeTask,  \* _close_task
  lock,       \* _stream_lock: holder, then waiters in FIFO order
  \* StreamSession
  calls, call,               \* calls so far; _call (0: None)
  up,         \* calls the dialer or the listener still holds with the gateway
  watched,    \* the call the watcher was started for
  socks, video, audio, loops,   \* sockets, transports, background tasks
  closing     \* tasks inside close(), in the order they entered

rtsp == <<starts, slot, listening, sessions, conn>>
coord == <<clients, handlers, closeTask>>
media == <<socks, video, audio, loops>>
sess == <<calls, call, up, watched, media, closing>>
vars == <<allowed, signals, pc, rtsp, coord, lock, sess>>

Tasks == Clients \cup Closers \cup Teardowns \cup {Remover, Watcher}
Active == call # 0
Holds(k) == lock # <<>> /\ Head(lock) = k
Removed == pc[Remover] # "idle"

----------------------------------------------------------------------------
(* StationStreamCoordinator: the pieces its methods share.                 *)

\* Faulty variant: no check for None.
CancelledEvenNone == [k \in Tasks \cup {closeTask} |-> IF k = closeTask THEN "cancelled"
                                                     ELSE pc[k]]

\* _cancel_close_task.  The task is only marked: it sees CancelledError when
\* it runs next.  Inside close() the awaits of the media tasks swallow it,
\* the await of the hangup does not.
CloseTaskCancelled ==
  [k \in Tasks |-> IF k = closeTask /\ pc[k] \in {"sleep", "lock", "hangup"}
                   THEN "cancelled" ELSE pc[k]]

\* _schedule_close: the grace period starts again in a new task.
FreeCloser == CHOOSE k \in Closers : pc[k] = "idle"
CanScheduleClose == \E k \in Closers : pc[k] = "idle"

\* The client list after some clients left it: with nobody left the packet
\* handlers go.  (`schedule` tells whether the code also starts the grace
\* period; p is pc as the rest of the step leaves it.)
ClientsBecome(set) ==
  /\ clients' = set
  /\ handlers' = (handlers /\ set # {})

\* Faulty variant: nobody starts the grace period.
NeverSchedule(schedule, p) == pc' = p /\ closeTask' = closeTask

ScheduleCloseIf(schedule, p) ==
  IF schedule
    THEN /\ CanScheduleClose
         /\ closeTask' = FreeCloser
         /\ pc' = [k \in Tasks |->
                     IF k = FreeCloser THEN "sleep"
                     ELSE IF k = closeTask THEN CloseTaskCancelled[k] ELSE p[k]]
    ELSE /\ closeTask' = closeTask
         /\ pc' = p

----------------------------------------------------------------------------
(* StreamSession.close(), entered by a closer, a teardown, the remover or  *)
(* the watcher.  Several of them can be inside; they wait for the same     *)
(* tasks and for the dialer's lock, so they proceed in order.              *)

MediaDown == socks' = FALSE /\ video' = FALSE /\ audio' = FALSE /\ loops' = FALSE

\* Stop and await the watcher (unless it is the one closing), the keepalive,
\* RTCP and stats loops and the talk sender.  p is pc as the step leaves it.
BeginClose(k, p) ==
  LET others == k # Watcher /\ pc[Watcher] = "wait"
      q == IF others THEN [p EXCEPT ![Watcher] = "idle"] ELSE p
  IN /\ closing' = Append(closing, k)
     /\ IF others \/ loops
          THEN /\ pc' = [q EXCEPT ![k] = "tasks"]
               /\ UNCHANGED media
          ELSE /\ pc' = [q EXCEPT ![k] = "hangup"]
               /\ MediaDown

\* Faulty variant: the watcher does not report the end of the call.
ReturnsUnreported(k) ==
  /\ closing' = RemoveFirst(closing, k)
  /\ pc' = [pc EXCEPT ![k] = IF k \in Closers \cup {Watcher} THEN "idle"
                             ELSE IF k = Remover THEN "removed" ELSE "start"]
  /\ lock' = IF k = Watcher THEN lock ELSE Tail(lock)
  /\ UNCHANGED <<clients, handlers, conn>>

\* What follows when close() returns to its caller: the watcher reports the
\* end of the call and the coordinator drops every client; the others leave
\* the stream lock and finish.
CloseReturns(k) ==
  /\ closing' = RemoveFirst(closing, k)
  /\ IF k = Watcher
       THEN /\ pc' = [pc EXCEPT ![k] = "idle"]
            /\ ClientsBecome({})
            /\ conn' = [c \in Clients |-> IF c \in clients THEN "closing" ELSE conn[c]]
            /\ lock' = lock
       ELSE /\ pc' = [pc EXCEPT ![k] = IF k \in Closers THEN "idle"
                                       ELSE IF k = Remover THEN "removed" ELSE "start"]
            /\ lock' = Tail(lock)
            /\ UNCHANGED <<clients, handlers, conn>>

\* The tasks are gone: close the transports, then BYE if there is a call.
TasksStopped(k) ==
  /\ pc[k] = "tasks"
  /\ \A i, j \in DOMAIN closing :
        i < j /\ closing[j] = k => pc[closing[i]] # "tasks"
  /\ MediaDown
  /\ IF Active
       THEN /\ pc' = [pc EXCEPT ![k] = "hangup"]
            /\ UNCHANGED <<clients, handlers, conn, lock, closing>>
       ELSE CloseReturns(k)
  /\ UNCHANGED <<allowed, signals, starts, slot, listening, sessions, closeTask,
                 calls, call, up, watched>>

\* The hangup, scoped to our call id, has returned.
HungUp(k) ==
  /\ pc[k] = "hangup"
  /\ Head(closing) = k
  /\ up' = up \ {call}
  /\ call' = 0
  /\ CloseReturns(k)
  /\ UNCHANGED <<allowed, signals, starts, slot, listening, sessions, closeTask,
                 calls, watched, media>>

\* The watcher runs: its call has ended.  Nothing to do if the session has
\* moved on to another call.
WatcherRuns ==
  /\ pc[Watcher] = "wait"
  /\ watched \notin up
  /\ IF call = watched
       THEN BeginClose(Watcher, pc)
       ELSE /\ pc' = [pc EXCEPT ![Watcher] = "idle"]
            /\ UNCHANGED <<closing, media>>
  /\ UNCHANGED <<allowed, signals, rtsp, coord, lock, calls, call, up, watched>>

----------------------------------------------------------------------------
(* StreamSession.open(), run by a client that holds the stream lock.       *)

\* attach's `except`: the client is dropped and its connection closed; the
\* call, if there is one by now, stays for whoever closes later.
OpenFails(c) ==
  /\ pc' = [pc EXCEPT ![c] = "read"]
  /\ ClientsBecome(clients \ {c})
  /\ conn' = [conn EXCEPT ![c] = "closing"]
  /\ lock' = Tail(lock)

Continues(c, at) ==
  /\ pc' = [pc EXCEPT ![c] = at]
  /\ UNCHANGED <<clients, handlers, conn, lock>>

\* create_datagram_endpoint needs a socket: close() has taken it away if the
\* call ended during one of the awaits of open().
NextEndpoint(c, at) == IF socks THEN Continues(c, at) ELSE OpenFails(c)

OpenUnchanged == UNCHANGED <<allowed, signals, starts, slot, listening, sessions,
                             closeTask, closing>>

\* A ringing call was accepted, or the dial was answered: the watcher of the
\* new call starts.  A camera with an index then switches a dialed call.
CallUp(c) ==
  /\ pc[c] = "dial"
  /\ calls < MaxCalls
  /\ calls' = calls + 1
  /\ call' = calls + 1
  /\ up' = up \cup {calls + 1}
  /\ watched' = calls + 1
  /\ \E at \in IF Switching THEN {"switch", "video"} ELSE {"video"} :
        pc' = [pc EXCEPT ![c] = at, ![Watcher] = "wait"]
  /\ UNCHANGED <<clients, handlers, conn, lock, media>>
  /\ OpenUnchanged

\* Busy, refused, timed out, or pickup disabled while the station rings.
DialFails(c) ==
  /\ pc[c] = "dial"
  /\ OpenFails(c)
  /\ UNCHANGED <<calls, call, up, watched, media>>
  /\ OpenUnchanged

\* The MESSAGE was answered, timed out or failed: all the same to open().
Switched(c) ==
  /\ pc[c] = "switch"
  /\ NextEndpoint(c, "video")
  /\ UNCHANGED <<calls, call, up, watched, media>>
  /\ OpenUnchanged

VideoBound(c) ==
  /\ pc[c] = "video"
  /\ video' = TRUE
  /\ NextEndpoint(c, "audio")
  /\ UNCHANGED <<calls, call, up, watched, socks, audio, loops>>
  /\ OpenUnchanged

\* The last await of open(): then the ports are punched, which fails when
\* the video transport is gone but the endpoints are still known, and the
\* talk sender and the loops are started whatever has become of the call.
AudioBound(c) ==
  /\ pc[c] = "audio"
  /\ audio' = TRUE
  /\ IF ~video /\ Active
       THEN OpenFails(c) /\ loops' = loops
       ELSE /\ pc' = [pc EXCEPT ![c] = "read"]
            /\ lock' = Tail(lock)
            /\ loops' = TRUE
            /\ UNCHANGED <<clients, handlers, conn>>
  /\ UNCHANGED <<calls, call, up, watched, socks, video>>
  /\ OpenUnchanged

----------------------------------------------------------------------------
(* What each holder of the stream lock does first.  l is the lock with the *)
(* task at its head, p is pc as the rest of the step leaves it.            *)

Leave(k, at, p, l) ==
  /\ pc' = [p EXCEPT ![k] = at]
  /\ lock' = Tail(l)
  /\ UNCHANGED <<closing, media>>

WithLock(k, p, l) ==
  CASE k \in Clients ->
         IF Active
           THEN Leave(k, "read", p, l)
           ELSE /\ pc' = [p EXCEPT ![k] = "dial"]
                /\ lock' = l
                /\ socks' = TRUE
                /\ UNCHANGED <<closing, video, audio, loops>>
    [] k \in Closers ->
         IF clients = {} /\ Active
           THEN BeginClose(k, p) /\ lock' = l
           ELSE Leave(k, "idle", p, l)
    [] OTHER ->
         IF Active
           THEN BeginClose(k, p) /\ lock' = l
           ELSE Leave(k, IF k = Remover THEN "removed" ELSE "start", p, l)

\* Faulty variant: without the lock.
EnterAtOnce(k, p) == WithLock(k, p, <<k>> \o lock)

\* `async with self._stream_lock`: a free lock is taken without an await.
EnterLock(k, p) ==
  IF lock = <<>>
    THEN WithLock(k, p, <<k>>)
    ELSE /\ lock' = Append(lock, k)
         /\ pc' = [p EXCEPT ![k] = "lock"]
         /\ UNCHANGED <<closing, media>>

LockGranted(k) ==
  /\ pc[k] = "lock"
  /\ Holds(k)
  /\ WithLock(k, pc, lock)
  /\ UNCHANGED <<allowed, signals, rtsp, coord, calls, call, up, watched>>

----------------------------------------------------------------------------
(* RTSP clients: _handle_connection, one task per connection.              *)

Connect(c) ==
  /\ listening # {}
  /\ pc[c] = "idle"
  /\ c \notin clients
  /\ pc' = [pc EXCEPT ![c] = "read"]
  /\ conn' = [conn EXCEPT ![c] = "open"]
  /\ UNCHANGED <<allowed, signals, starts, slot, listening, sessions, coord, lock, sess>>

\* SETUP creates the session of the connection, once.
SetUp(c) ==
  /\ pc[c] = "read"
  /\ conn[c] = "open"
  /\ c \notin sessions
  /\ sessions' = sessions \cup {c}
  /\ UNCHANGED <<allowed, signals, pc, starts, slot, listening, conn, coord, lock, sess>>

\* PLAY on a known session: _on_rtsp_play asks the gate, once, and attaches.
Play(c) ==
  /\ pc[c] = "read"
  /\ conn[c] = "open"
  /\ c \in sessions
  /\ allowed
  /\ closeTask' = NoTask
  /\ clients' = clients \cup {c}
  /\ handlers' = TRUE
  /\ EnterLock(c, CloseTaskCancelled)
  /\ UNCHANGED <<allowed, signals, rtsp, calls, call, up, watched>>

\* The peer goes away while the handler is busy with PLAY.
PeerCloses(c) ==
  /\ pc[c] \notin {"idle", "read"}
  /\ conn[c] = "open"
  /\ conn' = [conn EXCEPT ![c] = "closing"]
  /\ UNCHANGED <<allowed, signals, pc, starts, slot, listening, sessions, coord, lock, sess>>

\* TEARDOWN or end of the connection.  Only a session the server still knows
\* is reported to the coordinator: detach_rtsp_session.
HandlerEnds(c) ==
  /\ pc[c] = "read"
  /\ conn' = [conn EXCEPT ![c] = "none"]
  /\ sessions' = sessions \ {c}
  /\ IF c \in sessions
       THEN /\ ClientsBecome(clients \ {c})
            /\ ScheduleCloseIf(clients \ {c} = {}, [pc EXCEPT ![c] = "idle"])
       ELSE /\ pc' = [pc EXCEPT ![c] = "idle"]
            /\ UNCHANGED coord
  /\ UNCHANGED <<allowed, signals, starts, slot, listening, lock, sess>>

\* A packet of the gateway is forwarded: push_rtp fails for a client whose
\* writer is closing, and that client is dropped from the list.
Forward ==
  /\ video \/ audio
  /\ handlers
  /\ \E c \in clients : conn[c] # "open"
  /\ ClientsBecome({c \in clients : conn[c] = "open"})
  /\ ScheduleCloseIf(\A c \in clients : conn[c] # "open", pc)
  /\ UNCHANGED <<allowed, signals, rtsp, lock, sess>>

----------------------------------------------------------------------------
(* _delayed_close.                                                         *)

GraceOver(k) ==
  /\ k \in Closers
  /\ pc[k] = "sleep"
  /\ IF clients = {}
       THEN EnterLock(k, pc)
       ELSE /\ pc' = [pc EXCEPT ![k] = "idle"]
            /\ UNCHANGED <<lock, closing, media>>
  /\ UNCHANGED <<allowed, signals, rtsp, coord, calls, call, up, watched>>

\* Faulty variant: close() clears _call in a `finally`.
CloserForgetsCall(k) ==
  /\ pc[k] = "cancelled"
  /\ pc' = [pc EXCEPT ![k] = "idle"]
  /\ call' = IF \E i \in DOMAIN closing : closing[i] = k THEN 0 ELSE call
  /\ lock' = RemoveFirst(lock, k)
  /\ closing' = RemoveFirst(closing, k)
  /\ UNCHANGED <<allowed, signals, rtsp, coord, calls, up, watched, media>>

\* CancelledError reaches the task: out of the sleep, out of the queue for
\* the lock, or out of close() in the middle of the hangup, whose last
\* assignments are skipped.
CloserCancelled(k) ==
  /\ pc[k] = "cancelled"
  /\ pc' = [pc EXCEPT ![k] = "idle"]
  /\ lock' = RemoveFirst(lock, k)
  /\ closing' = RemoveFirst(closing, k)
  /\ UNCHANGED <<allowed, signals, rtsp, coord, calls, call, up, watched, media>>

----------------------------------------------------------------------------
(* _force_teardown and async_will_remove_from_hass: stop the server, close *)
(* the session; the former then starts a server again.                     *)

ForceClose(k) ==
  /\ closeTask' = NoTask
  /\ ClientsBecome({})
  /\ EnterLock(k, CloseTaskCancelled)

\* RtspServer.stop up to its await, which is there only if a server is.
StopServer(k) ==
  /\ IF k = Remover THEN Removable /\ pc[k] = "idle" ELSE pc[k] = "new"
  /\ conn' = [c \in Clients |-> IF c \in sessions THEN "closing" ELSE conn[c]]
  /\ sessions' = {}
  /\ listening' = listening \ {slot}
  /\ IF slot # 0
       THEN /\ pc' = [pc EXCEPT ![k] = "stop"]
            /\ UNCHANGED <<coord, lock, closing, media>>
       ELSE ForceClose(k)
  /\ UNCHANGED <<allowed, signals, starts, slot, calls, call, up, watched>>

ServerStopped(k) ==
  /\ pc[k] = "stop"
  /\ AwaitsPeers => \A c \in Clients : conn[c] # "open"
  /\ slot' = 0
  /\ ForceClose(k)
  /\ UNCHANGED <<allowed, signals, starts, listening, sessions, conn,
                 calls, call, up, watched>>

ServerStarted(k) ==
  /\ pc[k] = "start"
  /\ starts < MaxStarts
  /\ starts' = starts + 1
  /\ slot' = starts + 1
  /\ listening' = listening \cup {starts + 1}
  /\ pc' = [pc EXCEPT ![k] = "idle"]
  /\ UNCHANGED <<allowed, signals, sessions, conn, coord, lock, sess>>

----------------------------------------------------------------------------
(* The gate and the gateway.                                               *)

\* What _on_armed_changed finds worth tearing down; a faulty variant asks the
\* server only.
InUseByClients == sessions # {}
InUse == sessions # {} \/ Active

\* signal_armed_changed while streaming is not allowed (disarmed, expired,
\* or armed for another station): _on_armed_changed tears down what it sees.
GateCloses ==
  /\ signals < MaxSignals
  /\ signals' = signals + 1
  /\ allowed' = FALSE
  /\ IF ~Removed /\ InUse
       THEN \E k \in Teardowns : pc[k] = "idle" /\ pc' = [pc EXCEPT ![k] = "new"]
       ELSE pc' = pc
  /\ UNCHANGED <<rtsp, coord, lock, sess>>

GateOpens ==
  /\ ~allowed
  /\ allowed' = TRUE
  /\ UNCHANGED <<signals, pc, rtsp, coord, lock, sess>>

\* BYE from the gateway, or another camera's dial replaced the call.
CallEnds ==
  /\ \E i \in up : up' = up \ {i}
  /\ UNCHANGED <<allowed, signals, pc, rtsp, coord, lock, calls, call, watched,
                 media, closing>>

Init ==
  /\ allowed = FALSE /\ signals = 0
  /\ pc = [k \in Tasks |-> "idle"]
  /\ starts = 1 /\ slot = 1 /\ listening = {1}
  /\ sessions = {} /\ conn = [c \in Clients |-> "none"]
  /\ clients = {} /\ handlers = FALSE /\ closeTask = NoTask /\ lock = <<>>
  /\ calls = 0 /\ call = 0 /\ up = {} /\ watched = 0
  /\ socks = FALSE /\ video = FALSE /\ audio = FALSE /\ loops = FALSE
  /\ closing = <<>>

ClientStep(c) ==
  \/ Connect(c) \/ SetUp(c) \/ Play(c) \/ PeerCloses(c) \/ HandlerEnds(c)
  \/ CallUp(c) \/ DialFails(c) \/ Switched(c) \/ VideoBound(c) \/ AudioBound(c)

TeardownStep(k) == StopServer(k) \/ ServerStopped(k) \/ ServerStarted(k)

Next ==
  \/ \E c \in Clients : ClientStep(c)
  \/ \E k \in Closers : GraceOver(k) \/ CloserCancelled(k)
  \/ \E k \in Teardowns \cup {Remover} : TeardownStep(k)
  \/ \E k \in Tasks : LockGranted(k) \/ TasksStopped(k) \/ HungUp(k)
  \/ WatcherRuns \/ Forward \/ GateCloses \/ GateOpens \/ CallEnds

Spec == Init /\ [][Next]_vars

\* Every await returns: dial, MESSAGE, BYE and endpoints are bounded by
\* timeouts or immediate, and the loop runs what is ready.  Clients, the gate,
\* the gateway and the removal of the entity owe us nothing.
Fairness ==
  /\ \A c \in Clients :
       /\ WF_vars(CallUp(c) \/ DialFails(c))
       /\ WF_vars(Switched(c) \/ VideoBound(c) \/ AudioBound(c))
       /\ WF_vars(conn[c] = "closing" /\ HandlerEnds(c))
  /\ \A k \in Closers : WF_vars(GraceOver(k) \/ CloserCancelled(k))
  /\ \A k \in Teardowns : WF_vars(TeardownStep(k))
  /\ WF_vars(ServerStopped(Remover))
  /\ \A k \in Tasks : WF_vars(LockGranted(k) \/ TasksStopped(k) \/ HungUp(k))
  /\ WF_vars(WatcherRuns)

FairSpec == Spec /\ Fairness

----------------------------------------------------------------------------
(* Properties.                                                             *)

\* Types of the variables of the server, the coordinator and the session.
TypeOK ==
  /\ allowed \in BOOLEAN
  /\ signals \in 0..MaxSignals
  /\ pc \in [Tasks -> {"idle", "read", "lock", "dial", "switch", "video", "audio",
                       "sleep", "cancelled", "new", "stop", "start", "removed",
                       "wait", "tasks", "hangup"}]
  /\ starts \in Nat /\ slot \in 0..starts /\ listening \subseteq 1..starts
  /\ sessions \subseteq Clients
  /\ conn \in [Clients -> {"none", "open", "closing"}]
  /\ clients \subseteq Clients
  /\ handlers \in BOOLEAN
  /\ closeTask \in Closers \cup {NoTask}
  /\ lock \in Seq(Tasks)
  /\ calls \in 0..MaxCalls /\ call \in 0..calls /\ watched \in 0..calls
  /\ up \subseteq 1..calls
  /\ socks \in BOOLEAN /\ video \in BOOLEAN /\ audio \in BOOLEAN /\ loops \in BOOLEAN
  /\ closing \in Seq(Tasks)

\* Every call the gateway still holds for us is the session's own: no path
\* through open, close, cancellation and the watcher loses track of a call
\* that keeps the building's intercom busy.
NoLostCall == up \subseteq {call}

\* A dial never overlaps a close or an earlier call of the same session, not
\* even the close of the watcher, which does not take the stream lock.
NoDialDuringClose ==
  \A c \in Clients : pc[c] = "dial" => call = 0 /\ closing = <<>>

\* The session's packet handlers are installed exactly while somebody is
\* there to receive packets, whichever of the six paths changed the list, and
\* a client in the list has, outside PLAY, a call: it is not left waiting for
\* a session that somebody else closed.
AttachedAreServed ==
  /\ handlers <=> clients # {}
  /\ \A c \in clients : pc[c] = "read" => Active

\* Server.wait_closed: a forced teardown, or the removal of the entity, is held
\* up by a peer that is still connected.
HeldUp == \E k \in Tasks : pc[k] = "stop" /\ \E c \in Clients : conn[c] = "open"

\* After the last client is gone the gateway is freed (camera.py:17-19), as
\* soon as connections stop coming - each one that is set up and torn down
\* starts the grace period again, whether or not it ever asks for PLAY - and
\* unless a peer holds a teardown up for ever: a client that the teardown has
\* taken out of the server's sessions starts no grace period when it leaves.
LastClientFreesCall ==
  []<>~HeldUp /\ <>[][\A c \in Clients : ~Connect(c)]_vars =>
    ((clients = {} /\ Active) ~> (~Active \/ clients # {}))

\* Once the gate is closed the call is given up, if the peers that are still
\* connected leave.  An entity that is being removed no longer listens to the
\* gate.
GateClosedFreesCallAfterPeers ==
  []<>~HeldUp => ((~allowed /\ ~Removed) ~> (~Active \/ allowed \/ Removed))

\* README.md:178-179: turning the switch off "immediately disarms streaming
\* and closes active stream sessions".  The teardown stops the server first
\* and waits for its connections, also for those without a session, which it
\* does not close; the call stays up behind them.
GateClosedFreesCall ==
  (~allowed /\ ~Removed) ~> (~Active \/ allowed \/ Removed)

\* streaming_state.py:5-8, camera.py:13-15: no dial while streaming is not
\* permitted.
DialOnlyWhenAllowed ==
  [][\A c \in Clients : pc[c] # "dial" /\ pc'[c] = "dial" => allowed]_vars

\* rtsp_server.py:3: one server per camera.
OneServer == Cardinality(listening) <= 1

\* media_pipeline.py:13-14: closing the pipeline tears everything down.
NoMediaWithoutCall ==
  (~Active /\ closing = <<>> /\ \A c \in Clients : pc[c] \in {"idle", "read"})
    => ~video /\ ~audio /\ ~loops

\* camera.py:337: the session is fanned out to the consumers: whoever has
\* finished PLAY has a session with transports, unless it is being closed.
AttachedHasMedia ==
  \A c \in clients : pc[c] = "read" => video \/ closing # <<>>
=============================================================================
