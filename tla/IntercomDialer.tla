--------------------------- MODULE IntercomDialer ---------------------------
(***************************************************************************)
(* intercom_dialer.py: one TLS connection to the gateway, one lock, at     *)
(* most one call, shared by the media sessions of all cameras; and the     *)
(* gateway at the other end, which answers, refuses, challenges, hangs up  *)
(* or stays silent.                                                        *)
(*                                                                         *)
(* An action is the code between two awaits.  Taking a free lock is a step *)
(* of its own here; what can come between is only what could have come     *)
(* just before.                                                            *)
(***************************************************************************)
EXTENDS Naturals, Sequences, FiniteSets, SequencesExt

CONSTANTS Sessions,     \* media sessions, one per camera
          Indexed,      \* those that switch the station's camera after a dial
          Unloader,     \* the task unloading the entry
          MaxCalls,     \* bound: INVITEs
          MaxFrames,    \* bound: frames on their way from the gateway
          MaxLosses     \* bound: losses of the connection

ASSUME DialerAssumption ==
  /\ IsFiniteSet(Sessions) /\ Indexed \subseteq Sessions /\ Unloader \notin Sessions
  /\ MaxCalls \in Nat /\ MaxFrames \in Nat /\ MaxLosses \in Nat

VARIABLES
  conn,      \* "none": _writer is None; "up": usable; "lost": closing
  lock,      \* _lock: holder, then waiters
  call,      \* _call (0: None)
  pending,   \* _pending_camera_count_target (0: None)
  queue,     \* _inbound_queue
  ended,     \* keys of _ended_call_reasons (of which 32 are kept)
  pc,        \* where each task stands
  retried,   \* sessions in the second attempt of dial()
  at,        \* per task: the call of the exchange it is in (0: none)
  mine,      \* per session: the call its dial returned (0: none)
  watch,     \* per session: its wait_call_end task
  calls,     \* INVITEs so far
  wire,      \* frames sent by the gateway, not yet read
  gw,        \* the gateway's view of each call
  dropped,   \* calls this side stopped tracking without telling the gateway
  losses

sip == <<conn, call, pending, queue, ended, wire, watch, dropped>>
task == <<retried, at, mine>>
vars == <<sip, pc, task, lock, calls, gw, losses>>

Tasks == Sessions \cup {Unloader}
CallIds == 1..MaxCalls
Frame == [k : {"100", "401", "200", "4xx", "BYE"}, id : CallIds]
Unanswered(i) == gw[i] \in {"invited", "ringing", "authed"}
Open(i) == Unanswered(i) \/ gw[i] \in {"challenged", "up"}

Holds(s) == lock # <<>> /\ Head(lock) = s
Go(s, to) == pc' = [pc EXCEPT ![s] = to]
Await(s, to) == Go(s, to) /\ lock' = Append(lock, s)
Leave(s, to) == Go(s, to) /\ at' = [at EXCEPT ![s] = 0]
Release(s, to) == Leave(s, to) /\ lock' = Tail(lock)
\* asyncio.Lock is fair: who gives it up and asks again queues behind others.
Reacquire(s, to) == Leave(s, to) /\ lock' = Append(Tail(lock), s)

----------------------------------------------------------------------------
(* Shared pieces.                                                          *)

\* _finish_call: forget the call, remember that it ended, wake its waiters.
Finish(i) ==
  /\ call' = IF call = i THEN 0 ELSE call
  /\ pending' = IF pending = i THEN 0 ELSE pending
  /\ ended' = ended \cup {i}
  /\ watch' = [s \in Sessions |->
                 IF watch[s] = "waiting" /\ mine[s] = i THEN "woken" ELSE watch[s]]

\* Faulty variant: also without a call.
ResetFinishing(also) ==
  /\ conn' = "none" /\ queue' = <<>> /\ wire' = <<>>
  /\ dropped' = dropped \cup also \cup ({call} \ {0})
  /\ Finish(call)

\* _reset_connection_locked: no BYE goes out, so the gateway may keep the
\* call, and with it an INVITE (`also`) this step gives up on.
Reset(also) ==
  /\ conn' = "none"
  /\ queue' = <<>>
  /\ wire' = <<>>
  /\ dropped' = dropped \cup also \cup ({call} \ {0})
  /\ IF call # 0
       THEN Finish(call)
       ELSE call' = 0 /\ pending' = 0 /\ UNCHANGED <<ended, watch>>

\* Faulty variant: the exception leaves the lock taken.
RaisesWithLock(s) == Leave(s, "idle") /\ retried' = retried \ {s} /\ UNCHANGED lock

\* A dial that ends with an exception other than ConnectionError.
DialRaises(s) ==
  /\ Release(s, "idle")
  /\ retried' = retried \ {s}

\* `except ConnectionError` of dial(): take the lock again to reset.
DialLosesConnection(s) ==
  /\ Reacquire(s, "r_lock")
  /\ UNCHANGED retried

----------------------------------------------------------------------------
(* dial(): ensure_connected, then the lock again, then the INVITE.         *)

\* The bound on INVITEs: every dial keeps room for its own, and every loss of
\* the connection for one retry.
Dialing == {s \in Sessions :
              \/ pc[s] \in {"c_lock", "connecting", "d_lock", "r_lock", "replace"}
              \/ pc[s] \in {"invite", "proceed"} /\ conn # "up"}
Within == calls + Cardinality(Dialing) + MaxLosses - losses < MaxCalls

Dial(s) ==
  /\ pc[s] = "idle"
  /\ mine[s] = 0
  /\ Within
  /\ Await(s, "c_lock")
  /\ UNCHANGED <<sip, task, calls, gw, losses>>

\* ensure_connected: usable, or reset and connect.
EnsureConnected(s) ==
  /\ pc[s] = "c_lock"
  /\ Holds(s)
  /\ \/ /\ conn = "up"
        /\ Reacquire(s, "d_lock")
        /\ UNCHANGED sip
     \/ /\ conn # "up"
        /\ Reset({})
        /\ Go(s, "connecting")
        /\ UNCHANGED <<lock, at>>
  /\ UNCHANGED <<retried, mine, calls, gw, losses>>

\* TLS connect and REGISTER succeeded, or one of them failed - with a
\* ConnectionError, which dial() retries once, or otherwise.
Connected(s) ==
  /\ pc[s] = "connecting"
  /\ conn' = "up"
  /\ Reacquire(s, "d_lock")
  /\ UNCHANGED <<call, pending, queue, ended, wire, watch, dropped, retried, mine,
                 calls, gw, losses>>

ConnectFails(s) ==
  /\ pc[s] = "connecting"
  /\ DialRaises(s) \/ DialLosesConnection(s)
  /\ UNCHANGED <<sip, mine, calls, gw, losses>>

\* The reset after a ConnectionError; the first one is retried.
ResetAndRetry(s) ==
  /\ pc[s] = "r_lock"
  /\ Holds(s)
  /\ Reset({})
  /\ \/ s \notin retried /\ Reacquire(s, "c_lock") /\ retried' = retried \cup {s}
     \/ s \in retried /\ DialRaises(s)
  /\ UNCHANGED <<mine, calls, gw, losses>>

\* _hangup_locked up to the answer: the gateway has the BYE.
SendBye(s, to) ==
  /\ Go(s, to)
  /\ at' = [at EXCEPT ![s] = call]
  /\ gw' = [gw EXCEPT ![call] = IF @ = "up" THEN "released" ELSE @]

\* Is there a call to bump? A faulty variant bumps nothing.
NothingUp == TRUE
NoCallUp == call = 0

\* The lock is there: bump whatever call is up.
BumpCall(s) ==
  /\ pc[s] = "d_lock"
  /\ Holds(s)
  /\ ~NoCallUp
  /\ \/ /\ conn = "up"
        /\ SendBye(s, "replace")
        /\ UNCHANGED <<sip, lock, retried>>
     \/ /\ conn = "lost"
        /\ Reset({})
        /\ DialLosesConnection(s)
        /\ UNCHANGED gw
  /\ UNCHANGED <<mine, calls, losses>>

\* ... and send the INVITE, in the same hold of the lock.  Without a writer
\* the assertion of _send_request ends the dial.
SendInvite(s) ==
  LET id == calls + 1
  IN /\ pc[s] = "d_lock"
     /\ Holds(s)
     /\ NoCallUp
     /\ \/ /\ conn = "up"
           /\ calls' = id
           /\ pending' = id
           /\ gw' = [gw EXCEPT ![id] = "invited"]
           /\ Go(s, "invite")
           /\ at' = [at EXCEPT ![s] = id]
           /\ UNCHANGED <<conn, call, queue, ended, wire, watch, dropped, lock, retried>>
        \/ /\ conn = "lost"
           /\ Reset({})
           /\ DialLosesConnection(s)
           /\ UNCHANGED <<calls, gw>>
        \/ /\ conn = "none"
           /\ calls' = id
           /\ pending' = id
           /\ DialRaises(s)
           /\ UNCHANGED <<conn, call, queue, ended, wire, watch, dropped, gw>>
     /\ UNCHANGED <<mine, losses>>

----------------------------------------------------------------------------
(* The answers to the INVITE, from the inbound queue.                      *)

InviteAnswered(s, kind) ==
  /\ pc[s] \in {"invite", "proceed"}
  /\ queue # <<>>
  /\ Head(queue) = [k |-> kind, id |-> at[s]]

\* Only the first response may be a challenge.
AnswerChallenge(s) ==
  /\ InviteAnswered(s, "401")
  /\ pc[s] = "invite"
  /\ \/ /\ conn = "up"
        /\ queue' = Tail(queue)
        /\ gw' = [gw EXCEPT ![at[s]] = IF @ = "challenged" THEN "authed" ELSE @]
        /\ Go(s, "proceed")
        /\ UNCHANGED <<conn, call, pending, ended, wire, watch, dropped, lock, at, retried>>
     \/ /\ conn # "up"
        /\ Reset({at[s]})
        /\ DialLosesConnection(s)
        /\ UNCHANGED gw
  /\ UNCHANGED <<mine, calls, losses>>

Proceeding(s) ==
  /\ InviteAnswered(s, "100")
  /\ queue' = Tail(queue)
  /\ Go(s, "proceed")
  /\ UNCHANGED <<conn, call, pending, ended, wire, watch, dropped, lock, task,
                 calls, gw, losses>>

Rejected(s) ==
  /\ \/ InviteAnswered(s, "4xx")
     \/ InviteAnswered(s, "401") /\ pc[s] = "proceed"
  /\ queue' = Tail(queue)
  /\ pending' = 0
  /\ DialRaises(s)
  /\ gw' = [gw EXCEPT ![at[s]] = IF @ = "challenged" THEN "released" ELSE @]
  /\ UNCHANGED <<conn, call, ended, wire, watch, dropped, mine, calls, losses>>

\* 200: ACK it, and the call is up.  The session starts wait_call_end, which
\* returns at once when the call is known to have ended, and goes on to the
\* camera switch, or is done.
CallAccepted(s) ==
  /\ InviteAnswered(s, "200")
  /\ \/ /\ conn = "up"
        /\ queue' = Tail(queue)
        /\ call' = at[s]
        /\ pending' = 0
        /\ mine' = [mine EXCEPT ![s] = at[s]]
        /\ watch' = [watch EXCEPT ![s] = IF at[s] \in ended THEN "woken" ELSE "waiting"]
        /\ retried' = retried \ {s}
        /\ IF s \in Indexed THEN Reacquire(s, "m_lock") ELSE Release(s, "idle")
        /\ UNCHANGED <<conn, ended, wire, dropped>>
     \/ /\ conn # "up"
        /\ Reset({at[s]})
        /\ DialLosesConnection(s)
        /\ UNCHANGED mine
  /\ UNCHANGED <<calls, gw, losses>>

\* ... or its SDP cannot be parsed: a best-effort BYE.
AnswerUnusable(s) ==
  /\ InviteAnswered(s, "200")
  /\ conn = "up"
  /\ queue' = Tail(queue)
  /\ pending' = 0
  /\ gw' = [gw EXCEPT ![at[s]] = IF @ = "up" THEN "released" ELSE @]
  /\ Go(s, "best_effort")
  /\ UNCHANGED <<conn, call, ended, wire, watch, dropped, lock, task, calls, losses>>

ByeGivenUp(s) ==
  /\ pc[s] = "best_effort"
  /\ DialRaises(s)
  /\ UNCHANGED <<sip, mine, calls, gw, losses>>

\* 15 s without an answer: no CANCEL goes out.
InviteTimeout(s) ==
  /\ pc[s] \in {"invite", "proceed"}
  /\ queue = <<>>
  /\ DialRaises(s)
  /\ dropped' = dropped \cup {at[s]}
  /\ UNCHANGED <<conn, call, pending, queue, ended, wire, watch, mine, calls, gw,
                 losses>>

\* _await_response drops every frame it is not waiting for.
Discard(s) ==
  /\ Holds(s)
  /\ queue # <<>>
  /\ \/ pc[s] \in {"replace", "bye", "msg", "best_effort"}
     \/ pc[s] \in {"invite", "proceed"} /\ Head(queue).id # at[s]
  /\ queue' = Tail(queue)
  /\ UNCHANGED <<conn, call, pending, ended, wire, watch, dropped, lock, pc, task,
                 calls, gw, losses>>

----------------------------------------------------------------------------
(* hangup(), close(), send_active_message(), wait_call_end().              *)

\* The session's close(): first its watcher goes.
Hangup(s) ==
  /\ pc[s] = "idle"
  /\ mine[s] # 0
  /\ watch' = [watch EXCEPT ![s] = "none"]
  /\ Await(s, "h_lock")
  /\ UNCHANGED <<conn, call, pending, queue, ended, wire, dropped, task, calls, gw,
                 losses>>

\* The scope of hangup; a faulty variant has none.
AnyCall(s) == call # 0
OwnCall(s) == call = mine[s]

\* Nothing to hang up, or the active call is another session's.
HangupSkipped(s) ==
  /\ pc[s] = "h_lock"
  /\ Holds(s)
  /\ ~OwnCall(s)
  /\ Release(s, "idle")
  /\ mine' = [mine EXCEPT ![s] = 0]
  /\ UNCHANGED <<sip, retried, calls, gw, losses>>

\* The caller swallows the ConnectionError of a lost connection.
HangupSends(s) ==
  /\ pc[s] = "h_lock"
  /\ Holds(s)
  /\ OwnCall(s)
  /\ \/ /\ conn = "up"
        /\ SendBye(s, "bye")
        /\ UNCHANGED <<sip, lock, mine>>
     \/ /\ conn # "up"
        /\ Reset({})
        /\ Release(s, "idle")
        /\ mine' = [mine EXCEPT ![s] = 0]
        /\ UNCHANGED gw
  /\ UNCHANGED <<retried, calls, losses>>

\* The answer to a BYE, or 5 s: local_bye.  A dial goes on to its INVITE,
\* the unloading task to the REGISTER that ends its registration.
ByeDone(s) ==
  /\ Finish(at[s])
  /\ \/ /\ pc[s] = "bye" /\ s \in Sessions
        /\ Release(s, "idle")
        /\ mine' = [mine EXCEPT ![s] = 0]
     \/ /\ pc[s] = "bye" /\ s = Unloader
        /\ Leave(s, "unregister")
        /\ UNCHANGED <<lock, mine>>
     \/ /\ pc[s] = "replace"
        /\ Leave(s, "d_lock")
        /\ UNCHANGED <<lock, mine>>
  /\ UNCHANGED <<conn, queue, wire, dropped, retried, calls, gw, losses>>

\* The grace-period task is cancelled inside hangup: the BYE may be out, the
\* call stays active here, and the session still has it.
HangupCancelled(s) ==
  /\ pc[s] \in {"h_lock", "bye"}
  /\ s \in Sessions
  /\ Leave(s, "idle")
  /\ \E n \in DOMAIN lock : lock[n] = s /\ lock' = RemoveAt(lock, n)
  /\ UNCHANGED <<sip, retried, mine, calls, gw, losses>>

\* The switch to camera d:<n>, in the dialog of whatever call is active.
SendSwitch(s) ==
  /\ pc[s] = "m_lock"
  /\ Holds(s)
  /\ call # 0 /\ conn = "up"
  /\ at' = [at EXCEPT ![s] = call]
  /\ Go(s, "msg")
  /\ UNCHANGED <<sip, lock, retried, mine, calls, gw, losses>>

SwitchRefused(s) ==
  /\ pc[s] = "m_lock"
  /\ Holds(s)
  /\ call = 0 \/ conn # "up"
  /\ Release(s, "idle")
  /\ UNCHANGED <<sip, retried, mine, calls, gw, losses>>

\* Answered, challenged and answered - if the connection still stands by
\* then - or 3 s.
SwitchDone(s) ==
  /\ pc[s] = "msg"
  /\ Release(s, "idle")
  /\ UNCHANGED sip \/ (conn = "lost" /\ Reset({}))
  /\ UNCHANGED <<retried, mine, calls, gw, losses>>

\* close() of the dialer, when the entry is unloaded.
Close ==
  /\ pc[Unloader] = "idle"
  /\ Await(Unloader, "x_lock")
  /\ UNCHANGED <<sip, task, calls, gw, losses>>

CloseHangsUp ==
  /\ pc[Unloader] = "x_lock"
  /\ Holds(Unloader)
  /\ IF call # 0 /\ conn = "up"
       THEN SendBye(Unloader, "bye") /\ UNCHANGED sip
       ELSE /\ Go(Unloader, "unregister")
            /\ IF conn = "lost" /\ call # 0 THEN Reset({}) ELSE UNCHANGED sip
            /\ UNCHANGED <<at, gw>>
  /\ UNCHANGED <<lock, retried, mine, calls, losses>>

CloseResets ==
  /\ pc[Unloader] = "unregister"
  /\ Reset({})
  /\ Release(Unloader, "closed")
  /\ UNCHANGED <<retried, mine, calls, gw, losses>>

----------------------------------------------------------------------------
(* The reader task, and the gateway.                                       *)

\* What the reader handles itself; a faulty variant leaves a BYE to whoever
\* awaits a response.
NoFrame(f) == FALSE
IsBye(f) == f.k = "BYE"

\* A BYE ends its call at once; responses wait for whoever holds the lock.
ReadFrame ==
  /\ wire # <<>>
  /\ wire' = Tail(wire)
  /\ IF IsBye(Head(wire))
       THEN Finish(Head(wire).id) /\ UNCHANGED queue
       ELSE /\ queue' = Append(queue, Head(wire))
            /\ UNCHANGED <<call, pending, ended, watch>>
  /\ UNCHANGED <<conn, dropped, lock, pc, task, calls, gw, losses>>

\* What the gateway sends on a connection that is gone does not arrive.
GatewaySends(i, kind, state) ==
  /\ Len(wire) + Len(queue) < MaxFrames
  /\ wire' = IF conn = "up" THEN Append(wire, [k |-> kind, id |-> i]) ELSE wire
  /\ gw' = [gw EXCEPT ![i] = state]
  /\ UNCHANGED <<conn, call, pending, queue, ended, watch, dropped, lock, pc, task,
                 calls, losses>>

\* A provisional response, sent a finite number of times.
Trying(i) == gw[i] \in {"invited", "authed"} /\ GatewaySends(i, "100", "ringing")
Challenge(i) == gw[i] \in {"invited", "ringing"} /\ GatewaySends(i, "401", "challenged")
Accept(i) == Unanswered(i) /\ GatewaySends(i, "200", "up")
Refuse(i) == Unanswered(i) /\ GatewaySends(i, "4xx", "refused")
GatewayBye(i) == gw[i] = "up" /\ GatewaySends(i, "BYE", "ended")

LoseConnection ==
  /\ conn = "up"
  /\ losses < MaxLosses
  /\ losses' = losses + 1
  /\ conn' = "lost"
  /\ wire' = <<>>
  /\ UNCHANGED <<call, pending, queue, ended, watch, dropped, lock, pc, task, calls,
                 gw>>

----------------------------------------------------------------------------

Init ==
  /\ conn = "none"
  /\ lock = <<>>
  /\ call = 0
  /\ pending = 0
  /\ queue = <<>>
  /\ ended = {}
  /\ pc = [s \in Tasks |-> "idle"]
  /\ retried = {}
  /\ at = [s \in Tasks |-> 0]
  /\ mine = [s \in Sessions |-> 0]
  /\ watch = [s \in Sessions |-> "none"]
  /\ calls = 0
  /\ wire = <<>>
  /\ gw = [i \in CallIds |-> "none"]
  /\ dropped = {}
  /\ losses = 0

\* What the task does next once it has been let.
Progress(s) ==
  \/ EnsureConnected(s)
  \/ Connected(s)
  \/ ConnectFails(s)
  \/ ResetAndRetry(s)
  \/ BumpCall(s)
  \/ SendInvite(s)
  \/ AnswerChallenge(s)
  \/ Proceeding(s)
  \/ Rejected(s)
  \/ CallAccepted(s)
  \/ AnswerUnusable(s)
  \/ ByeGivenUp(s)
  \/ InviteTimeout(s)
  \/ Discard(s)
  \/ HangupSkipped(s)
  \/ HangupSends(s)
  \/ SendSwitch(s)
  \/ SwitchRefused(s)
  \/ SwitchDone(s)

Gateway(i) ==
  \/ Trying(i)
  \/ Challenge(i)
  \/ Accept(i)
  \/ Refuse(i)
  \/ GatewayBye(i)

Next ==
  \/ \E s \in Sessions : Dial(s) \/ Progress(s) \/ Hangup(s) \/ HangupCancelled(s)
  \/ \E s \in Tasks : ByeDone(s)
  \/ \E i \in CallIds : Gateway(i)
  \/ ReadFrame
  \/ LoseConnection
  \/ Close
  \/ CloseHangsUp
  \/ CloseResets
  \/ Discard(Unloader)

Spec == Init /\ [][Next]_vars

\* Tasks run when they can; every wait for the gateway has a timeout, and so
\* has the connection attempt; a session whose watcher has been woken closes.
\* Nothing is asked of the gateway, and nobody has to dial or hang up.
Fairness ==
  /\ \A s \in Sessions : WF_vars(Progress(s))
                         /\ WF_vars(Hangup(s) /\ watch[s] = "woken")
  /\ \A s \in Tasks : WF_vars(ByeDone(s))
  /\ WF_vars(ReadFrame)
  /\ WF_vars(CloseHangsUp)
  /\ WF_vars(CloseResets)

FairSpec == Spec /\ Fairness

----------------------------------------------------------------------------
(* Properties.                                                             *)

TypeOK ==
  /\ conn \in {"none", "up", "lost"}
  /\ lock \in Seq(Tasks)
  /\ {call, pending, calls} \subseteq 0..MaxCalls
  /\ {queue, wire} \subseteq Seq(Frame)
  /\ ended \subseteq CallIds
  /\ pc \in [Tasks -> {"idle", "c_lock", "connecting", "d_lock", "r_lock", "replace",
                       "invite", "proceed", "best_effort", "h_lock", "bye", "m_lock",
                       "msg", "x_lock", "unregister", "closed"}]
  /\ retried \subseteq Sessions
  /\ at \in [Tasks -> 0..MaxCalls]
  /\ mine \in [Sessions -> 0..MaxCalls]
  /\ watch \in [Sessions -> {"none", "waiting", "woken"}]
  /\ gw \in [CallIds -> {"none", "invited", "ringing", "challenged", "authed", "up", "refused",
                         "ended", "released"}]
  /\ dropped \subseteq CallIds
  /\ losses \in 0..MaxLosses

\* Of the calls this side has not given up on, the gateway has at most one
\* open: a dial bumps its predecessor before it sends its own INVITE.
ExclusiveUnlessDropped ==
  \A i, j \in CallIds \ dropped : Open(i) /\ Open(j) => i = j

\* A session that waits for the end of its call will hear of it: it waits for
\* the active call, and one that was replaced, reset or ended before or after
\* the wait began has woken it; and when the gateway has ended the active
\* call, its BYE is still on the wire, or the call is in the memory from which
\* wait_call_end answers, or the connection is down.  The active call is one
\* session's, which will hang it up or be told of its end, and no other's.
EndReachesWaiter ==
  /\ \A s \in Sessions : watch[s] = "waiting" => mine[s] = call /\ call \notin ended
  /\ call # 0 /\ gw[call] = "ended" =>
       \/ [k |-> "BYE", id |-> call] \in ToSet(wire)
       \/ call \in ended
       \/ conn # "up"
  /\ call # 0 => \E s \in Sessions : mine[s] = call
                    /\ \A t \in Sessions \ {s} : mine[t] # call

\* The dialer implements IntercomLine.  In particular a session that was
\* bumped never takes its successor's call down (the scope of hangup), and a
\* dial takes the line only when it is free (intercom_dialer.py:695-701).
InDial(s) == pc[s] \in {"c_lock", "connecting", "d_lock", "r_lock", "replace", "invite",
                        "proceed", "best_effort"}
Line == INSTANCE IntercomLine WITH
  Nobody <- Unloader,
  line <- IF call = 0 THEN Unloader ELSE CHOOSE s \in Sessions : mine[s] = call,
  asking <- {s \in Sessions : InDial(s)},
  leaving <- {s \in Sessions : pc[s] \in {"h_lock", "bye"}},
  cut <- \/ call # 0 /\ gw[call] = "ended"
         \/ conn # "up"
         \/ pc[Unloader] \in {"bye", "unregister"}
LineKept == Line!Spec

\* The camera switch goes to the call the session has dialed: what
\* media_pipeline.py logs of it (692-695, "selecting camera index %d for
\* door=%s call_id=%s").
SwitchInOwnCall ==
  [][\A s \in Sessions :
       pc[s] = "m_lock" /\ pc'[s] = "msg" => at'[s] = mine[s]]_vars

\* Whoever is about to send an INVITE has a connection to send it on: the
\* assertion of _send_request (intercom_dialer.py:594).
WriterIsThere ==
  \A s \in Sessions : pc[s] = "d_lock" /\ Holds(s) => conn # "none"

\* The gateway never has two calls of this client: intercom_dialer.py:695.
Exclusive == \A i, j \in CallIds : Open(i) /\ Open(j) => i = j

\* A dial, a hangup and a camera switch all come to an end, and give the
\* lock back.
EveryRequestReturns ==
  \A s \in Sessions : pc[s] # "idle" ~> pc[s] = "idle"

=============================================================================
