---------------------------- MODULE SipListener -----------------------------
(***************************************************************************)
(* sip_listener.py: the registered connection on which the gateway         *)
(* announces rings, the INVITEs that are pending, and the calls that       *)
(* cameras have answered; the media sessions that answer them              *)
(* (media_pipeline.py: _accept_incoming_call_if_pending, the end watcher   *)
(* and close()); and the gateway.                                          *)
(*                                                                         *)
(* An action is the code between two awaits.  drain() of the few hundred   *)
(* bytes of a SIP message does not suspend, so _dialog_lock is never held  *)
(* across a switch of tasks and does not appear.                           *)
(***************************************************************************)
EXTENDS Naturals, Sequences, FiniteSets, SequencesExt

CONSTANTS Sessions,     \* media sessions
          Stations,
          StationOf,    \* the station of each session's door
          MaxRings,     \* bound: INVITEs of the gateway
          MaxFrames,    \* bound: frames on their way from the gateway
          MaxConns,     \* bound: connections
          MaxRefresh    \* bound: REGISTER refreshes

ASSUME ListenerAssumption ==
  /\ StationOf \in [Sessions -> Stations]
  /\ {MaxRings, MaxFrames, MaxConns, MaxRefresh} \subseteq Nat

VARIABLES
  \* the main loop
  loop,      \* where it stands
  state,     \* _state
  sock,      \* "none", "up", "lost"
  conns, refreshes,
  stop,      \* stop(): "no", "close", "cancel", "stopped"
  invites,   \* keys of _open_invites
  old,       \* those received more than 45 s ago
  dialogs,   \* keys of _accepted_dialogs
  ended,     \* keys of _ended_dialog_reasons (of which 20 are kept)
  heard,     \* INVITEs handed to on_ring
  finals,    \* final responses sent to each INVITE
  \* the sessions
  pickup,    \* is_pickup_allowed
  pc, mine, watch,   \* per session: open(), its accepted call (0: none), watcher
  \* the gateway
  binding,   \* our registration: "none", "live", "stale" (its connection is gone)
  register,  \* REGISTER it has to answer: "none", "plain", "auth", "zero"
  wire,      \* frames sent, not yet read
  rings, from, ring   \* INVITEs so far; the station and the state of each

main == <<loop, state, sock, conns, refreshes, stop>>
table == <<invites, old, dialogs, ended, heard, finals>>
sessions == <<pickup, pc, mine, watch>>
gateway == <<binding, register, wire, rings, from, ring>>
vars == <<main, table, sessions, gateway>>

RingIds == 1..MaxRings
Frame == [k : {"401", "200", "4xx", "INVITE", "CANCEL", "ACK", "BYE"}, id : 0..MaxRings]
Connected == loop \in {"reg1", "reg2", "read", "ending"}
Incoming == Head(wire)
Reads(kind) == wire # <<>> /\ Incoming.k = kind
Room == Len(wire) < MaxFrames
\* What the gateway sends on a connection that is gone does not arrive.
Send(kind, i) == wire' = IF sock = "up" THEN Append(wire, [k |-> kind, id |-> i]) ELSE wire

----------------------------------------------------------------------------
(* Pending INVITEs and accepted dialogs.                                   *)

\* _pop_pending_invite and pending_call_for_station after the pruning: the
\* oldest of the session's own station, or else the only one there is.
Fresh == invites \ old
Own(s) == {i \in Fresh : from[i] = StationOf[s]}
Oldest(set) == CHOOSE i \in set : \A j \in set : i <= j
Candidates(s) == IF Own(s) # {} THEN {Oldest(Own(s))}
                 ELSE IF Cardinality(Fresh) = 1 THEN Fresh ELSE {}
Pending(s) == Candidates(s) # {}

\* _finish_accepted_dialog for a set of calls: the watchers of those that
\* were dialogs are woken.
Finish(set) ==
  /\ dialogs' = dialogs \ set
  /\ ended' = ended \cup set
  /\ watch' = [s \in Sessions |->
                 IF watch[s] = "waiting" /\ mine[s] \in set \cap dialogs THEN "woken"
                 ELSE watch[s]]

----------------------------------------------------------------------------
(* _main_loop and _connect_register_and_read.                              *)

Start ==
  /\ loop = "off"
  /\ stop = "no"
  /\ loop' = "connect"
  /\ state' = "connecting"
  /\ UNCHANGED <<sock, conns, refreshes, stop, table, sessions, gateway>>

\* The TLS connection is there: REGISTER, without credentials first.
Connect ==
  /\ loop = "connect"
  /\ conns < MaxConns
  /\ conns' = conns + 1
  /\ sock' = "up"
  /\ wire' = <<>>
  /\ register' = "plain"
  /\ loop' = "reg1"
  /\ UNCHANGED <<state, refreshes, stop, table, sessions, binding, rings, from, ring>>

\* The next frame is taken for the answer to the REGISTER.
Challenged ==
  /\ loop = "reg1"
  /\ Reads("401")
  /\ wire' = Tail(wire)
  /\ register' = "auth"
  /\ loop' = "reg2"
  /\ UNCHANGED <<state, sock, conns, refreshes, stop, table, sessions, binding, rings, from, ring>>

Registered ==
  /\ loop \in {"reg1", "reg2"}
  /\ Reads("200")
  /\ wire' = Tail(wire)
  /\ loop' = "read"
  /\ state' = "registered"
  /\ UNCHANGED <<sock, conns, refreshes, stop, table, sessions, binding, register,
                 rings, from, ring>>

\* Refresh in time before the registration expires.
Refresh ==
  /\ loop = "read"
  /\ stop = "no"
  /\ refreshes < MaxRefresh
  /\ refreshes' = refreshes + 1
  /\ register' = IF sock = "up" THEN "plain" ELSE register
  /\ loop' = "reg1"
  /\ UNCHANGED <<state, sock, conns, stop, table, sessions, binding, wire, rings, from, ring>>

\* Faulty variant: the dialogs outlive the connection.
DropKeepsDialogs ==
  /\ sock' = "none"
  /\ wire' = <<>>
  /\ register' = IF register = "zero" THEN "zero" ELSE "none"
  /\ binding' = IF binding = "live" THEN "stale" ELSE binding
  /\ UNCHANGED <<dialogs, ended, watch>>

\* The `finally` of the connection.
Drop ==
  /\ sock' = "none"
  /\ wire' = <<>>
  /\ register' = IF register = "zero" THEN "zero" ELSE "none"
  /\ binding' = IF binding = "live" THEN "stale" ELSE binding
  /\ Finish(dialogs)

\* The end of the stream, or the loop has seen the stop event.  While a
\* REGISTER is being answered any other frame fails it, and the connection.
ConnectionEnds ==
  /\ \/ Connected /\ sock = "lost"
     \/ loop = "ending"
     \/ loop = "reg1" /\ wire # <<>> /\ Incoming.k \notin {"401", "200"}
     \/ loop = "reg2" /\ wire # <<>> /\ Incoming.k # "200"
  /\ Drop
  /\ loop' = IF loop = "ending" THEN "done" ELSE "backoff"
  /\ state' = IF loop = "ending" THEN state ELSE "disconnected"
  /\ UNCHANGED <<conns, refreshes, stop, invites, old, heard, finals, pickup, pc, mine,
                 rings, from, ring>>

ConnectFails ==
  /\ loop = "connect"
  /\ loop' = "backoff"
  /\ state' = "disconnected"
  /\ UNCHANGED <<sock, conns, refreshes, stop, table, sessions, gateway>>

Reconnect ==
  /\ loop = "backoff"
  /\ loop' = IF stop = "no" THEN "connect" ELSE "done"
  /\ state' = IF stop = "no" THEN "connecting" ELSE state
  /\ UNCHANGED <<sock, conns, refreshes, stop, table, sessions, gateway>>

----------------------------------------------------------------------------
(* _dispatch of one frame.                                                 *)

Dispatch(kind) ==
  /\ loop = "read"
  /\ Reads(kind)
  /\ wire' = Tail(wire)
  /\ loop' = IF stop = "no" THEN "read" ELSE "ending"
  /\ UNCHANGED <<state, sock, conns, refreshes, stop, pickup, pc, mine, binding,
                 register, rings, from, ring>>

\* 100 Trying and nothing else; then on_ring.
HandleInvite ==
  /\ Dispatch("INVITE")
  /\ invites' = invites \cup {Incoming.id}
  /\ heard' = heard \cup {Incoming.id}
  /\ UNCHANGED <<old, dialogs, ended, finals, watch>>

\* 487 to an INVITE that is still pending.
HandleCancel ==
  /\ Dispatch("CANCEL")
  /\ invites' = invites \ {Incoming.id}
  /\ finals' = IF Incoming.id \in invites THEN [finals EXCEPT ![Incoming.id] = @ + 1] ELSE finals
  /\ UNCHANGED <<old, dialogs, ended, heard, watch>>

HandleBye ==
  /\ Dispatch("BYE")
  /\ Finish({Incoming.id})
  /\ UNCHANGED <<invites, old, heard, finals>>

\* ACK only shortens the wait of accept_pending_call; responses are strays.
HandleOther ==
  /\ \E kind \in {"ACK", "200", "401", "4xx"} : Dispatch(kind)
  /\ UNCHANGED <<table, watch>>

\* 45 s have passed.
Age(i) ==
  /\ i \in Fresh
  /\ old' = old \cup {i}
  /\ UNCHANGED <<main, invites, dialogs, ended, heard, finals, sessions, gateway>>

----------------------------------------------------------------------------
(* The media sessions.                                                     *)

\* Faulty variant: the INVITE stays in the table.
Peek(i) == invites' = Fresh

\* Pruning takes out the INVITEs that are too old, too.
Pop(i) == invites' = Fresh \ {i}

\* open(): refused while a ring is pending and pickup is disabled; without a
\* connection or a ring the session dials, which is not modelled here;
\* otherwise 200 OK.  A ring the gateway has just cancelled stays cancelled.
AcceptPendingCall(s) ==
  /\ pc[s] = "idle"
  /\ mine[s] = 0
  /\ Pending(s) => pickup
  /\ sock = "up"
  /\ \E i \in Candidates(s) :
       /\ Pop(i)
       /\ dialogs' = dialogs \cup {i}
       /\ ended' = ended \ {i}
       /\ finals' = [finals EXCEPT ![i] = @ + 1]
       /\ mine' = [mine EXCEPT ![s] = i]
       /\ ring' = [ring EXCEPT ![i] = IF @ = "ringing" THEN "answered" ELSE @]
  /\ pc' = [pc EXCEPT ![s] = "ack"]
  /\ UNCHANGED <<main, old, heard, pickup, watch, binding, register, wire, rings, from>>

\* The ACK, the end of the dialog - which is not waited for - or 3 s.  A call
\* that has ended by then is given up, else its end is watched.
AckWaitOver(s) ==
  /\ pc[s] = "ack"
  /\ pc' = [pc EXCEPT ![s] = "idle"]
  /\ IF mine[s] \in dialogs
       THEN watch' = [watch EXCEPT ![s] = "waiting"] /\ UNCHANGED mine
       ELSE mine' = [mine EXCEPT ![s] = 0] /\ UNCHANGED watch
  /\ UNCHANGED <<main, table, pickup, gateway>>

\* Faulty variant: the watcher stays, and there is no BYE.
CloseKeepsWatcher(s) ==
  /\ pc[s] = "idle"
  /\ mine[s] # 0
  /\ mine' = [mine EXCEPT ![s] = 0]
  /\ UNCHANGED <<main, table, pickup, pc, watch, gateway>>

\* close(): the watcher goes, and hangup_accepted_call sends BYE if there is
\* a dialog and a connection.
Close(s) ==
  LET i == mine[s]
      bye == i \in dialogs /\ sock = "up"
  IN /\ pc[s] = "idle"
     /\ i # 0
     /\ mine' = [mine EXCEPT ![s] = 0]
     /\ watch' = [watch EXCEPT ![s] = "none"]
     /\ dialogs' = IF bye THEN dialogs \ {i} ELSE dialogs
     /\ ended' = IF bye THEN ended \cup {i} ELSE ended
     /\ ring' = [ring EXCEPT ![i] = IF bye /\ @ \in {"answered", "acked"}
                                    THEN "released" ELSE @]
     /\ UNCHANGED <<main, invites, old, heard, finals, pickup, pc, binding, register,
                    wire, rings, from>>

SetPickupAllowed ==
  /\ pickup' = ~pickup
  /\ UNCHANGED <<main, table, pc, mine, watch, gateway>>

----------------------------------------------------------------------------
(* stop().                                                                 *)

\* A registered listener de-registers first.  The REGISTER goes out without
\* credentials, and then the answer is read from the stream the main loop is
\* reading already, which is an error; the error is swallowed.
Deregisters == sock # "none" /\ state = "registered"

StopDeregisters ==
  /\ stop = "no"
  /\ Deregisters
  /\ stop' = "close"
  /\ register' = IF sock = "up" THEN "zero" ELSE register
  /\ UNCHANGED <<loop, state, sock, conns, refreshes, table, sessions, binding, wire,
                 rings, from, ring>>

StopCloses ==
  /\ \/ stop = "close"
     \/ stop = "no" /\ loop # "off" /\ ~Deregisters
  /\ stop' = "cancel"
  /\ sock' = IF sock = "none" THEN "none" ELSE "lost"
  /\ wire' = <<>>
  /\ binding' = IF binding = "live" THEN "stale" ELSE binding
  /\ UNCHANGED <<loop, state, conns, refreshes, table, sessions, register, rings, from,
                 ring>>

\* Finish what is left, cancel the task and await its `finally`.
StopCancels ==
  /\ stop = "cancel"
  /\ stop' = "stopped"
  /\ Drop
  /\ loop' = "done"
  /\ state' = "stopped"
  /\ UNCHANGED <<conns, refreshes, invites, old, heard, finals, pickup, pc, mine, rings,
                 from, ring>>

----------------------------------------------------------------------------
(* The gateway.                                                            *)

\* It answers a REGISTER, the last one also when the connection has been
\* closed: a challenge, or an acceptance, or a refusal of the credentials.
AnswerRegister ==
  /\ register # "none"
  /\ sock = "up" \/ register = "zero"
  /\ Room
  /\ register' = "none"
  /\ \/ register \in {"plain", "zero"} /\ Send("401", 0) /\ UNCHANGED binding
     \/ register \in {"plain", "auth"} /\ Send("200", 0) /\ binding' = "live"
     \/ register = "auth" /\ Send("4xx", 0) /\ UNCHANGED binding
     \/ register = "zero" /\ Send("200", 0) /\ binding' = "none"
  /\ UNCHANGED <<main, table, sessions, rings, from, ring>>

\* Somebody presses the bell of station st.
RingAt(st) ==
  /\ binding = "live"
  /\ rings < MaxRings
  /\ Room
  /\ rings' = rings + 1
  /\ from' = Append(from, st)
  /\ ring' = [ring EXCEPT ![rings + 1] = "ringing"]
  /\ Send("INVITE", rings + 1)
  /\ UNCHANGED <<main, table, sessions, binding, register>>

\* Answered elsewhere or given up; our answer acknowledged; the call over.
CallChanges(i, before, kind, after) ==
  /\ ring[i] = before
  /\ Room
  /\ Send(kind, i)
  /\ ring' = [ring EXCEPT ![i] = after]
  /\ UNCHANGED <<main, table, sessions, binding, register, rings, from>>

CancelRing(i) == CallChanges(i, "ringing", "CANCEL", "cancelled")
SendAck(i) == CallChanges(i, "answered", "ACK", "acked")
GatewayBye(i) == CallChanges(i, "acked", "BYE", "gone")

LoseConnection ==
  /\ sock = "up"
  /\ sock' = "lost"
  /\ wire' = <<>>
  /\ binding' = IF binding = "live" THEN "stale" ELSE binding
  /\ UNCHANGED <<loop, state, conns, refreshes, stop, table, sessions, register, rings,
                 from, ring>>

----------------------------------------------------------------------------

Init ==
  /\ loop = "off" /\ state = "stopped" /\ sock = "none" /\ conns = 0 /\ refreshes = 0
  /\ stop = "no"
  /\ invites = {} /\ old = {} /\ dialogs = {} /\ ended = {} /\ heard = {}
  /\ finals = [i \in RingIds |-> 0]
  /\ pickup \in BOOLEAN
  /\ pc = [s \in Sessions |-> "idle"]
  /\ mine = [s \in Sessions |-> 0]
  /\ watch = [s \in Sessions |-> "none"]
  /\ binding = "none" /\ register = "none" /\ wire = <<>>
  /\ rings = 0 /\ from = <<>>
  /\ ring = [i \in RingIds |-> "none"]

Loop ==
  \/ Connect \/ Challenged \/ Registered \/ Refresh
  \/ ConnectionEnds \/ ConnectFails \/ Reconnect
  \/ HandleInvite \/ HandleCancel \/ HandleBye \/ HandleOther

Next ==
  \/ Start \/ Loop
  \/ \E i \in RingIds : Age(i)
  \/ \E s \in Sessions : AcceptPendingCall(s) \/ AckWaitOver(s) \/ Close(s)
  \/ SetPickupAllowed
  \/ StopDeregisters \/ StopCloses \/ StopCancels
  \/ AnswerRegister
  \/ \E st \in Stations : RingAt(st)
  \/ \E i \in RingIds : CancelRing(i) \/ SendAck(i) \/ GatewayBye(i)
  \/ LoseConnection

Spec == Init /\ [][Next]_vars

----------------------------------------------------------------------------
(* Properties.                                                             *)

TypeOK ==
  /\ loop \in {"off", "connect", "reg1", "reg2", "read", "ending", "backoff", "done"}
  /\ state \in {"stopped", "connecting", "registered", "disconnected"}
  /\ sock \in {"none", "up", "lost"}
  /\ conns \in 0..MaxConns /\ refreshes \in 0..MaxRefresh
  /\ stop \in {"no", "close", "cancel", "stopped"}
  /\ UNION {invites, old, dialogs, ended, heard} \subseteq RingIds
  /\ finals \in [RingIds -> 0..2]
  /\ pickup \in BOOLEAN
  /\ pc \in [Sessions -> {"idle", "ack"}]
  /\ mine \in [Sessions -> 0..MaxRings]
  /\ watch \in [Sessions -> {"none", "waiting", "woken"}]
  /\ \A s \in Sessions : pc[s] = "ack" \/ watch[s] # "none" => mine[s] # 0
  /\ binding \in {"none", "live", "stale"}
  /\ register \in {"none", "plain", "auth", "zero"}
  /\ wire \in Seq(Frame) /\ Len(wire) <= MaxFrames
  /\ rings \in 0..MaxRings
  /\ from \in Seq(Stations) /\ Len(from) = rings
  /\ ring \in [RingIds -> {"none", "ringing", "cancelled", "answered", "acked", "gone",
                          "released"}]

\* The gateway gets at most one final response to each INVITE, 200 from a
\* session or 487 from the loop, whichever takes it out of the table first;
\* so two cameras never answer the same ring.
OneAnswer ==
  /\ \A i \in RingIds : finals[i] <= 1
  /\ \A s, t \in Sessions : mine[s] # 0 /\ mine[s] = mine[t] => s = t

\* A session that waits for the end of its call will hear of it: it waits for
\* a dialog in the table, where BYE, loss and stop() look; no dialog outlives
\* its connection; and when the gateway has ended one, the BYE is on its way
\* or the connection is about to be dropped.  A session whose dialog is gone
\* has been woken, or still waits for the ACK, for three seconds at most.
EndReachesWaiter ==
  /\ \A s \in Sessions :
       /\ watch[s] = "waiting" => mine[s] \in dialogs
       /\ mine[s] # 0 /\ mine[s] \notin dialogs => pc[s] = "ack" \/ watch[s] = "woken"
  /\ dialogs # {} => Connected /\ sock # "none"
  /\ \A i \in dialogs : ring[i] = "gone" =>
       [k |-> "BYE", id |-> i] \in ToSet(wire) \/ sock = "lost"

\* __init__.py:178: "Bus event fired on every incoming SIP INVITE": an INVITE
\* that a running listener has taken off its stream is handed to on_ring.
EveryRingIsHeard ==
  [][Reads("INVITE") /\ Len(wire') < Len(wire) /\ sock = "up" /\ sock' # "lost" /\ stop = "no"
       => Incoming.id \in heard']_vars

\* sip_listener.py:397: a ring of the session's own station is answered.
OwnStationAnswered ==
  \A s \in Sessions : mine[s] # 0 => from[mine[s]] = StationOf[s]

\* sip_listener.py:12-14: the ring that is answered is a pending one.  (A
\* CANCEL that is still on its way cannot be known.)
PendingRingAnswered ==
  [][\A s \in Sessions : pc[s] = "idle" /\ pc'[s] = "ack" =>
       \/ ring[mine'[s]] = "ringing"
       \/ [k |-> "CANCEL", id |-> mine'[s]] \in ToSet(wire)]_vars

\* sip_listener.py:570-573: the REGISTER of stop() makes the gateway drop the
\* binding, instead of keeping a dead Contact.
StopDropsBinding ==
  [][register = "zero" /\ register' = "none" => binding' = "none"]_vars
=============================================================================
