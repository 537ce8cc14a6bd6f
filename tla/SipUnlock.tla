------------------------------ MODULE SipUnlock ------------------------------
(***************************************************************************)
(* Opening a door: SIPClient.unlock_door of sip_client.py, run in an       *)
(* executor thread for every press of a button, each over a connection of  *)
(* its own.  The fast route sends a MESSAGE, the standard one sends it in  *)
(* a call: INVITE, MESSAGE, BYE or CANCEL.                                 *)
(*                                                                         *)
(* The gateway and the stations are external: they challenge, refuse,      *)
(* answer late or ask something themselves, as the code expects them to.   *)
(* A connection keeps the order of what is sent, in both directions.       *)
(***************************************************************************)
EXTENDS Naturals, Sequences, SequencesExt

CONSTANTS Presses,     \* unlock_door threads
          Stations,
          First,       \* station_id of the first configured door
          Strategies,  \* of "hybrid", "fast" and "standard"
          MaxRings     \* bound: requests of the gateway

ASSUME UnlockAssumption ==
  /\ First \in Stations
  /\ Strategies \subseteq {"hybrid", "fast", "standard"}
  /\ MaxRings \in Nat

VARIABLES
  strategy,
  pc,       \* what each thread waits for
  door,     \* the station of its DoorSpec
  retried,  \* a challenge is not answered any more
  early,    \* the session is not established
  result,   \* what unlock_door returns
  out, in,  \* the connection: requests on their way, frames not yet read
  \* the gateway and the stations
  call,     \* the call of each thread: "none", "rings" or "up"
  opened,   \* the stations a thread has opened, in order
  rings,
  missed,   \* its BYE was challenged when nobody read any more
  taken,    \* the thread has answered 200 to a visitor's INVITE
  cut       \* it gave up without a session, or on a dead connection

client == <<pc, door, retried, early, result, cut, taken>>
gateway == <<call, opened, rings, missed>>
vars == <<strategy, client, out, in, gateway>>

----------------------------------------------------------------------------
\* _use_fast_route.
Fast(s) == strategy = "fast" \/ (strategy = "hybrid" /\ s = First)

Request(method, auth) == [method |-> method, auth |-> auth]
Frame(method, code) == [method |-> method, code |-> code]
IsRequest(f) == f.code = 0
Provisional(f) == f.code \in {100, 183}

----------------------------------------------------------------------------
(* The thread.                                                             *)

Goto(p, phase) == pc' = [pc EXCEPT ![p] = phase]

Send(p, requests, auth) ==
  /\ out' = [out EXCEPT ![p] = @ \o requests]
  /\ retried' = [retried EXCEPT ![p] = auth]

\* The thread sends requests and waits for the answer to the last.
Ask(p, methods) ==
  /\ Send(p, [j \in 1..Len(methods) |-> Request(methods[j], FALSE)], FALSE)
  /\ Goto(p, Last(methods))

Again(p) == Send(p, <<Request(pc[p], TRUE)>>, TRUE) /\ UNCHANGED pc

\* sock.close(): nobody reads what is left.
Finish(p) == Goto(p, "done") /\ UNCHANGED <<out, retried>>

\* The finally of the two routes.
\* Faulty variant of it: both, to be on the safe side.
CancelAndBye(p) == IF Fast(door[p]) THEN Finish(p) ELSE Ask(p, <<"CANCEL", "BYE">>)
Teardown(p) ==
  CASE Fast(door[p]) -> Finish(p)
    [] early[p]      -> Ask(p, <<"CANCEL">>)
    [] OTHER         -> Ask(p, <<"BYE">>)

Press(p) ==
  /\ pc[p] = "idle"
  /\ \E s \in Stations : door' = [door EXCEPT ![p] = s]
  /\ Ask(p, <<"REGISTER">>)
  /\ UNCHANGED <<strategy, early, result, in, gateway, cut, taken>>

\* _build_socket fails.
NoConnection(p) ==
  /\ pc[p] = "idle"
  /\ Finish(p)
  /\ UNCHANGED <<strategy, door, early, result, in, gateway, cut, taken>>

Challenged(p, f) == f.code = 401 /\ ~retried[p]

\* recv_frame: the thread takes the next frame.
Reads(p, phase) ==
  /\ pc[p] = phase /\ in[p] # <<>>
  /\ in' = [in EXCEPT ![p] = Tail(@)]
  /\ UNCHANGED <<strategy, door, gateway, cut>>

Skips == UNCHANGED <<pc, retried, early, result, out>>

\* _register_client: any frame but a provisional one is the answer.
ReadRegister(p) ==
  LET f == Head(in[p])
  IN  /\ Reads(p, "REGISTER")
      /\ UNCHANGED taken
      /\ CASE Provisional(f)   -> Skips
           [] f.code = 200     -> /\ Ask(p, <<IF Fast(door[p]) THEN "MESSAGE" ELSE "INVITE">>)
                                  /\ UNCHANGED <<early, result>>
           [] Challenged(p, f) -> Again(p) /\ UNCHANGED <<early, result>>
           [] OTHER            -> Finish(p) /\ UNCHANGED <<early, result>>

\* _start_invite_call: requests are not answered, and only the first frame is
\* taken for a challenge.
ReadInvite(p) ==
  LET f == Head(in[p])
  IN  /\ Reads(p, "INVITE")
      /\ UNCHANGED <<result, taken>>
      /\ CASE f.code \in {0, 100} -> /\ retried' = [retried EXCEPT ![p] = TRUE]
                                     /\ UNCHANGED <<pc, early, out>>
           [] Challenged(p, f)    -> Again(p) /\ UNCHANGED early
           [] f.code = 183        -> Ask(p, <<"MESSAGE">>) /\ early' = [early EXCEPT ![p] = TRUE]
           [] f.code = 200        -> /\ Ask(p, <<"ACK", "MESSAGE">>)
                                     /\ early' = [early EXCEPT ![p] = FALSE]
           [] OTHER               -> Finish(p) /\ UNCHANGED early

\* Faulty variant: sent again after whatever is not a 200.
Insists(p, f) == f.code # 200 /\ ~retried[p]
Repeats(p, f) == Challenged(p, f)

\* Faulty variant: not refused, (status or 0) < 300.
NotRefused(f) == f.code < 300
Accepted(f) == f.code = 200

\* _send_plain_message: again any frame is the answer, also one to the INVITE.
ReadMessage(p) ==
  LET f == Head(in[p])
  IN  /\ Reads(p, "MESSAGE")
      /\ UNCHANGED <<early, taken>>
      /\ CASE Provisional(f) -> UNCHANGED <<pc, retried, result, out>>
           [] Repeats(p, f)  -> Again(p) /\ UNCHANGED result
           [] OTHER          -> Teardown(p) /\ result' = [result EXCEPT ![p] = Accepted(f)]

\* _send_bye.  A request is answered 200, whatever it asks: a visitor's INVITE is
\* accepted, by a connection that is about to be closed.
ReadBye(p) ==
  LET f == Head(in[p])
  IN  /\ Reads(p, "BYE")
      /\ UNCHANGED <<early, result>>
      /\ taken' = [taken EXCEPT ![p] = @ \/ IsRequest(f)]
      /\ CASE Provisional(f) \/ IsRequest(f) -> UNCHANGED <<pc, retried, out>>
           [] Challenged(p, f)               -> Again(p)
           [] OTHER                          -> Finish(p)

\* _cancel_invite waits for the 200 of the CANCEL and the 487 of the INVITE.
\* retried says here that one of them has come.
ReadCancel(p) ==
  LET f == Head(in[p])
      counts == f \in {Frame("CANCEL", 200), Frame("INVITE", 487)}
      ack == IF f.code = 487 THEN <<Request("ACK", FALSE)>> ELSE <<>>
  IN  /\ Reads(p, "CANCEL")
      /\ UNCHANGED <<early, result, taken>>
      /\ out' = [out EXCEPT ![p] = @ \o ack]
      /\ retried' = [retried EXCEPT ![p] = @ \/ counts]
      /\ IF counts /\ retried[p] THEN Goto(p, "done") ELSE UNCHANGED pc

Waiting(p) == pc[p] \notin {"idle", "done"}

\* Faulty variant: a time-out ends the thread without the finally.
GivesUp(p) ==
  /\ Waiting(p) /\ in[p] = <<>>
  /\ Finish(p)
  /\ cut' = [cut EXCEPT ![p] = pc[p] = "INVITE"]
  /\ UNCHANGED <<strategy, door, early, result, in, gateway, taken>>

\* Nothing comes before the time-out.  With a session, that is after a 183 or
\* 200, the finally still ends the call; without one it is left as it is.
TimesOut(p) ==
  /\ Waiting(p) /\ in[p] = <<>>
  /\ IF pc[p] = "MESSAGE" THEN Teardown(p) ELSE Finish(p)
  /\ cut' = [cut EXCEPT ![p] = pc[p] = "INVITE"]
  /\ UNCHANGED <<strategy, door, early, result, in, gateway, taken>>

\* The connection is dead: a teardown cannot send anything either.
Breaks(p) ==
  /\ Waiting(p) /\ in[p] = <<>>
  /\ Finish(p)
  /\ cut' = [cut EXCEPT ![p] = TRUE]
  /\ UNCHANGED <<strategy, door, early, result, in, gateway, taken>>

----------------------------------------------------------------------------
(* The gateway and the stations.                                           *)

Busy(p) == \E q \in Presses \ {p} : door[q] = door[p] /\ call[q] # "none"

Replies(p, frames) ==
  in' = [in EXCEPT ![p] = IF pc[p] = "done" THEN @ ELSE @ \o frames]

\* The answers to a request, and what they do.
Serve(p) ==
  LET r == Head(out[p])
      m == r.method
      Sets(state) == call' = [call EXCEPT ![p] = state]
      Challenge == /\ ~r.auth /\ m \in {"REGISTER", "INVITE", "MESSAGE", "BYE"}
                   /\ \/ Replies(p, <<Frame(m, 401)>>)
                      \/ m = "INVITE" /\ Replies(p, <<Frame(m, 100), Frame(m, 401)>>)
                   /\ missed' = [missed EXCEPT ![p] = @ \/ (m = "BYE" /\ pc[p] = "done")]
                   /\ UNCHANGED <<call, opened>>
      Refuse == /\ m \in {"REGISTER", "INVITE", "MESSAGE"}
                /\ Replies(p, <<Frame(m, 486)>>) /\ UNCHANGED <<call, opened>>
      Register == m = "REGISTER" /\ Replies(p, <<Frame(m, 200)>>) /\ UNCHANGED <<call, opened>>
      Invite == /\ m = "INVITE" /\ ~Busy(p)
                /\ Sets("rings") /\ Replies(p, <<Frame(m, 100)>>) /\ UNCHANGED opened
      Open == /\ m = "MESSAGE"
              /\ opened' = [opened EXCEPT ![p] = Append(@, door[p])]
              /\ Replies(p, <<Frame(m, 200)>>) /\ UNCHANGED call
      Cancel == /\ m = "CANCEL"
                /\ IF call[p] = "rings"
                     THEN Sets("none") /\ Replies(p, <<Frame(m, 200), Frame("INVITE", 487)>>)
                     ELSE UNCHANGED call /\ Replies(p, <<Frame(m, 200)>>)
                /\ UNCHANGED opened
      Bye == m = "BYE" /\ Sets("none") /\ Replies(p, <<Frame(m, 200)>>) /\ UNCHANGED opened
      Ack == m = "ACK" /\ UNCHANGED <<in, call, opened>>
  IN  /\ out[p] # <<>>
      /\ out' = [out EXCEPT ![p] = Tail(@)]
      /\ \/ Challenge
         \/ /\ Refuse \/ Register \/ Invite \/ Open \/ Cancel \/ Bye \/ Ack
            /\ UNCHANGED missed
      /\ UNCHANGED <<strategy, client, rings>>

\* The station shows its picture, and takes the call.
Progress(p) ==
  /\ call[p] = "rings"
  /\ Frame("INVITE", 183) \notin ToSet(in[p]) /\ pc[p] = "INVITE"
  /\ Replies(p, <<Frame("INVITE", 183)>>)
  /\ UNCHANGED <<strategy, client, out, gateway>>

Answer(p) ==
  /\ call[p] = "rings"
  /\ call' = [call EXCEPT ![p] = "up"]
  /\ Replies(p, <<Frame("INVITE", 200)>>)
  /\ UNCHANGED <<strategy, client, out, opened, rings, missed>>

\* The thread has registered a contact: a visitor's ring reaches it too.
Ring(p) ==
  /\ Waiting(p) /\ rings < MaxRings
  /\ rings' = rings + 1
  /\ Replies(p, <<Frame("INVITE", 0)>>)
  /\ UNCHANGED <<strategy, client, out, call, opened, missed>>

----------------------------------------------------------------------------

Init ==
  /\ strategy \in Strategies
  /\ pc = [p \in Presses |-> "idle"]
  /\ door = [p \in Presses |-> First]
  /\ retried = [p \in Presses |-> FALSE] /\ early = retried /\ result = retried
  /\ cut = retried /\ missed = retried /\ taken = retried
  /\ out = [p \in Presses |-> <<>>] /\ in = out /\ opened = out
  /\ call = [p \in Presses |-> "none"]
  /\ rings = 0

Thread(p) ==
  \/ ReadRegister(p) \/ ReadInvite(p) \/ ReadMessage(p) \/ ReadBye(p) \/ ReadCancel(p)
  \/ TimesOut(p)

Next ==
  \E p \in Presses :
    Press(p) \/ NoConnection(p) \/ Thread(p) \/ Breaks(p)
      \/ Serve(p) \/ Progress(p) \/ Answer(p) \/ Ring(p)

Spec == Init /\ [][Next]_vars

----------------------------------------------------------------------------
(* Properties.                                                             *)

Phases == {"idle", "REGISTER", "INVITE", "MESSAGE", "BYE", "CANCEL", "done"}

TypeOK ==
  /\ strategy \in Strategies
  /\ pc \in [Presses -> Phases]
  /\ door \in [Presses -> Stations]
  /\ \A f \in {retried, early, result, cut, missed, taken} : f \in [Presses -> BOOLEAN]
  /\ call \in [Presses -> {"none", "rings", "up"}]
  /\ opened \in [Presses -> Seq(Stations)]
  /\ rings \in 0..MaxRings
  /\ \A p \in Presses : Len(out[p]) <= 3 /\ Len(in[p]) <= 4 + rings

\* A thread that reports success over the fast route, or in a call the
\* station has taken before the MESSAGE, has opened the door: no other answer
\* and no ring is taken for the station's.
SuccessMeansOpened ==
  \A p \in Presses : result[p] /\ ~early[p] => opened[p] # <<>>

\* A press opens its door at most once, and no other, challenged or not.
OpensOnce ==
  \A p \in Presses : Len(opened[p]) <= 1 /\ ToSet(opened[p]) \subseteq {door[p]}

\* The gateway has challenged the BYE, but the thread had gone, or took
\* something else for the answer.
Unheard(p) == missed[p] \/ Frame("BYE", 401) \in ToSet(in[p])

\* The finally of _unlock_via_invite (sip_client.py:938-953): a thread that had a
\* session, on a connection that lasts, leaves no call behind, whatever timed out,
\* whatever rang and whatever was taken for which answer.  Two ways to leave one
\* are in the code and stand here: a CANCEL comes too late for a call that has
\* been taken, and the challenge of a BYE is not read.
CallIsEnded ==
  \A p \in Presses :
    pc[p] = "done" /\ out[p] = <<>> /\ ~cut[p] /\ call[p] # "none" =>
      (early[p] /\ call[p] = "up") \/ Unheard(p)

\* README.md:305, "INVITE to bring the call up, then MESSAGE, then BYE".
\* Not so: after a 183 the late 200 of the INVITE is taken for the MESSAGE's, and
\* the call that has been taken is sent a CANCEL.
UnlockEndsCall ==
  \A p \in Presses : pc[p] = "done" /\ out[p] = <<>> /\ ~cut[p] => call[p] = "none"

\* sip_client.py:864, "Fast unlock succeeded" and 923, "Invite unlock
\* succeeded".  After a 183 the answer to the INVITE is taken for the
\* station's to the MESSAGE.
EverySuccessMeansOpened == \A p \in Presses : result[p] => opened[p] # <<>>
=============================================================================
