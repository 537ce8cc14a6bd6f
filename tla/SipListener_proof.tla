------------------------- MODULE SipListener_proof --------------------------
(***************************************************************************)
(* The listener, for every set of sessions and stations and every bound:   *)
(* each INVITE gets one final response at most, and a session that has     *)
(* answered one hears of the end of the call.                              *)
(***************************************************************************)
EXTENDS SipListener, WellFoundedInduction, TLAPS

\* A frame of a kind for a call is on the wire.
On(kind, i) == \E n \in 1..Len(wire) : wire[n] = [k |-> kind, id |-> i]
OfCall == {"INVITE", "CANCEL", "ACK", "BYE"}

\* The main loop has a connection just where it reads from one.
SockInv ==
  /\ Connected <=> sock # "none"
  /\ dialogs # {} => sock # "none"

\* Frames are of calls there are, and each INVITE comes once.
WireInv ==
  /\ \A n \in 1..Len(wire) : wire[n].k \in OfCall => wire[n].id \in 1..rings
  /\ \A m, n \in 1..Len(wire) : wire[m] = wire[n] /\ wire[m].k = "INVITE" => m = n

\* An INVITE is answered when it has left the wire and then the table, once.
RingInv ==
  /\ \A i \in RingIds : finals[i] <= 1
  /\ \A i \in RingIds :
       /\ i \in invites => finals[i] = 0 /\ i <= rings /\ ~On("INVITE", i)
       /\ On("INVITE", i) => finals[i] = 0
       /\ i > rings => finals[i] = 0 /\ ring[i] = "none"
       /\ finals[i] = 0 => ring[i] \in {"none", "ringing", "cancelled"}
       /\ i \in dialogs => finals[i] = 1

\* Each call is of one session, which waits for the ACK, then for the end of
\* a dialog in the table, and is woken by it.
SessionOK(s) ==
  /\ mine[s] # 0 => finals[mine[s]] = 1
  /\ pc[s] = "ack" => watch[s] = "none" /\ mine[s] # 0
  /\ watch[s] # "none" => mine[s] # 0
  /\ pc[s] = "idle" /\ mine[s] # 0 => watch[s] # "none"
  /\ watch[s] = "waiting" => mine[s] \in dialogs
  /\ mine[s] # 0 /\ mine[s] \notin dialogs => pc[s] = "ack" \/ watch[s] = "woken"
WatchInv ==
  /\ \A s \in Sessions : SessionOK(s)
  /\ \A s, t \in Sessions : mine[s] # 0 /\ mine[s] = mine[t] => s = t

\* The end of a dialog by the gateway is on its way, or the connection is lost.
EndInv == \A i \in dialogs : ring[i] = "gone" => On("BYE", i) \/ sock = "lost"

ListenerInv == TypeOK /\ SockInv /\ WireInv /\ RingInv /\ WatchInv /\ EndInv

----------------------------------------------------------------------------
(* The frames on the wire, and the candidates of a session.                *)

\* The bounds are numbers.
LEMMA Bounds ==
  MaxRings \in Nat /\ MaxFrames \in Nat /\ MaxConns \in Nat /\ MaxRefresh \in Nat
BY ListenerAssumption

\* What a frame's place is once the first has been read.
LEMMA HeadAndTail ==
  ASSUME NEW S, NEW q \in Seq(S), q # <<>>
  PROVE  /\ Len(q) \in Nat /\ 1 \in 1..Len(q) /\ Head(q) = q[1] /\ Head(q) \in S
         /\ Tail(q) \in Seq(S) /\ Len(Tail(q)) = Len(q) - 1
         /\ \A n \in 1..Len(Tail(q)) : n + 1 \in 1..Len(q) /\ Tail(q)[n] = q[n + 1]
OBVIOUS

\* What is read is gone; everything behind it is still there.
LEMMA FrameRead ==
  ASSUME TypeOK, WireInv, wire # <<>>, wire' = Tail(wire), rings' = rings
  PROVE  /\ wire' \in Seq(Frame) /\ Len(wire') <= MaxFrames /\ WireInv'
         /\ Incoming \in Frame /\ On(Incoming.k, Incoming.id)
         /\ Incoming.k \in OfCall => Incoming.id \in 1..rings /\ Incoming.id \in RingIds
         /\ \A kind, i : On(kind, i)' => On(kind, i)
         /\ \A kind, i : On(kind, i) => On(kind, i)' \/ Incoming = [k |-> kind, id |-> i]
         /\ \A i : Incoming = [k |-> "INVITE", id |-> i] => ~On("INVITE", i)'
<1>1. /\ wire \in Seq(Frame) /\ Len(wire) <= MaxFrames /\ MaxFrames \in Nat /\ MaxRings \in Nat
      /\ rings \in 0..MaxRings
  BY Bounds DEF TypeOK
<1>2. /\ Len(wire) \in Nat /\ 1 \in 1..Len(wire) /\ Incoming = wire[1] /\ Incoming \in Frame
      /\ wire' \in Seq(Frame) /\ Len(wire') = Len(wire) - 1
      /\ \A n \in 1..Len(wire') : n + 1 \in 1..Len(wire) /\ wire'[n] = wire[n + 1]
  BY <1>1, HeadAndTail DEF Incoming
<1>3. WireInv'
  BY <1>2 DEF WireInv
<1>4. Incoming = [k |-> Incoming.k, id |-> Incoming.id]
  BY <1>2 DEF Frame
<1>5. On(Incoming.k, Incoming.id)
  BY <1>2, <1>4 DEF On
<1>6. Incoming.k \in OfCall => Incoming.id \in 1..rings /\ Incoming.id \in RingIds
  BY <1>1, <1>2 DEF WireInv, RingIds
<1>7. ASSUME NEW kind, NEW i, On(kind, i)' PROVE On(kind, i)
  <2>1. PICK n \in 1..Len(wire') : wire'[n] = [k |-> kind, id |-> i]
    BY <1>7 DEF On
  <2>. QED
    BY <1>2, <2>1 DEF On
<1>8. ASSUME NEW kind, NEW i, On(kind, i)
      PROVE  On(kind, i)' \/ Incoming = [k |-> kind, id |-> i]
  <2>1. PICK n \in 1..Len(wire) : wire[n] = [k |-> kind, id |-> i]
    BY <1>8 DEF On
  <2>2. CASE n = 1
    BY <1>2, <2>1, <2>2
  <2>3. CASE n # 1
    <3>1. n - 1 \in 1..Len(wire') /\ wire'[n - 1] = wire[n]
      BY <1>2, <2>3
    <3>. QED
      BY <2>1, <3>1 DEF On
  <2>. QED
    BY <2>2, <2>3
<1>9. ASSUME NEW i, Incoming = [k |-> "INVITE", id |-> i], On("INVITE", i)' PROVE FALSE
  <2>1. PICK n \in 1..Len(wire') : wire'[n] = [k |-> "INVITE", id |-> i]
    BY <1>9 DEF On
  <2>2. wire[n + 1] = wire[1] /\ n + 1 \in 1..Len(wire) /\ wire[1].k = "INVITE"
    BY <1>2, <1>9, <2>1
  <2>3. n + 1 = 1
    BY <1>2, <2>2 DEF WireInv
  <2>. QED
    BY <2>3
<1>. QED
  BY <1>1, <1>2, <1>3, <1>5, <1>6, <1>7, <1>8, <1>9

\* What the gateway sends comes last, or not at all.
LEMMA FrameSent ==
  ASSUME TypeOK, WireInv, Room, NEW kind, NEW i, [k |-> kind, id |-> i] \in Frame, Send(kind, i),
         rings' \in Nat, rings <= rings', kind \in OfCall => i \in 1..rings',
         kind = "INVITE" => ~On("INVITE", i)
  PROVE  /\ wire' \in Seq(Frame) /\ Len(wire') <= MaxFrames /\ WireInv'
         /\ \A h, j : On(h, j) => On(h, j)'
         /\ \A h, j : On(h, j)' => On(h, j) \/ (h = kind /\ j = i)
         /\ sock = "up" => On(kind, i)'
<1> DEFINE f == [k |-> kind, id |-> i]
<1>1. /\ wire \in Seq(Frame) /\ Len(wire) < MaxFrames /\ MaxFrames \in Nat /\ Len(wire) \in Nat
      /\ rings \in Nat /\ f \in Frame
  BY Bounds DEF TypeOK, Room
<1>2. CASE sock # "up"
  <2>1. wire' = wire
    BY <1>2 DEF Send
  <2>. QED
    BY <1>1, <1>2, <2>1 DEF WireInv, On
<1>3. CASE sock = "up"
  <2>1. wire' = Append(wire, f)
    BY <1>3 DEF Send
  <2> HIDE DEF f
  <2>2. /\ wire' \in Seq(Frame) /\ Len(wire') = Len(wire) + 1 /\ wire'[Len(wire) + 1] = f
        /\ \A n \in 1..Len(wire) : wire'[n] = wire[n]
    BY <1>1, <2>1
  <2>3. f.k = kind /\ f.id = i
    BY DEF f
  <2>4. kind = "INVITE" => \A n \in 1..Len(wire) : wire[n] # f
    BY DEF On, f
  <2>5. WireInv'
    <3>1. \A n \in 1..Len(wire') : wire'[n].k \in OfCall => wire'[n].id \in 1..rings'
      BY <1>1, <2>2, <2>3 DEF WireInv
    <3>2. \A m, n \in 1..Len(wire') : wire'[m] = wire'[n] /\ wire'[m].k = "INVITE" => m = n
      BY <1>1, <2>2, <2>3, <2>4 DEF WireInv
    <3>. QED
      BY <3>1, <3>2 DEF WireInv
  <2>6. ASSUME NEW h, NEW j, On(h, j) PROVE On(h, j)'
    <3>1. PICK n \in 1..Len(wire) : wire[n] = [k |-> h, id |-> j]
      BY <2>6 DEF On
    <3>2. n \in 1..Len(wire')
      BY <1>1, <2>2
    <3>. QED
      BY <2>2, <3>1, <3>2 DEF On
  <2>7. ASSUME NEW h, NEW j, On(h, j)' PROVE On(h, j) \/ (h = kind /\ j = i)
    <3>1. PICK n \in 1..Len(wire') : wire'[n] = [k |-> h, id |-> j]
      BY <2>7 DEF On
    <3>2. CASE n \in 1..Len(wire)
      BY <2>2, <3>1, <3>2 DEF On
    <3>3. CASE n = Len(wire) + 1
      BY <2>2, <2>3, <3>1, <3>3
    <3>. QED
      BY <1>1, <2>2, <3>2, <3>3
  <2>8. On(kind, i)'
    BY <1>1, <2>2 DEF On, f
  <2>. QED
    BY <1>1, <2>2, <2>5, <2>6, <2>7, <2>8
<1>. QED
  BY <1>2, <1>3

\* A ring that a session may answer is in the table.
LEMMA CandidatePending ==
  ASSUME TypeOK, NEW s \in Sessions, NEW i \in Candidates(s)
  PROVE  i \in Fresh /\ i \in RingIds
<1>1. Fresh \subseteq RingIds /\ Own(s) \subseteq Fresh /\ RingIds \subseteq Nat
  BY Bounds DEF TypeOK, Fresh, Own, RingIds
<1>2. ASSUME Own(s) # {} PROVE Oldest(Own(s)) \in Own(s)
  <2>1. PICK x \in Own(s) : \A y \in Own(s) : <<y, x>> \notin OpToRel(<, Nat)
    BY <1>1, <1>2, NatLessThanWellFounded, WFMin
  <2>2. ASSUME NEW y \in Own(s) PROVE x <= y
    <3>1. y \in Nat /\ x \in Nat
      BY <1>1
    <3>2. <<y, x>> \in Nat \X Nat /\ <<y, x>>[1] = y /\ <<y, x>>[2] = x
      BY <3>1
    <3>3. ~(y < x)
      BY <2>1, <3>2, Zenon DEF OpToRel
    <3>. QED
      BY <3>1, <3>3
  <2>. QED
    BY <2>2 DEF Oldest
<1>. QED
  BY <1>1, <1>2 DEF Candidates

\* The dialogs that end are gone from the table, and their watchers woken.
LEMMA FinishTypes ==
  ASSUME TypeOK, NEW set \in SUBSET RingIds, Finish(set)
  PROVE  /\ dialogs' = dialogs \ set /\ dialogs' \subseteq RingIds /\ ended' \subseteq RingIds
         /\ watch' \in [Sessions -> {"none", "waiting", "woken"}]
         /\ \A s \in Sessions :
              watch'[s] = IF watch[s] = "waiting" /\ mine[s] \in set \cap dialogs
                            THEN "woken" ELSE watch[s]
BY DEF TypeOK, Finish

----------------------------------------------------------------------------
(* Types, frames and the connection.                                       *)

\* The frame that is dispatched leaves the wire, and the loop reads on.
LEMMA DispatchTypes ==
  ASSUME ListenerInv, NEW kind, Dispatch(kind)
  PROVE  /\ wire # <<>> /\ wire' = Tail(wire) /\ Incoming \in Frame /\ Incoming.k = kind
         /\ wire' \in Seq(Frame) /\ Len(wire') <= MaxFrames /\ WireInv'
         /\ kind \in OfCall => Incoming.id \in RingIds /\ Incoming.id \in 1..rings
         /\ loop \in {"read"} /\ loop' \in {"read", "ending"}
         /\ UNCHANGED <<state, sock, conns, refreshes, stop, pickup, pc, mine, binding,
                        register, rings, from, ring>>
<1>1. TypeOK /\ WireInv /\ wire # <<>> /\ wire' = Tail(wire) /\ rings' = rings /\ Incoming.k = kind
  BY DEF ListenerInv, Dispatch, Reads
<1>. QED
  BY <1>1, FrameRead DEF Dispatch

\* Every step keeps the types, the wire and the place of the main loop.
LEMMA TypesStep == ListenerInv /\ [Next]_vars => TypeOK' /\ WireInv' /\ SockInv'
<1> SUFFICES ASSUME ListenerInv, [Next]_vars PROVE TypeOK' /\ WireInv' /\ SockInv'
  OBVIOUS
<1>0. /\ TypeOK /\ WireInv /\ SockInv /\ RingInv /\ WatchInv
      /\ MaxRings \in Nat /\ MaxFrames \in Nat /\ MaxConns \in Nat /\ MaxRefresh \in Nat
      /\ wire \in Seq(Frame) /\ Len(wire) <= MaxFrames
      /\ <<>> \in Seq(Frame) /\ Len(<<>>) = 0 /\ 0 <= MaxFrames
      /\ rings \in 0..MaxRings /\ 0 \in 0..MaxRings
  BY Bounds DEF ListenerInv, TypeOK
\* The wire is left alone, or has been emptied.
<1>1. (wire' = wire \/ wire' = <<>>) /\ rings' = rings => WireInv'
  BY <1>0 DEF WireInv
<1>2. CASE Start
  BY <1>0, <1>1, <1>2 DEF Start, TypeOK, SockInv, Connected, main, table, sessions, gateway
<1>3. CASE Connect
  BY <1>0, <1>1, <1>3 DEF Connect, TypeOK, SockInv, Connected, table, sessions
<1>4. CASE Challenged \/ Registered
  <2>1. wire # <<>> /\ wire' = Tail(wire) /\ rings' = rings
    BY <1>4 DEF Challenged, Registered, Reads
  <2>2. wire' \in Seq(Frame) /\ Len(wire') <= MaxFrames /\ WireInv'
    BY <1>0, <2>1, FrameRead
  <2>. QED
    BY <1>0, <1>4, <2>2 DEF Challenged, Registered, TypeOK, SockInv, Connected, table, sessions
<1>5. CASE Refresh
  BY <1>0, <1>1, <1>5 DEF Refresh, TypeOK, SockInv, Connected, table, sessions
<1>6. ASSUME Drop, rings' = rings
      PROVE  /\ sock' = "none" /\ dialogs' = {} /\ ended' \subseteq RingIds /\ WireInv'
             /\ wire' \in Seq(Frame) /\ Len(wire') <= MaxFrames
             /\ register' \in {"none", "plain", "auth", "zero"}
             /\ binding' \in {"none", "live", "stale"}
             /\ watch' \in [Sessions -> {"none", "waiting", "woken"}]
             /\ \A s \in Sessions : watch'[s] # "none" => watch[s] # "none"
  <2>1. Finish(dialogs) /\ dialogs \in SUBSET RingIds
    BY <1>0, <1>6 DEF Drop, TypeOK
  <2>2. /\ dialogs' = {} /\ ended' \subseteq RingIds
        /\ watch' \in [Sessions -> {"none", "waiting", "woken"}]
        /\ \A s \in Sessions : watch'[s] # "none" => watch[s] # "none"
    BY <1>0, <2>1, FinishTypes
  <2>3. /\ sock' = "none" /\ wire' = <<>>
        /\ register' \in {"none", "plain", "auth", "zero"}
        /\ binding' \in {"none", "live", "stale"}
    BY <1>0, <1>6 DEF Drop, TypeOK
  <2>. QED
    BY <1>0, <1>1, <1>6, <2>2, <2>3
<1>7. CASE ConnectionEnds
  <2>1. Drop /\ rings' = rings
    BY <1>7 DEF ConnectionEnds
  <2>2. loop' \in {"backoff", "done"}
    BY <1>7 DEF ConnectionEnds
  <2>. QED
    BY <1>0, <1>6, <1>7, <2>1, <2>2 DEF ConnectionEnds, TypeOK, SockInv, Connected
<1>8. CASE ConnectFails \/ Reconnect
  BY <1>0, <1>1, <1>8 DEF ConnectFails, Reconnect, TypeOK, SockInv, Connected, table, sessions,
                          gateway
<1>9. CASE HandleInvite
  BY <1>0, <1>9, DispatchTypes DEF HandleInvite, OfCall, TypeOK, SockInv, Connected
<1>10. CASE HandleCancel
  <2>1. /\ wire' \in Seq(Frame) /\ Len(wire') <= MaxFrames /\ WireInv'
        /\ Incoming.id \in RingIds /\ loop = "read" /\ loop' \in {"read", "ending"}
        /\ UNCHANGED <<state, sock, conns, refreshes, stop, pickup, pc, mine, binding,
                       register, rings, from, ring>>
    BY <1>10, DispatchTypes DEF HandleCancel, OfCall
  <2>2. finals' \in [RingIds -> 0..2]
    BY <1>0, <1>10, <2>1 DEF HandleCancel, TypeOK, RingInv
  <2>. QED
    BY <1>0, <1>10, <2>1, <2>2 DEF HandleCancel, TypeOK, SockInv, Connected
<1>11. CASE HandleBye
  <2>1. /\ wire' \in Seq(Frame) /\ Len(wire') <= MaxFrames /\ WireInv'
        /\ Incoming.id \in RingIds /\ loop = "read" /\ loop' \in {"read", "ending"}
        /\ UNCHANGED <<state, sock, conns, refreshes, stop, pickup, pc, mine, binding,
                       register, rings, from, ring>>
    BY <1>11, DispatchTypes DEF HandleBye, OfCall
  <2>2. /\ dialogs' \subseteq dialogs /\ ended' \subseteq RingIds
        /\ watch' \in [Sessions -> {"none", "waiting", "woken"}]
        /\ \A s \in Sessions : watch'[s] # "none" => watch[s] # "none"
    BY <1>0, <1>11, <2>1, FinishTypes DEF HandleBye
  <2>. QED
    BY <1>0, <1>11, <2>1, <2>2 DEF HandleBye, TypeOK, SockInv, Connected
<1>12. CASE HandleOther
  <2>1. PICK kind \in {"ACK", "200", "401", "4xx"} : Dispatch(kind)
    BY <1>12 DEF HandleOther
  <2>. QED
    BY <1>0, <1>12, <2>1, DispatchTypes DEF HandleOther, table, TypeOK, SockInv, Connected
<1>13. ASSUME NEW i \in RingIds, Age(i) PROVE TypeOK' /\ WireInv' /\ SockInv'
  BY <1>0, <1>1, <1>13 DEF Age, TypeOK, SockInv, Connected, main, sessions, gateway
<1>14. ASSUME NEW s \in Sessions, AcceptPendingCall(s) PROVE TypeOK' /\ WireInv' /\ SockInv'
  <2>1. PICK i \in Candidates(s) :
          /\ Pop(i)
          /\ dialogs' = dialogs \cup {i}
          /\ ended' = ended \ {i}
          /\ finals' = [finals EXCEPT ![i] = @ + 1]
          /\ mine' = [mine EXCEPT ![s] = i]
          /\ ring' = [ring EXCEPT ![i] = IF @ = "ringing" THEN "answered" ELSE @]
    BY <1>14 DEF AcceptPendingCall
  <2>2. i \in RingIds /\ i \in 1..MaxRings /\ i # 0 /\ invites' \subseteq RingIds
    BY <1>0, <2>1, CandidatePending DEF RingIds, Pop, Fresh, TypeOK
  <2>3. finals' \in [RingIds -> 0..2]
    <3>1. finals \in [RingIds -> 0..2] /\ finals[i] \in 0..1
      BY <1>0, <2>2 DEF TypeOK, RingInv
    <3>. QED
      BY <2>1, <2>2, <3>1
  <2>4. /\ pc' = [pc EXCEPT ![s] = "ack"] /\ sock = "up"
        /\ UNCHANGED <<main, old, heard, pickup, watch, binding, register, wire, rings, from>>
    BY <1>14 DEF AcceptPendingCall
  <2>5. /\ UNION {invites', old', dialogs', ended', heard'} \subseteq RingIds
        /\ pc' \in [Sessions -> {"idle", "ack"}]
        /\ mine' \in [Sessions -> 0..MaxRings]
        /\ ring' \in [RingIds -> {"none", "ringing", "cancelled", "answered", "acked", "gone",
                                  "released"}]
    <3>1. UNION {invites', old', dialogs', ended', heard'} \subseteq RingIds
      <4>1. UNION {invites, old, dialogs, ended, heard} \subseteq RingIds
        BY <1>0 DEF TypeOK
      <4>2. dialogs' \subseteq RingIds /\ ended' \subseteq RingIds
        BY <2>1, <2>2, <4>1
      <4>. QED
        BY <2>2, <2>4, <4>1, <4>2
    <3>2. pc' \in [Sessions -> {"idle", "ack"}] /\ mine' \in [Sessions -> 0..MaxRings]
      <4>1. i \in 0..MaxRings
        BY <1>0, <2>2
      <4>. QED
        BY <1>0, <2>1, <2>4, <4>1 DEF TypeOK
    <3>3. ring' \in [RingIds -> {"none", "ringing", "cancelled", "answered", "acked", "gone",
                                 "released"}]
      BY <1>0, <2>1 DEF TypeOK
    <3>. QED
      BY <3>1, <3>2, <3>3
  <2>6. \A t \in Sessions : pc'[t] = "ack" \/ watch'[t] # "none" => mine'[t] # 0
    BY <1>0, <2>1, <2>2, <2>4 DEF TypeOK
  <2>7. TypeOK'
    BY <1>0, <2>3, <2>4, <2>5, <2>6 DEF TypeOK, main
  <2>8. WireInv' /\ SockInv'
    BY <1>0, <1>1, <2>4 DEF SockInv, Connected, main
  <2>. QED
    BY <2>7, <2>8
<1>15. ASSUME NEW s \in Sessions, AckWaitOver(s) PROVE TypeOK' /\ WireInv' /\ SockInv'
  <2>1. /\ pc' = [pc EXCEPT ![s] = "idle"] /\ UNCHANGED <<main, table, pickup, gateway>>
        /\ \/ watch' = [watch EXCEPT ![s] = "waiting"] /\ mine[s] \in dialogs /\ mine' = mine
           \/ mine' = [mine EXCEPT ![s] = 0] /\ watch' = watch /\ watch[s] = "none"
    BY <1>0, <1>15 DEF AckWaitOver, WatchInv, SessionOK
  <2>2. /\ pc' \in [Sessions -> {"idle", "ack"}]
        /\ mine' \in [Sessions -> 0..MaxRings]
        /\ watch' \in [Sessions -> {"none", "waiting", "woken"}]
    BY <1>0, <2>1 DEF TypeOK
  <2>3. \A t \in Sessions : pc'[t] = "ack" \/ watch'[t] # "none" => mine'[t] # 0
    BY <1>0, <2>1, <1>15 DEF TypeOK, AckWaitOver
  <2>4. TypeOK'
    BY <1>0, <2>1, <2>2, <2>3 DEF TypeOK, main, table, gateway
  <2>. QED
    BY <1>0, <1>1, <2>1, <2>4 DEF SockInv, Connected, main, table, gateway
<1>16. ASSUME NEW s \in Sessions, Close(s) PROVE TypeOK' /\ WireInv' /\ SockInv'
  <2>1. mine[s] \in RingIds
    BY <1>0, <1>16 DEF Close, TypeOK, RingIds
  <2>. QED
    BY <1>0, <1>1, <1>16, <2>1 DEF Close, TypeOK, SockInv, Connected, main
<1>17. CASE SetPickupAllowed \/ StopDeregisters \/ StopCloses
  <2>1. CASE SetPickupAllowed
    BY <1>0, <1>1, <2>1 DEF SetPickupAllowed, TypeOK, SockInv, Connected, main, table, gateway
  <2>2. CASE StopDeregisters
    BY <1>0, <1>1, <2>2 DEF StopDeregisters, TypeOK, SockInv, Connected, table, sessions
  <2>3. CASE StopCloses
    BY <1>0, <1>1, <2>3 DEF StopCloses, TypeOK, SockInv, Connected, table, sessions
  <2>. QED
    BY <1>17, <2>1, <2>2, <2>3
<1>18. CASE StopCancels
  <2>1. Drop /\ rings' = rings
    BY <1>18 DEF StopCancels
  <2>. QED
    BY <1>0, <1>6, <1>18, <2>1 DEF StopCancels, TypeOK, SockInv, Connected
<1>19. CASE AnswerRegister
  <2>1. PICK kind \in {"401", "200", "4xx"} : Send(kind, 0)
    BY <1>19 DEF AnswerRegister
  <2>2. [k |-> kind, id |-> 0] \in Frame /\ kind \notin OfCall
    BY <1>0 DEF Frame, OfCall
  <2>3. Room /\ rings' = rings /\ register' = "none" /\ binding' \in {binding, "live", "none"}
    BY <1>19 DEF AnswerRegister
  <2>4. wire' \in Seq(Frame) /\ Len(wire') <= MaxFrames /\ WireInv'
    BY <1>0, <2>1, <2>2, <2>3, FrameSent DEF OfCall
  <2>. QED
    BY <1>0, <1>19, <2>3, <2>4 DEF AnswerRegister, TypeOK, SockInv, Connected, main, table, sessions
<1>20. ASSUME NEW st \in Stations, RingAt(st) PROVE TypeOK' /\ WireInv' /\ SockInv'
  <2>1. /\ rings < MaxRings /\ Room /\ rings' = rings + 1 /\ from' = Append(from, st)
        /\ ring' = [ring EXCEPT ![rings + 1] = "ringing"] /\ Send("INVITE", rings + 1)
    BY <1>20 DEF RingAt
  <2>2. rings + 1 \in RingIds /\ [k |-> "INVITE", id |-> rings + 1] \in Frame
    BY <1>0, <2>1 DEF RingIds, Frame
  <2>3. ~On("INVITE", rings + 1)
    BY <1>0 DEF On, WireInv, OfCall
  <2>4. wire' \in Seq(Frame) /\ Len(wire') <= MaxFrames /\ WireInv'
    BY <1>0, <2>1, <2>2, <2>3, FrameSent
  <2>5. from' \in Seq(Stations) /\ Len(from') = rings' /\ rings' \in 0..MaxRings
    BY <1>0, <2>1 DEF TypeOK
  <2>. QED
    BY <1>0, <1>20, <2>1, <2>2, <2>4, <2>5 DEF RingAt, TypeOK, SockInv, Connected, main, table,
                                               sessions
<1>21. ASSUME NEW i \in RingIds, CancelRing(i) \/ SendAck(i) \/ GatewayBye(i)
       PROVE  TypeOK' /\ WireInv' /\ SockInv'
  <2>1. PICK kind \in {"CANCEL", "ACK", "BYE"} : Send(kind, i)
    BY <1>21 DEF CancelRing, SendAck, GatewayBye, CallChanges
  <2>2. Room /\ ring[i] # "none" /\ rings' = rings
    BY <1>21 DEF CancelRing, SendAck, GatewayBye, CallChanges
  <2>3. [k |-> kind, id |-> i] \in Frame /\ i \in 1..rings
    BY <1>0, <2>2 DEF Frame, RingIds, RingInv
  <2>4. wire' \in Seq(Frame) /\ Len(wire') <= MaxFrames /\ WireInv'
    BY <1>0, <2>1, <2>2, <2>3, FrameSent
  <2>5. /\ UNCHANGED <<main, table, sessions, binding, register, rings, from>>
        /\ \E after \in {"cancelled", "acked", "gone"} : ring' = [ring EXCEPT ![i] = after]
    BY <1>21 DEF CancelRing, SendAck, GatewayBye, CallChanges
  <2>6. ring' \in [RingIds -> {"none", "ringing", "cancelled", "answered", "acked", "gone",
                              "released"}]
    BY <1>0, <2>5 DEF TypeOK
  <2>. QED
    BY <1>0, <2>4, <2>5, <2>6 DEF TypeOK, SockInv, Connected, main, table, sessions
<1>22. CASE LoseConnection
  BY <1>0, <1>1, <1>22 DEF LoseConnection, TypeOK, SockInv, Connected, table, sessions
<1>23. CASE UNCHANGED vars
  BY <1>0, <1>1, <1>23 DEF vars, TypeOK, SockInv, Connected, main, table, sessions, gateway
<1>. QED
  BY <1>2, <1>3, <1>4, <1>5, <1>7, <1>8, <1>9, <1>10, <1>11, <1>12, <1>13, <1>14, <1>15, <1>16,
     <1>17, <1>18, <1>19, <1>20, <1>21, <1>22, <1>23 DEF Next, Loop

----------------------------------------------------------------------------
(* INVITEs and their answers.                                              *)

\* No INVITE comes, is taken up or is answered.
LEMMA RingQuiet ==
  ASSUME RingInv, UNCHANGED <<finals, invites, rings, ring>>, dialogs' \subseteq dialogs,
         \A i : On("INVITE", i)' => On("INVITE", i)
  PROVE  RingInv'
BY DEF RingInv

\* Which frames are on the wire when nothing is put there.
LEMMA WireQuiet ==
  ASSUME ListenerInv, rings' = rings,
         wire' \in {wire, <<>>} \/ (wire # <<>> /\ wire' = Tail(wire))
  PROVE  \A kind, i : On(kind, i)' => On(kind, i)
<1>1. CASE wire' = <<>>
  BY <1>1 DEF On
<1>2. CASE wire' = wire
  BY <1>2 DEF On
<1>3. CASE wire # <<>> /\ wire' = Tail(wire)
  BY <1>3, FrameRead DEF ListenerInv
<1>. QED
  BY <1>1, <1>2, <1>3

\* Every step keeps an INVITE from being answered twice.
LEMMA RingStep == ListenerInv /\ [Next]_vars => RingInv'
<1> SUFFICES ASSUME ListenerInv, [Next]_vars PROVE RingInv'
  OBVIOUS
<1>0. /\ TypeOK /\ WireInv /\ RingInv /\ WatchInv
      /\ MaxRings \in Nat /\ RingIds = 1..MaxRings
      /\ rings \in 0..MaxRings /\ dialogs \subseteq RingIds /\ invites \subseteq RingIds
      /\ finals \in [RingIds -> 0..2] /\ \A i \in RingIds : finals[i] \in 0..1
      /\ mine \in [Sessions -> 0..MaxRings]
      /\ ring \in [RingIds -> {"none", "ringing", "cancelled", "answered", "acked", "gone",
                               "released"}]
  BY Bounds DEF ListenerInv, TypeOK, RingIds, RingInv
<1>1. ASSUME UNCHANGED <<finals, invites, rings, ring>>, dialogs' \subseteq dialogs,
             wire' \in {wire, <<>>} \/ (wire # <<>> /\ wire' = Tail(wire))
      PROVE  RingInv'
  BY <1>0, <1>1, RingQuiet, WireQuiet
<1>2. CASE \/ Start \/ Connect \/ Refresh \/ ConnectFails \/ Reconnect \/ Challenged \/ Registered
           \/ SetPickupAllowed \/ StopDeregisters \/ StopCloses \/ LoseConnection
  BY <1>1, <1>2 DEF Start, Connect, Refresh, ConnectFails, Reconnect, Challenged, Registered,
     Reads, SetPickupAllowed, StopDeregisters, StopCloses, LoseConnection, main, table, sessions,
     gateway
<1>3. CASE ConnectionEnds \/ StopCancels
  BY <1>1, <1>3 DEF ConnectionEnds, StopCancels, Drop, Finish
<1>4. CASE HandleBye \/ HandleOther
  BY <1>1, <1>4 DEF HandleBye, HandleOther, Dispatch, Reads, Finish, table
<1>5. CASE UNCHANGED vars \/ \E i \in RingIds : Age(i)
  BY <1>1, <1>5 DEF vars, Age, main, table, sessions, gateway
<1>6. ASSUME NEW s \in Sessions, AckWaitOver(s) PROVE RingInv'
  BY <1>1, <1>6 DEF AckWaitOver, table, gateway
\* The INVITE moves from the wire to the table.
<1>7. CASE HandleInvite
  <2>1. /\ wire # <<>> /\ wire' = Tail(wire) /\ Incoming.k = "INVITE"
        /\ UNCHANGED <<rings, ring, finals, dialogs>> /\ invites' = invites \cup {Incoming.id}
    BY <1>7 DEF HandleInvite, Dispatch, Reads
  <2>2. PICK i : i = Incoming.id
    OBVIOUS
  <2>3. /\ Incoming \in Frame /\ Incoming = [k |-> "INVITE", id |-> i] /\ i \in 1..rings
        /\ On("INVITE", i) /\ ~On("INVITE", i)'
        /\ \A j : On("INVITE", j)' => On("INVITE", j)
    BY <1>0, <2>1, <2>2, FrameRead DEF OfCall, Frame
  <2>. QED
    BY <1>0, <2>1, <2>2, <2>3 DEF RingInv
<1>8. CASE HandleCancel
  <2>1. /\ wire # <<>> /\ wire' = Tail(wire) /\ Incoming.k = "CANCEL"
        /\ UNCHANGED <<rings, ring, dialogs>> /\ invites' = invites \ {Incoming.id}
        /\ finals' = IF Incoming.id \in invites
                       THEN [finals EXCEPT ![Incoming.id] = @ + 1] ELSE finals
    BY <1>8 DEF HandleCancel, Dispatch, Reads
  <2>2. \A j : On("INVITE", j)' => On("INVITE", j)
    BY <2>1, WireQuiet
  <2>3. CASE Incoming.id \notin invites
    BY <1>1, <2>1, <2>3
  <2>4. CASE Incoming.id \in invites
    <3>1. PICK i \in RingIds : i = Incoming.id
      BY <1>0, <2>4
    <3>2. \A j \in RingIds : finals'[j] = IF j = i THEN 1 ELSE finals[j]
      BY <1>0, <2>1, <2>4, <3>1 DEF RingInv
    <3>3. i \in invites /\ i <= rings /\ ~On("INVITE", i) /\ i \notin dialogs
      BY <1>0, <2>4, <3>1 DEF RingInv
    <3>. QED
      BY <1>0, <2>1, <2>2, <3>1, <3>2, <3>3 DEF RingInv
  <2>. QED
    BY <2>3, <2>4
\* A session takes the INVITE out of the table and answers it.
<1>9. ASSUME NEW s \in Sessions, AcceptPendingCall(s) PROVE RingInv'
  <2>1. PICK i \in Candidates(s) :
          /\ Pop(i)
          /\ dialogs' = dialogs \cup {i}
          /\ finals' = [finals EXCEPT ![i] = @ + 1]
          /\ ring' = [ring EXCEPT ![i] = IF @ = "ringing" THEN "answered" ELSE @]
    BY <1>9 DEF AcceptPendingCall
  <2>2. i \in Fresh /\ i \in RingIds
    BY <1>0, CandidatePending
  <2>3. i \in invites /\ invites' \subseteq invites /\ i \notin invites'
    BY <2>1, <2>2 DEF Pop, Fresh
  <2>4. UNCHANGED <<wire, rings>>
    BY <1>9 DEF AcceptPendingCall
  <2>5. finals[i] = 0 /\ i <= rings /\ ~On("INVITE", i)
    BY <1>0, <2>2, <2>3 DEF RingInv
  <2>6. \A j \in RingIds : /\ finals'[j] = IF j = i THEN 1 ELSE finals[j]
                           /\ j # i => ring'[j] = ring[j]
    BY <1>0, <2>1, <2>2, <2>5
  <2>7. \A j : On("INVITE", j)' <=> On("INVITE", j)
    BY <2>4 DEF On
  <2>. QED
    BY <1>0, <2>1, <2>2, <2>3, <2>4, <2>5, <2>6, <2>7 DEF RingInv
<1>10. ASSUME NEW s \in Sessions, Close(s) PROVE RingInv'
  <2>1. PICK i \in RingIds : i = mine[s] /\ finals[i] = 1
    BY <1>0, <1>10 DEF Close, WatchInv, SessionOK
  <2>2. /\ UNCHANGED <<finals, invites, rings, wire>> /\ dialogs' \subseteq dialogs
        /\ \A j \in RingIds : j # i => ring'[j] = ring[j]
    BY <1>0, <1>10, <2>1 DEF Close
  <2>3. i <= rings
    BY <1>0, <2>1 DEF RingInv
  <2>4. \A j : On("INVITE", j)' <=> On("INVITE", j)
    BY <2>2 DEF On
  <2>. QED
    BY <1>0, <2>1, <2>2, <2>3, <2>4 DEF RingInv
<1>11. CASE AnswerRegister
  <2>1. PICK kind \in {"401", "200", "4xx"} : Send(kind, 0)
    BY <1>11 DEF AnswerRegister
  <2>2. [k |-> kind, id |-> 0] \in Frame /\ kind \notin OfCall /\ rings \in Nat
    BY <1>0 DEF Frame, OfCall
  <2>3. Room /\ UNCHANGED <<finals, invites, rings, ring, dialogs>>
    BY <1>11 DEF AnswerRegister, table
  <2>4. \A i : On("INVITE", i)' => On("INVITE", i)
    BY <1>0, <2>1, <2>2, <2>3, FrameSent DEF OfCall
  <2>. QED
    BY <1>0, <2>3, <2>4, RingQuiet
\* The new INVITE is on the wire, and nowhere else.
<1>12. ASSUME NEW st \in Stations, RingAt(st) PROVE RingInv'
  <2>1. /\ rings < MaxRings /\ Room /\ rings' = rings + 1
        /\ ring' = [ring EXCEPT ![rings + 1] = "ringing"] /\ Send("INVITE", rings + 1)
        /\ UNCHANGED <<finals, invites, dialogs>>
    BY <1>12 DEF RingAt, table
  <2>2. rings + 1 \in RingIds /\ [k |-> "INVITE", id |-> rings + 1] \in Frame
    BY <1>0, <2>1 DEF RingIds, Frame
  <2>3. ~On("INVITE", rings + 1)
    BY <1>0 DEF On, WireInv, OfCall
  <2>4. \A i : On("INVITE", i)' => On("INVITE", i) \/ i = rings + 1
    <3>1. TypeOK /\ WireInv /\ rings' \in Nat /\ rings <= rings' /\ rings + 1 \in 1..rings'
      BY <1>0, <2>1
    <3>. QED
      BY <2>1, <2>2, <2>3, <3>1, FrameSent
  <2>5. \A i \in RingIds : i # rings + 1 => ring'[i] = ring[i]
    BY <1>0, <2>1
  <2>6. ring'[rings + 1] = "ringing" /\ finals[rings + 1] = 0 /\ rings + 1 \notin invites
        /\ rings + 1 \notin dialogs
    BY <1>0, <2>1, <2>2 DEF RingInv
  <2>. QED
    BY <1>0, <2>1, <2>2, <2>4, <2>5, <2>6 DEF RingInv
<1>13. ASSUME NEW i \in RingIds, CancelRing(i) \/ SendAck(i) \/ GatewayBye(i) PROVE RingInv'
  <2>1. PICK kind \in {"CANCEL", "ACK", "BYE"} : Send(kind, i)
    BY <1>13 DEF CancelRing, SendAck, GatewayBye, CallChanges
  <2>2. /\ Room /\ UNCHANGED <<finals, invites, rings, dialogs>>
        /\ \/ ring[i] = "ringing" /\ ring' = [ring EXCEPT ![i] = "cancelled"]
           \/ ring[i] \in {"answered", "acked"} /\ \E after : ring' = [ring EXCEPT ![i] = after]
    BY <1>13 DEF CancelRing, SendAck, GatewayBye, CallChanges, table
  <2>3. [k |-> kind, id |-> i] \in Frame /\ i \in 1..rings /\ rings \in Nat
    BY <1>0, <2>2 DEF Frame, RingInv
  <2>4. \A j : On("INVITE", j)' => On("INVITE", j)
    BY <1>0, <2>1, <2>2, <2>3, FrameSent
  <2>5. /\ \A j \in RingIds : j # i => ring'[j] = ring[j]
        /\ ring'[i] = "cancelled" \/ finals[i] = 1
    BY <1>0, <2>2 DEF RingInv
  <2>. QED
    BY <1>0, <2>2, <2>3, <2>4, <2>5 DEF RingInv
<1>. QED
  BY <1>2, <1>3, <1>4, <1>5, <1>6, <1>7, <1>8, <1>9, <1>10, <1>11, <1>12, <1>13 DEF Next, Loop

----------------------------------------------------------------------------
(* Who waits for the end of a call.                                        *)

\* Who waits, and for what, is left alone.
LEMMA WatchQuiet ==
  ASSUME WatchInv, UNCHANGED <<pc, mine, watch, dialogs>>,
         \A s \in Sessions : mine[s] # 0 => finals'[mine[s]] = finals[mine[s]]
  PROVE  WatchInv'
BY DEF WatchInv, SessionOK

\* Whoever waits for one of the calls that end is woken.
LEMMA WatchFinish ==
  ASSUME TypeOK, WatchInv, NEW set \in SUBSET RingIds, Finish(set), UNCHANGED <<pc, mine, finals>>
  PROVE  WatchInv'
<1>1. /\ dialogs' = dialogs \ set
      /\ \A s \in Sessions :
           watch'[s] = IF watch[s] = "waiting" /\ mine[s] \in set \cap dialogs
                         THEN "woken" ELSE watch[s]
  BY FinishTypes
<1>2. \A s \in Sessions : pc[s] \in {"idle", "ack"} /\ watch[s] \in {"none", "waiting", "woken"}
  BY DEF TypeOK
<1>3. ASSUME NEW s \in Sessions
      PROVE  /\ pc[s] = "ack" => watch'[s] = "none"
             /\ watch'[s] # "none" <=> watch[s] # "none"
             /\ watch'[s] = "waiting" => mine[s] \in dialogs'
             /\ mine[s] # 0 /\ mine[s] \notin dialogs' => pc[s] = "ack" \/ watch'[s] = "woken"
  BY <1>1, <1>2 DEF WatchInv, SessionOK
<1>. QED
  BY <1>3 DEF WatchInv, SessionOK

\* Every step keeps a waiter for each dialog that is answered.
LEMMA WatchStep == ListenerInv /\ [Next]_vars => WatchInv'
<1> SUFFICES ASSUME ListenerInv, [Next]_vars PROVE WatchInv'
  OBVIOUS
<1>0. /\ TypeOK /\ WireInv /\ RingInv /\ WatchInv
      /\ MaxRings \in Nat /\ RingIds = 1..MaxRings
      /\ dialogs \subseteq RingIds /\ invites \subseteq RingIds
      /\ finals \in [RingIds -> 0..2]
      /\ mine \in [Sessions -> 0..MaxRings]
      /\ pc \in [Sessions -> {"idle", "ack"}]
      /\ watch \in [Sessions -> {"none", "waiting", "woken"}]
      /\ \A s \in Sessions : mine[s] # 0 => mine[s] \in RingIds /\ finals[mine[s]] = 1
  BY Bounds DEF ListenerInv, TypeOK, RingIds, WatchInv, SessionOK
<1>1. ASSUME UNCHANGED <<pc, mine, watch, dialogs, finals>> PROVE WatchInv'
  BY <1>0, <1>1, WatchQuiet
<1>2. CASE \/ Start \/ Connect \/ Refresh \/ ConnectFails \/ Reconnect \/ Challenged \/ Registered
           \/ StopDeregisters \/ StopCloses \/ LoseConnection \/ AnswerRegister
  BY <1>1, <1>2 DEF Start, Connect, Refresh, ConnectFails, Reconnect, Challenged, Registered,
     StopDeregisters, StopCloses, LoseConnection, AnswerRegister, table, sessions
<1>3. CASE SetPickupAllowed \/ \E st \in Stations : RingAt(st)
  BY <1>1, <1>3 DEF SetPickupAllowed, RingAt, table, sessions
<1>4. CASE \/ \E i \in RingIds : CancelRing(i) \/ SendAck(i) \/ GatewayBye(i)
           \/ UNCHANGED vars \/ \E i \in RingIds : Age(i)
  BY <1>1, <1>4 DEF CancelRing, SendAck, GatewayBye, CallChanges, vars, Age, table, sessions
<1>5. CASE ConnectionEnds \/ StopCancels
  <2>1. Finish(dialogs) /\ dialogs \in SUBSET RingIds /\ UNCHANGED <<pc, mine, finals>>
    BY <1>0, <1>5 DEF ConnectionEnds, StopCancels, Drop
  <2>. QED
    BY <1>0, <2>1, WatchFinish
<1>6. CASE HandleBye
  <2>1. /\ Finish({Incoming.id}) /\ Incoming.id \in RingIds /\ UNCHANGED <<pc, mine, finals>>
    BY <1>6, DispatchTypes DEF HandleBye, OfCall
  <2>. QED
    BY <1>0, <2>1, WatchFinish
<1>7. CASE HandleInvite \/ HandleOther
  BY <1>1, <1>7 DEF HandleInvite, HandleOther, Dispatch, table
\* 487 goes to an INVITE that nobody has answered.
<1>8. CASE HandleCancel
  <2>1. /\ UNCHANGED <<pc, mine, watch, dialogs>>
        /\ finals' = IF Incoming.id \in invites
                       THEN [finals EXCEPT ![Incoming.id] = @ + 1] ELSE finals
    BY <1>8 DEF HandleCancel, Dispatch
  <2>2. ASSUME NEW s \in Sessions, mine[s] # 0 PROVE finals'[mine[s]] = finals[mine[s]]
    <3>1. mine[s] \notin invites
      BY <1>0, <2>2 DEF RingInv
    <3>. QED
      BY <1>0, <2>1, <2>2, <3>1
  <2>. QED
    BY <1>0, <2>1, <2>2, WatchQuiet
<1>9. ASSUME NEW s \in Sessions, AcceptPendingCall(s) PROVE WatchInv'
  <2>1. PICK i \in Candidates(s) :
          /\ dialogs' = dialogs \cup {i}
          /\ finals' = [finals EXCEPT ![i] = @ + 1]
          /\ mine' = [mine EXCEPT ![s] = i]
    BY <1>9 DEF AcceptPendingCall
  <2>2. i \in invites /\ i \in RingIds /\ i # 0 /\ finals[i] = 0
    BY <1>0, CandidatePending DEF Fresh, RingInv
  <2>3. /\ pc' = [pc EXCEPT ![s] = "ack"] /\ watch' = watch
        /\ pc[s] = "idle" /\ mine[s] = 0 /\ watch[s] = "none"
    BY <1>0, <1>9 DEF AcceptPendingCall, WatchInv, SessionOK, sessions
  <2>4. \A t \in Sessions : /\ mine[t] # i
                            /\ mine'[t] = IF t = s THEN i ELSE mine[t]
                            /\ pc'[t] = IF t = s THEN "ack" ELSE pc[t]
    BY <1>0, <2>1, <2>2, <2>3
  <2>5. finals'[i] = 1 /\ \A t \in Sessions : mine[t] # 0 => finals'[mine[t]] = 1
    BY <1>0, <2>1, <2>2, <2>4
  <2>. QED
    BY <1>0, <2>1, <2>2, <2>3, <2>4, <2>5 DEF WatchInv, SessionOK
\* The watcher begins when the dialog is still there.
<1>10. ASSUME NEW s \in Sessions, AckWaitOver(s) PROVE WatchInv'
  <2>1. /\ \A t \in Sessions : /\ pc'[t] = IF t = s THEN "idle" ELSE pc[t]
                               /\ t # s => mine'[t] = mine[t] /\ watch'[t] = watch[t]
        /\ UNCHANGED <<dialogs, finals>>
    BY <1>0, <1>10 DEF AckWaitOver, table
  <2>2. CASE mine[s] \in dialogs
    <3>1. mine' = mine /\ watch'[s] = "waiting" /\ mine[s] # 0
      BY <1>0, <1>10, <2>2 DEF AckWaitOver
    <3>. QED
      BY <1>0, <2>1, <2>2, <3>1 DEF WatchInv, SessionOK
  <2>3. CASE mine[s] \notin dialogs
    <3>1. mine'[s] = 0 /\ watch' = watch /\ watch[s] = "none"
      BY <1>0, <1>10, <2>3 DEF AckWaitOver, WatchInv, SessionOK
    <3>2. \A t \in Sessions \ {s} : SessionOK(t)'
      BY <1>0, <2>1, <3>1 DEF WatchInv, SessionOK
    <3>3. SessionOK(s)'
      BY <2>1, <3>1 DEF SessionOK
    <3>4. \A t, u \in Sessions : mine'[t] # 0 /\ mine'[t] = mine'[u] => t = u
      BY <1>0, <2>1, <3>1 DEF WatchInv
    <3>. QED
      BY <3>2, <3>3, <3>4 DEF WatchInv
  <2>. QED
    BY <2>2, <2>3
\* Nobody else waits for the call that is hung up.
<1>11. ASSUME NEW s \in Sessions, Close(s) PROVE WatchInv'
  <2>1. /\ mine[s] # 0 /\ pc[s] = "idle" /\ UNCHANGED <<pc, finals>>
        /\ mine'[s] = 0 /\ watch'[s] = "none"
        /\ \A t \in Sessions \ {s} : mine'[t] = mine[t] /\ watch'[t] = watch[t]
        /\ dialogs' \in {dialogs, dialogs \ {mine[s]}}
    BY <1>0, <1>11 DEF Close
  <2>2. \A t \in Sessions \ {s} : mine[t] # 0 => mine[t] # mine[s]
    BY <1>0, <2>1 DEF WatchInv
  <2>3. \A t \in Sessions \ {s} : mine[t] # 0 => (mine[t] \in dialogs' <=> mine[t] \in dialogs)
    BY <2>1, <2>2
  <2>4. \A t \in Sessions \ {s} : SessionOK(t)'
    BY <1>0, <2>1, <2>3 DEF WatchInv, SessionOK
  <2>5. SessionOK(s)'
    BY <2>1 DEF SessionOK
  <2>6. \A t, u \in Sessions : mine'[t] # 0 /\ mine'[t] = mine'[u] => t = u
    BY <1>0, <2>1 DEF WatchInv
  <2>. QED
    BY <2>4, <2>5, <2>6 DEF WatchInv
<1>. QED
  BY <1>2, <1>3, <1>4, <1>5, <1>6, <1>7, <1>8, <1>9, <1>10, <1>11 DEF Next, Loop

\* Every step keeps the end of a dialog on its way.
LEMMA EndStep == ListenerInv /\ [Next]_vars => EndInv'
<1> SUFFICES ASSUME ListenerInv, [Next]_vars PROVE EndInv'
  OBVIOUS
<1>0. /\ TypeOK /\ WireInv /\ SockInv /\ RingInv /\ WatchInv /\ EndInv
      /\ MaxRings \in Nat /\ RingIds = 1..MaxRings /\ rings \in 0..MaxRings
      /\ dialogs \subseteq RingIds
      /\ mine \in [Sessions -> 0..MaxRings]
      /\ sock \in {"none", "up", "lost"}
      /\ ring \in [RingIds -> {"none", "ringing", "cancelled", "answered", "acked", "gone",
                               "released"}]
  BY Bounds DEF ListenerInv, TypeOK, RingIds
<1>1. ASSUME ring' = ring, dialogs' \subseteq dialogs, sock' = sock \/ sock' = "lost",
             \A i \in dialogs' : On("BYE", i) => On("BYE", i)' \/ sock' = "lost"
      PROVE  EndInv'
  BY <1>0, <1>1 DEF EndInv
<1>2. wire' = wire => \A i : On("BYE", i) => On("BYE", i)'
  BY DEF On
<1>3. CASE Start \/ Refresh \/ ConnectFails \/ Reconnect \/ StopDeregisters
  BY <1>1, <1>2, <1>3 DEF Start, Refresh, ConnectFails, Reconnect, StopDeregisters, table, gateway
<1>4. CASE SetPickupAllowed \/ UNCHANGED vars \/ \E i \in RingIds : Age(i)
  BY <1>1, <1>2, <1>4 DEF SetPickupAllowed, vars, Age, main, table, gateway
<1>5. ASSUME NEW s \in Sessions, AckWaitOver(s) PROVE EndInv'
  BY <1>1, <1>2, <1>5 DEF AckWaitOver, main, table, gateway
\* A connection begins and ends without dialogs.
<1>6. CASE Connect \/ ConnectionEnds \/ StopCancels
  <2>1. dialogs' = {}
    <3>1. CASE Connect
      BY <1>0, <3>1 DEF Connect, SockInv, Connected, table
    <3>2. CASE ConnectionEnds \/ StopCancels
      BY <3>2 DEF ConnectionEnds, StopCancels, Drop, Finish
    <3>. QED
      BY <1>6, <3>1, <3>2
  <2>. QED
    BY <2>1 DEF EndInv
<1>7. CASE StopCloses \/ LoseConnection
  <2>1. CASE dialogs = {}
    BY <1>7, <2>1 DEF StopCloses, LoseConnection, table, EndInv
  <2>2. CASE dialogs # {}
    BY <1>0, <1>1, <1>7, <2>2 DEF StopCloses, LoseConnection, table, SockInv
  <2>. QED
    BY <2>1, <2>2
\* Frames are read that are no BYE.
<1>8. ASSUME wire # <<>>, wire' = Tail(wire), rings' = rings, UNCHANGED <<ring, sock>>,
             dialogs' \subseteq dialogs,
             \A i \in dialogs' : Incoming # [k |-> "BYE", id |-> i]
      PROVE  EndInv'
  <2>1. \A i : On("BYE", i) => On("BYE", i)' \/ Incoming = [k |-> "BYE", id |-> i]
    BY <1>0, <1>8, FrameRead
  <2>. QED
    BY <1>1, <1>8, <2>1
<1>9. CASE Challenged \/ Registered
  <2>1. /\ wire # <<>> /\ wire' = Tail(wire) /\ Incoming.k # "BYE"
        /\ UNCHANGED <<ring, sock, rings, dialogs>>
    BY <1>9 DEF Challenged, Registered, Reads, table
  <2>. QED
    BY <1>8, <2>1
<1>10. CASE HandleInvite \/ HandleCancel \/ HandleOther
  <2>1. /\ wire # <<>> /\ wire' = Tail(wire) /\ Incoming.k # "BYE"
        /\ UNCHANGED <<ring, sock, rings, dialogs>>
    BY <1>10 DEF HandleInvite, HandleCancel, HandleOther, Dispatch, Reads, table
  <2>. QED
    BY <1>8, <2>1
<1>11. CASE HandleBye
  <2>1. /\ wire # <<>> /\ wire' = Tail(wire) /\ dialogs' = dialogs \ {Incoming.id}
        /\ UNCHANGED <<ring, sock, rings>>
    BY <1>11 DEF HandleBye, Dispatch, Reads, Finish
  <2>2. \A i \in dialogs' : Incoming # [k |-> "BYE", id |-> i]
    BY <2>1
  <2>. QED
    BY <1>8, <2>1, <2>2
\* A call that is answered has not ended.
<1>12. ASSUME NEW s \in Sessions, AcceptPendingCall(s) PROVE EndInv'
  <2>1. PICK i \in Candidates(s) :
          /\ dialogs' = dialogs \cup {i}
          /\ ring' = [ring EXCEPT ![i] = IF @ = "ringing" THEN "answered" ELSE @]
    BY <1>12 DEF AcceptPendingCall
  <2>2. i \in RingIds /\ ring[i] \in {"none", "ringing", "cancelled"}
    BY <1>0, CandidatePending DEF Fresh, RingInv
  <2>3. ring'[i] # "gone" /\ \A j \in RingIds : j # i => ring'[j] = ring[j]
    BY <1>0, <2>1, <2>2
  <2>4. UNCHANGED <<wire, sock>>
    BY <1>12 DEF AcceptPendingCall, main
  <2>. QED
    BY <1>0, <1>2, <2>1, <2>3, <2>4 DEF EndInv
<1>13. ASSUME NEW s \in Sessions, Close(s) PROVE EndInv'
  <2>1. /\ UNCHANGED <<wire, sock>> /\ dialogs' \subseteq dialogs
        /\ \A i \in RingIds : ring'[i] \in {ring[i], "released"}
    BY <1>0, <1>13 DEF Close, main
  <2>. QED
    BY <1>0, <1>2, <2>1 DEF EndInv
<1>14. CASE AnswerRegister
  <2>1. PICK kind \in {"401", "200", "4xx"} : Send(kind, 0)
    BY <1>14 DEF AnswerRegister
  <2>2. [k |-> kind, id |-> 0] \in Frame /\ kind \notin OfCall /\ rings \in Nat
    BY <1>0 DEF Frame, OfCall
  <2>3. Room /\ UNCHANGED <<ring, dialogs, sock, rings>>
    BY <1>14 DEF AnswerRegister, table, main
  <2>4. \A i : On("BYE", i) => On("BYE", i)'
    BY <1>0, <2>1, <2>2, <2>3, FrameSent DEF OfCall
  <2>. QED
    BY <1>1, <2>3, <2>4
<1>15. ASSUME NEW st \in Stations, RingAt(st) PROVE EndInv'
  <2>1. /\ rings < MaxRings /\ Room /\ rings' = rings + 1
        /\ ring' = [ring EXCEPT ![rings + 1] = "ringing"] /\ Send("INVITE", rings + 1)
        /\ UNCHANGED <<dialogs, sock>>
    BY <1>15 DEF RingAt, table, main
  <2>2. rings + 1 \in RingIds /\ [k |-> "INVITE", id |-> rings + 1] \in Frame
    BY <1>0, <2>1 DEF RingIds, Frame
  <2>3. ~On("INVITE", rings + 1)
    BY <1>0 DEF On, WireInv, OfCall
  <2>4. \A i : On("BYE", i) => On("BYE", i)'
    <3>1. TypeOK /\ WireInv /\ rings' \in Nat /\ rings <= rings' /\ rings + 1 \in 1..rings'
      BY <1>0, <2>1
    <3>. QED
      BY <2>1, <2>2, <2>3, <3>1, FrameSent
  <2>5. \A i \in RingIds : ring'[i] \in {ring[i], "ringing"}
    BY <1>0, <2>1
  <2>. QED
    BY <1>0, <2>1, <2>4, <2>5 DEF EndInv
\* The BYE is put on the wire while the connection stands.
<1>16. ASSUME NEW i \in RingIds, CancelRing(i) \/ SendAck(i) \/ GatewayBye(i) PROVE EndInv'
  <2>1. PICK kind \in {"CANCEL", "ACK", "BYE"}, after \in {"cancelled", "acked", "gone"} :
          Send(kind, i) /\ ring' = [ring EXCEPT ![i] = after] /\ (after = "gone" => kind = "BYE")
    BY <1>16 DEF CancelRing, SendAck, GatewayBye, CallChanges
  <2>2. Room /\ UNCHANGED <<rings, dialogs, sock>> /\ ring[i] # "none"
    BY <1>16 DEF CancelRing, SendAck, GatewayBye, CallChanges, table, main
  <2>3. [k |-> kind, id |-> i] \in Frame /\ i \in 1..rings /\ rings \in Nat
    BY <1>0, <2>2 DEF Frame, RingInv
  <2>4. (\A j : On("BYE", j) => On("BYE", j)') /\ (sock = "up" => On(kind, i)')
    BY <1>0, <2>1, <2>2, <2>3, FrameSent
  <2>5. \A j \in RingIds : ring'[j] = IF j = i THEN after ELSE ring[j]
    BY <1>0, <2>1
  <2>6. dialogs # {} => sock \in {"up", "lost"}
    BY <1>0 DEF SockInv
  <2>. QED
    BY <1>0, <2>1, <2>2, <2>4, <2>5, <2>6 DEF EndInv
<1>. QED
  BY <1>3, <1>4, <1>5, <1>6, <1>7, <1>9, <1>10, <1>11, <1>12, <1>13, <1>14, <1>15, <1>16
     DEF Next, Loop

----------------------------------------------------------------------------
(* The invariant, and the properties that follow from it.                  *)

\* Nothing has rung.
LEMMA ListenerInit == Init => ListenerInv
<1> SUFFICES ASSUME Init PROVE ListenerInv
  OBVIOUS
<1>1. /\ MaxRings \in Nat /\ 0 \in 0..MaxRings /\ 0 \in 0..MaxConns /\ 0 \in 0..MaxRefresh
      /\ MaxFrames \in Nat /\ \A i \in RingIds : i > 0
  BY Bounds DEF RingIds
<1>2. TypeOK
  BY <1>1 DEF Init, TypeOK
<1>3. SockInv /\ WireInv
  BY DEF Init, SockInv, Connected, WireInv
<1>4. RingInv
  BY <1>1 DEF Init, RingInv, On
<1>5. WatchInv /\ EndInv
  BY DEF Init, WatchInv, SessionOK, EndInv
<1>. QED
  BY <1>2, <1>3, <1>4, <1>5 DEF ListenerInv

\* An INVITE leaves the stream once, leaves the table once and is answered
\* then; its dialog is of one session and ends with its BYE, with the
\* connection or with stop() (sip_listener.py, media_pipeline.py).
THEOREM ListenerSound == Spec => []ListenerInv
<1>1. ListenerInv /\ [Next]_vars => ListenerInv'
  BY TypesStep, RingStep, WatchStep, EndStep DEF ListenerInv
<1>. QED
  BY <1>1, ListenerInit, PTL DEF Spec

\* Every variable of the listener keeps its type; who waits for an ACK or the
\* end of a call has a call (sip_listener.py, the attributes of the listener).
THEOREM ListenerTyped == Spec => []TypeOK
<1>1. ListenerInv => TypeOK
  BY DEF ListenerInv
<1>. QED
  BY <1>1, ListenerSound, PTL

\* No INVITE gets two final responses, whether the loop answers a CANCEL or a
\* session accepts, and no two cameras have answered the same ring, in any
\* order of ring, CANCEL, pickup, refresh and loss of the connection
\* (sip_listener.py: _pop_pending_invite, the CANCEL of _dispatch).
THEOREM OneAnswerPerRing == Spec => []OneAnswer
<1>1. ListenerInv => OneAnswer
  BY DEF ListenerInv, RingInv, WatchInv, SessionOK, OneAnswer
<1>. QED
  BY <1>1, ListenerSound, PTL

\* A session that waits for the end of the call it has answered waits for a
\* dialog that BYE, loss and stop() will find, and is woken when it goes
\* (sip_listener.py: _finish_accepted_dialog, wait_accepted_call_end).
THEOREM AnsweredCallEnds == Spec => []EndReachesWaiter
<1>1. ListenerInv => EndReachesWaiter
  <2> SUFFICES ASSUME ListenerInv PROVE EndReachesWaiter
    OBVIOUS
  <2>1. \A s \in Sessions :
          /\ watch[s] = "waiting" => mine[s] \in dialogs
          /\ mine[s] # 0 /\ mine[s] \notin dialogs => pc[s] = "ack" \/ watch[s] = "woken"
    BY DEF ListenerInv, WatchInv, SessionOK
  <2>2. dialogs # {} => Connected /\ sock # "none"
    BY DEF ListenerInv, SockInv
  <2>3. ASSUME NEW i \in dialogs, ring[i] = "gone"
        PROVE  [k |-> "BYE", id |-> i] \in ToSet(wire) \/ sock = "lost"
    <3>1. On("BYE", i) \/ sock = "lost"
      BY <2>3 DEF ListenerInv, EndInv
    <3>2. wire \in Seq(Frame)
      BY DEF ListenerInv, TypeOK
    <3>. QED
      BY <3>1, <3>2 DEF On, ToSet
  <2>. QED
    BY <2>1, <2>2, <2>3 DEF EndReachesWaiter
<1>. QED
  BY <1>1, ListenerSound, PTL
=============================================================================
