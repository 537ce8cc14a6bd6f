------------------------ MODULE IntercomDialer_proof ------------------------
(***************************************************************************)
(* The dialer, for every set of sessions and every bound: the lock is one  *)
(* task's at a time, the gateway has at most one call of this client that  *)
(* was not given up on, whoever waits for the end of a call hears of it,   *)
(* and the dialer implements IntercomLine.                                 *)
(***************************************************************************)
EXTENDS IntercomDialer, FiniteSetTheorems, TLAPS

\* Where a task waits for the lock, and where it has it.
Waiting == {"c_lock", "d_lock", "r_lock", "h_lock", "m_lock", "x_lock"}
Holding == {"connecting", "replace", "invite", "proceed", "best_effort", "bye", "msg",
            "unregister"}
Places == Waiting \cup Holding \cup {"idle", "closed"}

\* s has sent an INVITE and waits for its final response.
Inviting(s) == pc[s] \in {"invite", "proceed"}

PcTypes ==
  /\ pc \in [Tasks -> Places]
  /\ \A s \in Sessions : pc[s] \notin {"x_lock", "unregister", "closed"}
  /\ pc[Unloader] \in {"idle", "x_lock", "bye", "unregister", "closed"}

\* Who waits for the lock or has it stands in the queue once, the holder in front.
LockInv ==
  /\ lock \in Seq(Tasks)
  /\ \A m, n \in 1..Len(lock) : lock[m] = lock[n] => m = n
  /\ \A t \in Tasks : pc[t] \in Waiting \cup Holding <=> \E n \in 1..Len(lock) : lock[n] = t
  /\ \A t \in Tasks : pc[t] \in Holding => Holds(t)

SharedTypes ==
  /\ conn \in {"none", "up", "lost"}
  /\ call \in 0..MaxCalls /\ pending \in 0..MaxCalls
  /\ ended \subseteq CallIds /\ dropped \subseteq CallIds
  /\ watch \in [Sessions -> {"none", "waiting", "woken"}]
DataTypes ==
  /\ SharedTypes
  /\ calls \in 0..MaxCalls
  /\ retried \subseteq Sessions
  /\ at \in [Tasks -> 0..MaxCalls]
  /\ mine \in [Sessions -> 0..MaxCalls]
  /\ gw \in [CallIds -> {"none", "invited", "ringing", "challenged", "authed", "up", "refused",
                         "ended", "released"}]
  /\ losses \in 0..MaxLosses

\* The bound on INVITEs leaves room for those that are still to come.
RoomInv ==
  \/ calls = 0 /\ Dialing = {}
  \/ calls + Cardinality(Dialing) + MaxLosses - losses <= MaxCalls

\* What is on its way from the gateway fits what the gateway thinks of the
\* call; of a challenge there is one at most, until it has been answered.
Fits(f, view) ==
  /\ view[f.id] # "none"
  /\ f.k = "401" => view[f.id] = "challenged"
  /\ f.k = "200" => view[f.id] \in {"up", "ended", "released"}
  /\ f.k = "4xx" => view[f.id] = "refused"
  /\ f.k = "BYE" => view[f.id] = "ended"
FrameInv ==
  /\ queue \in Seq(Frame) /\ wire \in Seq(Frame)
  /\ \A n \in 1..Len(queue) : Fits(queue[n], gw)
  /\ \A n \in 1..Len(wire) : Fits(wire[n], gw)
  /\ \A m, n \in 1..Len(queue) : queue[m] = queue[n] /\ queue[m].k = "401" => m = n
  /\ \A m, n \in 1..Len(wire) : wire[m] = wire[n] /\ wire[m].k = "401" => m = n
  /\ \A m \in 1..Len(queue), n \in 1..Len(wire) : queue[m] = wire[n] => queue[m].k # "401"

\* What each place of a session means for the call.
SessionInv(s) ==
  /\ mine[s] <= calls
  /\ InDial(s) => mine[s] = 0
  /\ Inviting(s) => /\ call = 0 /\ at[s] # 0 /\ at[s] <= calls
                    /\ \A t \in Sessions : mine[t] # at[s]
  /\ pc[s] = "connecting" => call = 0 /\ conn = "none"
  /\ pc[s] \in {"h_lock", "bye"} => watch[s] = "none" /\ mine[s] # 0
  /\ pc[s] = "bye" => mine[s] = at[s]
  /\ watch[s] = "waiting" => call # 0 /\ mine[s] = call /\ call \notin ended

\* Who waits for the answer to a BYE sent it to the active call, which the
\* gateway has released then.
ByeInv(t) ==
  pc[t] \in {"replace", "bye"} =>
    at[t] # 0 /\ call \in {0, at[t]} /\ gw[at[t]] \in {"ended", "released"}

\* i is the active call, or the one that is being set up.
Tracked(i) == (call = i /\ i # 0) \/ \E s \in Sessions : Inviting(s) /\ at[s] = i

CallInv ==
  /\ \A s \in Sessions : SessionInv(s)
  /\ \A t \in Tasks : ByeInv(t)
  /\ \A i \in CallIds : i > calls => gw[i] = "none"
  /\ call # 0 => /\ call <= calls /\ gw[call] \in {"up", "ended", "released"}
                 /\ \E s \in Sessions : mine[s] = call
                                        /\ \A t \in Sessions \ {s} : mine[t] # call
\* A call the gateway holds open is tracked here, or was given up on.
TrackInv == \A i \in CallIds \ dropped : Open(i) => Tracked(i)

\* The gateway's end of a tracked call is known or on its way.
Bye(i) == [k |-> "BYE", id |-> i]
ByeKnown(i) == i \in ended \/ \E n \in 1..Len(wire) : wire[n] = Bye(i)
EndInv == \A i \in CallIds : Tracked(i) /\ gw[i] = "ended" /\ conn = "up" => ByeKnown(i)

DialerInv ==
  PcTypes /\ LockInv /\ DataTypes /\ RoomInv /\ FrameInv /\ CallInv /\ TrackInv /\ EndInv

----------------------------------------------------------------------------
(* The lock.                                                               *)

\* Where the second of two joined sequences is found.
LEMMA ConcatBack ==
  ASSUME NEW S, NEW a \in Seq(S), NEW b \in Seq(S), NEW j \in 1..Len(b)
  PROVE  (a \o b)[Len(a) + j] = b[j]
OBVIOUS

\* Who asks for the lock goes to the end of the queue.
LEMMA LockAwaited ==
  ASSUME PcTypes, LockInv, NEW s \in Tasks, NEW to \in Waiting,
         pc[s] \notin Waiting \cup Holding, Await(s, to)
  PROVE  LockInv'
<1>1. lock' = Append(lock, s) /\ pc' = [pc EXCEPT ![s] = to]
  BY DEF Await, Go
<1>2. /\ lock' \in Seq(Tasks) /\ Len(lock') = Len(lock) + 1 /\ lock'[Len(lock) + 1] = s
      /\ Len(lock) \in Nat /\ \A n \in 1..Len(lock) : lock'[n] = lock[n]
  BY <1>1 DEF LockInv
<1>3. \A n \in 1..Len(lock) : lock[n] # s
  BY DEF LockInv
<1>4. \A t \in Tasks : pc'[t] = IF t = s THEN to ELSE pc[t]
  BY <1>1 DEF PcTypes
<1>5. to \notin Holding
  BY DEF Waiting, Holding
<1>6. \A t \in Tasks : pc'[t] \in Holding => Holds(t)'
  BY <1>2, <1>4, <1>5 DEF LockInv, Holds
<1>7. \A m, n \in 1..Len(lock') : lock'[m] = lock'[n] => m = n
  BY <1>2, <1>3 DEF LockInv
<1>8. \A t \in Tasks : pc'[t] \in Waiting \cup Holding <=> \E n \in 1..Len(lock') : lock'[n] = t
  BY <1>2, <1>4 DEF LockInv
<1>. QED
  BY <1>2, <1>6, <1>7, <1>8 DEF LockInv

\* Who has it moves on and keeps it.
LEMMA LockKept ==
  ASSUME PcTypes, LockInv, NEW s \in Tasks, NEW to \in Waiting \cup Holding, Holds(s),
         Go(s, to), UNCHANGED lock
  PROVE  LockInv'
<1>1. pc' = [pc EXCEPT ![s] = to] /\ Holds(s)' /\ lock[1] = s /\ 1 \in 1..Len(lock)
  BY DEF Go, Holds, LockInv
<1>2. \A t \in Tasks : pc'[t] = IF t = s THEN to ELSE pc[t]
  BY <1>1 DEF PcTypes
<1>. QED
  BY <1>1, <1>2 DEF LockInv, Holds

\* Who has it gives it back.
LEMMA LockReleased ==
  ASSUME PcTypes, LockInv, NEW s \in Tasks, NEW to, to \notin Waiting \cup Holding, Holds(s),
         Release(s, to)
  PROVE  LockInv'
<1>1. lock' = Tail(lock) /\ pc' = [pc EXCEPT ![s] = to] /\ lock # <<>> /\ lock[1] = s
  BY DEF Release, Leave, Go, Holds, LockInv
<1>2. /\ lock' \in Seq(Tasks) /\ Len(lock') = Len(lock) - 1
      /\ Len(lock) \in Nat \ {0} /\ \A n \in 1..Len(lock') : lock'[n] = lock[n + 1]
  BY <1>1 DEF LockInv
<1>3. \A n \in 1..Len(lock') : lock'[n] # s
  BY <1>1, <1>2 DEF LockInv
<1>4. \A t \in Tasks : pc'[t] = IF t = s THEN to ELSE pc[t]
  BY <1>1 DEF PcTypes
<1>5. \A t \in Tasks : pc'[t] \notin Holding
  BY <1>1, <1>4 DEF LockInv, Holds
<1>6. \A m, n \in 1..Len(lock') : lock'[m] = lock'[n] => m = n
  BY <1>2 DEF LockInv
<1>7. ASSUME NEW t \in Tasks
      PROVE  pc'[t] \in Waiting \cup Holding <=> \E n \in 1..Len(lock') : lock'[n] = t
  <2>1. CASE t = s
    BY <1>3, <1>4, <2>1
  <2>2. CASE t # s
    <3>1. (\E n \in 1..Len(lock) : lock[n] = t) => \E n \in 1..Len(lock') : lock'[n] = t
      <4>1. ASSUME NEW n \in 1..Len(lock), lock[n] = t PROVE \E m \in 1..Len(lock') : lock'[m] = t
        <5>1. n - 1 \in 1..Len(lock') /\ lock'[n - 1] = t
          BY <1>1, <1>2, <2>2, <4>1
        <5>. QED
          BY <5>1
      <4>. QED
        BY <4>1
    <3>2. (\E n \in 1..Len(lock') : lock'[n] = t) => \E n \in 1..Len(lock) : lock[n] = t
      BY <1>2
    <3>. QED
      BY <1>4, <2>2, <3>1, <3>2 DEF LockInv
  <2>. QED
    BY <2>1, <2>2
<1>. QED
  BY <1>2, <1>5, <1>6, <1>7 DEF LockInv

\* Who has it gives it back and asks again.
LEMMA LockReacquired ==
  ASSUME PcTypes, LockInv, NEW s \in Tasks, NEW to \in Waiting, Holds(s), Reacquire(s, to)
  PROVE  LockInv'
<1>1. /\ lock' = Append(Tail(lock), s) /\ pc' = [pc EXCEPT ![s] = to]
      /\ lock # <<>> /\ lock[1] = s
  BY DEF Reacquire, Leave, Go, Holds, LockInv
<1>2. Tail(lock) \in Seq(Tasks) /\ Len(lock) \in Nat \ {0} /\ Len(Tail(lock)) = Len(lock) - 1
  BY <1>1 DEF LockInv
<1>3. /\ lock' \in Seq(Tasks) /\ Len(lock') = Len(lock) /\ lock'[Len(lock)] = s
      /\ \A n \in 1..(Len(lock) - 1) : lock'[n] = lock[n + 1]
  BY <1>1, <1>2 DEF LockInv
<1>4. \A t \in Tasks : pc'[t] = IF t = s THEN to ELSE pc[t]
  BY <1>1 DEF PcTypes
<1>5. \A t \in Tasks : pc'[t] \notin Holding
  BY <1>1, <1>4 DEF LockInv, Holds, Waiting, Holding
<1>6. \A m, n \in 1..Len(lock') : lock'[m] = lock'[n] => m = n
  BY <1>1, <1>2, <1>3 DEF LockInv
<1>7. ASSUME NEW t \in Tasks
      PROVE  pc'[t] \in Waiting \cup Holding <=> \E n \in 1..Len(lock') : lock'[n] = t
  <2>1. CASE t = s
    BY <1>2, <1>3, <1>4, <2>1
  <2>2. CASE t # s
    <3>1. (\E n \in 1..Len(lock) : lock[n] = t) => \E n \in 1..Len(lock') : lock'[n] = t
      <4>1. ASSUME NEW n \in 1..Len(lock), lock[n] = t PROVE \E m \in 1..Len(lock') : lock'[m] = t
        <5>1. n - 1 \in 1..(Len(lock) - 1) /\ lock'[n - 1] = t
          BY <1>1, <1>2, <1>3, <2>2, <4>1
        <5>. QED
          BY <5>1, <1>2, <1>3
      <4>. QED
        BY <4>1
    <3>2. ASSUME NEW n \in 1..Len(lock'), lock'[n] = t PROVE \E m \in 1..Len(lock) : lock[m] = t
      <4>1. n + 1 \in 1..Len(lock) /\ lock[n + 1] = t
        BY <1>2, <1>3, <2>2, <3>2
      <4>. QED
        BY <4>1
    <3>. QED
      BY <1>4, <2>2, <3>1, <3>2 DEF LockInv
  <2>. QED
    BY <2>1, <2>2
<1>. QED
  BY <1>3, <1>5, <1>6, <1>7 DEF LockInv

\* Who is cancelled leaves the queue, from wherever it stands.
LEMMA LockLeft ==
  ASSUME PcTypes, LockInv, NEW s \in Tasks, NEW k \in DOMAIN lock, lock[k] = s,
         lock' = RemoveAt(lock, k), Go(s, "idle")
  PROVE  LockInv'
<1>1. lock \in Seq(Tasks) /\ Len(lock) \in Nat /\ k \in 1..Len(lock)
      /\ pc' = [pc EXCEPT ![s] = "idle"]
  BY DEF LockInv, Go
<1>2. lock' = SubSeq(lock, 1, k - 1) \o SubSeq(lock, k + 1, Len(lock))
  BY DEF RemoveAt
<1>3. /\ SubSeq(lock, 1, k - 1) \in Seq(Tasks) /\ Len(SubSeq(lock, 1, k - 1)) = k - 1
      /\ \A n \in 1..(k - 1) : SubSeq(lock, 1, k - 1)[n] = lock[n]
  BY <1>1
<1>4. /\ SubSeq(lock, k + 1, Len(lock)) \in Seq(Tasks)
      /\ Len(SubSeq(lock, k + 1, Len(lock))) = Len(lock) - k
      /\ \A n \in 1..(Len(lock) - k) : SubSeq(lock, k + 1, Len(lock))[n] = lock[n + k]
  BY <1>1
<1>5. /\ lock' \in Seq(Tasks) /\ Len(lock') = Len(lock) - 1
      /\ \A n \in 1..Len(lock') : lock'[n] = lock[IF n < k THEN n ELSE n + 1]
  <2> DEFINE front == SubSeq(lock, 1, k - 1)
             back == SubSeq(lock, k + 1, Len(lock))
  <2>1. /\ front \in Seq(Tasks) /\ Len(front) = k - 1 /\ \A n \in 1..(k - 1) : front[n] = lock[n]
        /\ back \in Seq(Tasks) /\ Len(back) = Len(lock) - k
        /\ \A n \in 1..(Len(lock) - k) : back[n] = lock[n + k]
    BY <1>3, <1>4
  <2>2. lock' = front \o back
    BY <1>2
  <2> HIDE DEF front, back
  <2>3. lock' \in Seq(Tasks) /\ Len(lock') = Len(lock) - 1
    BY <1>1, <2>1, <2>2
  <2>4. ASSUME NEW n \in 1..Len(lock'), n < k PROVE lock'[n] = lock[n]
    <3>1. n \in 1..Len(front) /\ n \in 1..(k - 1)
      BY <1>1, <2>1, <2>4
    <3>. QED
      BY <2>1, <2>2, <3>1
  <2>5. ASSUME NEW n \in 1..Len(lock'), ~(n < k) PROVE lock'[n] = lock[n + 1]
    <3>1. PICK j \in 1..Len(back) : n = Len(front) + j
      <4>1. n - (k - 1) \in 1..Len(back) /\ n = Len(front) + (n - (k - 1))
        BY <1>1, <2>1, <2>3, <2>5
      <4>. QED
        BY <4>1
    <3>2. (front \o back)[Len(front) + j] = back[j]
      BY <2>1, <3>1, ConcatBack
    <3>3. back[j] = lock[j + k] /\ j + k = n + 1
      BY <1>1, <2>1, <3>1
    <3>. QED
      BY <2>2, <3>1, <3>2, <3>3
  <2>. QED
    BY <2>3, <2>4, <2>5
<1>6. \A n \in 1..Len(lock') : lock'[n] # s
  BY <1>1, <1>5 DEF LockInv
<1>7. \A t \in Tasks : pc'[t] = IF t = s THEN "idle" ELSE pc[t]
  BY <1>1 DEF PcTypes
<1>8. ASSUME NEW m \in 1..Len(lock'), NEW n \in 1..Len(lock'), lock'[m] = lock'[n]
      PROVE  m = n
  <2> DEFINE before(j) == IF j < k THEN j ELSE j + 1
  <2>1. before(m) \in 1..Len(lock) /\ before(n) \in 1..Len(lock)
    BY <1>1, <1>5
  <2>2. lock[before(m)] = lock[before(n)]
    BY <1>5, <1>8
  <2>3. before(m) = before(n)
    BY <2>1, <2>2 DEF LockInv
  <2>. QED
    BY <1>1, <2>3
<1>9. \A t \in Tasks : pc'[t] \in Holding => Holds(t)'
  <2> SUFFICES ASSUME NEW t \in Tasks, pc'[t] \in Holding PROVE Holds(t)'
    OBVIOUS
  <2>1. t # s /\ pc[t] \in Holding
    BY <1>7 DEF Holding
  <2>2. lock # <<>> /\ lock[1] = t
    BY <2>1 DEF LockInv, Holds
  <2>3. k # 1 /\ 1 \in 1..Len(lock') /\ lock'[1] = t
    BY <1>1, <1>5, <2>1, <2>2
  <2>. QED
    BY <1>5, <2>3 DEF Holds
<1>10. ASSUME NEW t \in Tasks
       PROVE  pc'[t] \in Waiting \cup Holding <=> \E n \in 1..Len(lock') : lock'[n] = t
  <2>1. CASE t = s
    BY <1>6, <1>7, <2>1 DEF Waiting, Holding
  <2>2. CASE t # s
    <3>1. ASSUME NEW n \in 1..Len(lock), lock[n] = t PROVE \E m \in 1..Len(lock') : lock'[m] = t
      <4>1. n # k
        BY <2>2, <3>1
      <4>2. CASE n < k
        BY <1>1, <1>5, <3>1, <4>2
      <4>3. CASE n > k
        <5>1. n - 1 \in 1..Len(lock') /\ ~(n - 1 < k) /\ (n - 1) + 1 = n
          BY <1>1, <1>5, <4>3
        <5>. QED
          BY <1>5, <3>1, <5>1
      <4>. QED
        BY <1>1, <4>1, <4>2, <4>3
    <3>2. ASSUME NEW n \in 1..Len(lock'), lock'[n] = t PROVE \E m \in 1..Len(lock) : lock[m] = t
      <4>1. (IF n < k THEN n ELSE n + 1) \in 1..Len(lock)
        BY <1>1, <1>5
      <4>. QED
        BY <1>5, <3>2, <4>1
    <3>. QED
      BY <1>7, <2>2, <3>1, <3>2 DEF LockInv
  <2>. QED
    BY <2>1, <2>2
<1>. QED
  BY <1>5, <1>8, <1>9, <1>10 DEF LockInv

\* The lock is one task's.
LEMMA OneHolder ==
  ASSUME LockInv, NEW s \in Tasks, Holds(s), NEW t \in Tasks, pc[t] \in Holding
  PROVE  t = s
BY DEF LockInv, Holds

\* Sessions and the unloading task each keep to their places.
Allowed(t, to) ==
  to \in Places /\ IF t = Unloader THEN to \in {"idle", "x_lock", "bye", "unregister", "closed"}
                                   ELSE to \notin {"x_lock", "unregister", "closed"}

\* A task goes to a place where it may be.
LEMMA PcMoved ==
  ASSUME PcTypes, NEW t \in Tasks, NEW to, Allowed(t, to), Go(t, to)
  PROVE  PcTypes'
BY DialerAssumption DEF PcTypes, Allowed, Go, Tasks

\* What a step does with the lock.
Queues(t) ==
  \/ \E to \in Waiting : pc[t] = "idle" /\ Await(t, to) /\ Allowed(t, to)
  \/ \E to \in Waiting \cup Holding :
       Holds(t) /\ Go(t, to) /\ Allowed(t, to) /\ UNCHANGED lock
  \/ \E to \in {"idle", "closed"} : Holds(t) /\ Release(t, to) /\ Allowed(t, to)
  \/ \E to \in Waiting : Holds(t) /\ Reacquire(t, to) /\ Allowed(t, to)
  \/ \E k \in DOMAIN lock : lock[k] = t /\ lock' = RemoveAt(lock, k) /\ Go(t, "idle")

\* So the holder of the lock is still its first, and every other waits.
LEMMA QueuesKeeps ==
  ASSUME PcTypes, LockInv, NEW t \in Tasks, Queues(t)
  PROVE  PcTypes' /\ LockInv'
<1>1. CASE \E to \in Waiting : pc[t] = "idle" /\ Await(t, to) /\ Allowed(t, to)
  BY <1>1, PcMoved, LockAwaited DEF Await, Waiting, Holding
<1>2. CASE \E to \in Waiting \cup Holding :
             Holds(t) /\ Go(t, to) /\ Allowed(t, to) /\ UNCHANGED lock
  BY <1>2, PcMoved, LockKept
<1>3. CASE \E to \in {"idle", "closed"} : Holds(t) /\ Release(t, to) /\ Allowed(t, to)
  BY <1>3, PcMoved, LockReleased DEF Release, Leave, Waiting, Holding
<1>4. CASE \E to \in Waiting : Holds(t) /\ Reacquire(t, to) /\ Allowed(t, to)
  BY <1>4, PcMoved, LockReacquired DEF Reacquire, Leave
<1>5. CASE \E k \in DOMAIN lock : lock[k] = t /\ lock' = RemoveAt(lock, k) /\ Go(t, "idle")
  <2>1. Allowed(t, "idle")
    BY DEF Allowed, Places
  <2>. QED
    BY <1>5, <2>1, PcMoved, LockLeft
<1>. QED
  BY <1>1, <1>2, <1>3, <1>4, <1>5 DEF Queues

\* Every step either leaves tasks and lock alone or is of a task that moves in
\* one of these ways.
LEMMA QueuesOrNot ==
  ASSUME PcTypes, LockInv, Next
  PROVE  UNCHANGED <<pc, lock>> \/ \E t \in Tasks : Queues(t)
<1> USE DEF Waiting, Holding, Allowed, Places
<1>1. ASSUME NEW s \in Sessions, Progress(s) PROVE UNCHANGED <<pc, lock>> \/ Queues(s)
  <2>1. s \in Tasks /\ s # Unloader
    BY DialerAssumption DEF Tasks
  <2>2. pc[s] \in Holding => Holds(s)
    BY <2>1 DEF LockInv
  <2>3. CASE EnsureConnected(s)
    BY <2>1, <2>3 DEF EnsureConnected, Queues
  <2>4. CASE Connected(s)
    BY <2>1, <2>2, <2>4 DEF Connected, Queues
  <2>5. CASE ConnectFails(s)
    BY <2>1, <2>2, <2>5 DEF ConnectFails, DialRaises, DialLosesConnection, Queues
  <2>6. CASE ResetAndRetry(s)
    BY <2>1, <2>6 DEF ResetAndRetry, DialRaises, Queues
  <2>7. CASE BumpCall(s)
    BY <2>1, <2>7 DEF BumpCall, SendBye, DialLosesConnection, Queues
  <2>8. CASE SendInvite(s)
    BY <2>1, <2>8 DEF SendInvite, DialRaises, DialLosesConnection, Queues
  <2>9. CASE AnswerChallenge(s)
    BY <2>1, <2>2, <2>9 DEF AnswerChallenge, InviteAnswered, DialLosesConnection, Queues
  <2>10. CASE Proceeding(s)
    BY <2>1, <2>2, <2>10 DEF Proceeding, InviteAnswered, Queues
  <2>11. CASE Rejected(s)
    BY <2>1, <2>2, <2>11 DEF Rejected, InviteAnswered, DialRaises, Queues
  <2>12. CASE CallAccepted(s)
    BY <2>1, <2>2, <2>12 DEF CallAccepted, InviteAnswered, DialLosesConnection, Queues
  <2>13. CASE AnswerUnusable(s)
    BY <2>1, <2>2, <2>13 DEF AnswerUnusable, InviteAnswered, Queues
  <2>14. CASE ByeGivenUp(s)
    BY <2>1, <2>2, <2>14 DEF ByeGivenUp, DialRaises, Queues
  <2>15. CASE InviteTimeout(s)
    BY <2>1, <2>2, <2>15 DEF InviteTimeout, DialRaises, Queues
  <2>16. CASE Discard(s)
    BY <2>16 DEF Discard
  <2>17. CASE HangupSkipped(s)
    BY <2>1, <2>17 DEF HangupSkipped, Queues
  <2>18. CASE HangupSends(s)
    BY <2>1, <2>18 DEF HangupSends, SendBye, Queues
  <2>19. CASE SendSwitch(s)
    BY <2>1, <2>19 DEF SendSwitch, Queues
  <2>20. CASE SwitchRefused(s)
    BY <2>1, <2>20 DEF SwitchRefused, Queues
  <2>21. CASE SwitchDone(s)
    BY <2>1, <2>2, <2>21 DEF SwitchDone, Queues
  <2>. QED
    BY <1>1, <2>3, <2>4, <2>5, <2>6, <2>7, <2>8, <2>9, <2>10, <2>11, <2>12, <2>13, <2>14,
       <2>15, <2>16, <2>17, <2>18, <2>19, <2>20, <2>21 DEF Progress
<1>2. ASSUME NEW s \in Sessions, Dial(s) \/ Hangup(s) \/ HangupCancelled(s) PROVE Queues(s)
  <2>1. s \in Tasks /\ s # Unloader
    BY DialerAssumption DEF Tasks
  <2>2. CASE Dial(s) \/ Hangup(s)
    BY <2>1, <2>2 DEF Dial, Hangup, Queues
  <2>3. CASE HangupCancelled(s)
    BY <2>1, <2>3 DEF HangupCancelled, Leave, Queues
  <2>. QED
    BY <1>2, <2>2, <2>3
<1>3. ASSUME NEW t \in Tasks, ByeDone(t) PROVE Queues(t)
  <2>1. Holds(t)
    BY <1>3 DEF ByeDone, LockInv
  <2>2. t \in Sessions => t # Unloader
    BY DialerAssumption
  <2>3. pc[t] = "replace" => t # Unloader
    BY DEF PcTypes
  <2>. QED
    BY <1>3, <2>1, <2>2, <2>3 DEF ByeDone, Leave, Queues
<1>4. CASE Close
  BY <1>4 DEF Close, Tasks, Queues
<1>5. CASE CloseHangsUp
  BY <1>5 DEF CloseHangsUp, SendBye, Tasks, Queues
<1>6. CASE CloseResets
  BY <1>6 DEF CloseResets, Tasks, Queues, LockInv
<1>7. CASE ReadFrame \/ LoseConnection \/ Discard(Unloader)
  BY <1>7 DEF ReadFrame, LoseConnection, Discard
<1>8. ASSUME NEW i \in CallIds, Gateway(i) PROVE UNCHANGED <<pc, lock>>
  BY <1>8 DEF Gateway, Trying, Challenge, Accept, Refuse, GatewayBye, GatewaySends
<1>. QED
  BY <1>1, <1>2, <1>3, <1>4, <1>5, <1>6, <1>7, <1>8 DEF Next, Tasks

\* Whatever the tasks do, the lock is one's and the queue is of those that wait.
LEMMA LockStep == PcTypes /\ LockInv /\ [Next]_vars => PcTypes' /\ LockInv'
<1> SUFFICES ASSUME PcTypes, LockInv, [Next]_vars PROVE PcTypes' /\ LockInv'
  OBVIOUS
<1>1. CASE UNCHANGED <<pc, lock>>
  BY <1>1 DEF PcTypes, LockInv, Holds
<1>2. CASE \E t \in Tasks : Queues(t)
  BY <1>2, QueuesKeeps
<1>. QED
  BY <1>1, <1>2, QueuesOrNot DEF vars

----------------------------------------------------------------------------
(* Types.                                                                  *)

\* _finish_call: the call is ended, and who waits for it is woken.
LEMMA FinishTypes ==
  ASSUME DataTypes, NEW i \in CallIds, Finish(i)
  PROVE  /\ call' \in {0, call} /\ call' # i /\ pending' \in {0, pending}
         /\ ended' = ended \cup {i} /\ ended' \subseteq CallIds
         /\ watch' \in [Sessions -> {"none", "waiting", "woken"}]
         /\ \A s \in Sessions : watch'[s] = "waiting" <=> watch[s] = "waiting" /\ mine[s] # i
         /\ \A s \in Sessions : watch'[s] = "none" <=> watch[s] = "none"
BY DEF Finish, DataTypes, SharedTypes, CallIds

\* And the session's data keep their types.
LEMMA FinishShared ==
  ASSUME DataTypes, NEW i \in CallIds, Finish(i), UNCHANGED <<conn, dropped>>
  PROVE  SharedTypes'
<1>1. SharedTypes /\ 0 \in 0..MaxCalls
  BY DialerAssumption DEF DataTypes
<1>. QED
  BY <1>1, FinishTypes DEF SharedTypes

\* A reset forgets the call, and gives it up.
LEMMA ResetTypes ==
  ASSUME DataTypes, NEW also, Reset(also)
  PROVE  /\ conn' = "none" /\ queue' = <<>> /\ wire' = <<>> /\ call' = 0
         /\ pending' \in {0, pending} /\ dropped' = dropped \cup also \cup ({call} \ {0})
         /\ ended \subseteq ended' /\ ended' \subseteq CallIds
         /\ watch' \in [Sessions -> {"none", "waiting", "woken"}]
         /\ \A s \in Sessions : watch'[s] = "waiting" =>
              watch[s] = "waiting" /\ (call # 0 => mine[s] # call)
         /\ \A s \in Sessions : watch'[s] = "none" <=> watch[s] = "none"
<1>1. CASE call = 0
  BY <1>1 DEF Reset, DataTypes, SharedTypes
<1>2. CASE call # 0
  <2>1. call \in CallIds /\ Finish(call)
    BY <1>2 DEF Reset, DataTypes, SharedTypes, CallIds
  <2>. QED
    BY <1>2, <2>1, FinishTypes DEF Reset, Finish, CallIds
<1>. QED
  BY <1>1, <1>2

\* As they do when the session is reset.
LEMMA ResetShared ==
  ASSUME DataTypes, NEW also, also \subseteq CallIds, Reset(also)
  PROVE  SharedTypes'
<1>1. SharedTypes /\ 0 \in 0..MaxCalls /\ {call} \ {0} \subseteq CallIds
  BY DialerAssumption DEF DataTypes, SharedTypes, CallIds
<1>. QED
  BY <1>1, ResetTypes DEF SharedTypes

\* Room for the INVITE that is about to be sent.
LEMMA RoomForOne ==
  ASSUME DataTypes, RoomInv, NEW s \in Dialing
  PROVE  calls + 1 <= MaxCalls /\ calls + 1 \in CallIds
<1>1. IsFiniteSet(Dialing) /\ Cardinality(Dialing) \in Nat /\ Cardinality(Dialing) # 0
  <2>1. Dialing \subseteq Sessions
    BY DEF Dialing
  <2>. QED
    BY <2>1, DialerAssumption, FS_Subset, FS_CardinalityType, FS_EmptySet
<1>2. calls \in Nat /\ MaxLosses \in Nat /\ losses \in Nat /\ losses <= MaxLosses
      /\ MaxCalls \in Nat
  BY DialerAssumption DEF DataTypes
<1>. QED
  BY <1>1, <1>2 DEF RoomInv, CallIds

\* Every step keeps the types.
LEMMA TypesStep == DialerInv /\ [Next]_vars => DataTypes'
<1> SUFFICES ASSUME DialerInv, [Next]_vars PROVE DataTypes'
  OBVIOUS
<1>0. /\ DataTypes /\ PcTypes /\ LockInv /\ CallInv /\ RoomInv
      /\ MaxCalls \in Nat /\ MaxLosses \in Nat /\ 0 \in 0..MaxCalls
  BY DialerAssumption DEF DialerInv
<1> USE DEF CallIds, task, sip
<1>1. ASSUME NEW s \in Sessions, Progress(s) PROVE DataTypes'
  <2>0. s \in Tasks
    BY DEF Tasks
  <2>1. CASE EnsureConnected(s)
    <3>1. CASE conn = "up" /\ Reacquire(s, "d_lock") /\ UNCHANGED sip
      BY <1>0, <2>0, <2>1, <3>1 DEF EnsureConnected, Reacquire, Leave, DataTypes, SharedTypes
    <3>2. CASE Reset({}) /\ UNCHANGED at
      BY <1>0, <2>0, <2>1, <3>2, ResetShared DEF EnsureConnected, DataTypes, SharedTypes
    <3>. QED
      BY <2>1, <3>1, <3>2 DEF EnsureConnected
  <2>2. CASE Connected(s)
    BY <1>0, <2>0, <2>2 DEF Connected, Reacquire, Leave, DataTypes, SharedTypes
  <2>3. CASE ConnectFails(s)
    BY <1>0, <2>0, <2>3 DEF ConnectFails, DialRaises, DialLosesConnection, Reacquire, Release,
       Leave, DataTypes, SharedTypes
  <2>4. CASE ResetAndRetry(s)
    BY <1>0, <2>0, <2>4, ResetShared DEF ResetAndRetry, DialRaises, Reacquire, Release, Leave,
       DataTypes, SharedTypes
  <2>5. CASE BumpCall(s)
    BY <1>0, <2>0, <2>5, ResetShared
       DEF BumpCall, SendBye, NoCallUp, DialLosesConnection, Reacquire, Leave, DataTypes,
           SharedTypes
  <2>6. CASE SendInvite(s)
    <3>1. calls + 1 \in CallIds
      BY <1>0, <2>6, RoomForOne DEF SendInvite, Dialing
    <3>2. CASE conn = "lost"
      BY <1>0, <2>0, <2>6, <3>2, ResetShared
         DEF SendInvite, DialLosesConnection, Reacquire, Leave, DataTypes
    <3>3. CASE conn # "lost"
      <4>1. calls + 1 \in 0..MaxCalls
        BY <1>0, <3>1
      <4>. QED
        BY <1>0, <2>0, <2>6, <3>1, <3>3, <4>1
           DEF SendInvite, DialRaises, Release, Leave, DataTypes, SharedTypes
    <3>. QED
      BY <3>2, <3>3
  <2>7. CASE AnswerChallenge(s)
    <3>1. {at[s]} \subseteq CallIds
      BY <1>0, <2>0, <2>7 DEF AnswerChallenge, InviteAnswered, CallInv, SessionInv, Inviting,
         DataTypes, SharedTypes
    <3>. QED
      BY <1>0, <2>0, <2>7, <3>1, ResetShared
         DEF AnswerChallenge, DialLosesConnection, Reacquire, Leave, DataTypes, SharedTypes
  <2>8. CASE Proceeding(s)
    BY <1>0, <2>0, <2>8 DEF Proceeding, DataTypes, SharedTypes
  <2>9. CASE Rejected(s)
    BY <1>0, <2>0, <2>9 DEF Rejected, DialRaises, Release, Leave, DataTypes, SharedTypes
  <2>10. CASE CallAccepted(s)
    <3>1. {at[s]} \subseteq CallIds
      BY <1>0, <2>0, <2>10 DEF CallAccepted, InviteAnswered, CallInv, SessionInv, Inviting,
         DataTypes, SharedTypes
    <3>2. CASE conn = "up"
      <4>1. /\ call' = at[s] /\ pending' = 0 /\ mine' = [mine EXCEPT ![s] = at[s]]
            /\ watch' = [watch EXCEPT ![s] = IF at[s] \in ended THEN "woken" ELSE "waiting"]
            /\ at' = [at EXCEPT ![s] = 0] /\ retried' = retried \ {s}
            /\ UNCHANGED <<conn, ended, dropped, calls, gw, losses>>
        BY <2>10, <3>2 DEF CallAccepted, Reacquire, Release, Leave
      <4>2. SharedTypes'
        BY <1>0, <2>0, <4>1 DEF DataTypes, SharedTypes
      <4>. QED
        BY <1>0, <2>0, <4>1, <4>2 DEF DataTypes
    <3>3. CASE conn # "up"
      BY <1>0, <2>0, <2>10, <3>1, <3>3, ResetShared
         DEF CallAccepted, DialLosesConnection, Reacquire, Leave, DataTypes
    <3>. QED
      BY <3>2, <3>3
  <2>11. CASE AnswerUnusable(s)
    BY <1>0, <2>0, <2>11 DEF AnswerUnusable, DataTypes, SharedTypes
  <2>12. CASE ByeGivenUp(s)
    BY <1>0, <2>0, <2>12 DEF ByeGivenUp, DialRaises, Release, Leave, DataTypes, SharedTypes
  <2>13. CASE InviteTimeout(s)
    <3>1. {at[s]} \subseteq CallIds
      BY <1>0, <2>0, <2>13 DEF InviteTimeout, CallInv, SessionInv, Inviting, DataTypes, SharedTypes
    <3>. QED
      BY <1>0, <2>0, <2>13, <3>1 DEF InviteTimeout, DialRaises, Release, Leave, DataTypes,
         SharedTypes
  <2>14. CASE Discard(s)
    BY <1>0, <2>14 DEF Discard, DataTypes, SharedTypes
  <2>15. CASE HangupSkipped(s)
    BY <1>0, <2>0, <2>15 DEF HangupSkipped, Release, Leave, DataTypes, SharedTypes
  <2>16. CASE HangupSends(s)
    BY <1>0, <2>0, <2>16, ResetShared DEF HangupSends, SendBye, Release, Leave, DataTypes,
       SharedTypes
  <2>17. CASE SendSwitch(s)
    BY <1>0, <2>0, <2>17 DEF SendSwitch, DataTypes, SharedTypes
  <2>18. CASE SwitchRefused(s)
    BY <1>0, <2>0, <2>18 DEF SwitchRefused, Release, Leave, DataTypes, SharedTypes
  <2>19. CASE SwitchDone(s)
    BY <1>0, <2>0, <2>19, ResetShared DEF SwitchDone, Release, Leave, DataTypes, SharedTypes
  <2>. QED
    BY <1>1, <2>1, <2>2, <2>3, <2>4, <2>5, <2>6, <2>7, <2>8, <2>9, <2>10, <2>11, <2>12, <2>13,
       <2>14, <2>15, <2>16, <2>17, <2>18, <2>19 DEF Progress
<1>2. ASSUME NEW s \in Sessions, Dial(s) \/ Hangup(s) \/ HangupCancelled(s) PROVE DataTypes'
  BY <1>0, <1>2 DEF Dial, Hangup, HangupCancelled, Leave, DataTypes, SharedTypes, Tasks
<1>3. ASSUME NEW t \in Tasks, ByeDone(t) PROVE DataTypes'
  <2>1. at[t] \in CallIds
    BY <1>0, <1>3 DEF ByeDone, CallInv, ByeInv, DataTypes, SharedTypes
  <2>2. Finish(at[t])
    BY <1>3 DEF ByeDone
  <2>. QED
    BY <1>0, <1>3, <2>1, <2>2, FinishShared DEF ByeDone, Release, Leave, DataTypes, SharedTypes
<1>4. CASE Close
  BY <1>0, <1>4 DEF Close, DataTypes, SharedTypes
<1>5. CASE CloseHangsUp
  BY <1>0, <1>5, ResetShared DEF CloseHangsUp, SendBye, DataTypes, SharedTypes, Tasks
<1>6. CASE CloseResets
  BY <1>0, <1>6, ResetShared DEF CloseResets, Release, Leave, DataTypes, SharedTypes, Tasks
<1>7. CASE ReadFrame
  <2>1. Head(wire) \in Frame
    BY <1>7 DEF ReadFrame, DialerInv, FrameInv
  <2>2. Head(wire).id \in CallIds
    BY <2>1 DEF Frame
  <2>3. CASE Finish(Head(wire).id)
    <3>1. SharedTypes' /\ UNCHANGED <<task, calls, gw, losses>>
      BY <1>0, <1>7, <2>2, <2>3, FinishShared DEF ReadFrame
    <3>. QED
      BY <1>0, <3>1 DEF DataTypes
  <2>4. CASE UNCHANGED <<call, pending, ended, watch>>
    BY <1>0, <1>7, <2>4 DEF ReadFrame, DataTypes, SharedTypes
  <2>. QED
    BY <1>7, <2>3, <2>4 DEF ReadFrame
<1>8. CASE LoseConnection
  <2>1. losses + 1 \in 0..MaxLosses
    BY <1>0, <1>8 DEF LoseConnection, DataTypes
  <2>. QED
    BY <1>0, <1>8, <2>1 DEF LoseConnection, DataTypes, SharedTypes
<1>11. CASE Discard(Unloader)
  BY <1>0, <1>11 DEF Discard, DataTypes, SharedTypes
<1>9. ASSUME NEW i \in CallIds, Gateway(i) PROVE DataTypes'
  BY <1>0, <1>9 DEF Gateway, Trying, Challenge, Accept, Refuse, GatewayBye, GatewaySends,
     DataTypes, SharedTypes
<1>10. CASE UNCHANGED vars
  BY <1>0, <1>10 DEF vars, DataTypes, SharedTypes
<1>. QED
  BY <1>1, <1>2, <1>3, <1>4, <1>5, <1>6, <1>7, <1>8, <1>9, <1>10, <1>11 DEF Next

----------------------------------------------------------------------------
(* Frames.                                                                 *)

\* No frame of call i minds this change of what the gateway thinks of it.
Benign(i) ==
  \/ gw'[i] = gw[i]
  \/ gw[i] = "none"
  \/ gw[i] \in {"invited", "ringing", "authed"} /\ gw'[i] # "none"
  \/ gw[i] = "up" /\ gw'[i] \in {"ended", "released"}

\* A frame still fits the gateway when its call takes no such turn.
LEMMA FitsStill ==
  ASSUME NEW f, Fits(f, gw), Benign(f.id)
  PROVE  Fits(f, gw')
BY DEF Fits, Benign

\* The queue and the wire hold frames of calls that have been dialled.
LEMMA FrameSeqs ==
  ASSUME FrameInv
  PROVE  /\ Len(queue) \in Nat /\ Len(wire) \in Nat
         /\ \A n \in 1..Len(queue) : queue[n] \in Frame /\ queue[n].id \in CallIds
         /\ \A n \in 1..Len(wire) : wire[n] \in Frame /\ wire[n].id \in CallIds
<1>1. \A f \in Frame : f.id \in CallIds
  BY DEF Frame
<1>. QED
  BY <1>1 DEF FrameInv

\* The frames stay where they are.
LEMMA FramesStay ==
  ASSUME FrameInv, UNCHANGED <<queue, wire>>, \A i \in CallIds : Benign(i)
  PROVE  FrameInv'
BY FrameSeqs, FitsStill DEF FrameInv

\* They are forgotten.
LEMMA FramesGone ==
  ASSUME FrameInv, queue' \in {queue, <<>>}, wire' = <<>>, UNCHANGED gw
  PROVE  FrameInv'
<1>1. wire' \in Seq(Frame) /\ Len(wire') = 0 /\ 1..Len(wire') = {}
  OBVIOUS
<1>2. CASE queue' = queue
  BY <1>1, <1>2 DEF FrameInv
<1>3. CASE queue' = <<>>
  <2>1. queue' \in Seq(Frame) /\ Len(queue') = 0 /\ 1..Len(queue') = {}
    BY <1>3
  <2>. QED
    BY <1>1, <2>1 DEF FrameInv
<1>. QED
  BY <1>2, <1>3

\* A task takes the next one; a challenge is answered or gives the call up.
LEMMA FrameTaken ==
  ASSUME FrameInv, queue # <<>>, queue' = Tail(queue), UNCHANGED wire,
         \A i \in CallIds : \/ Benign(i)
                            \/ /\ Head(queue) = [k |-> "401", id |-> i]
                               /\ gw[i] = "challenged" /\ gw'[i] # "none"
  PROVE  FrameInv'
<1>1. /\ Len(queue) \in Nat \ {0} /\ Head(queue) = queue[1]
      /\ queue' \in Seq(Frame) /\ Len(queue') = Len(queue) - 1
      /\ \A n \in 1..Len(queue') : queue'[n] = queue[n + 1] /\ n + 1 \in 1..Len(queue) /\ n + 1 # 1
  BY DEF FrameInv
<1>2. ASSUME NEW f \in Frame, Fits(f, gw), f # Head(queue) \/ f.k # "401" PROVE Fits(f, gw')
  <2>1. f.id \in CallIds /\ f = [k |-> f.k, id |-> f.id]
    BY DEF Frame
  <2>2. CASE Benign(f.id)
    BY <1>2, <2>2, FitsStill
  <2>3. CASE ~Benign(f.id)
    <3>1. Head(queue) = [k |-> "401", id |-> f.id] /\ gw[f.id] = "challenged" /\ gw'[f.id] # "none"
      BY <2>1, <2>3
    <3>2. f.k # "401"
      BY <1>2, <2>1, <3>1
    <3>. QED
      BY <1>2, <3>1, <3>2 DEF Fits
  <2>. QED
    BY <2>2, <2>3
<1>3. ASSUME NEW n \in 1..Len(queue') PROVE Fits(queue'[n], gw')
  <2>1. queue'[n] = queue[n + 1] /\ n + 1 \in 1..Len(queue) /\ n + 1 # 1 /\ 1 \in 1..Len(queue)
    BY <1>1
  <2>2. queue[n + 1] \in Frame /\ Fits(queue[n + 1], gw)
    BY <2>1, FrameSeqs DEF FrameInv
  <2>3. queue[n + 1] # Head(queue) \/ queue[n + 1].k # "401"
    BY <1>1, <2>1 DEF FrameInv
  <2>. QED
    BY <1>2, <2>1, <2>2, <2>3
<1>4. ASSUME NEW n \in 1..Len(wire') PROVE Fits(wire'[n], gw')
  <2>1. wire'[n] \in Frame /\ Fits(wire'[n], gw) /\ 1 \in 1..Len(queue)
    BY <1>1, FrameSeqs DEF FrameInv
  <2>2. wire'[n] # Head(queue) \/ wire'[n].k # "401"
    BY <1>1, <2>1 DEF FrameInv
  <2>. QED
    BY <1>2, <2>1, <2>2
<1>5. \A m, n \in 1..Len(queue') : queue'[m] = queue'[n] /\ queue'[m].k = "401" => m = n
  BY <1>1 DEF FrameInv
<1>6. \A m \in 1..Len(queue'), n \in 1..Len(wire') : queue'[m] = wire'[n] => queue'[m].k # "401"
  BY <1>1 DEF FrameInv
<1>7. /\ wire' \in Seq(Frame)
      /\ \A m, n \in 1..Len(wire') : wire'[m] = wire'[n] /\ wire'[m].k = "401" => m = n
  BY DEF FrameInv
<1>. QED
  BY <1>1, <1>3, <1>4, <1>5, <1>6, <1>7 DEF FrameInv

\* The reader takes one off the stream, and handles it or queues it.
LEMMA FrameRead ==
  ASSUME FrameInv, wire # <<>>, wire' = Tail(wire),
         queue' \in {queue, Append(queue, Head(wire))}, UNCHANGED gw
  PROVE  FrameInv'
<1>1. /\ Len(wire) \in Nat \ {0} /\ Head(wire) = wire[1] /\ 1 \in 1..Len(wire)
      /\ wire' \in Seq(Frame) /\ Len(wire') = Len(wire) - 1
      /\ \A n \in 1..Len(wire') : wire'[n] = wire[n + 1] /\ n + 1 \in 1..Len(wire) /\ n + 1 # 1
  BY DEF FrameInv
<1>2. gw' = gw
  OBVIOUS
<1>3. \A n \in 1..Len(wire') : Fits(wire'[n], gw')
  BY <1>1, <1>2 DEF FrameInv
<1>4. \A m, n \in 1..Len(wire') : wire'[m] = wire'[n] /\ wire'[m].k = "401" => m = n
  BY <1>1 DEF FrameInv
<1>5. CASE queue' = queue
  <2>1. \A m \in 1..Len(queue'), n \in 1..Len(wire') : queue'[m] = wire'[n] => queue'[m].k # "401"
    BY <1>1, <1>5 DEF FrameInv
  <2>. QED
    BY <1>1, <1>2, <1>3, <1>4, <1>5, <2>1 DEF FrameInv
<1>6. CASE queue' = Append(queue, Head(wire))
  <2>1. Len(queue) \in Nat /\ queue \in Seq(Frame) /\ Head(wire) \in Frame
    BY <1>1, FrameSeqs DEF FrameInv
  <2>2. /\ queue' \in Seq(Frame) /\ Len(queue') = Len(queue) + 1
        /\ \A n \in 1..Len(queue') : \/ n \in 1..Len(queue) /\ queue'[n] = queue[n]
                                     \/ n = Len(queue) + 1 /\ queue'[n] = wire[1]
    BY <1>1, <1>6, <2>1
  <2>3. \A n \in 1..Len(queue') : Fits(queue'[n], gw')
    BY <1>1, <1>2, <2>2 DEF FrameInv
  <2>4. \A m, n \in 1..Len(queue') : queue'[m] = queue'[n] /\ queue'[m].k = "401" => m = n
    BY <1>1, <2>1, <2>2 DEF FrameInv
  <2>5. \A m \in 1..Len(queue'), n \in 1..Len(wire') : queue'[m] = wire'[n] => queue'[m].k # "401"
    BY <1>1, <2>1, <2>2 DEF FrameInv
  <2>. QED
    BY <1>1, <1>3, <1>4, <2>2, <2>3, <2>4, <2>5 DEF FrameInv
<1>. QED
  BY <1>5, <1>6

\* The gateway sends one more.
LEMMA FrameSent ==
  ASSUME FrameInv, NEW f \in Frame, wire' \in {wire, Append(wire, f)}, UNCHANGED queue,
         \A i \in CallIds : Benign(i), Fits(f, gw'), f.k = "401" => gw[f.id] # "challenged"
  PROVE  FrameInv'
<1>1. CASE wire' = wire
  BY <1>1, FramesStay
<1>2. CASE wire' = Append(wire, f)
  <2>1. Len(wire) \in Nat /\ wire \in Seq(Frame) /\ Len(queue) \in Nat
    BY FrameSeqs DEF FrameInv
  <2>2. /\ wire' \in Seq(Frame) /\ Len(wire') = Len(wire) + 1
        /\ \A n \in 1..Len(wire') : \/ n \in 1..Len(wire) /\ wire'[n] = wire[n]
                                    \/ n = Len(wire) + 1 /\ wire'[n] = f
    BY <1>2, <2>1
  <2>3. \A n \in 1..Len(wire') : Fits(wire'[n], gw')
    BY <2>2, FitsStill, FrameSeqs DEF FrameInv
  <2>4. \A n \in 1..Len(queue) : Fits(queue[n], gw')
    BY FitsStill, FrameSeqs DEF FrameInv
  <2>5. f.k = "401" => ~Fits(f, gw)
    BY DEF Fits
  <2>6. \A m, n \in 1..Len(wire') : wire'[m] = wire'[n] /\ wire'[m].k = "401" => m = n
    BY <2>1, <2>2, <2>5 DEF FrameInv
  <2>7. \A m \in 1..Len(queue), n \in 1..Len(wire') : queue[m] = wire'[n] => queue[m].k # "401"
    BY <2>1, <2>2, <2>5 DEF FrameInv
  <2>. QED
    BY <2>2, <2>3, <2>4, <2>6, <2>7 DEF FrameInv
<1>. QED
  BY <1>1, <1>2

\* Every step keeps the frames true.
LEMMA FrameStep == DialerInv /\ [Next]_vars => FrameInv'
<1> SUFFICES ASSUME DialerInv, [Next]_vars PROVE FrameInv'
  OBVIOUS
<1>0. FrameInv /\ DataTypes /\ SharedTypes /\ CallInv
  BY DEF DialerInv, DataTypes
<1>1. ASSUME NEW also, Reset(also), UNCHANGED gw PROVE FrameInv'
  BY <1>0, <1>1, FramesGone DEF Reset
<1>2. ASSUME UNCHANGED <<queue, wire, gw>> PROVE FrameInv'
  BY <1>0, <1>2, FramesStay DEF Benign
\* A BYE ends a call that is up.
<1>3. ASSUME NEW t, NEW to, call # 0, SendBye(t, to), UNCHANGED <<queue, wire>> PROVE FrameInv'
  <2>1. \A i \in CallIds : gw'[i] = IF i = call /\ gw[i] = "up" THEN "released" ELSE gw[i]
    BY <1>0, <1>3 DEF SendBye, DataTypes
  <2>. QED
    BY <1>0, <1>3, <2>1, FramesStay DEF Benign
<1>4. ASSUME queue # <<>>, queue' = Tail(queue), UNCHANGED <<wire, gw>> PROVE FrameInv'
  BY <1>0, <1>4, FrameTaken DEF Benign
<1>5. ASSUME NEW s \in Sessions, Progress(s) PROVE FrameInv'
  <2>0. Inviting(s) => at[s] \in CallIds
    BY <1>0 DEF CallInv, SessionInv, DataTypes, CallIds, Tasks
  <2>1. CASE EnsureConnected(s)
    BY <1>1, <1>2, <2>1 DEF EnsureConnected, sip
  <2>2. CASE Connected(s) \/ ConnectFails(s)
    BY <1>2, <2>2 DEF Connected, ConnectFails, sip
  <2>3. CASE ResetAndRetry(s)
    BY <1>1, <2>3 DEF ResetAndRetry
  <2>4. CASE BumpCall(s)
    BY <1>1, <1>3, <2>4 DEF BumpCall, NoCallUp, sip
  \* No frame speaks of an INVITE that was not sent.
  <2>5. CASE SendInvite(s)
    <3>1. CASE conn = "up"
      <4>1. \A i \in CallIds : gw'[i] = gw[i] \/ gw[i] = "none"
        <5>1. calls + 1 > calls
          BY <1>0 DEF DataTypes
        <5>. QED
          BY <1>0, <2>5, <3>1, <5>1 DEF SendInvite, CallInv, DataTypes
      <4>. QED
        BY <1>0, <2>5, <3>1, <4>1, FramesStay DEF SendInvite, Benign
    <3>2. CASE conn = "lost"
      BY <1>1, <2>5, <3>2 DEF SendInvite
    <3>3. CASE conn = "none"
      BY <1>2, <2>5, <3>3 DEF SendInvite
    <3>. QED
      BY <1>0, <3>1, <3>2, <3>3 DEF SharedTypes
  \* The challenge that is answered was the only one.
  <2>6. CASE AnswerChallenge(s)
    <3>1. CASE conn = "up"
      <4>1. /\ queue # <<>> /\ queue' = Tail(queue) /\ UNCHANGED wire
            /\ Head(queue) = [k |-> "401", id |-> at[s]] /\ Inviting(s)
            /\ gw' = [gw EXCEPT ![at[s]] = IF @ = "challenged" THEN "authed" ELSE @]
        BY <2>6, <3>1 DEF AnswerChallenge, InviteAnswered, Inviting
      <4>2. \A i \in CallIds : \/ gw'[i] = gw[i]
                               \/ i = at[s] /\ gw[i] = "challenged" /\ gw'[i] # "none"
        BY <1>0, <4>1 DEF DataTypes
      <4>. QED
        BY <1>0, <4>1, <4>2, FrameTaken DEF Benign
    <3>2. CASE conn # "up"
      BY <1>1, <2>6, <3>2 DEF AnswerChallenge
    <3>. QED
      BY <3>1, <3>2
  <2>7. CASE Proceeding(s)
    BY <1>4, <2>7 DEF Proceeding, InviteAnswered
  <2>8. CASE Rejected(s)
    <3>1. /\ queue # <<>> /\ queue' = Tail(queue) /\ UNCHANGED wire /\ Inviting(s)
          /\ Head(queue) \in {[k |-> "401", id |-> at[s]], [k |-> "4xx", id |-> at[s]]}
          /\ gw' = [gw EXCEPT ![at[s]] = IF @ = "challenged" THEN "released" ELSE @]
      BY <2>8 DEF Rejected, InviteAnswered, Inviting
    <3>2. \A i \in CallIds : \/ gw'[i] = gw[i]
                             \/ i = at[s] /\ gw[i] = "challenged" /\ gw'[i] # "none"
      BY <1>0, <3>1 DEF DataTypes
    <3>3. Head(queue).id = at[s] /\ Fits(Head(queue), gw)
      BY <1>0, <3>1 DEF FrameInv
    <3>4. gw[at[s]] = "challenged" => Head(queue) = [k |-> "401", id |-> at[s]]
      BY <3>1, <3>3 DEF Fits
    <3>. QED
      BY <1>0, <3>1, <3>2, <3>4, FrameTaken DEF Benign
  <2>9. CASE CallAccepted(s)
    BY <1>1, <1>4, <2>9 DEF CallAccepted, InviteAnswered
  <2>10. CASE AnswerUnusable(s)
    <3>1. /\ queue # <<>> /\ queue' = Tail(queue) /\ UNCHANGED wire
          /\ gw' = [gw EXCEPT ![at[s]] = IF @ = "up" THEN "released" ELSE @]
      BY <2>10 DEF AnswerUnusable, InviteAnswered
    <3>2. \A i \in CallIds : gw'[i] = gw[i] \/ (gw[i] = "up" /\ gw'[i] = "released")
      BY <1>0, <3>1 DEF DataTypes
    <3>. QED
      BY <1>0, <3>1, <3>2, FrameTaken DEF Benign
  <2>11. CASE ByeGivenUp(s) \/ InviteTimeout(s)
    BY <1>2, <2>11 DEF ByeGivenUp, InviteTimeout, sip
  <2>12. CASE Discard(s)
    BY <1>4, <2>12 DEF Discard
  <2>13. CASE HangupSkipped(s) \/ SendSwitch(s) \/ SwitchRefused(s)
    BY <1>2, <2>13 DEF HangupSkipped, SendSwitch, SwitchRefused, sip
  <2>14. CASE HangupSends(s)
    <3>1. mine[s] # 0
      BY <1>0, <2>14 DEF HangupSends, CallInv, SessionInv
    <3>. QED
      BY <1>1, <1>3, <2>14, <3>1 DEF HangupSends, OwnCall, sip
  <2>15. CASE SwitchDone(s)
    BY <1>1, <1>2, <2>15 DEF SwitchDone, sip
  <2>. QED
    BY <1>5, <2>1, <2>2, <2>3, <2>4, <2>5, <2>6, <2>7, <2>8, <2>9, <2>10, <2>11, <2>12, <2>13,
       <2>14, <2>15 DEF Progress
<1>6. ASSUME NEW s \in Sessions, Dial(s) \/ Hangup(s) \/ HangupCancelled(s) PROVE FrameInv'
  BY <1>2, <1>6 DEF Dial, Hangup, HangupCancelled, sip
<1>7. ASSUME NEW t \in Tasks, ByeDone(t) PROVE FrameInv'
  BY <1>2, <1>7 DEF ByeDone
<1>8. CASE Close \/ CloseResets \/ Discard(Unloader)
  BY <1>1, <1>2, <1>4, <1>8 DEF Close, CloseResets, Discard, sip
<1>9. CASE CloseHangsUp
  BY <1>1, <1>2, <1>3, <1>9 DEF CloseHangsUp, sip
<1>10. CASE ReadFrame
  BY <1>0, <1>10, FrameRead DEF ReadFrame
<1>11. CASE LoseConnection
  BY <1>0, <1>11, FramesGone DEF LoseConnection
<1>12. ASSUME NEW i \in CallIds, Gateway(i) PROVE FrameInv'
  <2>1. PICK kind \in {"100", "401", "200", "4xx", "BYE"},
             state \in {"ringing", "challenged", "up", "refused", "ended"} :
          /\ GatewaySends(i, kind, state)
          /\ kind = "100" => gw[i] \in {"invited", "authed"} /\ state = "ringing"
          /\ kind = "401" => gw[i] \in {"invited", "ringing"} /\ state = "challenged"
          /\ kind = "200" => Unanswered(i) /\ state = "up"
          /\ kind = "4xx" => Unanswered(i) /\ state = "refused"
          /\ kind = "BYE" => gw[i] = "up" /\ state = "ended"
    BY <1>12 DEF Gateway, Trying, Challenge, Accept, Refuse, GatewayBye
  <2> DEFINE f == [k |-> kind, id |-> i]
  <2>2. f \in Frame /\ f.k = kind /\ f.id = i
    BY DEF Frame
  <2>3. /\ wire' \in {wire, Append(wire, f)} /\ UNCHANGED queue
        /\ gw' = [gw EXCEPT ![i] = state]
    BY <2>1 DEF GatewaySends
  <2>4. \A j \in CallIds : gw'[j] = IF j = i THEN state ELSE gw[j]
    BY <1>0, <2>3 DEF DataTypes
  <2> HIDE DEF f
  <2>5. Fits(f, gw')
    BY <2>1, <2>2, <2>4 DEF Fits
  <2>6. \A j \in CallIds : Benign(j)
    BY <2>1, <2>4 DEF Benign, Unanswered
  <2>7. f.k = "401" => gw[f.id] # "challenged"
    BY <2>1, <2>2
  <2>. QED
    BY <1>0, <2>2, <2>3, <2>5, <2>6, <2>7, FrameSent
<1>13. CASE UNCHANGED vars
  BY <1>2, <1>13 DEF vars, sip
<1>. QED
  BY <1>5, <1>6, <1>7, <1>8, <1>9, <1>10, <1>11, <1>12, <1>13 DEF Next

----------------------------------------------------------------------------
(* The bound on INVITEs.                                                   *)

\* Those who may still send an INVITE can be counted.
LEMMA DialingFinite == IsFiniteSet(Dialing) /\ Cardinality(Dialing) \in Nat
<1>1. Dialing \subseteq Sessions
  BY DEF Dialing
<1>. QED
  BY <1>1, DialerAssumption, FS_Subset, FS_CardinalityType

\* After a step, too.
LEMMA DialingFinitePrime == IsFiniteSet(Dialing') /\ Cardinality(Dialing') \in Nat
<1>1. Dialing' \subseteq Sessions
  BY DEF Dialing
<1>. QED
  BY <1>1, DialerAssumption, FS_Subset, FS_CardinalityType

\* Nobody new dials: there is still room.
LEMMA RoomKept ==
  ASSUME DataTypes, RoomInv, Dialing' \subseteq Dialing, UNCHANGED <<calls, losses>>
  PROVE  RoomInv'
<1>1. Cardinality(Dialing') <= Cardinality(Dialing)
  BY DialingFinite, FS_Subset
<1>2. /\ Cardinality(Dialing) \in Nat /\ Cardinality(Dialing') \in Nat
      /\ calls \in Nat /\ losses \in Nat /\ MaxLosses \in Nat /\ MaxCalls \in Nat
  BY DialingFinite, DialingFinitePrime, DialerAssumption DEF DataTypes
<1>. QED
  BY <1>1, <1>2 DEF RoomInv

\* An INVITE uses the room of its dial up.
LEMMA RoomUsed ==
  ASSUME DataTypes, RoomInv, NEW s \in Dialing, Dialing' \subseteq Dialing \ {s},
         calls' = calls + 1, UNCHANGED losses
  PROVE  RoomInv'
<1>1. /\ Cardinality(Dialing') <= Cardinality(Dialing \ {s})
      /\ Cardinality(Dialing \ {s}) = Cardinality(Dialing) - 1
  BY DialingFinite, FS_Subset, FS_RemoveElement
<1>2. /\ Cardinality(Dialing) \in Nat /\ Cardinality(Dialing') \in Nat
      /\ calls \in Nat /\ losses \in Nat /\ MaxLosses \in Nat /\ MaxCalls \in Nat
  BY DialingFinite, DialingFinitePrime, DialerAssumption DEF DataTypes
<1>. QED
  BY <1>1, <1>2 DEF RoomInv

\* A dial begins with room for its own INVITE.
LEMMA RoomTaken ==
  ASSUME DataTypes, Within, NEW s \in Sessions, Dialing' \subseteq Dialing \cup {s},
         UNCHANGED <<calls, losses>>
  PROVE  RoomInv'
<1>1. /\ Cardinality(Dialing') <= Cardinality(Dialing \cup {s})
      /\ Cardinality(Dialing \cup {s}) <= Cardinality(Dialing) + 1
      /\ Cardinality(Dialing \cup {s}) \in Nat
  BY DialingFinite, FS_Subset, FS_AddElement, FS_CardinalityType
<1>2. /\ Cardinality(Dialing) \in Nat /\ Cardinality(Dialing') \in Nat
      /\ calls \in Nat /\ losses \in Nat /\ MaxLosses \in Nat /\ MaxCalls \in Nat
  BY DialingFinite, DialingFinitePrime, DialerAssumption DEF DataTypes
<1>. QED
  BY <1>1, <1>2 DEF RoomInv, Within

\* A loss makes one dial at most start over, and there is room for that.
LEMMA RoomAfterLoss ==
  ASSUME DataTypes, RoomInv, NEW s, Dialing' \subseteq Dialing \cup {s}, calls # 0,
         losses' = losses + 1, UNCHANGED calls
  PROVE  RoomInv'
<1>1. /\ Cardinality(Dialing') <= Cardinality(Dialing \cup {s})
      /\ Cardinality(Dialing \cup {s}) <= Cardinality(Dialing) + 1
      /\ Cardinality(Dialing \cup {s}) \in Nat
  BY DialingFinite, FS_Subset, FS_AddElement, FS_CardinalityType
<1>2. /\ Cardinality(Dialing) \in Nat /\ Cardinality(Dialing') \in Nat
      /\ calls \in Nat /\ losses \in Nat /\ MaxLosses \in Nat /\ MaxCalls \in Nat
  BY DialingFinite, DialingFinitePrime, DialerAssumption DEF DataTypes
<1>. QED
  BY <1>1, <1>2 DEF RoomInv

\* Who dials is not changed by what others do, unless they lose the connection
\* while somebody else has the lock.
LEMMA DialingOthers ==
  ASSUME LockInv, NEW s \in Tasks, \A t \in Sessions \ {s} : pc'[t] = pc[t],
         Holds(s) \/ conn' = "up" \/ conn # "up"
  PROVE  Dialing' \subseteq Dialing \cup {s}
<1> SUFFICES ASSUME NEW t \in Sessions \ {s}, t \in Dialing' PROVE t \in Dialing
  BY DEF Dialing
<1>1. pc'[t] = pc[t] /\ t \in Tasks
  BY DEF Tasks
<1>2. CASE pc[t] \in {"c_lock", "connecting", "d_lock", "r_lock", "replace"}
  BY <1>2 DEF Dialing
<1>3. CASE pc[t] \in {"invite", "proceed"} /\ conn' # "up"
  <2>1. ~Holds(s)
    BY <1>1, <1>3, OneHolder DEF Holding
  <2>. QED
    BY <1>3, <2>1 DEF Dialing
<1>. QED
  BY <1>1, <1>2, <1>3 DEF Dialing

\* Every step keeps room for the INVITEs that are still to come.
LEMMA RoomStep == DialerInv /\ [Next]_vars => RoomInv'
<1> SUFFICES ASSUME DialerInv, [Next]_vars PROVE RoomInv'
  OBVIOUS
<1>0. /\ DataTypes /\ SharedTypes /\ CallInv /\ RoomInv /\ LockInv
      /\ \A t \in Sessions : t \in Tasks /\ t # Unloader
      /\ pc \in [Tasks -> Places]
  BY DialerAssumption DEF DialerInv, DataTypes, PcTypes, Tasks
\* A step of s after which s has not begun to dial.
<1>1. ASSUME NEW s \in Tasks, \A t \in Sessions \ {s} : pc'[t] = pc[t],
             Holds(s) \/ conn' = "up" \/ conn # "up",
             s \in Dialing' => s \in Dialing, UNCHANGED <<calls, losses>>
      PROVE  RoomInv'
  <2>1. Dialing' \subseteq Dialing
    BY <1>0, <1>1, DialingOthers
  <2>. QED
    BY <1>0, <1>1, <2>1, RoomKept
<1>2. ASSUME UNCHANGED <<conn, pc, calls, losses>> PROVE RoomInv'
  <2>1. Dialing' = Dialing
    BY <1>2 DEF Dialing
  <2>. QED
    BY <1>0, <1>2, <2>1, RoomKept
<1>3. ASSUME NEW s \in Sessions, Progress(s) PROVE RoomInv'
  <2>0. /\ s \in Tasks /\ (pc[s] \in Holding => Holds(s))
        /\ \A to : Go(s, to) => pc'[s] = to /\ \A t \in Sessions \ {s} : pc'[t] = pc[t]
    BY <1>0 DEF LockInv, Go
  <2> USE DEF Dialing, Release, Reacquire, Leave, DialRaises, DialLosesConnection
  <2>1. CASE EnsureConnected(s)
    BY <1>1, <2>0, <2>1 DEF EnsureConnected
  <2>2. CASE Connected(s) \/ ConnectFails(s)
    BY <1>1, <2>0, <2>2 DEF Connected, ConnectFails, Holding, sip
  <2>3. CASE ResetAndRetry(s)
    BY <1>1, <2>0, <2>3 DEF ResetAndRetry
  <2>4. CASE BumpCall(s)
    BY <1>1, <2>0, <2>4 DEF BumpCall, SendBye
  <2>5. CASE SendInvite(s)
    <3>1. s \in Dialing /\ Holds(s)
      BY <2>5 DEF SendInvite
    <3>2. CASE conn = "lost"
      BY <1>1, <2>0, <2>5, <3>1, <3>2 DEF SendInvite
    <3>3. CASE conn # "lost"
      <4>1. calls' = calls + 1 /\ UNCHANGED <<conn, losses>> /\ s \notin Dialing'
            /\ \A t \in Sessions \ {s} : pc'[t] = pc[t]
        BY <2>0, <2>5, <3>3 DEF SendInvite
      <4>2. Dialing' \subseteq Dialing \ {s}
        BY <1>0, <2>0, <3>1, <4>1, DialingOthers
      <4>. QED
        BY <1>0, <3>1, <4>1, <4>2, RoomUsed
    <3>. QED
      BY <3>2, <3>3
  <2>6. CASE AnswerChallenge(s)
    BY <1>1, <2>0, <2>6 DEF AnswerChallenge, InviteAnswered, Holding
  <2>7. CASE Proceeding(s) \/ Rejected(s)
    BY <1>1, <2>0, <2>7 DEF Proceeding, Rejected, InviteAnswered, Holding
  <2>8. CASE CallAccepted(s)
    BY <1>1, <2>0, <2>8 DEF CallAccepted, InviteAnswered, Holding
  <2>9. CASE AnswerUnusable(s) \/ ByeGivenUp(s) \/ InviteTimeout(s)
    BY <1>1, <2>0, <2>9 DEF AnswerUnusable, ByeGivenUp, InviteTimeout, Holding, sip
  <2>10. CASE Discard(s)
    BY <1>2, <2>10 DEF Discard
  <2>11. CASE HangupSkipped(s) \/ HangupSends(s)
    BY <1>1, <2>0, <2>11 DEF HangupSkipped, HangupSends, SendBye, sip
  <2>12. CASE SendSwitch(s) \/ SwitchRefused(s)
    BY <1>1, <2>0, <2>12 DEF SendSwitch, SwitchRefused, sip
  <2>13. CASE SwitchDone(s)
    BY <1>1, <2>0, <2>13 DEF SwitchDone, Holding, sip
  <2>. QED
    BY <1>3, <2>1, <2>2, <2>3, <2>4, <2>5, <2>6, <2>7, <2>8, <2>9, <2>10, <2>11, <2>12, <2>13
       DEF Progress
<1>4. ASSUME NEW s \in Sessions, Dial(s) PROVE RoomInv'
  <2>1. Within /\ UNCHANGED <<conn, calls, losses>> /\ s \in Tasks
        /\ \A t \in Sessions \ {s} : pc'[t] = pc[t]
    BY <1>0, <1>4 DEF Dial, Await, Go, sip
  <2>. QED
    BY <1>0, <2>1, DialingOthers, RoomTaken
<1>5. ASSUME NEW s \in Sessions, Hangup(s) \/ HangupCancelled(s) PROVE RoomInv'
  <2>1. UNCHANGED <<conn, calls, losses>> /\ s \in Tasks /\ s \notin Dialing'
        /\ \A t \in Sessions \ {s} : pc'[t] = pc[t]
    BY <1>0, <1>5 DEF Hangup, HangupCancelled, Await, Leave, Go, sip, Dialing
  <2>. QED
    BY <1>1, <2>1
<1>6. ASSUME NEW t \in Tasks, ByeDone(t) PROVE RoomInv'
  <2>1. UNCHANGED <<conn, calls, losses>> /\ \A s \in Sessions \ {t} : pc'[s] = pc[s]
    BY <1>0, <1>6 DEF ByeDone, Release, Leave, Go
  <2>2. t \in Dialing' => t \in Dialing
    BY <1>0, <1>6 DEF ByeDone, Release, Leave, Go, Dialing
  <2>. QED
    BY <1>1, <2>1, <2>2
<1>7. CASE Close \/ CloseHangsUp \/ CloseResets
  <2>1. Unloader \in Tasks /\ Unloader \notin Dialing' /\ UNCHANGED <<calls, losses>>
        /\ \A s \in Sessions \ {Unloader} : pc'[s] = pc[s]
    BY <1>0, <1>7 DEF Close, CloseHangsUp, CloseResets, Release, Leave, Await, SendBye, Go,
                      Dialing, Tasks
  <2>2. Holds(Unloader) \/ UNCHANGED conn
    BY <1>0, <1>7 DEF Close, CloseHangsUp, CloseResets, LockInv, Holding, Tasks, sip
  <2>. QED
    BY <1>1, <2>1, <2>2
<1>8. CASE ReadFrame \/ Discard(Unloader)
  BY <1>2, <1>8 DEF ReadFrame, Discard
<1>9. CASE LoseConnection
  <2>1. UNCHANGED <<pc, calls>> /\ losses' = losses + 1 /\ conn = "up"
    BY <1>9 DEF LoseConnection
  <2>2. CASE \E s \in Sessions : Inviting(s)
    <3>1. PICK s \in Sessions : Inviting(s)
      BY <2>2
    <3>2. Holds(s) /\ calls # 0
      BY <1>0, <3>1 DEF LockInv, Holding, Inviting, CallInv, SessionInv, DataTypes
    <3>3. Dialing' \subseteq Dialing \cup {s}
      BY <1>0, <2>1, <3>2, DialingOthers
    <3>. QED
      BY <1>0, <2>1, <3>2, <3>3, RoomAfterLoss
  <2>3. CASE ~\E s \in Sessions : Inviting(s)
    <3>1. Dialing' = Dialing
      BY <2>1, <2>3 DEF Dialing, Inviting
    <3>. QED
      BY <1>0, <2>1, <3>1, DialingFinite, DialerAssumption DEF RoomInv, DataTypes
  <2>. QED
    BY <2>2, <2>3
<1>10. ASSUME NEW i \in CallIds, Gateway(i) PROVE RoomInv'
  BY <1>2, <1>10 DEF Gateway, Trying, Challenge, Accept, Refuse, GatewayBye, GatewaySends
<1>11. CASE UNCHANGED vars
  BY <1>2, <1>11 DEF vars, sip
<1>. QED
  BY <1>3, <1>4, <1>5, <1>6, <1>7, <1>8, <1>9, <1>10, <1>11 DEF Next

----------------------------------------------------------------------------
(* The call.                                                               *)

\* This change of the gateway's view is one that a call stands: what is not
\* yet sent stays so, what was accepted or is over stays that.
Orderly ==
  \A i \in CallIds :
    /\ i > calls' => gw'[i] = "none"
    /\ gw[i] \in {"up", "ended", "released"} => gw'[i] \in {"up", "ended", "released"}
    /\ gw[i] \in {"ended", "released"} => gw'[i] \in {"ended", "released"}

\* Task s moves, and neither the call nor what has ended changes.
LEMMA QuietMove ==
  ASSUME DataTypes, CallInv, NEW s \in Tasks,
         \A t \in Tasks \ {s} : pc'[t] = pc[t] /\ at'[t] = at[t],
         \A t \in Sessions \ {s} : mine'[t] = mine[t] /\ watch'[t] = watch[t],
         UNCHANGED <<call, ended>>, calls' \in Nat, calls <= calls', Orderly,
         conn' = conn \/ \A t \in Sessions \ {s} : pc[t] # "connecting",
         s \in Sessions => /\ SessionInv(s)'
                           /\ mine'[s] = mine[s] \/ (mine'[s] = 0 /\ mine[s] # call),
         ByeInv(s)'
  PROVE  CallInv'
<1>0. /\ calls \in Nat /\ call \in 0..MaxCalls
      /\ \A t \in Sessions : t \in Tasks /\ mine[t] \in Nat /\ SessionInv(t)
      /\ \A t \in Tasks : ByeInv(t) /\ at[t] \in 0..MaxCalls
  BY DEF DataTypes, SharedTypes, CallInv, Tasks
<1>1. \A t \in Sessions : mine'[t] = mine[t] \/ (mine'[t] = 0 /\ mine[t] # call)
  OBVIOUS
<1>2. ASSUME NEW t \in Sessions \ {s} PROVE SessionInv(t)'
  <2>1. /\ pc'[t] = pc[t] /\ at'[t] = at[t] /\ mine'[t] = mine[t] /\ watch'[t] = watch[t]
        /\ SessionInv(t) /\ mine[t] \in Nat
    BY <1>0
  <2>2. Inviting(t) => \A u \in Sessions : mine'[u] # at[t]
    BY <1>1, <2>1 DEF SessionInv
  <2>. QED
    BY <1>0, <2>1, <2>2 DEF SessionInv, InDial, Inviting
<1>3. ASSUME NEW t \in Tasks \ {s} PROVE ByeInv(t)'
  <2>1. pc'[t] = pc[t] /\ at'[t] = at[t] /\ ByeInv(t) /\ at[t] \in 0..MaxCalls
    BY <1>0
  <2>2. at[t] # 0 => at[t] \in CallIds
    BY <2>1 DEF CallIds
  <2>. QED
    BY <2>1, <2>2 DEF ByeInv, Orderly
<1>4. call' # 0 => /\ call' <= calls' /\ gw'[call'] \in {"up", "ended", "released"}
                   /\ \E t \in Sessions : mine'[t] = call'
                                          /\ \A u \in Sessions \ {t} : mine'[u] # call'
  <2>1. call # 0 => call \in CallIds
    BY <1>0 DEF CallIds
  <2>. QED
    BY <1>0, <1>1, <2>1 DEF CallInv, Orderly
<1>. QED
  BY <1>2, <1>3, <1>4 DEF CallInv, Orderly

\* Who has the lock resets the connection.
LEMMA ResetMove ==
  ASSUME DataTypes, CallInv, LockInv, NEW s \in Tasks, Holds(s), NEW also, Reset(also),
         \A t \in Tasks \ {s} : pc'[t] = pc[t],
         \A t \in Sessions \ {s} : mine'[t] = mine[t],
         UNCHANGED <<calls, gw>>,
         s \in Sessions => mine'[s] \in {0, mine[s]} /\ (InDial(s)' => mine'[s] = 0),
         pc'[s] \notin {"invite", "proceed", "h_lock", "bye", "replace"}
  PROVE  CallInv'
<1>0. /\ call' = 0 /\ conn' = "none" /\ calls \in Nat
      /\ \A t \in Sessions : t \in Tasks /\ mine[t] \in Nat /\ SessionInv(t)
  BY ResetTypes DEF DataTypes, CallInv, Tasks
<1>1. \A t \in Sessions : watch'[t] # "waiting"
  BY <1>0, ResetTypes DEF SessionInv
<1>2. \A t \in Sessions : watch'[t] = "none" <=> watch[t] = "none"
  BY ResetTypes
<1>3. \A t \in Tasks \ {s} : pc'[t] \notin Holding
  BY OneHolder
<1>4. ASSUME NEW t \in Sessions \ {s} PROVE SessionInv(t)'
  BY <1>0, <1>1, <1>2, <1>3 DEF SessionInv, InDial, Inviting, Holding
<1>5. s \in Sessions => SessionInv(s)'
  BY <1>0, <1>1 DEF SessionInv, Inviting
<1>6. \A t \in Tasks : ByeInv(t)'
  BY <1>3 DEF ByeInv, Holding
<1>. QED
  BY <1>0, <1>4, <1>5, <1>6 DEF CallInv

\* Call i is over.
LEMMA FinishMove ==
  ASSUME DataTypes, CallInv, NEW s \in Tasks, NEW i \in CallIds, Finish(i),
         \A t \in Tasks \ {s} : pc'[t] = pc[t] /\ at'[t] = at[t],
         \A t \in Sessions \ {s} : mine'[t] = mine[t],
         UNCHANGED <<conn, calls, gw>>,
         \/ UNCHANGED <<pc, at, mine>>
         \/ /\ call' = 0 /\ pc'[s] \notin {"invite", "proceed", "connecting", "h_lock", "bye",
                                           "replace"}
            /\ s \in Sessions => mine'[s] \in {0, mine[s]} /\ (InDial(s)' => mine'[s] = 0)
  PROVE  CallInv'
<1>0. /\ call' \in {0, call} /\ call' # i /\ calls \in Nat /\ ended' = ended \cup {i}
      /\ \A t \in Sessions : t \in Tasks /\ mine[t] \in Nat /\ SessionInv(t)
      /\ \A t \in Sessions : watch'[t] = "waiting" <=> watch[t] = "waiting" /\ mine[t] # i
      /\ \A t \in Sessions : watch'[t] = "none" <=> watch[t] = "none"
      /\ \A t \in Tasks : ByeInv(t)
  BY FinishTypes DEF DataTypes, CallInv, Tasks
<1>1. \A t \in Sessions : watch'[t] = "waiting" => mine[t] = call /\ call' = call /\ call # 0
                                                   /\ call \notin ended'
  <2>1. call # i => call' = call
    BY DEF Finish
  <2>. QED
    BY <1>0, <2>1 DEF SessionInv
<1>2. ASSUME NEW t \in Sessions, pc'[t] = pc[t], at'[t] = at[t], mine'[t] = mine[t],
             \A u \in Sessions : mine'[u] \in {0, mine[u]}
      PROVE  SessionInv(t)'
  BY <1>0, <1>1, <1>2 DEF SessionInv, InDial, Inviting
<1>3. ASSUME NEW t \in Tasks, pc'[t] = pc[t], at'[t] = at[t] PROVE ByeInv(t)'
  BY <1>0, <1>3 DEF ByeInv
<1>4. CASE UNCHANGED <<pc, at, mine>>
  <2>1. call' # 0 => call' = call
    BY <1>0
  <2>. QED
    BY <1>2, <1>3, <1>4, <2>1 DEF CallInv
<1>5. CASE /\ call' = 0 /\ pc'[s] \notin {"invite", "proceed", "connecting", "h_lock", "bye",
                                           "replace"}
           /\ s \in Sessions => mine'[s] \in {0, mine[s]} /\ (InDial(s)' => mine'[s] = 0)
  <2>1. s \in Sessions => SessionInv(s)'
    BY <1>0, <1>1, <1>5 DEF SessionInv, Inviting
  <2>2. \A u \in Sessions : mine'[u] \in {0, mine[u]}
    BY <1>5
  <2>3. ASSUME NEW t \in Sessions \ {s} PROVE SessionInv(t)'
    BY <1>0, <1>2, <2>2
  <2>4. ByeInv(s)'
    BY <1>5 DEF ByeInv
  <2>. QED
    BY <1>3, <1>5, <2>1, <2>3, <2>4 DEF CallInv
<1>. QED
  BY <1>4, <1>5

\* Every step keeps one session at most to the active call.
LEMMA CallStep == DialerInv /\ [Next]_vars => CallInv'
<1> SUFFICES ASSUME DialerInv, [Next]_vars PROVE CallInv'
  OBVIOUS
<1>0. /\ DataTypes /\ SharedTypes /\ CallInv /\ RoomInv /\ LockInv /\ FrameInv
      /\ \A t \in Sessions : t \in Tasks /\ t # Unloader /\ SessionInv(t) /\ mine[t] \in Nat
      /\ pc \in [Tasks -> Places] /\ calls \in Nat
      /\ \A t \in Tasks : ByeInv(t) /\ at[t] \in 0..MaxCalls /\ (pc[t] \in Holding => Holds(t))
  BY DialerAssumption DEF DialerInv, DataTypes, PcTypes, Tasks, CallInv, LockInv
<1>1. UNCHANGED <<gw, calls>> => Orderly
  BY <1>0 DEF Orderly, CallInv
\* Moves of s alone that leave what others see as it is.
<1>2. ASSUME NEW s \in Sessions, NEW to, Go(s, to), Leave(s, to) \/ UNCHANGED at,
             to \notin {"connecting", "invite", "proceed", "replace", "bye", "h_lock"},
             mine'[s] = mine[s] \/ (mine'[s] = 0 /\ mine[s] # call), InDial(s)' => mine'[s] = 0,
             \A t \in Sessions \ {s} : mine'[t] = mine[t],
             UNCHANGED <<call, ended, calls, watch>>,
             conn' = conn \/ Holds(s), Orderly,
             watch[s] = "waiting" => mine'[s] = mine[s]
      PROVE  CallInv'
  <2>1. \A t \in Tasks \ {s} : pc'[t] = pc[t] /\ at'[t] = at[t]
    BY <1>0, <1>2 DEF Go, Leave, DataTypes
  <2>2. pc'[s] = to
    BY <1>0, <1>2 DEF Go
  <2>3. SessionInv(s)' /\ ByeInv(s)'
    BY <1>0, <1>2, <2>2 DEF SessionInv, ByeInv, Inviting
  <2>4. conn' = conn \/ \A t \in Sessions \ {s} : pc[t] # "connecting"
    BY <1>0, <1>2, OneHolder DEF Holding
  <2>. QED
    BY <1>0, <1>2, <2>1, <2>3, <2>4, QuietMove
<1>3. ASSUME NEW s \in Sessions, NEW also, Holds(s), Reset(also), NEW to, Go(s, to),
             UNCHANGED <<calls, gw>>,
             to \notin {"invite", "proceed", "replace", "bye", "h_lock"},
             mine'[s] \in {0, mine[s]}, InDial(s)' => mine'[s] = 0,
             \A t \in Sessions \ {s} : mine'[t] = mine[t]
      PROVE  CallInv'
  <2>1. pc'[s] = to /\ \A t \in Tasks \ {s} : pc'[t] = pc[t]
    BY <1>0, <1>3 DEF Go
  <2>. QED
    BY <1>0, <1>3, <2>1, ResetMove
\* A BYE is sent: the gateway has released the call, or had ended it.
<1>4. ASSUME NEW t \in Tasks, call # 0, SendBye(t, "replace") \/ SendBye(t, "bye"),
             UNCHANGED <<sip, mine, calls>>, pc[t] \in {"d_lock", "h_lock", "x_lock"},
             pc'[t] = "bye" /\ t \in Sessions => pc[t] = "h_lock" /\ mine[t] = call,
             pc'[t] = "replace" => pc[t] = "d_lock"
      PROVE  CallInv'
  <2>1. /\ pc'[t] \in {"replace", "bye"} /\ at'[t] = call
        /\ \A u \in Tasks \ {t} : pc'[u] = pc[u] /\ at'[u] = at[u]
        /\ UNCHANGED <<conn, call, ended, watch, mine, calls>>
    BY <1>0, <1>4 DEF SendBye, Go, DataTypes, sip
  <2>2. call \in CallIds /\ gw[call] \in {"up", "ended", "released"}
    BY <1>0, <1>4 DEF CallInv, SharedTypes, CallIds
  <2>3. \A i \in CallIds : gw'[i] = IF i = call /\ gw[i] = "up" THEN "released" ELSE gw[i]
    BY <1>0, <1>4 DEF SendBye, DataTypes
  <2>4. Orderly
    BY <1>0, <2>1, <2>3 DEF Orderly, CallInv
  <2>5. ByeInv(t)'
    BY <1>4, <2>1, <2>2, <2>3 DEF ByeInv
  <2>6. t \in Sessions => SessionInv(t)'
    BY <1>0, <1>4, <2>1 DEF SessionInv, InDial, Inviting
  <2>. QED
    BY <1>0, <2>1, <2>4, <2>5, <2>6, QuietMove
<1>5. ASSUME NEW s \in Sessions, Progress(s) PROVE CallInv'
  <2>0. /\ s \in Tasks /\ (pc[s] \in Holding => Holds(s)) /\ SessionInv(s)
        /\ \A to : Go(s, to) => pc'[s] = to
    BY <1>0 DEF Go
  <2> USE DEF Release, Reacquire, DialRaises, DialLosesConnection
  <2>1. CASE EnsureConnected(s)
    <3>1. mine[s] = 0
      BY <2>0, <2>1 DEF EnsureConnected, SessionInv, InDial
    <3>. QED
      BY <1>1, <1>2, <1>3, <2>0, <2>1, <3>1 DEF EnsureConnected, Leave, sip
  <2>2. CASE Connected(s)
    BY <1>1, <1>2, <2>0, <2>2 DEF Connected, Leave, SessionInv, InDial, Holding
  <2>3. CASE ConnectFails(s)
    BY <1>1, <1>2, <2>0, <2>3 DEF ConnectFails, Leave, SessionInv, InDial, Holding, sip
  <2>4. CASE ResetAndRetry(s)
    BY <1>3, <2>0, <2>4 DEF ResetAndRetry, Leave, SessionInv, InDial
  <2>5. CASE BumpCall(s)
    <3>1. mine[s] = 0 /\ call # 0
      BY <2>0, <2>5 DEF BumpCall, NoCallUp, SessionInv, InDial
    <3>2. CASE conn = "up"
      BY <1>4, <2>0, <2>5, <3>1, <3>2 DEF BumpCall, SendBye
    <3>3. CASE conn # "up"
      BY <1>3, <2>0, <2>5, <3>1, <3>3 DEF BumpCall, Leave
    <3>. QED
      BY <3>2, <3>3
  <2>6. CASE SendInvite(s)
    <3>1. mine[s] = 0 /\ call = 0 /\ Holds(s)
      BY <2>0, <2>6 DEF SendInvite, NoCallUp, SessionInv, InDial
    <3>2. CASE conn = "lost"
      BY <1>3, <2>0, <2>6, <3>1, <3>2 DEF SendInvite, Leave
    <3>3. CASE conn = "none"
      <4>1. Orderly
        BY <1>0, <2>6, <3>3 DEF SendInvite, Orderly, CallInv, CallIds
      <4>2. /\ \A t \in Tasks \ {s} : pc'[t] = pc[t] /\ at'[t] = at[t]
            /\ pc'[s] = "idle" /\ UNCHANGED <<conn, call, ended, watch, mine>> /\ calls' = calls + 1
        BY <1>0, <2>0, <2>6, <3>3 DEF SendInvite, Leave, Go, DataTypes
      <4>3. SessionInv(s)' /\ ByeInv(s)'
        BY <1>0, <2>0, <3>1, <4>2 DEF SessionInv, ByeInv, Inviting, InDial
      <4>. QED
        BY <1>0, <2>0, <4>1, <4>2, <4>3, QuietMove
    <3>4. CASE conn = "up"
      <4>1. /\ \A t \in Tasks \ {s} : pc'[t] = pc[t] /\ at'[t] = at[t]
            /\ pc'[s] = "invite" /\ at'[s] = calls + 1 /\ calls' = calls + 1
            /\ UNCHANGED <<conn, call, ended, watch, mine>>
        BY <1>0, <2>0, <2>6, <3>4 DEF SendInvite, Go, DataTypes
      <4>2. \A i \in CallIds : gw'[i] = IF i = calls + 1 THEN "invited" ELSE gw[i]
        BY <1>0, <2>6, <3>4 DEF SendInvite, DataTypes
      <4>3. Orderly
        BY <1>0, <4>1, <4>2 DEF Orderly, CallInv, CallIds
      <4>4. \A t \in Sessions : mine[t] # calls + 1
        BY <1>0 DEF SessionInv
      <4>5. SessionInv(s)' /\ ByeInv(s)'
        BY <1>0, <2>0, <3>1, <4>1, <4>4 DEF SessionInv, ByeInv, Inviting, InDial
      <4>. QED
        BY <1>0, <2>0, <4>1, <4>3, <4>5, QuietMove
    <3>. QED
      BY <1>0, <3>2, <3>3, <3>4 DEF SharedTypes
  <2>7. CASE AnswerChallenge(s) \/ Proceeding(s)
    <3>1. Inviting(s) /\ at[s] \in CallIds /\ mine[s] = 0 /\ Holds(s)
      BY <1>0, <2>0, <2>7 DEF AnswerChallenge, Proceeding, InviteAnswered, Inviting, SessionInv,
                              InDial, CallIds, Holding
    <3>2. CASE AnswerChallenge(s) /\ conn # "up"
      BY <1>3, <2>0, <3>1, <3>2 DEF AnswerChallenge, Leave
    <3>3. CASE Proceeding(s) \/ conn = "up"
      <4>1. /\ \A t \in Tasks \ {s} : pc'[t] = pc[t] /\ at'[t] = at[t]
            /\ pc'[s] = "proceed" /\ UNCHANGED <<conn, call, ended, watch, mine, calls, at>>
        BY <1>0, <2>0, <2>7, <3>3 DEF AnswerChallenge, Proceeding, Go, task
      <4>2. \A i \in CallIds : gw'[i] = gw[i] \/ (gw[i] = "challenged" /\ gw'[i] = "authed")
        BY <1>0, <2>7, <3>1, <3>3 DEF AnswerChallenge, Proceeding, DataTypes
      <4>3. Orderly
        BY <1>0, <4>1, <4>2 DEF Orderly, CallInv
      <4>4. SessionInv(s)' /\ ByeInv(s)'
        BY <2>0, <3>1, <4>1 DEF SessionInv, ByeInv, Inviting, InDial
      <4>. QED
        BY <1>0, <2>0, <4>1, <4>3, <4>4, QuietMove
    <3>. QED
      BY <2>7, <3>2, <3>3
  <2>8. CASE Rejected(s)
    <3>1. \A i \in CallIds : gw'[i] = gw[i] \/ (gw[i] = "challenged" /\ gw'[i] = "released")
      BY <1>0, <2>8 DEF Rejected, DataTypes
    <3>2. Orderly
      BY <1>0, <2>8, <3>1 DEF Rejected, Orderly, CallInv
    <3>. QED
      BY <1>2, <2>0, <2>8, <3>2 DEF Rejected, Leave, SessionInv, InDial
  <2>9. CASE CallAccepted(s)
    <3>0. /\ Inviting(s) /\ at[s] \in CallIds /\ at[s] <= calls /\ mine[s] = 0 /\ Holds(s)
          /\ call = 0 /\ \A t \in Sessions : mine[t] # at[s]
      BY <1>0, <2>0, <2>9 DEF CallAccepted, InviteAnswered, Inviting, SessionInv, InDial,
                              CallIds, Holding
    <3>1. CASE conn # "up"
      BY <1>3, <2>0, <2>9, <3>0, <3>1 DEF CallAccepted, Leave
    <3>2. CASE conn = "up"
      <4>1. /\ call' = at[s] /\ mine' = [mine EXCEPT ![s] = at[s]]
            /\ watch' = [watch EXCEPT ![s] = IF at[s] \in ended THEN "woken" ELSE "waiting"]
            /\ UNCHANGED <<conn, ended, calls, gw>> /\ pc'[s] \in {"m_lock", "idle"}
            /\ \A t \in Tasks \ {s} : pc'[t] = pc[t] /\ at'[t] = at[t]
        BY <1>0, <2>0, <2>9, <3>2 DEF CallAccepted, Leave, Go, DataTypes
      <4>2. \A t \in Sessions : /\ mine'[t] = IF t = s THEN at[s] ELSE mine[t]
                                /\ t # s => watch'[t] = watch[t]
                                /\ watch'[s] = "waiting" => at[s] \notin ended
        BY <1>0, <4>1 DEF DataTypes, SharedTypes
      <4>3. gw[at[s]] \in {"up", "ended", "released"}
        <5>1. queue # <<>> /\ Head(queue) = [k |-> "200", id |-> at[s]]
          BY <2>9 DEF CallAccepted, InviteAnswered
        <5>2. Fits(queue[1], gw) /\ Head(queue) = queue[1]
          BY <1>0, <5>1 DEF FrameInv
        <5>. QED
          BY <5>1, <5>2 DEF Fits
      <4>4. SessionInv(s)'
        BY <3>0, <4>1, <4>2 DEF SessionInv, InDial, Inviting, CallIds
      <4>5. ASSUME NEW t \in Sessions \ {s} PROVE SessionInv(t)'
        <5>1. pc[t] \notin Holding /\ watch'[t] # "waiting"
          BY <1>0, <3>0, <4>2, OneHolder DEF SessionInv
        <5>. QED
          BY <1>0, <4>1, <4>2, <5>1 DEF SessionInv, InDial, Inviting, Holding
      <4>6. \A t \in Tasks : ByeInv(t)'
        BY <1>0, <3>0, <4>1, OneHolder DEF ByeInv, Holding
      <4>. QED
        BY <1>0, <3>0, <4>1, <4>2, <4>3, <4>4, <4>5, <4>6 DEF CallInv
    <3>. QED
      BY <3>1, <3>2
  <2>10. CASE AnswerUnusable(s)
    <3>1. \A i \in CallIds : gw'[i] = gw[i] \/ (gw[i] = "up" /\ gw'[i] = "released")
      BY <1>0, <2>10 DEF AnswerUnusable, DataTypes
    <3>2. Orderly
      BY <1>0, <2>10, <3>1 DEF AnswerUnusable, Orderly, CallInv
    <3>. QED
      BY <1>2, <2>0, <2>10, <3>2 DEF AnswerUnusable, InviteAnswered, SessionInv, InDial, task
  <2>11. CASE ByeGivenUp(s) \/ InviteTimeout(s)
    BY <1>1, <1>2, <2>0, <2>11 DEF ByeGivenUp, InviteTimeout, Leave, SessionInv, InDial, sip
  <2>12. CASE Discard(s)
    <3>1. UNCHANGED <<conn, call, ended, calls, watch, pc, at, mine, gw>>
      BY <2>12 DEF Discard, task
    <3>2. SessionInv(s)' /\ ByeInv(s)'
      BY <1>0, <2>0, <3>1 DEF SessionInv, ByeInv, InDial, Inviting
    <3>. QED
      BY <1>0, <1>1, <2>0, <3>1, <3>2, QuietMove
  <2>13. CASE HangupSkipped(s)
    BY <1>0, <1>1, <1>2, <2>0, <2>13
       DEF HangupSkipped, OwnCall, Leave, SessionInv, InDial, DataTypes, sip
  <2>14. CASE HangupSends(s)
    <3>1. call # 0 /\ mine[s] = call /\ Holds(s) /\ pc[s] = "h_lock"
      BY <2>0, <2>14 DEF HangupSends, OwnCall, SessionInv
    <3>2. CASE conn = "up"
      BY <1>4, <2>0, <2>14, <3>1, <3>2 DEF HangupSends, SendBye
    <3>3. CASE conn # "up"
      BY <1>0, <1>3, <2>0, <2>14, <3>1, <3>3 DEF HangupSends, Leave, InDial, DataTypes
    <3>. QED
      BY <3>2, <3>3
  <2>15. CASE SendSwitch(s)
    <3>1. /\ \A t \in Tasks \ {s} : pc'[t] = pc[t] /\ at'[t] = at[t]
          /\ pc'[s] = "msg" /\ UNCHANGED <<conn, call, ended, watch, mine, calls, gw>>
      BY <1>0, <2>0, <2>15 DEF SendSwitch, Go, DataTypes, sip
    <3>2. SessionInv(s)' /\ ByeInv(s)'
      BY <2>0, <3>1 DEF SessionInv, ByeInv, Inviting, InDial
    <3>. QED
      BY <1>0, <1>1, <2>0, <3>1, <3>2, QuietMove
  <2>16. CASE SwitchRefused(s)
    BY <1>1, <1>2, <2>0, <2>16 DEF SwitchRefused, Leave, InDial, sip
  <2>17. CASE SwitchDone(s)
    <3>1. CASE UNCHANGED sip
      BY <1>1, <1>2, <2>0, <2>17, <3>1 DEF SwitchDone, Leave, InDial, sip
    <3>2. CASE Reset({})
      BY <1>3, <2>0, <2>17, <3>2 DEF SwitchDone, Leave, InDial, Holding
    <3>. QED
      BY <2>17, <3>1, <3>2 DEF SwitchDone
  <2>. QED
    BY <1>5, <2>1, <2>2, <2>3, <2>4, <2>5, <2>6, <2>7, <2>8, <2>9, <2>10, <2>11, <2>12, <2>13,
       <2>14, <2>15, <2>16, <2>17 DEF Progress
<1>6. ASSUME NEW s \in Sessions, Dial(s) PROVE CallInv'
  BY <1>0, <1>1, <1>2, <1>6 DEF Dial, Await, Go, InDial, sip, task
<1>7. ASSUME NEW s \in Sessions, Hangup(s) \/ HangupCancelled(s) PROVE CallInv'
  <2>0. \A t \in Tasks \ {s} : pc'[t] = pc[t] /\ at'[t] = at[t]
    BY <1>0, <1>7 DEF Hangup, HangupCancelled, Await, Leave, Go, DataTypes, task
  <2>1. UNCHANGED <<conn, call, ended, mine, calls, gw>>
    BY <1>7 DEF Hangup, HangupCancelled, sip, task
  <2>2. \A t \in Sessions \ {s} : watch'[t] = watch[t]
    BY <1>0, <1>7 DEF Hangup, HangupCancelled, sip, SharedTypes
  <2>3. SessionInv(s)' /\ ByeInv(s)'
    <3>1. CASE Hangup(s)
      <4>1. pc'[s] = "h_lock" /\ watch'[s] = "none" /\ mine[s] # 0
        BY <1>0, <3>1 DEF Hangup, Await, Go, SharedTypes
      <4>. QED
        BY <1>0, <2>1, <4>1 DEF SessionInv, ByeInv, Inviting, InDial
    <3>2. CASE HangupCancelled(s)
      <4>1. pc'[s] = "idle" /\ watch'[s] = watch[s]
        BY <1>0, <3>2 DEF HangupCancelled, Leave, Go, sip
      <4>. QED
        BY <1>0, <2>1, <4>1 DEF SessionInv, ByeInv, Inviting, InDial
    <3>. QED
      BY <1>7, <3>1, <3>2
  <2>. QED
    BY <1>0, <1>1, <2>0, <2>1, <2>2, <2>3, QuietMove
<1>8. ASSUME NEW t \in Tasks, ByeDone(t) PROVE CallInv'
  <2>1. /\ at[t] \in CallIds /\ Finish(at[t]) /\ call' = 0 /\ UNCHANGED <<conn, calls, gw>>
    BY <1>0, <1>8 DEF ByeDone, ByeInv, CallIds, Finish
  <2>2. /\ pc'[t] \in {"idle", "unregister", "d_lock"}
        /\ \A u \in Tasks \ {t} : pc'[u] = pc[u] /\ at'[u] = at[u]
    BY <1>0, <1>8 DEF ByeDone, Release, Leave, Go, DataTypes
  <2>3. \A u \in Sessions \ {t} : mine'[u] = mine[u]
    BY <1>0, <1>8 DEF ByeDone, DataTypes
  <2>4. t \in Sessions => mine'[t] \in {0, mine[t]} /\ (InDial(t)' => mine'[t] = 0)
    BY <1>0, <1>8, <2>2 DEF ByeDone, DataTypes, SessionInv, InDial
  <2>. QED
    BY <1>0, <2>1, <2>2, <2>3, <2>4, FinishMove
<1>9. CASE Close \/ CloseHangsUp \/ CloseResets
  <2>0. Unloader \in Tasks /\ Unloader \notin Sessions
    BY DialerAssumption DEF Tasks
  <2>1. ASSUME UNCHANGED <<sip, mine, calls, gw>>, NEW to \in {"x_lock", "unregister"},
               Go(Unloader, to), UNCHANGED at
        PROVE  CallInv'
    <3>1. pc'[Unloader] = to /\ \A t \in Tasks \ {Unloader} : pc'[t] = pc[t]
      BY <1>0, <2>0, <2>1 DEF Go
    <3>2. ByeInv(Unloader)'
      BY <3>1 DEF ByeInv
    <3>. QED
      BY <1>0, <1>1, <2>0, <2>1, <3>1, <3>2, QuietMove DEF sip
  <2>2. ASSUME Reset({}), UNCHANGED <<mine, calls, gw>>, Holds(Unloader),
               NEW to \in {"unregister", "closed"}, Go(Unloader, to)
        PROVE  CallInv'
    <3>1. pc'[Unloader] = to /\ \A t \in Tasks \ {Unloader} : pc'[t] = pc[t]
      BY <1>0, <2>0, <2>2 DEF Go
    <3>. QED
      BY <1>0, <2>0, <2>2, <3>1, ResetMove
  <2>3. CASE Close
    BY <2>1, <2>3 DEF Close, Await, task
  <2>4. CASE CloseHangsUp
    <3>1. CASE call # 0 /\ conn = "up"
      <4>1. SendBye(Unloader, "bye") /\ UNCHANGED <<sip, mine, calls>> /\ pc[Unloader] = "x_lock"
        BY <2>4, <3>1 DEF CloseHangsUp
      <4>2. pc'[Unloader] = "bye"
        BY <1>0, <2>0, <4>1 DEF SendBye, Go
      <4>. QED
        BY <1>4, <2>0, <3>1, <4>1, <4>2
    <3>2. CASE ~(call # 0 /\ conn = "up")
      BY <2>1, <2>2, <2>4, <3>2 DEF CloseHangsUp
    <3>. QED
      BY <3>1, <3>2
  <2>5. CASE CloseResets
    BY <1>0, <2>0, <2>2, <2>5 DEF CloseResets, Release, Leave, Holding
  <2>. QED
    BY <1>9, <2>3, <2>4, <2>5
<1>10. CASE ReadFrame
  <2>1. Head(wire) = wire[1] /\ 1 \in 1..Len(wire)
    BY <1>0, <1>10 DEF ReadFrame, FrameInv
  <2>2. Head(wire).id \in CallIds
    BY <1>0, <2>1, FrameSeqs
  <2>3. UNCHANGED <<conn, calls, gw, pc, at, mine>> /\ Unloader \in Tasks
    BY <1>10 DEF ReadFrame, task, Tasks
  <2>4. CASE Finish(Head(wire).id)
    BY <1>0, <2>2, <2>3, <2>4, FinishMove
  <2>5. CASE UNCHANGED <<call, pending, ended, watch>>
    <3>1. \A t \in Sessions : SessionInv(t)'
      BY <1>0, <2>3, <2>5 DEF SessionInv, InDial, Inviting
    <3>2. \A t \in Tasks : ByeInv(t)'
      BY <1>0, <2>3, <2>5 DEF ByeInv
    <3>. QED
      BY <1>0, <2>3, <2>5, <3>1, <3>2 DEF CallInv
  <2>. QED
    BY <1>10, <2>4, <2>5 DEF ReadFrame
<1>11. CASE LoseConnection
  <2>1. UNCHANGED <<call, ended, watch, pc, at, mine, calls, gw>> /\ conn = "up"
    BY <1>11 DEF LoseConnection, task
  <2>2. \A t \in Sessions : SessionInv(t)'
    BY <1>0, <2>1 DEF SessionInv, InDial, Inviting
  <2>3. \A t \in Tasks : ByeInv(t)'
    BY <1>0, <2>1 DEF ByeInv
  <2>. QED
    BY <1>0, <2>1, <2>2, <2>3 DEF CallInv
<1>12. ASSUME NEW i \in CallIds, Gateway(i) PROVE CallInv'
  <2>1. UNCHANGED <<conn, call, ended, watch, pc, at, mine, calls>> /\ Unloader \in Tasks
    BY <1>12 DEF Gateway, Trying, Challenge, Accept, Refuse, GatewayBye, GatewaySends, task, Tasks
  <2>2. \A j \in CallIds : \/ gw'[j] = gw[j]
                           \/ gw[j] = "up" /\ gw'[j] = "ended"
                           \/ gw[j] \in {"invited", "ringing", "authed"}
    BY <1>0, <1>12 DEF Gateway, Trying, Challenge, Accept, Refuse, GatewayBye, GatewaySends,
                       Unanswered, DataTypes
  <2>3. Orderly
    BY <1>0, <2>1, <2>2 DEF Orderly, CallInv
  <2>4. \A t \in Sessions : SessionInv(t)'
    BY <1>0, <2>1 DEF SessionInv, InDial, Inviting
  <2>5. ASSUME NEW t \in Tasks PROVE ByeInv(t)'
    BY <1>0, <2>1, <2>3 DEF ByeInv, Orderly, CallIds
  <2>. QED
    BY <1>0, <2>1, <2>3, <2>4, <2>5 DEF CallInv, Orderly, SharedTypes, CallIds
<1>13. CASE UNCHANGED vars
  <2>1. UNCHANGED <<conn, call, ended, watch, pc, at, mine, calls, gw>>
    BY <1>13 DEF vars, sip, task
  <2>2. \A t \in Sessions : SessionInv(t)'
    BY <1>0, <2>1 DEF SessionInv, InDial, Inviting
  <2>3. \A t \in Tasks : ByeInv(t)'
    BY <1>0, <2>1 DEF ByeInv
  <2>. QED
    BY <1>0, <2>1, <2>2, <2>3 DEF CallInv
\* The unloading task drops a frame.
<1>14. CASE Discard(Unloader)
  <2>1. UNCHANGED <<conn, call, ended, watch, pc, at, mine, calls, gw>>
    BY <1>14 DEF Discard, task
  <2>2. \A t \in Sessions : SessionInv(t)'
    BY <1>0, <2>1 DEF SessionInv, InDial, Inviting
  <2>3. \A t \in Tasks : ByeInv(t)'
    BY <1>0, <2>1 DEF ByeInv
  <2>. QED
    BY <1>0, <2>1, <2>2, <2>3 DEF CallInv
<1>. QED
  BY <1>5, <1>6, <1>7, <1>8, <1>9, <1>10, <1>11, <1>12, <1>13, <1>14 DEF Next

----------------------------------------------------------------------------
(* What the gateway holds open, and what it has ended.                     *)

\* Task s moves; it goes on with its INVITE, or has an answer to it, or gives
\* it up.
LEMMA TrackMoved ==
  ASSUME TrackInv, EndInv, NEW s \in Tasks,
         \A t \in Sessions \ {s} : pc'[t] = pc[t] /\ at'[t] = at[t],
         UNCHANGED <<call, wire>>, dropped \subseteq dropped', ended \subseteq ended',
         conn' = conn \/ conn' # "up",
         \A i \in CallIds : /\ Open(i)' => Open(i)
                            /\ gw'[i] = "ended" => gw[i] = "ended",
         \A i \in CallIds : s \in Sessions /\ Inviting(s) /\ at[s] = i /\ Open(i)' =>
                              i \in dropped' \/ (Inviting(s)' /\ at'[s] = i),
         s \in Sessions /\ Inviting(s)' => Inviting(s) /\ at'[s] = at[s]
  PROVE  TrackInv' /\ EndInv'
<1>1. ASSUME NEW i \in CallIds, Tracked(i), Open(i)' PROVE i \in dropped' \/ Tracked(i)'
  BY <1>1 DEF Tracked, Inviting
<1>2. ASSUME NEW i \in CallIds, Tracked(i)' PROVE Tracked(i)
  BY <1>2 DEF Tracked, Inviting
<1>3. ASSUME NEW i \in CallIds, ByeKnown(i) PROVE ByeKnown(i)'
  BY <1>3 DEF ByeKnown, Bye
<1>4. TrackInv'
  BY <1>1 DEF TrackInv
<1>5. EndInv'
  BY <1>2, <1>3 DEF EndInv
<1>. QED
  BY <1>4, <1>5

\* Nothing stays tracked after a reset by the holder.
LEMMA TrackReset ==
  ASSUME DataTypes, LockInv, TrackInv, NEW s \in Tasks, Holds(s), NEW also, Reset(also),
         UNCHANGED gw, s \in Sessions /\ Inviting(s) => at[s] \in also
  PROVE  TrackInv' /\ EndInv'
<1>1. dropped' = dropped \cup also \cup ({call} \ {0}) /\ conn' = "none"
  BY ResetTypes
<1>2. ASSUME NEW i \in CallIds, Tracked(i) PROVE i \in dropped'
  <2>1. ASSUME NEW t \in Sessions, Inviting(t), at[t] = i PROVE i \in also
    <3>1. t = s
      BY <2>1, OneHolder DEF Inviting, Holding, Tasks
    <3>. QED
      BY <2>1, <3>1
  <2>. QED
    BY <1>1, <1>2, <2>1 DEF Tracked
<1>3. \A i \in CallIds : Open(i)' <=> Open(i)
  BY DEF Open, Unanswered
<1>. QED
  BY <1>1, <1>2, <1>3 DEF TrackInv, EndInv

\* A call is over that the gateway does not hold open.
LEMMA TrackFinish ==
  ASSUME DataTypes, TrackInv, EndInv, NEW i \in CallIds, Finish(i), ~Open(i),
         \A t \in Sessions : Inviting(t)' <=> Inviting(t),
         \A t \in Sessions : Inviting(t) => at'[t] = at[t],
         UNCHANGED <<conn, gw, dropped>>,
         \A j \in CallIds \ {i} : ByeKnown(j) => ByeKnown(j)'
  PROVE  TrackInv' /\ EndInv'
<1>1. ended' = ended \cup {i} /\ (call' = call \/ (call' = 0 /\ call = i)) /\ call' # i
  BY FinishTypes DEF Finish
<1>2. ASSUME NEW j \in CallIds PROVE Open(j)' <=> Open(j)
  BY DEF Open, Unanswered
<1>3. ASSUME NEW j \in CallIds, j # i, Tracked(j) PROVE Tracked(j)'
  BY <1>1, <1>3 DEF Tracked
<1>4. ASSUME NEW j \in CallIds, Tracked(j)' PROVE Tracked(j)
  BY <1>1, <1>4 DEF Tracked
<1>5. ByeKnown(i)'
  BY <1>1 DEF ByeKnown
<1>6. TrackInv'
  BY <1>2, <1>3 DEF TrackInv
<1>7. EndInv'
  BY <1>4, <1>5 DEF EndInv
<1>. QED
  BY <1>6, <1>7

\* Every step keeps open calls tracked and the gateway's end on its way.
LEMMA TrackStep == DialerInv /\ [Next]_vars => TrackInv' /\ EndInv'
<1> SUFFICES ASSUME DialerInv, [Next]_vars PROVE TrackInv' /\ EndInv'
  OBVIOUS
<1>0. /\ DataTypes /\ SharedTypes /\ CallInv /\ LockInv /\ FrameInv /\ TrackInv /\ EndInv
      /\ \A t \in Sessions : t \in Tasks /\ t # Unloader /\ SessionInv(t)
      /\ pc \in [Tasks -> Places] /\ calls \in Nat
      /\ \A t \in Tasks : ByeInv(t) /\ at[t] \in 0..MaxCalls /\ (pc[t] \in Holding => Holds(t))
  BY DialerAssumption DEF DialerInv, DataTypes, PcTypes, Tasks, CallInv, LockInv
<1>1. UNCHANGED gw => \A i \in CallIds : /\ Open(i)' => Open(i)
                                         /\ gw'[i] = "ended" => gw[i] = "ended"
  BY DEF Open, Unanswered
<1>2. ASSUME UNCHANGED <<conn, call, ended, wire, dropped, pc, at, gw>>
      PROVE  TrackInv' /\ EndInv'
  BY <1>0, <1>2 DEF TrackInv, EndInv, Tracked, Inviting, Open, Unanswered, ByeKnown, Bye
\* Steps of a task that is not and will not be inviting.
<1>3. ASSUME NEW s \in Tasks, ~Inviting(s), ~Inviting(s)',
             \A t \in Tasks \ {s} : pc'[t] = pc[t] /\ at'[t] = at[t],
             UNCHANGED <<call, ended, wire, dropped>>, conn' = conn \/ conn' # "up",
             \A i \in CallIds : gw'[i] = gw[i] \/ (gw[i] = "up" /\ gw'[i] = "released")
      PROVE  TrackInv' /\ EndInv'
  <2>1. \A i \in CallIds : /\ Open(i)' => Open(i)
                           /\ gw'[i] = "ended" => gw[i] = "ended"
    BY <1>3 DEF Open, Unanswered
  <2>. QED
    BY <1>0, <1>3, <2>1, TrackMoved
<1>4. ASSUME NEW s \in Sessions, Progress(s) PROVE TrackInv' /\ EndInv'
  <2>0. /\ s \in Tasks /\ (pc[s] \in Holding => Holds(s)) /\ SessionInv(s)
        /\ \A to : Go(s, to) => pc'[s] = to /\ \A t \in Tasks \ {s} : pc'[t] = pc[t]
        /\ \A t \in Tasks \ {s} : Leave(s, "idle") => at'[t] = at[t]
        /\ Inviting(s) => Holds(s) /\ at[s] \in CallIds
    BY <1>0 DEF Go, Leave, Holding, Inviting, SessionInv, CallIds, DataTypes
  <2>1. ASSUME UNCHANGED <<sip, gw>>, NEW to, to \notin {"invite", "proceed"}, Leave(s, to),
               ~Inviting(s)
        PROVE  TrackInv' /\ EndInv'
    <3>1. ~Inviting(s)' /\ \A t \in Tasks \ {s} : pc'[t] = pc[t] /\ at'[t] = at[t]
      BY <1>0, <2>0, <2>1 DEF Leave, Inviting, DataTypes
    <3>. QED
      BY <1>3, <2>0, <2>1, <3>1 DEF sip
  <2>2. ASSUME ~Inviting(s), Holds(s), Reset({}), UNCHANGED gw PROVE TrackInv' /\ EndInv'
    BY <1>0, <2>0, <2>2, TrackReset
  <2>3. ASSUME ~Inviting(s), NEW to \in {"replace", "bye"}, SendBye(s, to), UNCHANGED sip
        PROVE  TrackInv' /\ EndInv'
    <3>1. ~Inviting(s)' /\ \A t \in Tasks \ {s} : pc'[t] = pc[t] /\ at'[t] = at[t]
      BY <1>0, <2>0, <2>3 DEF SendBye, Inviting, DataTypes
    <3>2. \A i \in CallIds : gw'[i] = gw[i] \/ (gw[i] = "up" /\ gw'[i] = "released")
      BY <1>0, <2>3 DEF SendBye, DataTypes
    <3>. QED
      BY <1>3, <2>0, <2>3, <3>1, <3>2 DEF sip
  <2> USE DEF Release, Reacquire, DialRaises, DialLosesConnection
  <2>4. CASE EnsureConnected(s)
    BY <2>0, <2>1, <2>2, <2>4 DEF EnsureConnected, Inviting
  \* A new connection begins without a call.
  <2>5. CASE Connected(s)
    <3>1. call = 0 /\ Holds(s) /\ ~Inviting(s) /\ UNCHANGED <<call, gw, dropped>>
      BY <2>0, <2>5 DEF Connected, SessionInv, Inviting, Holding
    <3>2. \A t \in Sessions : ~Inviting(t)
      BY <1>0, <2>0, <3>1, OneHolder DEF Inviting, Holding
    <3>3. \A t \in Sessions : ~Inviting(t)'
      BY <2>0, <2>5, <3>2 DEF Connected, Leave, Inviting, Tasks
    <3>4. \A i \in CallIds : ~Tracked(i) /\ ~Tracked(i)'
      BY <3>1, <3>2, <3>3 DEF Tracked
    <3>. QED
      BY <1>0, <1>1, <3>1, <3>4 DEF TrackInv, EndInv
  <2>6. CASE ConnectFails(s)
    BY <2>0, <2>1, <2>6 DEF ConnectFails, Inviting
  <2>7. CASE ResetAndRetry(s)
    BY <2>0, <2>2, <2>7 DEF ResetAndRetry, Inviting
  <2>8. CASE BumpCall(s)
    BY <2>0, <2>2, <2>3, <2>8 DEF BumpCall, Inviting
  <2>9. CASE SendInvite(s)
    <3>0. ~Inviting(s) /\ Holds(s)
      BY <2>9 DEF SendInvite, Inviting
    <3>1. CASE conn = "lost"
      BY <2>2, <2>9, <3>0, <3>1 DEF SendInvite
    <3>2. CASE conn = "none"
      <4>1. ~Inviting(s)' /\ \A t \in Tasks \ {s} : pc'[t] = pc[t] /\ at'[t] = at[t]
        BY <1>0, <2>0, <2>9, <3>2 DEF SendInvite, Leave, Inviting, DataTypes
      <4>. QED
        BY <1>3, <2>0, <2>9, <3>0, <3>2, <4>1 DEF SendInvite
    \* The INVITE of s is the one that is tracked from now on.
    <3>3. CASE conn = "up"
      <4>1. /\ Inviting(s)' /\ at'[s] = calls + 1
            /\ \A t \in Tasks \ {s} : pc'[t] = pc[t] /\ at'[t] = at[t]
            /\ UNCHANGED <<conn, call, ended, wire, dropped>>
        BY <1>0, <2>0, <2>9, <3>3 DEF SendInvite, Inviting, DataTypes
      <4>2. \A i \in CallIds : gw'[i] = IF i = calls + 1 THEN "invited" ELSE gw[i]
        BY <1>0, <2>9, <3>3 DEF SendInvite, DataTypes
      <4>3. ASSUME NEW i \in CallIds, i # calls + 1
            PROVE  /\ Open(i)' <=> Open(i)
                   /\ Tracked(i)' <=> Tracked(i)
                   /\ ByeKnown(i)' <=> ByeKnown(i)
        <5>1. Open(i)' <=> Open(i)
          BY <4>2, <4>3 DEF Open, Unanswered
        <5>2. \A t \in Sessions : (Inviting(t)' /\ at'[t] = i) <=> (Inviting(t) /\ at[t] = i)
          BY <1>0, <3>0, <4>1, <4>3 DEF Inviting
        <5>3. Tracked(i)' <=> Tracked(i)
          BY <4>1, <5>2 DEF Tracked
        <5>. QED
          BY <4>1, <5>1, <5>3 DEF ByeKnown, Bye
      <4>4. \A i \in CallIds : i = calls + 1 => Tracked(i)' /\ gw'[i] # "ended"
        BY <4>1, <4>2 DEF Tracked
      <4>5. TrackInv'
        BY <1>0, <4>1, <4>3, <4>4 DEF TrackInv
      <4>6. EndInv'
        BY <1>0, <4>1, <4>2, <4>3, <4>4 DEF EndInv
      <4>. QED
        BY <4>5, <4>6
    <3>. QED
      BY <1>0, <3>1, <3>2, <3>3 DEF SharedTypes
  <2>10. CASE AnswerChallenge(s) \/ Proceeding(s)
    <3>0. Inviting(s) /\ Holds(s) /\ at[s] \in CallIds
      BY <2>0, <2>10 DEF AnswerChallenge, Proceeding, InviteAnswered, Inviting
    <3>1. CASE AnswerChallenge(s) /\ conn # "up"
      BY <1>0, <3>0, <3>1, TrackReset DEF AnswerChallenge, Tasks
    <3>2. CASE Proceeding(s) \/ conn = "up"
      <4>1. /\ Inviting(s)' /\ UNCHANGED <<conn, call, ended, wire, dropped, at>>
            /\ \A t \in Tasks \ {s} : pc'[t] = pc[t]
        BY <2>0, <2>10, <3>2 DEF AnswerChallenge, Proceeding, Inviting, task
      <4>2. \A i \in CallIds : gw'[i] = gw[i] \/ (gw[i] = "challenged" /\ gw'[i] = "authed")
        BY <1>0, <2>10, <3>0, <3>2 DEF AnswerChallenge, Proceeding, DataTypes
      <4>3. \A i \in CallIds : /\ Open(i)' => Open(i)
                               /\ gw'[i] = "ended" => gw[i] = "ended"
        BY <4>2 DEF Open, Unanswered
      <4>. QED
        BY <1>0, <2>0, <3>0, <4>1, <4>3, TrackMoved
    <3>. QED
      BY <2>10, <3>1, <3>2
  \* A final answer, or none: the INVITE is no longer tracked.
  <2>11. ASSUME UNCHANGED <<conn, call, ended, wire>>, dropped \subseteq dropped', Inviting(s),
                NEW to, to \notin {"invite", "proceed"},
                Leave(s, to) \/ (Go(s, to) /\ UNCHANGED at),
                \A i \in CallIds : gw'[i] = gw[i] \/ gw'[i] = "released",
                \A i \in CallIds : i = at[s] /\ Open(i)' => i \in dropped'
         PROVE  TrackInv' /\ EndInv'
    <3>1. ~Inviting(s)' /\ \A t \in Tasks \ {s} : pc'[t] = pc[t] /\ at'[t] = at[t]
      BY <1>0, <2>0, <2>11 DEF Leave, Inviting, DataTypes
    <3>2. \A i \in CallIds : /\ Open(i)' => Open(i)
                             /\ gw'[i] = "ended" => gw[i] = "ended"
      BY <2>11 DEF Open, Unanswered
    <3>. QED
      BY <1>0, <2>0, <2>11, <3>1, <3>2, TrackMoved
  <2>12. CASE Rejected(s)
    <3>1. /\ Inviting(s) /\ queue # <<>> /\ at[s] \in CallIds
          /\ Head(queue) \in {[k |-> "401", id |-> at[s]], [k |-> "4xx", id |-> at[s]]}
      BY <2>0, <2>12 DEF Rejected, InviteAnswered, Inviting
    <3>2. Head(queue).id = at[s] /\ Fits(Head(queue), gw)
      BY <1>0, <3>1 DEF FrameInv
    <3>3. gw[at[s]] \in {"challenged", "refused"}
      BY <3>1, <3>2 DEF Fits
    <3>4. \A i \in CallIds : /\ gw'[i] = gw[i] \/ gw'[i] = "released"
                             /\ i = at[s] => gw'[i] \in {"released", "refused"}
      BY <1>0, <2>12, <3>1, <3>3 DEF Rejected, DataTypes
    <3>5. \A i \in CallIds : i = at[s] => ~Open(i)'
      BY <3>4 DEF Open, Unanswered
    <3>. QED
      BY <2>11, <2>12, <3>1, <3>4, <3>5 DEF Rejected
  <2>13. CASE CallAccepted(s)
    <3>0. Inviting(s) /\ Holds(s) /\ at[s] \in CallIds /\ call = 0
      BY <2>0, <2>13 DEF CallAccepted, InviteAnswered, Inviting, SessionInv
    <3>1. CASE conn # "up"
      BY <1>0, <3>0, <2>13, <3>1, TrackReset DEF CallAccepted, Tasks
    <3>2. CASE conn = "up"
      <4>1. /\ call' = at[s] /\ ~Inviting(s)' /\ UNCHANGED <<conn, ended, wire, dropped, gw>>
            /\ \A t \in Tasks \ {s} : pc'[t] = pc[t] /\ at'[t] = at[t]
        BY <1>0, <2>0, <2>13, <3>2 DEF CallAccepted, Leave, Inviting, DataTypes
      <4>2. \A t \in Sessions \ {s} : ~Inviting(t) /\ ~Inviting(t)'
        BY <1>0, <2>0, <3>0, <4>1, OneHolder DEF Inviting, Holding
      <4>3. \A i \in CallIds : Tracked(i) <=> Tracked(i)'
        BY <1>0, <3>0, <4>1, <4>2 DEF Tracked, CallIds
      <4>4. \A i \in CallIds : ByeKnown(i) <=> ByeKnown(i)'
        BY <4>1 DEF ByeKnown, Bye
      <4>. QED
        BY <1>0, <1>1, <4>1, <4>3, <4>4 DEF TrackInv, EndInv
    <3>. QED
      BY <3>1, <3>2
  <2>14. CASE AnswerUnusable(s)
    <3>1. Inviting(s) /\ queue # <<>> /\ Head(queue) = [k |-> "200", id |-> at[s]]
          /\ at[s] \in CallIds
      BY <2>0, <2>14 DEF AnswerUnusable, InviteAnswered, Inviting
    <3>2. Fits(Head(queue), gw)
      BY <1>0, <3>1 DEF FrameInv
    <3>3. gw[at[s]] \in {"up", "ended", "released"}
      BY <3>1, <3>2 DEF Fits
    <3>4. \A i \in CallIds : /\ gw'[i] = gw[i] \/ gw'[i] = "released"
                             /\ i = at[s] => gw'[i] \in {"released", "ended"}
      BY <1>0, <2>14, <3>1, <3>3 DEF AnswerUnusable, DataTypes
    <3>5. \A i \in CallIds : i = at[s] => ~Open(i)'
      BY <3>4 DEF Open, Unanswered
    <3>. QED
      BY <2>11, <2>14, <3>1, <3>4, <3>5 DEF AnswerUnusable, task
  <2>15. CASE ByeGivenUp(s)
    BY <2>0, <2>1, <2>15 DEF ByeGivenUp, Inviting
  <2>16. CASE InviteTimeout(s)
    BY <2>0, <2>11, <2>16 DEF InviteTimeout, Inviting
  <2>17. CASE Discard(s)
    BY <1>2, <2>17 DEF Discard, task
  <2>18. CASE HangupSkipped(s)
    BY <2>0, <2>1, <2>18 DEF HangupSkipped, Inviting
  <2>19. CASE HangupSends(s)
    BY <2>0, <2>2, <2>3, <2>19 DEF HangupSends, Inviting
  <2>20. CASE SendSwitch(s)
    <3>1. /\ ~Inviting(s) /\ ~Inviting(s)' /\ UNCHANGED <<sip, gw>>
          /\ \A t \in Tasks \ {s} : pc'[t] = pc[t] /\ at'[t] = at[t]
      BY <1>0, <2>0, <2>20 DEF SendSwitch, Inviting, DataTypes
    <3>. QED
      BY <1>3, <2>0, <3>1 DEF sip
  <2>21. CASE SwitchRefused(s)
    BY <2>0, <2>1, <2>21 DEF SwitchRefused, Inviting
  <2>22. CASE SwitchDone(s)
    BY <2>0, <2>1, <2>2, <2>22 DEF SwitchDone, Inviting, Holding
  <2>. QED
    BY <1>4, <2>4, <2>5, <2>6, <2>7, <2>8, <2>9, <2>10, <2>12, <2>13, <2>14, <2>15, <2>16,
       <2>17, <2>18, <2>19, <2>20, <2>21, <2>22 DEF Progress
<1>5. ASSUME NEW s \in Sessions, Dial(s) \/ Hangup(s) \/ HangupCancelled(s)
      PROVE  TrackInv' /\ EndInv'
  <2>1. /\ ~Inviting(s) /\ ~Inviting(s)' /\ s \in Tasks
        /\ UNCHANGED <<conn, call, ended, wire, dropped, gw>>
        /\ \A t \in Tasks \ {s} : pc'[t] = pc[t] /\ at'[t] = at[t]
    BY <1>0, <1>5 DEF Dial, Hangup, HangupCancelled, Await, Leave, Go, Inviting, DataTypes, sip,
       task
  <2>. QED
    BY <1>3, <2>1
<1>6. ASSUME NEW t \in Tasks, ByeDone(t) PROVE TrackInv' /\ EndInv'
  <2>1. /\ at[t] \in CallIds /\ Finish(at[t]) /\ UNCHANGED <<conn, gw, dropped, wire>>
        /\ gw[at[t]] \in {"ended", "released"} /\ ended' = ended \cup {at[t]}
    BY <1>0, <1>6 DEF ByeDone, ByeInv, CallIds, Finish
  <2>2. /\ ~Inviting(t) /\ ~Inviting(t)'
        /\ \A u \in Tasks \ {t} : pc'[u] = pc[u] /\ at'[u] = at[u]
    BY <1>0, <1>6 DEF ByeDone, Release, Leave, Go, Inviting, DataTypes
  <2>3. \A u \in Sessions : (Inviting(u)' <=> Inviting(u)) /\ (Inviting(u) => at'[u] = at[u])
    BY <1>0, <2>2 DEF Inviting
  <2>4. PICK i \in CallIds : i = at[t]
    BY <2>1
  <2>5. ~Open(i) /\ Finish(i)
    BY <2>1, <2>4 DEF Open, Unanswered
  <2>6. \A j \in CallIds : ByeKnown(j) => ByeKnown(j)'
    BY <2>1 DEF ByeKnown, Bye
  <2>. QED
    BY <1>0, <2>1, <2>3, <2>4, <2>5, <2>6, TrackFinish
<1>7. CASE Close \/ CloseHangsUp \/ CloseResets
  <2>0. Unloader \in Tasks /\ Unloader \notin Sessions
    BY DialerAssumption DEF Tasks
  <2>1. CASE Holds(Unloader) /\ Reset({}) /\ UNCHANGED gw
    BY <1>0, <2>0, <2>1, TrackReset
  <2>2. CASE UNCHANGED sip
    <3>1. \A i \in CallIds : gw'[i] = gw[i] \/ (gw[i] = "up" /\ gw'[i] = "released")
      BY <1>0, <1>7 DEF Close, CloseHangsUp, CloseResets, SendBye, DataTypes
    <3>2. \A t \in Tasks \ {Unloader} : pc'[t] = pc[t] /\ at'[t] = at[t]
      BY <1>0, <2>0, <1>7 DEF Close, CloseHangsUp, CloseResets, SendBye, Await, Release, Leave, Go,
                              DataTypes, task
    <3>3. ~Inviting(Unloader) /\ ~Inviting(Unloader)'
      BY <1>0, <2>0, <1>7 DEF Close, CloseHangsUp, CloseResets, SendBye, Await, Release, Leave, Go,
                              Inviting
    <3>. QED
      BY <1>3, <2>0, <2>2, <3>1, <3>2, <3>3 DEF sip
  <2>. QED
    BY <1>0, <1>7, <2>0, <2>1, <2>2 DEF Close, CloseHangsUp, CloseResets, Holding
<1>8. CASE ReadFrame
  <2>1. /\ wire # <<>> /\ Head(wire) = wire[1] /\ Len(wire) \in Nat \ {0} /\ 1 \in 1..Len(wire)
        /\ wire' = Tail(wire) /\ Len(wire') = Len(wire) - 1
        /\ \A n \in 1..Len(wire') : wire'[n] = wire[n + 1]
    BY <1>0, <1>8 DEF ReadFrame, FrameInv
  <2>2. Head(wire).id \in CallIds /\ Head(wire) \in Frame /\ Fits(Head(wire), gw)
    BY <1>0, <2>1, FrameSeqs DEF FrameInv
  <2>3. UNCHANGED <<conn, gw, pc, at, dropped>>
    BY <1>8 DEF ReadFrame, task
  \* A frame behind the first is still there.
  <2>4. ASSUME NEW j \in CallIds, Head(wire) # Bye(j), NEW n \in 1..Len(wire), wire[n] = Bye(j)
        PROVE  \E m \in 1..Len(wire') : wire'[m] = Bye(j)
    <3>1. n # 1 /\ n - 1 \in 1..Len(wire') /\ (n - 1) + 1 = n
      BY <2>1, <2>4
    <3>. QED
      BY <2>1, <2>4, <3>1
  <2>5. CASE IsBye(Head(wire))
    <3>1. PICK i \in CallIds : i = Head(wire).id
      BY <2>2
    <3>2. Finish(i) /\ gw[i] = "ended"
      BY <1>8, <2>2, <2>5, <3>1 DEF ReadFrame, IsBye, Fits
    <3>3. ~Open(i)
      BY <3>2 DEF Open, Unanswered
    <3>4. ASSUME NEW j \in CallIds \ {i}, ByeKnown(j) PROVE ByeKnown(j)'
      <4>1. Head(wire) # Bye(j)
        BY <3>1 DEF Bye
      <4>2. ended \subseteq ended'
        BY <3>2 DEF Finish
      <4>. QED
        BY <2>4, <3>4, <4>1, <4>2 DEF ByeKnown, Bye
    <3>5. \A t \in Sessions : (Inviting(t)' <=> Inviting(t)) /\ (Inviting(t) => at'[t] = at[t])
      BY <2>3 DEF Inviting
    <3>. QED
      BY <1>0, <2>3, <3>2, <3>3, <3>4, <3>5, TrackFinish
  <2>6. CASE ~IsBye(Head(wire))
    <3>1. UNCHANGED <<call, ended>>
      BY <1>8, <2>6 DEF ReadFrame
    <3>2. ASSUME NEW j \in CallIds, ByeKnown(j) PROVE ByeKnown(j)'
      <4>1. Head(wire) # Bye(j)
        BY <2>6 DEF Bye, IsBye
      <4>. QED
        BY <2>4, <3>1, <3>2, <4>1 DEF ByeKnown, Bye
    <3>3. \A j \in CallIds : (Tracked(j)' <=> Tracked(j)) /\ (Open(j)' <=> Open(j))
      BY <2>3, <3>1 DEF Tracked, Inviting, Open, Unanswered
    <3>. QED
      BY <1>0, <2>3, <3>2, <3>3 DEF TrackInv, EndInv
  <2>. QED
    BY <2>5, <2>6
<1>9. CASE LoseConnection
  <2>1. UNCHANGED <<call, dropped, pc, at, gw>> /\ conn' # "up"
    BY <1>9 DEF LoseConnection, task
  <2>. QED
    BY <1>0, <2>1 DEF TrackInv, EndInv, Tracked, Inviting, Open, Unanswered
<1>10. ASSUME NEW i \in CallIds, Gateway(i) PROVE TrackInv' /\ EndInv'
  <2>1. UNCHANGED <<conn, call, ended, dropped, pc, at>>
    BY <1>10 DEF Gateway, Trying, Challenge, Accept, Refuse, GatewayBye, GatewaySends, task
  <2>2. \A j \in CallIds : /\ Open(j)' => Open(j)
                           /\ gw'[j] = "ended" => gw[j] = "ended" \/ (j = i /\ GatewayBye(i))
    BY <1>0, <1>10 DEF Gateway, Trying, Challenge, Accept, Refuse, GatewayBye, GatewaySends,
                       Unanswered, Open, DataTypes
  <2>3. \A j \in CallIds : Tracked(j)' <=> Tracked(j)
    BY <2>1 DEF Tracked, Inviting
  <2>4. wire' = wire \/ \E f \in Frame : wire' = Append(wire, f)
    <3>1. \A kind \in {"100", "401", "200", "4xx", "BYE"} : [k |-> kind, id |-> i] \in Frame
      BY DEF Frame
    <3>. QED
      BY <1>10, <3>1 DEF Gateway, Trying, Challenge, Accept, Refuse, GatewayBye, GatewaySends
  <2>5. wire \in Seq(Frame) /\ Len(wire) \in Nat
    BY <1>0 DEF FrameInv
  <2>6. Len(wire) <= Len(wire') /\ Len(wire') \in Nat /\ \A n \in 1..Len(wire) : wire'[n] = wire[n]
    BY <2>4, <2>5
  <2>7. \A j \in CallIds : ByeKnown(j) => ByeKnown(j)'
    BY <2>1, <2>5, <2>6 DEF ByeKnown, Bye
  <2>8. GatewayBye(i) /\ conn' = "up" => ByeKnown(i)'
    <3>1. SUFFICES ASSUME GatewayBye(i), conn' = "up" PROVE ByeKnown(i)'
      OBVIOUS
    <3>2. wire' = Append(wire, Bye(i)) /\ Bye(i) \in Frame
      BY <2>1, <3>1 DEF GatewayBye, GatewaySends, Bye, Frame
    <3>3. Len(wire) + 1 \in 1..Len(wire') /\ wire'[Len(wire) + 1] = Bye(i)
      BY <2>5, <3>2
    <3>. QED
      BY <3>3 DEF ByeKnown, Bye
  <2>. QED
    BY <1>0, <2>1, <2>2, <2>3, <2>7, <2>8 DEF TrackInv, EndInv
<1>11. CASE UNCHANGED vars \/ Discard(Unloader)
  BY <1>2, <1>11 DEF vars, Discard, sip, task
<1>. QED
  BY <1>4, <1>5, <1>6, <1>7, <1>8, <1>9, <1>10, <1>11 DEF Next

----------------------------------------------------------------------------
(* The invariant, and the properties that follow from it.                  *)

\* Nobody has dialled.
LEMMA DialerInit == Init => DialerInv
<1> SUFFICES ASSUME Init PROVE DialerInv
  OBVIOUS
<1>1. /\ MaxCalls \in Nat /\ 0 \in 0..MaxCalls /\ 0 \in 0..MaxLosses /\ Unloader \notin Sessions
      /\ \A s \in Sessions : s \in Tasks /\ s # Unloader
      /\ Unloader \in Tasks
  BY DialerAssumption DEF Tasks
<1>2. \A t \in Tasks : pc[t] = "idle"
  BY DEF Init
<1>3. PcTypes
  BY <1>1, <1>2 DEF Init, PcTypes, Places
<1>4. LockInv
  BY <1>2 DEF Init, LockInv, Waiting, Holding
<1>5. DataTypes
  BY <1>1 DEF Init, DataTypes, SharedTypes
<1>6. RoomInv
  BY <1>1, <1>2 DEF Init, RoomInv, Dialing
<1>7. FrameInv
  BY DEF Init, FrameInv
<1>8. /\ \A s \in Sessions : SessionInv(s)
      /\ \A t \in Tasks : ByeInv(t)
  BY <1>1, <1>2 DEF Init, SessionInv, ByeInv, InDial, Inviting
<1>9. CallInv
  BY <1>8 DEF Init, CallInv
<1>10. \A i \in CallIds : ~Open(i) /\ gw[i] # "ended"
  BY DEF Init, Open, Unanswered
<1>11. TrackInv /\ EndInv
  BY <1>10 DEF TrackInv, EndInv
<1>. QED
  BY <1>3, <1>4, <1>5, <1>6, <1>7, <1>9, <1>11 DEF DialerInv

\* The lock is one task's at a time and each task stands in its queue once; who
\* is in an exchange with the gateway has it; the call that is active is one
\* session's; and what the gateway holds open is tracked or was given up on
\* (intercom_dialer.py: dial, hangup, close and the reader task).
THEOREM DialerSound == Spec => []DialerInv
<1>1. DialerInv /\ [Next]_vars => DialerInv'
  BY LockStep, TypesStep, FrameStep, RoomStep, CallStep, TrackStep DEF DialerInv
<1>. QED
  BY <1>1, DialerInit, PTL DEF Spec

\* Every variable of the dialer keeps its type (intercom_dialer.py, the
\* attributes of IntercomDialer).
THEOREM DialerTyped == Spec => []TypeOK
<1>1. DialerInv => TypeOK
  <2> SUFFICES ASSUME DialerInv PROVE TypeOK
    OBVIOUS
  <2>1. PcTypes /\ LockInv /\ DataTypes /\ SharedTypes /\ FrameInv
    BY DEF DialerInv, DataTypes
  <2>2. /\ lock \in Seq(Tasks)
        /\ {call, pending, calls} \subseteq 0..MaxCalls
        /\ {queue, wire} \subseteq Seq(Frame)
    BY <2>1 DEF LockInv, DataTypes, SharedTypes, FrameInv
  <2>3. pc \in [Tasks -> {"idle", "c_lock", "connecting", "d_lock", "r_lock", "replace",
                          "invite", "proceed", "best_effort", "h_lock", "bye", "m_lock",
                          "msg", "x_lock", "unregister", "closed"}]
    BY <2>1 DEF PcTypes, Places, Waiting, Holding
  <2>. QED
    BY <2>1, <2>2, <2>3 DEF TypeOK, DataTypes, SharedTypes
<1>. QED
  BY <1>1, DialerSound, PTL

\* Of the calls that were not given up on, the gateway has at most one open:
\* dial() bumps the active call in the hold of the lock in which it sends its
\* INVITE, whoever else dials, hangs up or is cancelled, and whatever the
\* gateway sends meanwhile (intercom_dialer.py:695-701).
THEOREM OneOpenCall == Spec => []ExclusiveUnlessDropped
<1>1. DialerInv => ExclusiveUnlessDropped
  <2> SUFFICES ASSUME DialerInv, NEW i \in CallIds \ dropped, NEW j \in CallIds \ dropped,
                      Open(i), Open(j)
               PROVE  i = j
    BY DEF ExclusiveUnlessDropped
  <2>1. Tracked(i) /\ Tracked(j)
    BY DEF DialerInv, TrackInv
  <2>2. ASSUME NEW s \in Sessions, Inviting(s) PROVE call = 0
    BY <2>2 DEF DialerInv, CallInv, SessionInv
  <2>3. ASSUME NEW s \in Sessions, NEW t \in Sessions, Inviting(s), Inviting(t) PROVE s = t
    <3>1. s \in Tasks /\ t \in Tasks /\ pc[s] \in Holding /\ pc[t] \in Holding /\ LockInv
      BY <2>3 DEF Tasks, Inviting, Holding, DialerInv
    <3>. QED
      BY <3>1 DEF LockInv, Holds
  <2>. QED
    BY <2>1, <2>2, <2>3 DEF Tracked
<1>. QED
  BY <1>1, DialerSound, PTL

\* Who waits in wait_call_end waits for the active call, and the gateway's end
\* of that call is on the wire, remembered, or the connection is down: no order
\* of BYE, hangup, bump, reset and a late wait leaves a session waiting for a
\* call that is gone (intercom_dialer.py: wait_call_end, _finish_call).
THEOREM EndIsHeard == Spec => []EndReachesWaiter
<1>1. DialerInv => EndReachesWaiter
  <2> SUFFICES ASSUME DialerInv PROVE EndReachesWaiter
    OBVIOUS
  <2>1. \A s \in Sessions : watch[s] = "waiting" => mine[s] = call /\ call \notin ended
    BY DEF DialerInv, CallInv, SessionInv
  <2>2. ASSUME call # 0, gw[call] = "ended"
        PROVE  [k |-> "BYE", id |-> call] \in ToSet(wire) \/ call \in ended \/ conn # "up"
    <3>1. call \in CallIds /\ Tracked(call)
      BY <2>2 DEF DialerInv, DataTypes, SharedTypes, CallIds, Tracked
    <3>2. conn = "up" => ByeKnown(call)
      BY <2>2, <3>1 DEF DialerInv, EndInv
    <3>3. wire \in Seq(Frame)
      BY DEF DialerInv, FrameInv
    <3>. QED
      BY <3>2, <3>3 DEF ByeKnown, Bye, ToSet
  <2>3. call # 0 => \E s \in Sessions : mine[s] = call
                      /\ \A t \in Sessions \ {s} : mine[t] # call
    BY DEF DialerInv, CallInv
  <2>. QED
    BY <2>1, <2>2, <2>3 DEF EndReachesWaiter
<1>. QED
  BY <1>1, DialerSound, PTL

----------------------------------------------------------------------------
(* The dialer implements IntercomLine.                                     *)

Owner == IF call = 0 THEN Unloader ELSE CHOOSE s \in Sessions : mine[s] = call
Cut == \/ call # 0 /\ gw[call] = "ended"
       \/ conn # "up"
       \/ pc[Unloader] \in {"bye", "unregister"}

\* Who the line belongs to is the one session whose call it is.
LEMMA OwnerFound ==
  ASSUME NEW m, NEW c, NEW s \in Sessions, m[s] = c, \A t \in Sessions \ {s} : m[t] # c
  PROVE  (CHOOSE t \in Sessions : m[t] = c) = s
<1>1. \A t \in Sessions : m[t] = c <=> t = s
  OBVIOUS
<1>. QED
  BY <1>1, Zenon

\* How the active call comes and goes: a session of its own that dials takes
\* it; it stays its session's; and it goes when it is cut, when somebody
\* dials, or when its session hangs up.
CallMoves ==
  /\ call' # call /\ call' # 0 =>
       call = 0 /\ \E s \in Sessions : InDial(s) /\ mine'[s] = call'
  /\ call' = call /\ call # 0 => \A s \in Sessions : mine[s] = call => mine'[s] = call
  /\ call' = 0 /\ call # 0 => \/ Cut
                              \/ \E s \in Sessions : InDial(s)
                              \/ \E s \in Sessions : pc[s] \in {"h_lock", "bye"} /\ mine[s] = call

\* Every step moves the active call as CallMoves says.
LEMMA CallMovesStep == DialerInv /\ [Next]_vars => CallMoves
<1> SUFFICES ASSUME DialerInv, [Next]_vars PROVE CallMoves
  OBVIOUS
<1>0. /\ DataTypes /\ SharedTypes /\ CallInv /\ FrameInv
      /\ \A s \in Sessions : s \in Tasks /\ SessionInv(s) /\ mine[s] \in 0..MaxCalls
      /\ \A t \in Tasks : ByeInv(t)
  BY DEF DialerInv, DataTypes, CallInv, Tasks
<1>1. ASSUME UNCHANGED <<call, mine>> PROVE CallMoves
  BY <1>1 DEF CallMoves
<1>2. ASSUME UNCHANGED mine, NEW also, Reset(also), Cut \/ \E s \in Sessions : InDial(s)
      PROVE  CallMoves
  <2>1. call' = 0
    BY <1>2 DEF Reset, Finish
  <2>. QED
    BY <1>2, <2>1 DEF CallMoves
<1>3. ASSUME NEW s \in Sessions, Progress(s) PROVE CallMoves
  <2>0. pc[s] \in {"c_lock", "connecting", "d_lock", "r_lock", "replace", "invite", "proceed",
                   "best_effort"} => InDial(s)
    BY DEF InDial
  <2> USE DEF DialRaises, DialLosesConnection
  <2>1. CASE EnsureConnected(s) \/ ResetAndRetry(s) \/ BumpCall(s) \/ SendInvite(s)
    BY <1>1, <1>2, <2>0, <2>1 DEF EnsureConnected, ResetAndRetry, BumpCall, SendInvite, sip
  <2>2. CASE AnswerChallenge(s)
    BY <1>1, <1>2, <2>0, <2>2 DEF AnswerChallenge, InviteAnswered
  <2>3. CASE CallAccepted(s)
    <3>1. pc[s] \in {"invite", "proceed"} /\ InDial(s) /\ call = 0
      BY <1>0, <2>0, <2>3 DEF CallAccepted, InviteAnswered, SessionInv, Inviting
    <3>2. CASE conn = "up"
      <4>1. call' = at[s] /\ mine'[s] = at[s]
        BY <1>0, <2>3, <3>2 DEF CallAccepted, DataTypes
      <4>. QED
        BY <3>1, <4>1 DEF CallMoves
    <3>3. CASE conn # "up"
      BY <1>2, <2>3, <3>1, <3>3 DEF CallAccepted
    <3>. QED
      BY <3>2, <3>3
  <2>4. CASE HangupSkipped(s)
    BY <1>0, <2>4 DEF HangupSkipped, OwnCall, CallMoves, DataTypes, sip
  <2>5. CASE HangupSends(s)
    <3>1. CASE conn # "up"
      <4>1. call' = 0 /\ Cut
        BY <2>5, <3>1 DEF HangupSends, Reset, Finish, Cut
      <4>. QED
        BY <4>1 DEF CallMoves
    <3>. QED
      BY <1>1, <2>5, <3>1 DEF HangupSends, sip
  <2>6. CASE SwitchDone(s)
    BY <1>1, <1>2, <2>6 DEF SwitchDone, Cut, sip
  <2>7. CASE \/ Connected(s) \/ ConnectFails(s) \/ Proceeding(s) \/ Rejected(s)
             \/ AnswerUnusable(s) \/ ByeGivenUp(s) \/ InviteTimeout(s) \/ Discard(s)
             \/ SendSwitch(s) \/ SwitchRefused(s)
    BY <1>1, <2>7 DEF Connected, ConnectFails, Proceeding, Rejected, AnswerUnusable, ByeGivenUp,
                      InviteTimeout, Discard, SendSwitch, SwitchRefused, sip, task
  <2>. QED
    BY <1>3, <2>1, <2>2, <2>3, <2>4, <2>5, <2>6, <2>7 DEF Progress
<1>4. ASSUME NEW s \in Sessions, Dial(s) \/ Hangup(s) \/ HangupCancelled(s) PROVE CallMoves
  BY <1>1, <1>4 DEF Dial, Hangup, HangupCancelled, sip, task
\* The call that is done is the active one or none.
<1>5. ASSUME NEW t \in Tasks, ByeDone(t) PROVE CallMoves
  <2>1. call' = 0 /\ (call # 0 => at[t] = call)
    BY <1>0, <1>5 DEF ByeDone, ByeInv, Finish
  <2>2. CASE pc[t] = "bye" /\ t \in Sessions
    BY <1>0, <2>1, <2>2 DEF CallMoves, SessionInv
  <2>3. CASE pc[t] = "bye" /\ t = Unloader
    BY <2>1, <2>3 DEF CallMoves, Cut
  <2>4. CASE pc[t] = "replace"
    <3>1. t \in Sessions /\ InDial(t)
      BY <2>4 DEF DialerInv, PcTypes, Tasks, InDial
    <3>. QED
      BY <2>1, <3>1 DEF CallMoves
  <2>. QED
    BY <1>5, <2>2, <2>3, <2>4 DEF ByeDone, Tasks
<1>6. CASE Close \/ CloseHangsUp \/ CloseResets
  BY <1>1, <1>2, <1>6 DEF Close, CloseHangsUp, CloseResets, Cut, sip, task
<1>7. CASE ReadFrame
  <2>1. UNCHANGED mine
    BY <1>7 DEF ReadFrame, task
  <2>2. CASE ~IsBye(Head(wire))
    BY <1>1, <1>7, <2>1, <2>2 DEF ReadFrame
  <2>3. CASE IsBye(Head(wire))
    <3>1. Fits(Head(wire), gw)
      BY <1>0, <1>7 DEF ReadFrame, FrameInv
    <3>2. call' = call \/ (call' = 0 /\ call = Head(wire).id)
      BY <1>7, <2>3 DEF ReadFrame, Finish
    <3>3. CASE call' = call
      BY <1>1, <2>1, <3>3
    <3>4. CASE call' = 0 /\ call = Head(wire).id
      BY <2>3, <3>1, <3>4 DEF CallMoves, Fits, IsBye, Cut
    <3>. QED
      BY <3>2, <3>3, <3>4
  <2>. QED
    BY <2>2, <2>3
<1>8. CASE LoseConnection \/ \E i \in CallIds : Gateway(i)
  BY <1>1, <1>8 DEF LoseConnection, Gateway, Trying, Challenge, Accept, Refuse, GatewayBye,
                    GatewaySends, task
<1>9. CASE UNCHANGED vars \/ Discard(Unloader)
  BY <1>1, <1>9 DEF vars, Discard, sip, task
<1>. QED
  BY <1>3, <1>4, <1>5, <1>6, <1>7, <1>8, <1>9 DEF Next

\* The abstract line begins idle.
LEMMA LineInit == Init => Line!Init
BY DEF Init, Line!Init, InDial

\* Every step is one of the abstract line, or leaves the line alone.
LEMMA LineStep == DialerInv /\ DialerInv' /\ [Next]_vars => [Line!Next]_Line!vars
<1> SUFFICES ASSUME DialerInv, DialerInv', [Next]_vars PROVE Line!Next
  OBVIOUS
<1>1. CallMoves
  BY CallMovesStep
<1>2. Unloader \notin Sessions
  BY DialerAssumption
<1>3. call # 0 => \E s \in Sessions : mine[s] = call /\ \A t \in Sessions \ {s} : mine[t] # call
  BY DEF DialerInv, CallInv
<1>4. call' # 0 =>
        \E s \in Sessions : mine'[s] = call' /\ \A t \in Sessions \ {s} : mine'[t] # call'
  BY DEF DialerInv, CallInv
<1>5. call # 0 => Owner \in Sessions /\ mine[Owner] = call
  <2>1. SUFFICES ASSUME call # 0 PROVE Owner \in Sessions /\ mine[Owner] = call
    OBVIOUS
  <2>2. PICK s \in Sessions : mine[s] = call /\ \A t \in Sessions \ {s} : mine[t] # call
    BY <1>3, <2>1
  <2>3. (CHOOSE t \in Sessions : mine[t] = call) = s
    BY <2>2, OwnerFound
  <2>. QED
    BY <2>1, <2>2, <2>3 DEF Owner
<1>6. ASSUME call' # 0, NEW s \in Sessions, mine'[s] = call' PROVE Owner' = s
  <2>1. \A t \in Sessions \ {s} : mine'[t] # call'
    BY <1>4, <1>6
  <2>2. (CHOOSE t \in Sessions : mine'[t] = call') = s
    BY <1>6, <2>1, OwnerFound
  <2>. QED
    BY <1>6, <2>2 DEF Owner
<1>7. call' = 0 => Owner' = Unloader
  BY DEF Owner
\* The line is taken, stays, or becomes free.
<1>8. \/ Owner' = Owner
      \/ \E s \in Sessions : InDial(s) /\ Owner = Unloader /\ Owner' = s
      \/ \E s \in Sessions : pc[s] \in {"h_lock", "bye"} /\ Owner = s /\ Owner' = Unloader
      \/ Owner # Unloader /\ Owner' = Unloader /\ \E s \in Sessions \ {Owner} : InDial(s)
      \/ Owner # Unloader /\ Owner' = Unloader /\ Cut
  <2>1. CASE call' = call /\ call = 0
    BY <1>7, <2>1 DEF Owner
  <2>2. CASE call' = call /\ call # 0
    <3>1. mine'[Owner] = call'
      BY <1>1, <1>5, <2>2 DEF CallMoves
    <3>. QED
      BY <1>5, <1>6, <2>2, <3>1
  <2>3. CASE call' # call /\ call' # 0
    <3>1. PICK s \in Sessions : InDial(s) /\ mine'[s] = call'
      BY <1>1, <2>3 DEF CallMoves
    <3>2. call = 0 /\ Owner' = s
      BY <1>1, <1>6, <2>3, <3>1 DEF CallMoves
    <3>. QED
      BY <3>1, <3>2 DEF Owner
  <2>4. CASE call' # call /\ call' = 0
    <3>1. Owner \in Sessions /\ mine[Owner] = call /\ Owner # Unloader /\ Owner' = Unloader
      BY <1>2, <1>5, <1>7, <2>4
    <3>2. CASE \E s \in Sessions : InDial(s)
      <4>1. PICK s \in Sessions : InDial(s)
        BY <3>2
      <4>2. mine[s] = 0
        BY <4>1 DEF DialerInv, CallInv, SessionInv
      <4>. QED
        BY <2>4, <3>1, <4>1, <4>2
    <3>3. ASSUME NEW s \in Sessions, pc[s] \in {"h_lock", "bye"}, mine[s] = call
          PROVE  s = Owner
      BY <1>3, <2>4, <3>1, <3>3
    <3>. QED
      BY <1>1, <2>4, <3>1, <3>2, <3>3 DEF CallMoves
  <2>. QED
    BY <2>1, <2>2, <2>3, <2>4
<1>. QED
  BY <1>8 DEF Line!Next, Line!Elsewhere, Line!Take, Line!HangUp, Line!Bumped, Line!Over,
              Owner, Cut

\* The dialer is a line that one session has at a time, that a dial takes only
\* when it is free, and that a session which was bumped never takes from its
\* successor (intercom_dialer.py: dial, hangup with its scope, close and the
\* BYE of the gateway, as IntercomLine states them for the cameras).
THEOREM DialerKeepsLine == Spec => LineKept
BY DialerSound, LineInit, LineStep, PTL DEF Spec, LineKept, Line!Spec
=============================================================================
