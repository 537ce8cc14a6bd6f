------------------------- MODULE CameraStream_proof -------------------------
(***************************************************************************)
(* One camera, for any number of RTSP clients, closes, teardowns and       *)
(* signals: the session never loses a call the gateway holds for it, no    *)
(* dial overlaps a close or an earlier call, and whoever is attached is    *)
(* served.                                                                 *)
(*                                                                         *)
(* The stream lock orders who opens and who closes; only the watcher, who  *)
(* does not take it, is beside that order.  The operators of the invariant *)
(* have the state of the tasks, p, the lock, l, and the tasks inside       *)
(* close(), cl, as parameters: a step that asks for the lock may be given  *)
(* it at once, and the invariant then holds in the state between.          *)
(***************************************************************************)
EXTENDS CameraStream, TLAPS

Opening == {"dial", "switch", "video", "audio"}
Inside == {"tasks", "hangup"}
Forced == Teardowns \cup {Remover}

\* Where each kind of task may be.
Places(p) ==
  /\ p \in [Tasks -> {"idle", "read", "lock", "sleep", "cancelled", "new", "stop", "start",
                      "removed", "wait"} \cup Opening \cup Inside]
  /\ \A k \in Clients : p[k] \in {"idle", "read", "lock"} \cup Opening
  /\ \A k \in Closers : p[k] \in {"idle", "sleep", "lock", "cancelled"} \cup Inside
  /\ \A k \in Forced : p[k] \in {"idle", "new", "stop", "lock", "start", "removed"} \cup Inside
  /\ p[Watcher] \in {"idle", "wait"} \cup Inside

\* The lock's queue: everybody once, and only its head past the wait for it.
Queue(p, l) ==
  /\ l \in Seq(Tasks \ {Watcher})
  /\ \A m, n \in 1..Len(l) : l[m] = l[n] => m = n
  /\ \A n \in 1..Len(l) :
       p[l[n]] \in {"lock", "cancelled"} \/ (n = 1 /\ p[l[n]] \in Opening \cup Inside)
  /\ \A k \in Tasks \ {Watcher} :
       p[k] \in {"lock"} \cup Opening \cup Inside => \E n \in 1..Len(l) : l[n] = k

\* k has the lock and is inside close(), or was cancelled there.
Closes(k, p, l) ==
  /\ k \notin Clients \cup {Watcher}
  /\ l # <<>> /\ l[1] = k /\ p[k] \in Inside \cup {"cancelled"}

\* Inside close() are at most the watcher, always first, and who has the lock.
Closing(p, l, cl) ==
  /\ cl \in Seq(Tasks)
  /\ \A m, n \in 1..Len(cl) : cl[m] = cl[n] => m = n
  /\ \A n \in 1..Len(cl) :
       (cl[n] = Watcher /\ n = 1 /\ p[Watcher] \in Inside) \/ Closes(cl[n], p, l)
  /\ \A k \in Tasks : p[k] \in Inside => \E n \in 1..Len(cl) : cl[n] = k
  /\ p[Watcher] = "wait" => cl = <<>>

Order(p, l, cl) == Places(p) /\ Queue(p, l) /\ Closing(p, l, cl)

\* What the tasks know of the call.
CallKnown(p, cl, i, w) ==
  /\ \A c \in Clients : p[c] = "dial" => i = 0 /\ cl = <<>>
  /\ p[Watcher] = "wait" => w # 0
  /\ p[Watcher] \in Inside => i # 0

\* Who keeps or closes the session for good has found or made the client list
\* empty: whoever is in it by now stands behind in the queue.
Shut(n, l, cl) == l[n] \in Forced \/ (n = 1 /\ \E m \in 1..Len(cl) : cl[m] = l[n])
Attached(p, l, cl, i, cs) ==
  /\ \A c \in cs : p[c] \in {"read", "switch", "video", "audio"} => i # 0
  /\ \A n \in 1..Len(l) : Shut(n, l, cl) =>
       \A c \in cs : \E m \in n + 1..Len(l) : l[m] = c

Data ==
  /\ allowed \in BOOLEAN /\ signals \in 0..MaxSignals
  /\ starts \in Nat /\ slot \in 0..starts /\ listening \subseteq 1..starts
  /\ sessions \subseteq Clients /\ conn \in [Clients -> {"none", "open", "closing"}]
  /\ clients \subseteq Clients /\ handlers \in BOOLEAN
  /\ closeTask \in Closers \cup {NoTask}
  /\ calls \in 0..MaxCalls /\ call \in 0..calls /\ watched \in 0..calls
  /\ up \subseteq 1..calls
Media == socks \in BOOLEAN /\ video \in BOOLEAN /\ audio \in BOOLEAN /\ loops \in BOOLEAN

StreamInv ==
  /\ Data /\ Media
  /\ Order(pc, lock, closing)
  /\ CallKnown(pc, closing, call, watched)
  /\ up \subseteq {call}
  /\ handlers <=> clients # {}
  /\ Attached(pc, lock, closing, call, clients)

----------------------------------------------------------------------------
(* Sequences.                                                              *)

\* What is left of a queue when k is taken out of it.
Without(s, k, t) ==
  \/ (\A n \in 1..Len(s) : s[n] # k) /\ t = s
  \/ \E n \in 1..Len(s) :
       /\ s[n] = k /\ Len(t) = Len(s) - 1
       /\ \A m \in 1..Len(t) : t[m] = IF m < n THEN s[m] ELSE s[m + 1]

\* Where the second of two joined sequences is found.
LEMMA ConcatBack ==
  ASSUME NEW S, NEW a \in Seq(S), NEW b \in Seq(S), NEW j \in 1..Len(b)
  PROVE  (a \o b)[Len(a) + j] = b[j]
OBVIOUS

\* What a sequence is without the element at n.
LEMMA RemovedAt ==
  ASSUME NEW S, NEW s \in Seq(S), NEW n \in 1..Len(s)
  PROVE  /\ RemoveAt(s, n) \in Seq(S) /\ Len(RemoveAt(s, n)) = Len(s) - 1
         /\ \A m \in 1..Len(s) - 1 : RemoveAt(s, n)[m] = IF m < n THEN s[m] ELSE s[m + 1]
<1>. DEFINE a == SubSeq(s, 1, n - 1)
            b == SubSeq(s, n + 1, Len(s))
<1>0. Len(s) \in Nat /\ n \in Nat /\ 1 <= n /\ n <= Len(s)
  OBVIOUS
<1>1. /\ a \in Seq(S) /\ Len(a) = n - 1 /\ \A m \in 1..n - 1 : a[m] = s[m]
      /\ b \in Seq(S) /\ Len(b) = Len(s) - n /\ \A m \in 1..Len(s) - n : b[m] = s[n + m]
  OBVIOUS
<1>. HIDE DEF a, b
<1>2. a \o b \in Seq(S) /\ Len(a \o b) = Len(s) - 1
  <2>1. \A u, v \in Seq(S) : u \o v \in Seq(S) /\ Len(u \o v) = Len(u) + Len(v)
    OBVIOUS
  <2>2. a \in Seq(S) /\ b \in Seq(S) /\ Len(a) = n - 1 /\ Len(b) = Len(s) - n
    BY <1>1
  <2>3. a \o b \in Seq(S) /\ Len(a \o b) = (n - 1) + (Len(s) - n)
    BY <2>1, <2>2
  <2>. QED
    BY <1>0, <2>3
<1>3. ASSUME NEW m \in 1..Len(s) - 1, m < n PROVE (a \o b)[m] = s[m]
  <2>1. m \in 1..Len(a) /\ a[m] = s[m]
    BY <1>1, <1>3
  <2>. QED
    BY <1>1, <2>1
<1>4. ASSUME NEW m \in 1..Len(s) - 1, ~(m < n) PROVE (a \o b)[m] = s[m + 1]
  <2>1. PICK j \in 1..Len(b) : m = Len(a) + j
    <3>1. m - (n - 1) \in 1..Len(b) /\ m = Len(a) + (m - (n - 1))
      BY <1>1, <1>4
    <3>. QED
      BY <3>1
  <2>2. (a \o b)[Len(a) + j] = b[j]
    BY <1>1, ConcatBack
  <2>. QED
    BY <1>1, <2>1, <2>2
<1>. QED
  BY <1>2, <1>3, <1>4 DEF RemoveAt, a, b

\* asyncio.Lock forgets a cancelled waiter, wherever it stands.
LEMMA Forgets ==
  ASSUME NEW S, NEW s \in Seq(S), NEW k, \A m, n \in 1..Len(s) : s[m] = s[n] => m = n
  PROVE  RemoveFirst(s, k) \in Seq(S) /\ Without(s, k, RemoveFirst(s, k))
<1>1. CASE \A n \in 1..Len(s) : s[n] # k
  BY <1>1 DEF RemoveFirst, Without
<1>2. CASE \E n \in 1..Len(s) : s[n] = k
  <2>1. PICK n \in 1..Len(s) : s[n] = k
    BY <1>2
  <2>2. {i \in 1..Len(s) : s[i] = k} = {n}
    BY <2>1
  <2>3. Min({n}) = n
    BY DEF Min
  <2>4. RemoveFirst(s, k) = RemoveAt(s, n)
    BY <1>2, <2>2, <2>3 DEF RemoveFirst, SelectInSeq
  <2>. DEFINE t == RemoveAt(s, n)
  <2>5. t \in Seq(S) /\ Len(t) = Len(s) - 1 /\ Len(s) \in Nat
    BY RemovedAt
  <2>6. \A m \in 1..Len(t) : t[m] = IF m < n THEN s[m] ELSE s[m + 1]
    BY <2>5, RemovedAt
  <2>. HIDE DEF t
  <2>7. Without(s, k, t)
    BY <2>1, <2>5, <2>6 DEF Without
  <2>. QED
    BY <2>4, <2>5, <2>7 DEF t
<1>. QED
  BY <1>1, <1>2
\* The others keep their order, and nobody else goes.
LEMMA Remaining ==
  ASSUME NEW S, NEW s \in Seq(S), NEW t \in Seq(S), NEW k, Without(s, k, t),
         \A m, n \in 1..Len(s) : s[m] = s[n] => m = n
  PROVE  /\ \A n \in 1..Len(t) : t[n] # k /\ \E m \in 1..Len(s) : t[n] = s[m] /\ n <= m
         /\ \A m, n \in 1..Len(t) : t[m] = t[n] => m = n
         /\ \A m \in 1..Len(s) : s[m] # k => \E n \in 1..Len(t) : t[n] = s[m]
         /\ s # <<>> /\ s[1] # k => t # <<>> /\ t[1] = s[1]
         /\ s = <<>> => t = <<>>
<1>1. Len(s) \in Nat /\ Len(t) \in Nat
  OBVIOUS
<1>2. CASE (\A n \in 1..Len(s) : s[n] # k) /\ t = s
  BY <1>1, <1>2
<1>3. ASSUME NEW n \in 1..Len(s), s[n] = k, Len(t) = Len(s) - 1,
             \A m \in 1..Len(t) : t[m] = IF m < n THEN s[m] ELSE s[m + 1]
      PROVE  /\ \A i \in 1..Len(t) : t[i] # k /\ \E m \in 1..Len(s) : t[i] = s[m] /\ i <= m
             /\ \A m, i \in 1..Len(t) : t[m] = t[i] => m = i
             /\ \A m \in 1..Len(s) : s[m] # k => \E i \in 1..Len(t) : t[i] = s[m]
             /\ s # <<>> /\ s[1] # k => t # <<>> /\ t[1] = s[1]
             /\ s # <<>>
  <2>1. \A i \in 1..Len(t) :
          LET m == IF i < n THEN i ELSE i + 1
          IN  m \in 1..Len(s) /\ m # n /\ i <= m /\ t[i] = s[m]
    BY <1>1, <1>3
  <2>2. \A i \in 1..Len(t) : t[i] # k /\ \E m \in 1..Len(s) : t[i] = s[m] /\ i <= m
    BY <1>3, <2>1
  <2>3. \A m, i \in 1..Len(t) : t[m] = t[i] => m = i
    BY <1>1, <2>1
  <2>4. ASSUME NEW m \in 1..Len(s), s[m] # k PROVE \E i \in 1..Len(t) : t[i] = s[m]
    <3>1. CASE m < n
      <4>1. m \in 1..Len(t) /\ t[m] = s[m]
        BY <1>1, <1>3, <3>1
      <4>. QED
        BY <4>1
    <3>2. CASE ~(m < n)
      <4>1. m # n
        BY <1>3, <2>4
      <4>2. m - 1 \in 1..Len(t) /\ ~(m - 1 < n) /\ t[m - 1] = s[m]
        BY <1>1, <1>3, <3>2, <4>1
      <4>. QED
        BY <4>2
    <3>. QED
      BY <3>1, <3>2
  <2>5. s # <<>> /\ s[1] # k => t # <<>> /\ t[1] = s[1]
    <3>1. s[1] # k => n # 1 /\ 1 \in 1..Len(t)
      BY <1>1, <1>3
    <3>. QED
      BY <1>1, <1>3, <3>1
  <2>6. s # <<>>
    BY <1>1, <1>3
  <2>. QED
    BY <2>2, <2>3, <2>4, <2>5, <2>6
<1>4. CASE \E n \in 1..Len(s) :
              /\ s[n] = k /\ Len(t) = Len(s) - 1
              /\ \A m \in 1..Len(t) : t[m] = IF m < n THEN s[m] ELSE s[m + 1]
  BY <1>3, <1>4
<1>. QED
  BY <1>2, <1>4 DEF Without

----------------------------------------------------------------------------
(* The lock and close(): steps of the queue.                               *)

\* Where a task neither waits for the lock nor has it nor is inside close().
Outside == {"idle", "read", "sleep", "new", "stop", "start", "removed", "wait"}

\* Tasks move outside, or a closer is marked as cancelled.
Calm(p, q) ==
  \A j \in Tasks :
    \/ q[j] = p[j]
    \/ p[j] \in Outside /\ q[j] \in Outside \cup {"cancelled"}
    \/ j \in Closers /\ p[j] \in {"lock", "hangup"} /\ q[j] = "cancelled"

\* What the names of the tasks say of their kinds.
LEMMA Kinds ==
  /\ Clients \subseteq Tasks /\ Closers \subseteq Tasks /\ Forced \subseteq Tasks
  /\ Remover \in Tasks /\ Watcher \in Tasks
  /\ Tasks = Clients \cup Closers \cup Forced \cup {Watcher}
  /\ Watcher \notin Clients \cup Closers \cup Forced
  /\ Clients \cap Closers = {} /\ Clients \cap Forced = {} /\ Closers \cap Forced = {}
  /\ NoTask \notin Tasks
BY CameraAssumption DEF Tasks, Forced

\* Who stands in the queue, and who does not.
LEMMA Standing ==
  ASSUME NEW p, NEW l, Places(p), Queue(p, l)
  PROVE  /\ \A n \in 1..Len(l) : p[l[n]] \notin Outside /\ l[n] \in Tasks \ {Watcher}
         /\ \A n \in 2..Len(l) : p[l[n]] \in {"lock", "cancelled"}
         /\ \A k \in Tasks \ {Watcher} :
              p[k] \in Opening \cup Inside => l # <<>> /\ l[1] = k
         /\ Len(l) \in Nat /\ (l # <<>> => 1 \in 1..Len(l))
<1>1. l \in Seq(Tasks \ {Watcher})
  BY DEF Queue
<1>2. Len(l) \in Nat /\ (l # <<>> => 1 \in 1..Len(l))
  BY <1>1
<1>3. \A n \in 1..Len(l) : l[n] \in Tasks \ {Watcher}
  BY <1>1
<1>4. \A n \in 1..Len(l) : p[l[n]] \notin Outside
  BY DEF Queue, Outside, Opening, Inside
<1>5. \A n \in 2..Len(l) : p[l[n]] \in {"lock", "cancelled"}
  BY <1>2 DEF Queue
<1>6. ASSUME NEW k \in Tasks \ {Watcher}, p[k] \in Opening \cup Inside
      PROVE  l # <<>> /\ l[1] = k
  <2>1. PICK n \in 1..Len(l) : l[n] = k
    BY <1>6 DEF Queue
  <2>2. p[k] \notin {"lock", "cancelled"}
    BY <1>6 DEF Opening, Inside
  <2>3. n = 1
    BY <2>1, <2>2 DEF Queue
  <2>4. l # <<>>
    BY <1>1, <2>1
  <2>. QED
    BY <2>1, <2>3, <2>4
<1>. QED
  BY <1>2, <1>3, <1>4, <1>5, <1>6

\* Moves outside, and marks, leave the order as it is.
LEMMA Aside ==
  ASSUME NEW p, NEW q, NEW l, NEW cl, Order(p, l, cl), Places(q), Calm(p, q),
         q[Watcher] = "wait" => cl = <<>>
  PROVE  Order(q, l, cl)
<1>1. Places(p) /\ Queue(p, l) /\ Closing(p, l, cl)
  BY DEF Order
<1>2. /\ \A n \in 1..Len(l) : p[l[n]] \notin Outside /\ l[n] \in Tasks \ {Watcher}
      /\ Len(l) \in Nat /\ (l # <<>> => 1 \in 1..Len(l))
  BY <1>1, Standing
<1>3. ASSUME NEW n \in 1..Len(l)
      PROVE  \/ q[l[n]] \in {"lock", "cancelled"}
             \/ (n = 1 /\ q[l[n]] \in Opening \cup Inside)
  <2>1. l[n] \in Tasks /\ p[l[n]] \notin Outside
    BY <1>2
  <2>2. q[l[n]] = p[l[n]] \/ q[l[n]] = "cancelled"
    BY <2>1 DEF Calm
  <2>. QED
    BY <1>1, <2>2 DEF Queue
<1>4. ASSUME NEW k \in Tasks, q[k] \in {"lock"} \cup Opening \cup Inside PROVE q[k] = p[k]
  BY <1>4 DEF Calm, Outside, Opening, Inside
<1>5. Queue(q, l)
  BY <1>1, <1>3, <1>4 DEF Queue
<1>6. ASSUME NEW k \in Tasks, Closes(k, p, l) PROVE Closes(k, q, l)
  <2>1. p[k] \notin Outside
    BY <1>6 DEF Closes, Outside, Inside
  <2>2. q[k] = p[k] \/ q[k] = "cancelled"
    BY <2>1 DEF Calm
  <2>. QED
    BY <1>6, <2>2 DEF Closes
<1>7. p[Watcher] \in Inside => q[Watcher] \in Inside
  BY Kinds DEF Calm, Outside, Inside
<1>8. \A n \in 1..Len(cl) : cl[n] \in Tasks
  BY <1>1 DEF Closing
<1>9. Closing(q, l, cl)
  BY <1>1, <1>4, <1>6, <1>7, <1>8 DEF Closing
<1>. QED
  BY <1>5, <1>9 DEF Order

\* A task that asks for the lock goes to the end of the queue.
LEMMA Enqueued ==
  ASSUME NEW p, NEW l, NEW cl, Order(p, l, cl), NEW k \in Tasks \ {Watcher}, p[k] \in Outside
  PROVE  /\ Order([p EXCEPT ![k] = "lock"], Append(l, k), cl)
         /\ \A n \in 1..Len(l) : l[n] # k
<1>. DEFINE q == [p EXCEPT ![k] = "lock"]
            t == Append(l, k)
<1>1. Places(p) /\ Queue(p, l) /\ Closing(p, l, cl)
  BY DEF Order
<1>2. /\ \A n \in 1..Len(l) : p[l[n]] \notin Outside /\ l[n] \in Tasks \ {Watcher}
      /\ Len(l) \in Nat /\ (l # <<>> => 1 \in 1..Len(l))
  BY <1>1, Standing
<1>3. \A n \in 1..Len(l) : l[n] # k
  BY <1>2
<1>4. l \in Seq(Tasks \ {Watcher})
  BY <1>1 DEF Queue
<1>5. /\ t \in Seq(Tasks \ {Watcher}) /\ Len(t) = Len(l) + 1 /\ t[Len(l) + 1] = k
      /\ \A n \in 1..Len(l) : t[n] = l[n]
  BY <1>4
<1>6. \A j \in Tasks : q[j] = IF j = k THEN "lock" ELSE p[j]
  BY <1>1 DEF Places
<1>7. \A n \in 1..Len(t) : n \in 1..Len(l) \/ n = Len(l) + 1
  BY <1>2, <1>5
<1>8. Places(q)
  BY <1>1, Kinds DEF Places
<1>. HIDE DEF q, t
<1>9. \A n \in 1..Len(l) : n \in 1..Len(t)
  BY <1>2, <1>5
<1>10. Queue(q, t)
  <2>1. \A m, n \in 1..Len(t) : t[m] = t[n] => m = n
    BY <1>1, <1>3, <1>5, <1>7 DEF Queue
  <2>2. ASSUME NEW n \in 1..Len(t)
        PROVE  \/ q[t[n]] \in {"lock", "cancelled"}
               \/ (n = 1 /\ q[t[n]] \in Opening \cup Inside)
    <3>1. CASE n \in 1..Len(l)
      BY <1>1, <1>2, <1>3, <1>5, <1>6, <3>1 DEF Queue
    <3>2. CASE n = Len(l) + 1
      BY <1>5, <1>6, <3>2
    <3>. QED
      BY <1>7, <3>1, <3>2
  <2>3. ASSUME NEW j \in Tasks \ {Watcher}, q[j] \in {"lock"} \cup Opening \cup Inside
        PROVE  \E n \in 1..Len(t) : t[n] = j
    <3>1. CASE j = k
      <4>1. Len(l) + 1 \in 1..Len(t)
        BY <1>2, <1>5
      <4>. QED
        BY <1>5, <3>1, <4>1
    <3>2. CASE j # k
      <4>1. PICK n \in 1..Len(l) : l[n] = j
        BY <1>1, <1>6, <2>3, <3>2 DEF Queue
      <4>. QED
        BY <1>5, <1>9, <4>1
    <3>. QED
      BY <3>1, <3>2
  <2>. QED
    BY <1>5, <2>1, <2>2, <2>3 DEF Queue
<1>11. ASSUME NEW j \in Tasks, Closes(j, p, l) PROVE Closes(j, q, t)
  <2>1. 1 \in 1..Len(l) /\ l[1] = j /\ p[j] \in Inside \cup {"cancelled"}
    BY <1>2, <1>11 DEF Closes
  <2>2. t # <<>> /\ t[1] = j
    BY <1>5, <2>1
  <2>3. q[j] = p[j]
    BY <1>3, <1>6, <2>1
  <2>. QED
    BY <1>11, <2>1, <2>2, <2>3 DEF Closes
<1>12. \A j \in Tasks : q[j] \in Inside \/ q[j] = "wait" => q[j] = p[j]
  BY <1>6 DEF Inside
<1>13. q[Watcher] = p[Watcher]
  BY <1>6, Kinds
<1>14. \A n \in 1..Len(cl) : cl[n] \in Tasks
  BY <1>1 DEF Closing
<1>15. Closing(q, t, cl)
  BY <1>1, <1>11, <1>12, <1>13, <1>14 DEF Closing
<1>. QED
  BY <1>3, <1>8, <1>10, <1>15 DEF Order, q, t
\* Who has the lock gives it back, and is no longer inside close().
LEMMA GivenBack ==
  ASSUME NEW p, NEW l, NEW cl, Order(p, l, cl), NEW k \in Tasks, l # <<>>, l[1] = k,
         NEW to \in Outside, Places([p EXCEPT ![k] = to]),
         NEW cl2 \in Seq(Tasks), Without(cl, k, cl2)
  PROVE  /\ Order([p EXCEPT ![k] = to], Tail(l), cl2)
         /\ \A n \in 1..Len(cl2) : cl2[n] = Watcher
         /\ \A n \in 1..Len(Tail(l)) : n + 1 \in 1..Len(l) /\ Tail(l)[n] = l[n + 1]
         /\ \A n \in 1..Len(Tail(l)) : Tail(l)[n] # k
<1>. DEFINE q == [p EXCEPT ![k] = to]
            t == Tail(l)
<1>1. Places(p) /\ Queue(p, l) /\ Closing(p, l, cl)
  BY DEF Order
<1>2. /\ \A n \in 1..Len(l) : l[n] \in Tasks \ {Watcher}
      /\ Len(l) \in Nat /\ 1 \in 1..Len(l)
      /\ \A n \in 2..Len(l) : p[l[n]] \in {"lock", "cancelled"}
  BY <1>1, Standing
<1>3. l \in Seq(Tasks \ {Watcher}) /\ \A m, n \in 1..Len(l) : l[m] = l[n] => m = n
  BY <1>1 DEF Queue
<1>4. /\ t \in Seq(Tasks \ {Watcher}) /\ Len(t) = Len(l) - 1
      /\ \A n \in 1..Len(t) : n + 1 \in 2..Len(l) /\ t[n] = l[n + 1]
  BY <1>2, <1>3
<1>5. k # Watcher
  BY <1>2
<1>6. \A j \in Tasks : q[j] = IF j = k THEN to ELSE p[j]
  BY <1>1 DEF Places
<1>. HIDE DEF q, t
<1>7. \A n \in 1..Len(t) : t[n] # k
  BY <1>2, <1>3, <1>4
<1>8. Queue(q, t)
  <2>1. \A m, n \in 1..Len(t) : t[m] = t[n] => m = n
    BY <1>2, <1>3, <1>4
  <2>2. \A n \in 1..Len(t) : q[t[n]] \in {"lock", "cancelled"}
    BY <1>2, <1>4, <1>6, <1>7
  <2>3. ASSUME NEW j \in Tasks \ {Watcher}, q[j] \in {"lock"} \cup Opening \cup Inside
        PROVE  \E n \in 1..Len(t) : t[n] = j
    <3>1. j # k
      BY <1>6, <2>3 DEF Outside, Opening, Inside
    <3>2. PICK n \in 1..Len(l) : l[n] = j
      BY <1>1, <1>6, <2>3, <3>1 DEF Queue
    <3>3. n - 1 \in 1..Len(t) /\ t[n - 1] = j
      BY <1>2, <1>4, <3>1, <3>2
    <3>. QED
      BY <3>3
  <2>. QED
    BY <1>4, <2>1, <2>2, <2>3 DEF Queue
<1>9. /\ \A n \in 1..Len(cl2) : cl2[n] # k /\ \E m \in 1..Len(cl) : cl2[n] = cl[m] /\ n <= m
      /\ \A m, n \in 1..Len(cl2) : cl2[m] = cl2[n] => m = n
      /\ \A m \in 1..Len(cl) : cl[m] # k => \E n \in 1..Len(cl2) : cl2[n] = cl[m]
      /\ cl = <<>> => cl2 = <<>>
  BY <1>1, Remaining DEF Closing
<1>10. ASSUME NEW n \in 1..Len(cl2)
       PROVE  cl2[n] = Watcher /\ n = 1 /\ q[Watcher] \in Inside
  <2>1. PICK m \in 1..Len(cl) : cl2[n] = cl[m] /\ n <= m
    BY <1>9
  <2>2. cl[m] # k
    BY <1>9, <2>1
  <2>3. ~Closes(cl[m], p, l)
    BY <2>2 DEF Closes
  <2>4. cl[m] = Watcher /\ m = 1 /\ p[Watcher] \in Inside
    BY <1>1, <2>3 DEF Closing
  <2>5. n = 1
    BY <2>1, <2>4
  <2>. QED
    BY <1>5, <1>6, <2>1, <2>4, <2>5, Kinds
<1>11. Closing(q, t, cl2)
  <2>1. ASSUME NEW j \in Tasks, q[j] \in Inside PROVE \E n \in 1..Len(cl2) : cl2[n] = j
    <3>1. j # k /\ p[j] \in Inside
      BY <1>6, <2>1 DEF Outside, Inside
    <3>2. PICK m \in 1..Len(cl) : cl[m] = j
      BY <1>1, <3>1 DEF Closing
    <3>. QED
      BY <1>9, <3>1, <3>2
  <2>2. q[Watcher] = "wait" => cl2 = <<>>
    BY <1>1, <1>5, <1>6, <1>9, Kinds DEF Closing
  <2>. QED
    BY <1>9, <1>10, <2>1, <2>2 DEF Closing
<1>12. \A n \in 1..Len(t) : n + 1 \in 1..Len(l)
  BY <1>4
<1>. QED
  BY <1>4, <1>7, <1>8, <1>10, <1>11, <1>12 DEF Order, q, t

\* A closer that was cancelled leaves the queue, from wherever it stands, and
\* close().
LEMMA Forgotten ==
  ASSUME NEW p, NEW l, NEW cl, Order(p, l, cl), NEW k \in Closers, p[k] = "cancelled",
         NEW l2 \in Seq(Tasks \ {Watcher}), Without(l, k, l2),
         NEW cl2 \in Seq(Tasks), Without(cl, k, cl2)
  PROVE  Order([p EXCEPT ![k] = "idle"], l2, cl2)
<1>. DEFINE q == [p EXCEPT ![k] = "idle"]
<1>1. Places(p) /\ Queue(p, l) /\ Closing(p, l, cl)
  BY DEF Order
<1>2. /\ \A n \in 1..Len(l) : l[n] \in Tasks \ {Watcher}
      /\ Len(l) \in Nat /\ Len(l2) \in Nat
      /\ \A n \in 2..Len(l) : p[l[n]] \in {"lock", "cancelled"}
  BY <1>1, Standing
<1>3. l \in Seq(Tasks \ {Watcher}) /\ \A m, n \in 1..Len(l) : l[m] = l[n] => m = n
  BY <1>1 DEF Queue
<1>4. k \in Tasks /\ k # Watcher /\ k \notin Clients
  BY Kinds
<1>5. \A j \in Tasks : q[j] = IF j = k THEN "idle" ELSE p[j]
  BY <1>1 DEF Places
<1>6. Places(q)
  BY <1>1, Kinds DEF Places
<1>. HIDE DEF q
<1>7. /\ \A n \in 1..Len(l2) : l2[n] # k /\ \E m \in 1..Len(l) : l2[n] = l[m] /\ n <= m
      /\ \A m, n \in 1..Len(l2) : l2[m] = l2[n] => m = n
      /\ \A m \in 1..Len(l) : l[m] # k => \E n \in 1..Len(l2) : l2[n] = l[m]
      /\ l # <<>> /\ l[1] # k => l2 # <<>> /\ l2[1] = l[1]
  BY <1>3, Remaining
<1>8. Queue(q, l2)
  <2>1. ASSUME NEW n \in 1..Len(l2)
        PROVE  \/ q[l2[n]] \in {"lock", "cancelled"}
               \/ (n = 1 /\ q[l2[n]] \in Opening \cup Inside)
    <3>1. PICK m \in 1..Len(l) : l2[n] = l[m] /\ n <= m
      BY <1>7
    <3>2. q[l2[n]] = p[l[m]]
      BY <1>2, <1>5, <1>7, <3>1
    <3>3. m = 1 => n = 1
      BY <1>2, <3>1
    <3>. QED
      BY <1>1, <3>2, <3>3 DEF Queue
  <2>2. ASSUME NEW j \in Tasks \ {Watcher}, q[j] \in {"lock"} \cup Opening \cup Inside
        PROVE  \E n \in 1..Len(l2) : l2[n] = j
    <3>1. j # k
      BY <1>5, <2>2 DEF Opening, Inside
    <3>2. PICK n \in 1..Len(l) : l[n] = j
      BY <1>1, <1>5, <2>2, <3>1 DEF Queue
    <3>. QED
      BY <1>7, <3>1, <3>2
  <2>. QED
    BY <1>7, <2>1, <2>2 DEF Queue
<1>9. /\ \A n \in 1..Len(cl2) : cl2[n] # k /\ \E m \in 1..Len(cl) : cl2[n] = cl[m] /\ n <= m
      /\ \A m, n \in 1..Len(cl2) : cl2[m] = cl2[n] => m = n
      /\ \A m \in 1..Len(cl) : cl[m] # k => \E n \in 1..Len(cl2) : cl2[n] = cl[m]
      /\ cl = <<>> => cl2 = <<>>
  BY <1>1, Remaining DEF Closing
<1>10. ASSUME NEW n \in 1..Len(cl2)
       PROVE  \/ cl2[n] = Watcher /\ n = 1 /\ q[Watcher] \in Inside
              \/ Closes(cl2[n], q, l2)
  <2>1. PICK m \in 1..Len(cl) : cl2[n] = cl[m] /\ n <= m
    BY <1>9
  <2>2. cl[m] # k /\ cl[m] \in Tasks
    BY <1>1, <1>9, <2>1 DEF Closing
  <2>3. CASE cl[m] = Watcher /\ m = 1 /\ p[Watcher] \in Inside
    <3>1. n = 1
      BY <2>1, <2>3
    <3>. QED
      BY <1>4, <1>5, <2>1, <2>3, <3>1, Kinds
  <2>4. CASE Closes(cl[m], p, l)
    <3>1. l # <<>> /\ l[1] = cl[m] /\ q[cl[m]] = p[cl[m]]
      BY <1>5, <2>2, <2>4 DEF Closes
    <3>2. l2 # <<>> /\ l2[1] = cl[m]
      BY <1>7, <2>2, <3>1
    <3>. QED
      BY <2>1, <2>4, <3>1, <3>2 DEF Closes
  <2>. QED
    BY <1>1, <2>3, <2>4 DEF Closing
<1>11. Closing(q, l2, cl2)
  <2>1. ASSUME NEW j \in Tasks, q[j] \in Inside PROVE \E n \in 1..Len(cl2) : cl2[n] = j
    <3>1. j # k /\ p[j] \in Inside
      BY <1>5, <2>1 DEF Inside
    <3>2. PICK m \in 1..Len(cl) : cl[m] = j
      BY <1>1, <3>1 DEF Closing
    <3>. QED
      BY <1>9, <3>1, <3>2
  <2>2. q[Watcher] = "wait" => cl2 = <<>>
    BY <1>1, <1>4, <1>5, <1>9, Kinds DEF Closing
  <2>. QED
    BY <1>9, <1>10, <2>1, <2>2 DEF Closing
<1>. QED
  BY <1>6, <1>8, <1>11 DEF Order, q
\* Who has the lock moves on within open(), the watcher of a new call starts,
\* and who is inside close() goes on from the tasks to the hangup.
LEMMA MovesOn ==
  ASSUME NEW p, NEW q, NEW l, NEW cl, Order(p, l, cl), Places(q),
         \A j \in Tasks :
           \/ q[j] = p[j]
           \/ p[j] \in Inside /\ q[j] \in Inside
           \/ /\ j \in Clients /\ l # <<>> /\ l[1] = j
              /\ p[j] \in {"lock"} \cup Opening /\ q[j] \in Opening
           \/ j = Watcher /\ q[j] = "wait" /\ cl = <<>>
  PROVE  Order(q, l, cl)
<1>1. Places(p) /\ Queue(p, l) /\ Closing(p, l, cl)
  BY DEF Order
<1>2. /\ \A n \in 1..Len(l) : l[n] \in Tasks \ {Watcher}
      /\ Len(l) \in Nat /\ (l # <<>> => 1 \in 1..Len(l))
      /\ \A n \in 2..Len(l) : p[l[n]] \in {"lock", "cancelled"}
      /\ \A k \in Tasks \ {Watcher} : p[k] \in Opening \cup Inside => l # <<>> /\ l[1] = k
  BY <1>1, Standing
<1>3. \A j \in Tasks \ {Watcher} :
        \/ q[j] = p[j]
        \/ /\ l # <<>> /\ l[1] = j /\ q[j] \in Opening \cup Inside
           /\ p[j] \in {"lock"} \cup Opening \cup Inside
  BY <1>2, Kinds
<1>4. Queue(q, l)
  <2>1. ASSUME NEW n \in 1..Len(l)
        PROVE  \/ q[l[n]] \in {"lock", "cancelled"}
               \/ (n = 1 /\ q[l[n]] \in Opening \cup Inside)
    <3>1. l[1] = l[n] => n = 1
      BY <1>1, <1>2 DEF Queue
    <3>. QED
      BY <1>1, <1>2, <1>3, <3>1 DEF Queue
  <2>2. ASSUME NEW j \in Tasks \ {Watcher}, q[j] \in {"lock"} \cup Opening \cup Inside
        PROVE  \E n \in 1..Len(l) : l[n] = j
    <3>1. p[j] \in {"lock"} \cup Opening \cup Inside
      BY <1>3, <2>2
    <3>. QED
      BY <1>1, <3>1 DEF Queue
  <2>. QED
    BY <1>1, <2>1, <2>2 DEF Queue
<1>5. ASSUME NEW k \in Tasks, Closes(k, p, l) PROVE Closes(k, q, l)
  <2>1. k \notin Clients \cup {Watcher} /\ p[k] \in Inside \cup {"cancelled"}
    BY <1>5 DEF Closes
  <2>2. q[k] \in Inside \cup {"cancelled"}
    BY <2>1
  <2>. QED
    BY <1>5, <2>2 DEF Closes
<1>6. p[Watcher] \in Inside => q[Watcher] \in Inside
  <2>1. p[Watcher] \in Inside => cl # <<>>
    BY <1>1, Kinds DEF Closing
  <2>. QED
    BY <2>1, Kinds
<1>7. \A j \in Tasks : q[j] \in Inside => p[j] \in Inside
  BY DEF Opening, Inside
<1>8. q[Watcher] = "wait" => cl = <<>>
  BY <1>1, Kinds DEF Closing, Inside
<1>9. \A n \in 1..Len(cl) : cl[n] \in Tasks
  BY <1>1 DEF Closing
<1>10. Closing(q, l, cl)
  BY <1>1, <1>5, <1>6, <1>7, <1>8, <1>9 DEF Closing
<1>. QED
  BY <1>4, <1>10 DEF Order

\* Who has got the lock enters close(), and stops the watcher of the call.
LEMMA Begun ==
  ASSUME NEW p, NEW q, NEW l, NEW cl, Order(p, l, cl), Places(q),
         NEW k \in Tasks \ (Clients \cup {Watcher}), p[k] = "lock", l # <<>>, l[1] = k,
         q[k] \in Inside, q[Watcher] = IF p[Watcher] = "wait" THEN "idle" ELSE p[Watcher],
         \A j \in Tasks \ {k, Watcher} : q[j] = p[j]
  PROVE  /\ Order(q, l, Append(cl, k))
         /\ \A n \in 1..Len(cl) : cl[n] = Watcher
<1>. DEFINE t == Append(cl, k)
<1>1. Places(p) /\ Queue(p, l) /\ Closing(p, l, cl)
  BY DEF Order
<1>2. /\ \A n \in 1..Len(l) : l[n] \in Tasks \ {Watcher}
      /\ Len(l) \in Nat /\ 1 \in 1..Len(l)
  BY <1>1, Standing
<1>3. Queue(q, l)
  <2>1. ASSUME NEW n \in 1..Len(l)
        PROVE  \/ q[l[n]] \in {"lock", "cancelled"}
               \/ (n = 1 /\ q[l[n]] \in Opening \cup Inside)
    <3>1. l[n] = k => n = 1
      BY <1>1, <1>2 DEF Queue
    <3>. QED
      BY <1>1, <1>2, <3>1 DEF Queue
  <2>2. ASSUME NEW j \in Tasks \ {Watcher}, q[j] \in {"lock"} \cup Opening \cup Inside
        PROVE  \E n \in 1..Len(l) : l[n] = j
    BY <1>1, <1>2, <2>2 DEF Queue
  <2>. QED
    BY <1>1, <2>1, <2>2 DEF Queue
<1>4. \A n \in 1..Len(cl) : cl[n] = Watcher /\ n = 1 /\ p[Watcher] \in Inside
  <2>1. \A n \in 1..Len(cl) : ~Closes(cl[n], p, l)
    BY DEF Closes, Inside
  <2>. QED
    BY <1>1, <2>1 DEF Closing
<1>5. /\ cl \in Seq(Tasks) /\ t \in Seq(Tasks) /\ Len(cl) \in Nat /\ Len(t) = Len(cl) + 1
      /\ t[Len(cl) + 1] = k /\ \A n \in 1..Len(cl) : t[n] = cl[n] /\ n \in 1..Len(t)
  <2>1. cl \in Seq(Tasks) /\ k \in Tasks
    BY <1>1 DEF Closing
  <2>. QED
    BY <2>1
<1>6. \A n \in 1..Len(t) : n \in 1..Len(cl) \/ n = Len(cl) + 1
  BY <1>5
<1>. HIDE DEF t
<1>7. Closes(k, q, l)
  BY DEF Closes
<1>8. p[Watcher] \in Inside => q[Watcher] \in Inside
  BY DEF Inside
<1>9. \A n \in 1..Len(t) : (t[n] = Watcher /\ n = 1 /\ q[Watcher] \in Inside) \/ Closes(t[n], q, l)
  BY <1>4, <1>5, <1>6, <1>7, <1>8
<1>10. \A m, n \in 1..Len(t) : t[m] = t[n] => m = n
  BY <1>4, <1>5, <1>6
<1>11. ASSUME NEW j \in Tasks, q[j] \in Inside PROVE \E n \in 1..Len(t) : t[n] = j
  <2>1. CASE j = k
    <3>1. Len(cl) + 1 \in 1..Len(t)
      BY <1>5
    <3>. QED
      BY <1>5, <2>1, <3>1
  <2>2. CASE j # k
    <3>1. p[j] \in Inside
      BY <1>11, <2>2 DEF Inside
    <3>2. PICK n \in 1..Len(cl) : cl[n] = j
      BY <1>1, <3>1 DEF Closing
    <3>. QED
      BY <1>5, <3>2
  <2>. QED
    BY <2>1, <2>2
<1>12. q[Watcher] # "wait"
  OBVIOUS
<1>13. Closing(q, l, t)
  BY <1>5, <1>9, <1>10, <1>11, <1>12 DEF Closing
<1>. QED
  BY <1>3, <1>4, <1>13 DEF Order, t

\* The watcher enters close(), alone.
LEMMA WatcherIn ==
  ASSUME NEW p, NEW l, NEW cl, Order(p, l, cl), p[Watcher] = "wait", NEW at \in Inside
  PROVE  /\ Order([p EXCEPT ![Watcher] = at], l, Append(cl, Watcher))
         /\ cl = <<>> /\ Len(Append(cl, Watcher)) = 1 /\ Append(cl, Watcher)[1] = Watcher
<1>. DEFINE q == [p EXCEPT ![Watcher] = at]
            t == Append(cl, Watcher)
<1>1. Places(p) /\ Queue(p, l) /\ Closing(p, l, cl) /\ cl = <<>>
  BY DEF Order, Closing
<1>2. \A n \in 1..Len(l) : l[n] \in Tasks \ {Watcher}
  BY <1>1, Standing
<1>3. t \in Seq(Tasks) /\ Len(t) = 1 /\ t[1] = Watcher
  BY <1>1, Kinds
<1>4. \A j \in Tasks : q[j] = IF j = Watcher THEN at ELSE p[j]
  BY <1>1 DEF Places
<1>5. Places(q)
  BY <1>1, Kinds DEF Places
<1>. HIDE DEF q, t
<1>6. Queue(q, l)
  BY <1>1, <1>2, <1>4 DEF Queue
<1>7. \A j \in Tasks : p[j] \notin Inside
  BY <1>1 DEF Closing
<1>8. \A j \in Tasks : q[j] \in Inside => j = Watcher
  BY <1>4, <1>7
<1>9. q[Watcher] \in Inside /\ q[Watcher] # "wait"
  BY <1>4, Kinds DEF Inside
<1>10. 1 \in 1..Len(t) /\ \A n \in 1..Len(t) : n = 1
  BY <1>3
<1>11. Closing(q, l, t)
  BY <1>3, <1>8, <1>9, <1>10 DEF Closing
<1>. QED
  BY <1>1, <1>3, <1>5, <1>6, <1>11 DEF Order, q, t

\* The watcher leaves close(), or stops waiting.
LEMMA WatcherOut ==
  ASSUME NEW p, NEW l, NEW cl, Order(p, l, cl), NEW cl2 \in Seq(Tasks),
         Without(cl, Watcher, cl2)
  PROVE  Order([p EXCEPT ![Watcher] = "idle"], l, cl2)
<1>. DEFINE q == [p EXCEPT ![Watcher] = "idle"]
<1>1. Places(p) /\ Queue(p, l) /\ Closing(p, l, cl)
  BY DEF Order
<1>2. \A n \in 1..Len(l) : l[n] \in Tasks \ {Watcher}
  BY <1>1, Standing
<1>3. \A j \in Tasks : q[j] = IF j = Watcher THEN "idle" ELSE p[j]
  BY <1>1 DEF Places
<1>4. Places(q)
  BY <1>1, Kinds DEF Places
<1>. HIDE DEF q
<1>5. Queue(q, l)
  BY <1>1, <1>2, <1>3 DEF Queue
<1>6. /\ \A n \in 1..Len(cl2) : cl2[n] # Watcher /\ \E m \in 1..Len(cl) : cl2[n] = cl[m]
      /\ \A m, n \in 1..Len(cl2) : cl2[m] = cl2[n] => m = n
      /\ \A m \in 1..Len(cl) : cl[m] # Watcher => \E n \in 1..Len(cl2) : cl2[n] = cl[m]
  BY <1>1, Remaining DEF Closing
<1>7. ASSUME NEW n \in 1..Len(cl2) PROVE Closes(cl2[n], q, l)
  <2>1. PICK m \in 1..Len(cl) : cl2[n] = cl[m] /\ cl[m] # Watcher
    BY <1>6
  <2>2. Closes(cl[m], p, l) /\ cl[m] \in Tasks
    BY <1>1, <2>1 DEF Closing
  <2>3. q[cl[m]] = p[cl[m]]
    BY <1>3, <2>1, <2>2
  <2>. QED
    BY <2>1, <2>2, <2>3 DEF Closes
<1>8. ASSUME NEW j \in Tasks, q[j] \in Inside PROVE \E n \in 1..Len(cl2) : cl2[n] = j
  <2>1. j # Watcher /\ p[j] \in Inside
    BY <1>3, <1>8 DEF Inside
  <2>2. PICK m \in 1..Len(cl) : cl[m] = j
    BY <1>1, <2>1 DEF Closing
  <2>. QED
    BY <1>6, <2>1, <2>2
<1>9. q[Watcher] # "wait"
  BY <1>3, Kinds
<1>10. Closing(q, l, cl2)
  BY <1>6, <1>7, <1>8, <1>9 DEF Closing
<1>. QED
  BY <1>4, <1>5, <1>10 DEF Order, q
----------------------------------------------------------------------------
(* The client list beside the queue.                                       *)

\* Where an attached client has been served.
Served == {"read", "switch", "video", "audio"}

\* Without a step of the queue nobody is served who was not before.
LEMMA AttachedAside ==
  ASSUME NEW p, NEW q, NEW l, NEW cl, NEW i, NEW cs, Attached(p, l, cl, i, cs),
         NEW cs2 \in SUBSET cs, NEW j, \A c \in cs2 : q[c] \in Served => p[c] \in Served \/ j # 0,
         i # 0 => j # 0
  PROVE  Attached(q, l, cl, j, cs2)
BY DEF Attached, Served

\* Who asks for the lock stands behind everybody; a task that closes for good
\* has emptied the list.
LEMMA AttachedEnqueued ==
  ASSUME NEW p, NEW l, NEW cl, Order(p, l, cl), NEW i, NEW cs, Attached(p, l, cl, i, cs),
         NEW k \in Tasks \ {Watcher}, p[k] \in Outside,
         NEW cs2 \in SUBSET (cs \cup {k}), k \in Forced => cs2 = {}
  PROVE  Attached([p EXCEPT ![k] = "lock"], Append(l, k), cl, i, cs2)
<1>. DEFINE q == [p EXCEPT ![k] = "lock"]
            t == Append(l, k)
<1>1. Places(p) /\ Queue(p, l) /\ Closing(p, l, cl) /\ l \in Seq(Tasks \ {Watcher})
  BY DEF Order, Queue
<1>2. /\ Len(l) \in Nat /\ Len(t) = Len(l) + 1 /\ t[Len(l) + 1] = k
      /\ \A n \in 1..Len(l) : t[n] = l[n]
  BY <1>1
<1>3. \A n \in 1..Len(t) : n \in 1..Len(l) \/ n = Len(l) + 1
  BY <1>2
<1>4. \A j \in Tasks : q[j] = IF j = k THEN "lock" ELSE p[j]
  BY <1>1 DEF Places
<1>5. \A c : q[c] \in Served => p[c] \in Served
  <2>1. DOMAIN p = Tasks
    BY <1>1 DEF Places
  <2>2. q[k] = "lock"
    BY <1>4
  <2>. QED
    BY <2>1, <2>2 DEF Served
<1>6. \A m \in 1..Len(cl) : cl[m] # k
  <2>1. p[k] \notin Inside \cup {"cancelled"}
    BY DEF Outside, Inside
  <2>. QED
    BY <1>1, <2>1 DEF Closing, Closes
<1>. HIDE DEF q, t
<1>7. \A c \in cs2 : q[c] \in Served => i # 0
  <2>1. q[k] \notin Served
    BY <1>4 DEF Served
  <2>. QED
    BY <1>5, <2>1 DEF Attached, Served
<1>8. ASSUME NEW n \in 1..Len(t), Shut(n, t, cl), NEW c \in cs2
      PROVE  \E m \in n + 1..Len(t) : t[m] = c
  <2>1. CASE n \in 1..Len(l)
    <3>1. Shut(n, l, cl)
      BY <1>2, <1>8, <2>1 DEF Shut
    <3>2. CASE c \in cs
      <4>1. PICK m \in n + 1..Len(l) : l[m] = c
        BY <2>1, <3>1, <3>2 DEF Attached
      <4>2. m \in 1..Len(l) /\ m \in n + 1..Len(t)
        BY <1>2, <2>1
      <4>. QED
        BY <1>2, <4>1, <4>2
    <3>3. CASE c = k
      <4>1. Len(l) + 1 \in n + 1..Len(t)
        BY <1>2, <2>1
      <4>. QED
        BY <1>2, <3>3, <4>1
    <3>. QED
      BY <3>2, <3>3
  <2>2. CASE n = Len(l) + 1
    BY <1>2, <1>6, <1>8, <2>2 DEF Shut
  <2>. QED
    BY <1>3, <2>1, <2>2
<1>9. Attached(q, t, cl, i, cs2)
  BY <1>7, <1>8 DEF Attached, Served
<1>. QED
  BY <1>9 DEF q, t

\* Who gives the lock back leaves the others where they stand.
LEMMA AttachedGivenBack ==
  ASSUME NEW p, NEW l, NEW cl, Order(p, l, cl), NEW i, NEW cs, Attached(p, l, cl, i, cs),
         NEW k \in Tasks, l # <<>>, NEW to, NEW cl2, \A n \in 1..Len(cl2) : cl2[n] = Watcher,
         NEW cs2 \in SUBSET cs, NEW j, \A c \in cs2 \ {k} : p[c] \in Served => j # 0,
         k \in cs2 /\ to \in Served => j # 0
  PROVE  Attached([p EXCEPT ![k] = to], Tail(l), cl2, j, cs2)
<1>. DEFINE q == [p EXCEPT ![k] = to]
            t == Tail(l)
<1>1. Places(p) /\ Queue(p, l) /\ l \in Seq(Tasks \ {Watcher})
  BY DEF Order, Queue
<1>2. /\ Len(l) \in Nat \ {0} /\ Len(t) = Len(l) - 1
      /\ \A n \in 1..Len(t) : n + 1 \in 1..Len(l) /\ t[n] = l[n + 1] /\ t[n] # Watcher
  BY <1>1
<1>3. DOMAIN p = Tasks
  BY <1>1 DEF Places
<1>4. \A c : c # k => q[c] = p[c]
  BY <1>3
<1>5. q[k] = to
  BY <1>3
<1>. HIDE DEF q, t
<1>6. \A c \in cs2 : q[c] \in Served => j # 0
  BY <1>4, <1>5
<1>7. ASSUME NEW n \in 1..Len(t), Shut(n, t, cl2), NEW c \in cs2
      PROVE  \E m \in n + 1..Len(t) : t[m] = c
  <2>1. Shut(n + 1, l, cl)
    BY <1>2, <1>7 DEF Shut
  <2>2. PICK m \in (n + 1) + 1..Len(l) : l[m] = c
    BY <1>2, <2>1 DEF Attached
  <2>3. m - 1 \in n + 1..Len(t) /\ t[m - 1] = l[m]
    BY <1>2, <2>2
  <2>. QED
    BY <2>2, <2>3
<1>8. Attached(q, t, cl2, j, cs2)
  BY <1>6, <1>7 DEF Attached, Served
<1>. QED
  BY <1>8 DEF q, t

\* A closer that is taken out of the queue shuts nobody in.
LEMMA AttachedForgotten ==
  ASSUME NEW p, NEW l, NEW cl, Order(p, l, cl), NEW i, NEW cs \in SUBSET Clients,
         Attached(p, l, cl, i, cs), NEW k \in Closers,
         NEW l2 \in Seq(Tasks \ {Watcher}), Without(l, k, l2),
         NEW cl2 \in Seq(Tasks), Without(cl, k, cl2)
  PROVE  Attached([p EXCEPT ![k] = "idle"], l2, cl2, i, cs)
<1>. DEFINE q == [p EXCEPT ![k] = "idle"]
<1>1. /\ Places(p) /\ Queue(p, l) /\ Closing(p, l, cl) /\ l \in Seq(Tasks \ {Watcher})
      /\ \A m, n \in 1..Len(l) : l[m] = l[n] => m = n
  BY DEF Order, Queue
<1>2. Len(l) \in Nat /\ Len(l2) \in Nat
  BY <1>1
<1>3. \A n \in 1..Len(cl2) : \E m \in 1..Len(cl) : cl2[n] = cl[m]
  BY <1>1, Remaining DEF Closing
<1>4. \A n \in 1..Len(l2) : l2[n] \in Tasks \ {Watcher}
  OBVIOUS
<1>5. \A c \in cs : q[c] = p[c] /\ c # k
  BY <1>1, Kinds DEF Places
<1>. HIDE DEF q
<1>6. ASSUME NEW n \in 1..Len(l2), Shut(n, l2, cl2), NEW m \in 1..Len(l), l2[n] = l[m]
      PROVE  Shut(m, l, cl)
  <2>1. CASE l2[n] \in Forced
    BY <1>6, <2>1 DEF Shut
  <2>2. CASE n = 1 /\ \E x \in 1..Len(cl2) : cl2[x] = l2[n]
    <3>1. PICK x \in 1..Len(cl) : cl[x] = l[m]
      BY <1>3, <1>6, <2>2
    <3>2. l[m] # Watcher
      BY <1>4, <1>6
    <3>3. l[1] = l[m]
      BY <1>1, <3>1, <3>2 DEF Closing, Closes
    <3>4. m = 1
      BY <1>1, <1>2, <3>3
    <3>. QED
      BY <3>1, <3>4 DEF Shut
  <2>. QED
    BY <1>6, <2>1, <2>2 DEF Shut
<1>7. ASSUME NEW n \in 1..Len(l2), Shut(n, l2, cl2), NEW c \in cs
      PROVE  \E m \in n + 1..Len(l2) : l2[m] = c
  <2>1. CASE l2 = l
    <3>1. Shut(n, l, cl)
      BY <1>6, <1>7, <2>1
    <3>. QED
      BY <1>7, <2>1, <3>1 DEF Attached
  <2>2. ASSUME NEW x \in 1..Len(l), l[x] = k, Len(l2) = Len(l) - 1,
               \A m \in 1..Len(l2) : l2[m] = IF m < x THEN l[m] ELSE l[m + 1]
        PROVE  \E m \in n + 1..Len(l2) : l2[m] = c
    <3>. DEFINE y == IF n < x THEN n ELSE n + 1
    <3>1. y \in 1..Len(l) /\ l2[n] = l[y]
      BY <1>2, <2>2
    <3>. HIDE DEF y
    <3>2. Shut(y, l, cl)
      BY <1>6, <1>7, <3>1
    <3>3. PICK m \in y + 1..Len(l) : l[m] = c
      BY <3>1, <3>2 DEF Attached
    <3>4. m # x
      BY <1>5, <2>2, <3>3
    <3>5. CASE m < x
      <4>1. m \in n + 1..Len(l2) /\ l2[m] = l[m]
        BY <1>2, <2>2, <3>1, <3>3, <3>5 DEF y
      <4>. QED
        BY <3>3, <4>1
    <3>6. CASE ~(m < x)
      <4>1. m - 1 \in n + 1..Len(l2) /\ l2[m - 1] = l[m]
        BY <1>2, <2>2, <3>1, <3>3, <3>4, <3>6 DEF y
      <4>. QED
        BY <3>3, <4>1
    <3>. QED
      BY <3>5, <3>6
  <2>. QED
    BY <2>1, <2>2 DEF Without
<1>8. Attached(q, l2, cl2, i, cs)
  BY <1>5, <1>7 DEF Attached, Served
<1>. QED
  BY <1>8 DEF q

\* Who enters close() shuts in who stands behind it, and a closer nobody.
LEMMA AttachedBegun ==
  ASSUME NEW p, NEW q, NEW l, NEW cl \in Seq(Tasks), NEW i, NEW cs, Attached(p, l, cl, i, cs),
         NEW k \in Tasks, k \in Forced \/ k = Watcher \/ cs = {},
         \A n \in 1..Len(l) : l[n] # Watcher,
         \A c \in cs : q[c] = p[c]
  PROVE  Attached(q, l, Append(cl, k), i, cs)
<1>1. /\ Len(Append(cl, k)) = Len(cl) + 1 /\ Append(cl, k)[Len(cl) + 1] = k /\ Len(cl) \in Nat
      /\ \A m \in 1..Len(cl) : Append(cl, k)[m] = cl[m]
  OBVIOUS
<1>2. ASSUME NEW n \in 1..Len(l), Shut(n, l, Append(cl, k)), NEW c \in cs
      PROVE  Shut(n, l, cl)
  <2>1. CASE l[n] \in Forced
    BY <2>1 DEF Shut
  <2>2. CASE l[n] \notin Forced
    <3>1. PICK m \in 1..Len(Append(cl, k)) : n = 1 /\ Append(cl, k)[m] = l[n]
      BY <1>2, <2>2 DEF Shut
    <3>2. m \in 1..Len(cl)
      BY <1>1, <1>2, <2>2, <3>1
    <3>. QED
      BY <1>1, <3>1, <3>2 DEF Shut
  <2>. QED
    BY <2>1, <2>2
<1>. QED
  BY <1>2 DEF Attached
----------------------------------------------------------------------------
(* Getting the lock.                                                       *)

\* What holds, whatever a task does with the lock, when cs are attached.
Kept(cs) ==
  /\ Order(pc, lock, closing)'
  /\ CallKnown(pc, closing, call, watched)'
  /\ Attached(pc', lock', closing', call', cs)
  /\ Media'

\* Who is not inside close() need not be taken out.
LEMMA NotInside ==
  ASSUME NEW p, NEW l, NEW cl, Closing(p, l, cl), NEW k, k # Watcher,
         k \in Clients \/ p[k] \notin Inside \cup {"cancelled"}
  PROVE  cl \in Seq(Tasks) /\ Without(cl, k, cl)
BY DEF Closing, Closes, Without

\* The code between the grant of the lock and the next await: a client dials or
\* finds the session open, a closer or a teardown enters close() or finds that
\* there is nothing to close.
LEMMA Granted ==
  ASSUME NEW p, NEW l, NEW k \in Tasks \ {Watcher}, l # <<>>, l[1] = k,
         p = [j \in Tasks |-> p[j]], p[Watcher] = pc[Watcher],
         Order([p EXCEPT ![k] = "lock"], l, closing),
         CallKnown([p EXCEPT ![k] = "lock"], closing, call, watched),
         NEW cs, Attached([p EXCEPT ![k] = "lock"], l, closing, call, cs),
         k \in Closers /\ clients = {} => cs = {},
         Media, WithLock(k, p, l), UNCHANGED <<call, watched>>
  PROVE  Kept(cs)
<1>. DEFINE r == [p EXCEPT ![k] = "lock"]
<1>0. /\ Order(r, l, closing) /\ CallKnown(r, closing, call, watched)
      /\ Attached(r, l, closing, call, cs)
  OBVIOUS
<1>1. Places(r) /\ Queue(r, l) /\ Closing(r, l, closing)
  BY <1>0 DEF Order
<1>2. /\ \A x : [p EXCEPT ![k] = x] = [r EXCEPT ![k] = x]
      /\ r[k] = "lock" /\ r[Watcher] = pc[Watcher]
      /\ \A j \in Tasks \ {k} : r[j] = p[j]
  BY Kinds
<1>. HIDE DEF r
<1>3. closing \in Seq(Tasks) /\ Without(closing, k, closing)
  BY <1>1, <1>2, NotInside DEF Inside
<1>4. /\ \A n \in 1..Len(l) : l[n] \in Tasks \ {Watcher}
  BY <1>1, Standing
<1>5. ASSUME NEW at \in Outside, Leave(k, at, p, l), Places([r EXCEPT ![k] = at]),
             k \in Clients => call # 0
      PROVE  Kept(cs)
  <2>1. /\ pc' = [r EXCEPT ![k] = at] /\ lock' = Tail(l) /\ UNCHANGED <<closing, media>>
    BY <1>2, <1>5 DEF Leave
  <2>2. /\ Order([r EXCEPT ![k] = at], Tail(l), closing)
        /\ \A n \in 1..Len(closing) : closing[n] = Watcher
    BY <1>0, <1>3, <1>5, GivenBack
  <2>3. \A c \in cs \ {k} : r[c] \in Served => call # 0
    BY <1>0 DEF Attached, Served
  <2>4. k \in cs /\ at \in Served => call # 0
    <3>1. at \in Served => k \in Clients
      BY <1>1, <1>5, Kinds DEF Served, Places, Inside
    <3>. QED
      BY <1>5, <3>1
  <2>5. Attached([r EXCEPT ![k] = at], Tail(l), closing, call, cs)
    BY <1>0, <2>2, <2>3, <2>4, AttachedGivenBack
  <2>6. CallKnown([r EXCEPT ![k] = at], closing, call, watched)
    BY <1>0, <1>1 DEF CallKnown, Places, Outside
  <2>. QED
    BY <2>1, <2>2, <2>5, <2>6 DEF Kept, Media, media
<1>6. ASSUME BeginClose(k, p), lock' = l, k \notin Clients, k \in Forced \/ cs = {}, call # 0
      PROVE  Kept(cs)
  <2>1. PICK at \in Inside :
          pc' = [(IF pc[Watcher] = "wait" THEN [p EXCEPT ![Watcher] = "idle"] ELSE p)
                 EXCEPT ![k] = at]
    BY <1>6 DEF BeginClose, Inside
  <2>2. closing' = Append(closing, k)
    BY <1>6 DEF BeginClose
  <2>3. /\ pc' = [j \in Tasks |-> pc'[j]] /\ pc'[k] = at
        /\ pc'[Watcher] = (IF r[Watcher] = "wait" THEN "idle" ELSE r[Watcher])
        /\ \A j \in Tasks \ {k, Watcher} : pc'[j] = r[j]
    BY <1>2, <2>1, Kinds
  <2>4. Places(pc')
    BY <1>1, <1>6, <2>3, Kinds DEF Places, Inside
  <2>5. Order(pc', l, closing') /\ \A n \in 1..Len(closing) : closing[n] = Watcher
    <3>1. k \in Tasks \ (Clients \cup {Watcher})
      BY <1>6
    <3>. QED
      BY <1>0, <1>2, <2>2, <2>3, <2>4, <3>1, Begun
  <2>6. Attached(pc', l, closing', call, cs)
    <3>1. \A c \in cs : pc'[c] = r[c] \/ pc'[c] \notin Served
      <4>1. \A j \in Tasks : pc'[j] = r[j] \/ pc'[j] \notin Served
        BY <2>3 DEF Served, Inside
      <4>2. DOMAIN r = Tasks /\ DOMAIN pc' = Tasks
        BY <1>1, <2>4 DEF Places
      <4>3. ASSUME NEW c \in cs PROVE c \in Tasks
        <5>1. k \in Forced
          BY <1>6, <4>3
        <5>2. Shut(1, l, closing) /\ 1 \in 1..Len(l)
          BY <1>1, <5>1, Standing DEF Shut
        <5>3. \E m \in 1 + 1..Len(l) : l[m] = c
          BY <1>0, <5>2 DEF Attached
        <5>4. \A m \in 1 + 1..Len(l) : m \in 1..Len(l)
          BY <5>2, <1>1, Standing
        <5>. QED
          BY <1>4, <5>3, <5>4
      <4>. QED
        BY <4>1, <4>3
    <3>. DEFINE q == [j \in cs |-> r[j]]
    <3>2. Attached(q, l, Append(closing, k), call, cs)
      <4>1. Attached(q, l, closing, call, cs)
        BY <1>0 DEF Attached
      <4>2. \A c \in cs : q[c] = q[c]
        OBVIOUS
      <4>. QED
        BY <1>3, <1>4, <1>6, <4>1, <4>2, AttachedBegun
    <3>3. \A c \in cs : pc'[c] \in Served => q[c] \in Served
      BY <3>1
    <3>. HIDE DEF q
    <3>. QED
      BY <2>2, <3>2, <3>3 DEF Attached, Served
  <2>7. CallKnown(pc', closing', call, watched)
    <3>1. \A c \in Clients : pc'[c] # "dial"
      <4>1. \A c \in Clients : r[c] # "dial"
        BY <1>0, <1>6 DEF CallKnown
      <4>. QED
        BY <1>6, <2>3, <4>1, Kinds
    <3>2. pc'[Watcher] # "wait" /\ (pc'[Watcher] \in Inside => call # 0)
      BY <1>6, <2>3
    <3>. QED
      BY <3>1, <3>2 DEF CallKnown
  <2>8. Media'
    BY <1>6 DEF BeginClose, MediaDown, Media, media
  <2>. QED
    BY <1>6, <2>5, <2>6, <2>7, <2>8 DEF Kept
<1>7. CASE k \in Clients
  <2>1. CASE Active
    <3>1. Leave(k, "read", p, l)
      BY <1>7, <2>1, Kinds DEF WithLock
    <3>2. Places([r EXCEPT ![k] = "read"]) /\ "read" \in Outside
      BY <1>1, <1>7, Kinds DEF Places, Outside
    <3>. QED
      BY <1>5, <2>1, <3>1, <3>2 DEF Active
  <2>2. CASE ~Active
    <3>1. /\ pc' = [r EXCEPT ![k] = "dial"] /\ lock' = l /\ socks' = TRUE
          /\ UNCHANGED <<closing, video, audio, loops>> /\ call = 0
      BY <1>2, <1>7, <2>2, Kinds DEF WithLock, Active
    <3>. DEFINE q == [r EXCEPT ![k] = "dial"]
    <3>2. \A j \in Tasks : q[j] = IF j = k THEN "dial" ELSE r[j]
      BY <1>1 DEF Places
    <3>3. Places(q)
      BY <1>1, <1>7, Kinds DEF Places, Opening
    <3>. HIDE DEF q
    <3>4. Order(q, l, closing)
      <4>1. "dial" \in Opening
        BY DEF Opening
      <4>. QED
        BY <1>0, <1>2, <1>7, <3>2, <3>3, <4>1, MovesOn
    <3>5. closing = <<>>
      <4>1. \A n \in 1..Len(closing) : ~Closes(closing[n], r, l)
        BY <1>7 DEF Closes
      <4>2. r[Watcher] \notin Inside
        BY <1>0, <3>1 DEF CallKnown
      <4>3. \A n \in 1..Len(closing) : FALSE
        BY <1>1, <4>1, <4>2 DEF Closing
      <4>. QED
        BY <1>3, <4>3
    <3>6. CallKnown(q, closing, call, watched)
      BY <1>0, <1>7, <3>1, <3>2, <3>5, Kinds DEF CallKnown
    <3>7. Attached(q, l, closing, call, cs)
      <4>1. \A c \in cs : q[c] \in Served => r[c] \in Served
        <5>1. q[k] \notin Served
          BY <3>2 DEF Served
        <5>2. \A c : c # k => q[c] = r[c]
          BY <1>1 DEF Places, q
        <5>. QED
          BY <5>1, <5>2
      <4>. QED
        BY <1>0, <4>1, AttachedAside
    <3>. QED
      BY <3>1, <3>4, <3>6, <3>7 DEF Kept, Media, q
  <2>. QED
    BY <2>1, <2>2
<1>8. CASE k \in Closers
  <2>1. CASE clients = {} /\ Active
    <3>1. BeginClose(k, p) /\ lock' = l
      BY <1>8, <2>1, Kinds DEF WithLock
    <3>. QED
      BY <1>6, <1>8, <2>1, <3>1, Kinds DEF Active
  <2>2. CASE ~(clients = {} /\ Active)
    <3>1. Leave(k, "idle", p, l)
      BY <1>8, <2>2, Kinds DEF WithLock
    <3>2. Places([r EXCEPT ![k] = "idle"]) /\ "idle" \in Outside
      BY <1>1, <1>8, Kinds DEF Places, Outside
    <3>. QED
      BY <1>5, <1>8, <3>1, <3>2, Kinds
  <2>. QED
    BY <2>1, <2>2
<1>9. CASE k \in Forced
  <2>1. CASE Active
    <3>1. BeginClose(k, p) /\ lock' = l
      BY <1>9, <2>1, Kinds DEF WithLock
    <3>. QED
      BY <1>6, <1>9, <2>1, <3>1, Kinds DEF Active
  <2>2. CASE ~Active
    <3>1. PICK at \in {"removed", "start"} : Leave(k, at, p, l)
      BY <1>9, <2>2, Kinds DEF WithLock
    <3>2. Places([r EXCEPT ![k] = at]) /\ at \in Outside
      BY <1>1, <1>9, Kinds DEF Places, Outside
    <3>. QED
      BY <1>5, <1>9, <3>1, <3>2, Kinds
  <2>. QED
    BY <2>1, <2>2
<1>. QED
  BY <1>7, <1>8, <1>9, Kinds
\* A task asks for the lock, and goes on with it when it is free.
LEMMA Entered ==
  ASSUME NEW p, Order(p, lock, closing), CallKnown(p, closing, call, watched),
         NEW cs0, Attached(p, lock, closing, call, cs0),
         NEW k \in Tasks \ {Watcher}, p[k] \in Outside, p[Watcher] = pc[Watcher],
         NEW cs \in SUBSET (cs0 \cup {k}), k \in Forced => cs = {},
         k \in Closers /\ clients = {} => cs = {},
         Media, EnterLock(k, p), UNCHANGED <<call, watched>>
  PROVE  Kept(cs)
<1>. DEFINE r == [p EXCEPT ![k] = "lock"]
<1>1. Order(r, Append(lock, k), closing)
  BY Enqueued
<1>2. Attached(r, Append(lock, k), closing, call, cs)
  BY AttachedEnqueued
<1>3. p = [j \in Tasks |-> p[j]]
  BY DEF Order, Places
<1>4. CallKnown(r, closing, call, watched)
  BY <1>3, Kinds DEF CallKnown
<1>5. CASE lock # <<>>
  <2>1. /\ lock' = Append(lock, k) /\ pc' = r /\ UNCHANGED <<closing, media>>
    BY <1>5 DEF EnterLock
  <2>. HIDE DEF r
  <2>. QED
    BY <1>1, <1>2, <1>4, <2>1 DEF Kept, Media, media
<1>6. CASE lock = <<>>
  <2>. DEFINE l == <<k>>
  <2>1. Append(lock, k) = l /\ l # <<>> /\ l[1] = k
    BY <1>6
  <2>2. WithLock(k, p, l)
    BY <1>6 DEF EnterLock
  <2>. HIDE DEF l
  <2>3. Order(r, l, closing) /\ Attached(r, l, closing, call, cs)
    BY <1>1, <1>2, <2>1
  <2>. QED
    BY <1>3, <1>4, <2>1, <2>2, <2>3, Granted
<1>. QED
  BY <1>5, <1>6

----------------------------------------------------------------------------
(* The close task.                                                         *)

\* Cancelling the close task only marks it.
LEMMA Marked ==
  ASSUME StreamInv
  PROVE  /\ Order(CloseTaskCancelled, lock, closing)
         /\ CallKnown(CloseTaskCancelled, closing, call, watched)
         /\ Attached(CloseTaskCancelled, lock, closing, call, clients)
         /\ \A k \in Tasks \ Closers : CloseTaskCancelled[k] = pc[k]
         /\ \A k \in Closers : CloseTaskCancelled[k] \in {pc[k], "cancelled"}
         /\ \A k \in Closers : pc[k] = "idle" => CloseTaskCancelled[k] = "idle"
<1>. DEFINE q == CloseTaskCancelled
<1>1. /\ Order(pc, lock, closing) /\ CallKnown(pc, closing, call, watched)
      /\ Attached(pc, lock, closing, call, clients)
      /\ closeTask \in Closers \cup {NoTask} /\ clients \subseteq Clients
  BY DEF StreamInv, Data
<1>2. Places(pc) /\ Queue(pc, lock) /\ Closing(pc, lock, closing)
  BY <1>1 DEF Order
<1>3. \A k \in Tasks : q[k] = IF k = closeTask /\ pc[k] \in {"sleep", "lock", "hangup"}
                              THEN "cancelled" ELSE pc[k]
  BY DEF CloseTaskCancelled
<1>4. /\ \A k \in Tasks \ Closers : q[k] = pc[k]
      /\ \A k \in Closers : q[k] \in {pc[k], "cancelled"}
      /\ \A k \in Closers : pc[k] = "idle" => q[k] = "idle"
  BY <1>1, <1>3, Kinds
<1>5. DOMAIN q = Tasks /\ q = [k \in Tasks |-> q[k]]
  BY DEF CloseTaskCancelled
<1>6. Calm(pc, q)
  BY <1>1, <1>3, Kinds DEF Calm, Outside
<1>. HIDE DEF q
<1>7. Places(q)
  <2>1. \A k \in Clients \cup Forced \cup {Watcher} : k \in Tasks \ Closers
    BY Kinds
  <2>2. \A k \in Clients \cup Forced \cup {Watcher} : q[k] = pc[k]
    BY <1>4, <2>1
  <2>3. \A k \in Closers : q[k] \in {"idle", "sleep", "lock", "cancelled"} \cup Inside
    BY <1>2, <1>4 DEF Places
  <2>4. \A k \in Tasks :
          q[k] \in {"idle", "read", "lock", "sleep", "cancelled", "new", "stop", "start",
                    "removed", "wait"} \cup Opening \cup Inside
    BY <1>2, <2>2, <2>3, Kinds DEF Places
  <2>. QED
    BY <1>2, <1>5, <2>2, <2>3, <2>4 DEF Places
<1>8. q[Watcher] = pc[Watcher]
  BY <1>4, Kinds
<1>9. Order(q, lock, closing)
  BY <1>1, <1>2, <1>6, <1>7, <1>8, Aside DEF Closing
<1>10. \A c \in Clients : q[c] = pc[c]
  BY <1>4, Kinds
<1>11. CallKnown(q, closing, call, watched)
  BY <1>1, <1>8, <1>10 DEF CallKnown
<1>12. Attached(q, lock, closing, call, clients)
  BY <1>1, <1>10 DEF Attached
<1>. QED
  BY <1>4, <1>9, <1>11, <1>12 DEF q
\* The grace period starts in a new task; the one before it is marked.
LEMMA Rescheduled ==
  ASSUME StreamInv, NEW p, Order(p, lock, closing), CallKnown(p, closing, call, watched),
         NEW cs \in SUBSET Clients, Attached(p, lock, closing, call, cs),
         \A k \in Closers : p[k] = pc[k],
         NEW schedule, ScheduleCloseIf(schedule, p), UNCHANGED <<lock, sess>>
  PROVE  Kept(cs) /\ closeTask' \in Closers \cup {NoTask}
<1>0. closeTask \in Closers \cup {NoTask} /\ Media
  BY DEF StreamInv, Data
<1>1. UNCHANGED <<closing, call, watched>> /\ Media'
  BY <1>0 DEF Media, sess, media
<1>2. CASE ~schedule
  <2>1. pc' = p /\ closeTask' = closeTask
    BY <1>2 DEF ScheduleCloseIf
  <2>. QED
    BY <1>0, <1>1, <2>1 DEF Kept
<1>3. CASE schedule
  <2>1. FreeCloser \in Closers /\ pc[FreeCloser] = "idle"
    BY <1>3 DEF ScheduleCloseIf, CanScheduleClose, FreeCloser
  <2>2. PICK f \in Closers : f = FreeCloser /\ pc[f] = "idle"
    BY <2>1
  <2>3. /\ closeTask' = f
        /\ pc' = [k \in Tasks |-> IF k = f THEN "sleep"
                                  ELSE IF k = closeTask THEN CloseTaskCancelled[k] ELSE p[k]]
    BY <1>3, <2>2 DEF ScheduleCloseIf
  <2>4. /\ \A k \in Tasks \ Closers : pc'[k] = p[k]
        /\ \A k \in Closers :
             \/ pc'[k] = p[k]
             \/ p[k] = "idle" /\ pc'[k] = "sleep"
             \/ p[k] \in {"sleep", "lock", "hangup"} /\ pc'[k] = "cancelled"
    <3>1. \A k \in Closers :
            CloseTaskCancelled[k] = pc[k]
              \/ (pc[k] \in {"sleep", "lock", "hangup"} /\ CloseTaskCancelled[k] = "cancelled")
      BY Kinds DEF CloseTaskCancelled
    <3>. QED
      BY <1>0, <2>2, <2>3, <3>1, Kinds
  <2>5. Places(p)
    BY DEF Order
  <2>6. Calm(p, pc')
    BY <2>4 DEF Calm, Outside
  <2>7. Places(pc')
    <3>1. \A k \in Clients \cup Forced \cup {Watcher} : k \in Tasks \ Closers
      BY Kinds
    <3>2. \A k \in Clients \cup Forced \cup {Watcher} : pc'[k] = p[k]
      BY <2>4, <3>1
    <3>3. \A k \in Closers : pc'[k] \in {"idle", "sleep", "lock", "cancelled"} \cup Inside
      BY <2>4, <2>5 DEF Places
    <3>4. \A k \in Tasks :
            pc'[k] \in {"idle", "read", "lock", "sleep", "cancelled", "new", "stop", "start",
                        "removed", "wait"} \cup Opening \cup Inside
      BY <2>5, <3>2, <3>3, Kinds DEF Places
    <3>5. pc' = [k \in Tasks |-> pc'[k]]
      BY <2>3
    <3>. QED
      BY <2>5, <3>2, <3>3, <3>4, <3>5 DEF Places
  <2>8. pc'[Watcher] = p[Watcher] /\ \A c \in Clients : pc'[c] = p[c]
    BY <2>4, Kinds
  <2>9. Order(pc', lock, closing)
    BY <2>6, <2>7, <2>8, Aside DEF Order, Closing
  <2>10. CallKnown(pc', closing, call, watched) /\ Attached(pc', lock, closing, call, cs)
    BY <2>8 DEF CallKnown, Attached
  <2>. QED
    BY <1>1, <2>2, <2>3, <2>9, <2>10 DEF Kept
<1>. QED
  BY <1>2, <1>3

----------------------------------------------------------------------------
(* Steps of a kind.                                                        *)

\* The invariant in the next state, put together.
LEMMA Whole ==
  ASSUME Data', Kept(clients'), up' \subseteq {call'}, handlers' <=> clients' # {}
  PROVE  StreamInv'
BY DEF StreamInv, Kept

\* Nobody moves, and nobody comes.
LEMMA Still ==
  ASSUME StreamInv, clients' \subseteq clients,
         UNCHANGED <<pc, lock, closing, call, watched, media>>
  PROVE  Kept(clients')
BY DEF StreamInv, Kept, Attached, Media, media

\* One task moves outside the queue.
LEMMA Moved ==
  ASSUME StreamInv, NEW k \in Tasks, pc[k] \in Outside, NEW to \in Outside \ {"wait"},
         Places([pc EXCEPT ![k] = to]), NEW cs \in SUBSET clients, to # "read" \/ k \notin cs
  PROVE  /\ Order([pc EXCEPT ![k] = to], lock, closing)
         /\ CallKnown([pc EXCEPT ![k] = to], closing, call, watched)
         /\ Attached([pc EXCEPT ![k] = to], lock, closing, call, cs)
<1>. DEFINE q == [pc EXCEPT ![k] = to]
<1>1. /\ Order(pc, lock, closing) /\ Places(pc) /\ Closing(pc, lock, closing)
      /\ CallKnown(pc, closing, call, watched) /\ Attached(pc, lock, closing, call, clients)
  BY DEF StreamInv, Order
<1>2. DOMAIN pc = Tasks
  BY <1>1 DEF Places
<1>3. \A j : q[j] = pc[j] \/ (j = k /\ q[j] = to)
  BY <1>2
<1>. HIDE DEF q
<1>4. Order(q, lock, closing)
  <2>1. Places(q)
    BY DEF q
  <2>2. Calm(pc, q)
    BY <1>3 DEF Calm
  <2>3. q[Watcher] = "wait" => closing = <<>>
    BY <1>1, <1>3 DEF Closing
  <2>. QED
    BY <1>1, <2>1, <2>2, <2>3, Aside
<1>5. CallKnown(q, closing, call, watched)
  BY <1>1, <1>3 DEF CallKnown, Outside, Inside
<1>6. \A c \in cs : q[c] \in Served => pc[c] \in Served \/ call # 0
  BY <1>3 DEF Served, Outside
<1>7. Attached(q, lock, closing, call, cs)
  BY <1>1, <1>6, AttachedAside
<1>. QED
  BY <1>4, <1>5, <1>7 DEF q

\* One task moves outside the queue, and that is all.
LEMMA MovedOnly ==
  ASSUME StreamInv, NEW k \in Tasks, pc[k] \in Outside, NEW to \in Outside \ {"wait"},
         Places([pc EXCEPT ![k] = to]), clients' \subseteq clients,
         to # "read" \/ k \notin clients',
         pc' = [pc EXCEPT ![k] = to], UNCHANGED <<lock, closing, call, watched, media>>
  PROVE  Kept(clients')
<1>1. Order(pc', lock, closing) /\ CallKnown(pc', closing, call, watched)
  BY Moved
<1>2. Attached(pc', lock, closing, call, clients')
  BY Moved
<1>3. Media'
  BY DEF StreamInv, Media, media
<1>. QED
  BY <1>1, <1>2, <1>3 DEF Kept

\* Who was opening gives the lock back.
LEMMA Opened ==
  ASSUME StreamInv, NEW c \in Clients, pc[c] \in Opening,
         NEW cs \in SUBSET clients, c \in cs => call # 0
  PROVE  /\ Order([pc EXCEPT ![c] = "read"], Tail(lock), closing)
         /\ CallKnown([pc EXCEPT ![c] = "read"], closing, call, watched)
         /\ Attached([pc EXCEPT ![c] = "read"], Tail(lock), closing, call, cs)
<1>1. /\ Order(pc, lock, closing) /\ Places(pc) /\ Queue(pc, lock) /\ Closing(pc, lock, closing)
      /\ CallKnown(pc, closing, call, watched) /\ Attached(pc, lock, closing, call, clients)
  BY DEF StreamInv, Order
<1>2. c \in Tasks \ {Watcher} /\ c \notin Closers \cup Forced
  BY Kinds
<1>3. lock # <<>> /\ lock[1] = c
  BY <1>1, <1>2, Standing
<1>. DEFINE q == [pc EXCEPT ![c] = "read"]
<1>4. Places(q) /\ "read" \in Outside
  BY <1>1, <1>2, Kinds DEF Places, Outside
<1>5. \A j \in Tasks : q[j] = IF j = c THEN "read" ELSE pc[j]
  BY <1>1 DEF Places
<1>6. closing \in Seq(Tasks) /\ Without(closing, c, closing)
  BY <1>1, <1>2, NotInside
<1>7. Order(q, Tail(lock), closing) /\ \A n \in 1..Len(closing) : closing[n] = Watcher
  BY <1>1, <1>2, <1>3, <1>4, <1>6, GivenBack
<1>8. \A d \in cs \ {c} : pc[d] \in Served => call # 0
  BY <1>1 DEF Attached, Served
<1>9. Attached(q, Tail(lock), closing, call, cs)
  BY <1>1, <1>2, <1>3, <1>7, <1>8, AttachedGivenBack
<1>. HIDE DEF q
<1>10. CallKnown(q, closing, call, watched)
  BY <1>1, <1>2, <1>5, Kinds DEF CallKnown
<1>. QED
  BY <1>7, <1>9, <1>10 DEF q

\* Who was opening gives the lock back, and that is all.
LEMMA LockLeft ==
  ASSUME StreamInv, NEW c \in Clients, pc[c] \in Opening, pc' = [pc EXCEPT ![c] = "read"],
         lock' = Tail(lock), clients' \subseteq clients, c \in clients' => call # 0,
         UNCHANGED <<closing, call, watched>>, Media'
  PROVE  Kept(clients')
BY Opened DEF Kept
\* Who is opening goes on to the next await.
LEMMA GoesOn ==
  ASSUME StreamInv, NEW c \in Clients, pc[c] \in {"switch", "video"},
         NEW at \in {"video", "audio"}, pc' = [pc EXCEPT ![c] = at],
         UNCHANGED <<clients, lock, closing, call, watched>>, Media'
  PROVE  Kept(clients')
<1>1. /\ Order(pc, lock, closing) /\ Places(pc) /\ Queue(pc, lock)
      /\ CallKnown(pc, closing, call, watched) /\ Attached(pc, lock, closing, call, clients)
  BY DEF StreamInv, Order
<1>2. c \in Tasks \ {Watcher} /\ c \notin Closers \cup Forced
  BY Kinds
<1>3. lock # <<>> /\ lock[1] = c
  <2>1. pc[c] \in Opening \cup Inside
    BY DEF Opening
  <2>. QED
    BY <1>1, <1>2, <2>1, Standing
<1>4. \A j : pc'[j] = pc[j] \/ (j = c /\ pc'[j] = at)
  BY <1>1 DEF Places
<1>5. Places(pc')
  BY <1>1, <1>2, Kinds DEF Places, Opening
<1>6. Order(pc', lock, closing)
  <2>1. ASSUME NEW j \in Tasks
        PROVE  \/ pc'[j] = pc[j]
               \/ /\ j \in Clients /\ lock # <<>> /\ lock[1] = j
                  /\ pc[j] \in {"lock"} \cup Opening /\ pc'[j] \in Opening
    BY <1>3, <1>4 DEF Opening
  <2>. QED
    BY <1>1, <1>5, <2>1, MovesOn
<1>7. CallKnown(pc', closing, call, watched)
  BY <1>1, <1>2, <1>4 DEF CallKnown
<1>8. Attached(pc', lock, closing, call, clients)
  <2>1. \A d \in clients : pc'[d] \in Served => pc[d] \in Served \/ call # 0
    BY <1>4 DEF Served
  <2>. QED
    BY <1>1, <2>1, AttachedAside
<1>. QED
  BY <1>6, <1>7, <1>8 DEF Kept

----------------------------------------------------------------------------
(* The steps of a client.                                                  *)

\* A new connection waits for no lock.
LEMMA ConnectKeeps ==
  ASSUME StreamInv, NEW c \in Clients, Connect(c)
  PROVE  StreamInv'
<1>1. Data' /\ up' \subseteq {call'} /\ (handlers' <=> clients' # {})
  BY DEF StreamInv, Connect, Data, coord, sess, media
<1>2. Kept(clients')
  <2>1. c \in Tasks /\ pc[c] \in Outside /\ "read" \in Outside \ {"wait"}
    BY Kinds DEF Connect, Outside
  <2>2. Places([pc EXCEPT ![c] = "read"])
    BY Kinds DEF StreamInv, Order, Places
  <2>3. /\ clients' \subseteq clients /\ c \notin clients' /\ pc' = [pc EXCEPT ![c] = "read"]
        /\ UNCHANGED <<lock, closing, call, watched, media>>
    BY DEF Connect, coord, sess
  <2>. QED
    BY <2>1, <2>2, <2>3, MovedOnly
<1>. QED
  BY <1>1, <1>2, Whole

\* SETUP makes a session of a client, which waits for no lock.
LEMMA SetUpKeeps ==
  ASSUME StreamInv, NEW c \in Clients, SetUp(c)
  PROVE  StreamInv'
<1>1. Data' /\ up' \subseteq {call'} /\ (handlers' <=> clients' # {})
  BY DEF StreamInv, SetUp, Data, coord, sess, media
<1>2. Kept(clients')
  <2>1. clients' \subseteq clients /\ UNCHANGED <<pc, lock, closing, call, watched, media>>
    BY DEF SetUp, coord, sess
  <2>. QED
    BY <2>1, Still
<1>. QED
  BY <1>1, <1>2, Whole

\* A connection that closes while PLAY runs: the coordinator does not know.
LEMMA PeerClosesKeeps ==
  ASSUME StreamInv, NEW c \in Clients, PeerCloses(c)
  PROVE  StreamInv'
<1>1. Data' /\ up' \subseteq {call'} /\ (handlers' <=> clients' # {})
  BY DEF StreamInv, PeerCloses, Data, coord, sess, media
<1>2. Kept(clients')
  <2>1. clients' \subseteq clients /\ UNCHANGED <<pc, lock, closing, call, watched, media>>
    BY DEF PeerCloses, coord, sess
  <2>. QED
    BY <2>1, Still
<1>. QED
  BY <1>1, <1>2, Whole

\* PLAY: the client is in the list before it asks for the lock.
LEMMA PlayKeeps ==
  ASSUME StreamInv, NEW c \in Clients, Play(c)
  PROVE  StreamInv'
<1>1. Data' /\ up' \subseteq {call'} /\ (handlers' <=> clients' # {})
  BY DEF StreamInv, Play, Data, rtsp
<1>2. Kept(clients')
  <2>. DEFINE p == CloseTaskCancelled
  <2>1. /\ Order(p, lock, closing) /\ CallKnown(p, closing, call, watched)
        /\ Attached(p, lock, closing, call, clients)
        /\ \A k \in Tasks \ Closers : p[k] = pc[k]
    BY Marked
  <2>2. c \in Tasks \ {Watcher} /\ c \notin Closers \cup Forced /\ Watcher \in Tasks \ Closers
    BY Kinds
  <2>3. pc[c] = "read" /\ clients' = clients \cup {c} /\ EnterLock(c, p)
    BY DEF Play
  <2>. HIDE DEF p
  <2>4. p[c] \in Outside /\ p[Watcher] = pc[Watcher]
    BY <2>1, <2>2, <2>3 DEF Outside
  <2>5. Media /\ UNCHANGED <<call, watched>> /\ clients' \in SUBSET (clients \cup {c})
    BY <2>3 DEF StreamInv, Play
  <2>. QED
    BY <2>1, <2>2, <2>3, <2>4, <2>5, Entered
<1>. QED
  BY <1>1, <1>2, Whole

\* The end of a connection: the client leaves the list, and with the last one
\* the grace period starts.
LEMMA HandlerEndsKeeps ==
  ASSUME StreamInv, NEW c \in Clients, HandlerEnds(c)
  PROVE  StreamInv'
<1>0. Data /\ up \subseteq {call} /\ (handlers <=> clients # {}) /\ handlers \in BOOLEAN
  BY DEF StreamInv, Data
<1>1. c \in Tasks /\ pc[c] \in Outside /\ "idle" \in Outside \ {"wait"}
  BY Kinds DEF HandlerEnds, Outside
<1>2. Places([pc EXCEPT ![c] = "idle"])
  BY Kinds DEF StreamInv, Order, Places
<1>3. CASE c \in sessions
  <2>. DEFINE p == [pc EXCEPT ![c] = "idle"]
              cs == clients \ {c}
  <2>1. /\ Order(p, lock, closing) /\ CallKnown(p, closing, call, watched)
        /\ Attached(p, lock, closing, call, cs)
    BY <1>1, <1>2, Moved
  <2>2. clients' = cs /\ handlers' = (handlers /\ cs # {}) /\ ScheduleCloseIf(cs = {}, p)
    BY <1>3 DEF HandlerEnds, ClientsBecome
  <2>3. \A k \in Closers : p[k] = pc[k]
    BY Kinds DEF StreamInv, Order, Places
  <2>4. UNCHANGED <<lock, sess>> /\ cs \in SUBSET Clients
    BY <1>0 DEF HandlerEnds, Data
  <2>. HIDE DEF p
  <2>5. Kept(clients') /\ closeTask' \in Closers \cup {NoTask}
    BY <2>1, <2>2, <2>3, <2>4, Rescheduled
  <2>6. handlers' <=> clients' # {}
    BY <1>0, <2>2
  <2>7. Data' /\ up' \subseteq {call'}
    BY <1>0, <2>2, <2>5 DEF Data, HandlerEnds, sess, media
  <2>. QED
    BY <2>5, <2>6, <2>7, Whole
<1>4. CASE c \notin sessions
  <2>1. pc' = [pc EXCEPT ![c] = "idle"] /\ UNCHANGED coord
    BY <1>4 DEF HandlerEnds
  <2>2. Data' /\ up' \subseteq {call'} /\ (handlers' <=> clients' # {})
    BY <1>0, <2>1 DEF Data, HandlerEnds, coord, sess, media
  <2>3. UNCHANGED <<lock, closing, call, watched, media>> /\ clients' \subseteq clients
    BY <2>1 DEF HandlerEnds, coord, sess
  <2>4. Kept(clients')
    BY <1>1, <1>2, <2>1, <2>3, MovedOnly
  <2>. QED
    BY <2>2, <2>4, Whole
<1>. QED
  BY <1>3, <1>4
\* The answered call is the session's, and the only one: the dial began when
\* there was none, and a close cannot have been under way.
LEMMA CallUpKeeps ==
  ASSUME StreamInv, NEW c \in Clients, CallUp(c)
  PROVE  StreamInv'
<1>0. /\ Data /\ Media /\ up \subseteq {call} /\ (handlers <=> clients # {})
      /\ Order(pc, lock, closing) /\ Places(pc) /\ Queue(pc, lock)
      /\ CallKnown(pc, closing, call, watched) /\ Attached(pc, lock, closing, call, clients)
  BY DEF StreamInv, Order
<1>1. /\ pc[c] = "dial" /\ call' = calls + 1 /\ calls' = calls + 1 /\ calls < MaxCalls
      /\ up' = up \cup {calls + 1} /\ watched' = calls + 1
      /\ UNCHANGED <<clients, handlers, conn, lock, media, closing, allowed, signals, starts,
                     slot, listening, sessions, closeTask>>
  BY DEF CallUp, OpenUnchanged
<1>2. PICK at \in {"switch", "video"} : pc' = [pc EXCEPT ![c] = at, ![Watcher] = "wait"]
  BY DEF CallUp
<1>3. call = 0 /\ closing = <<>> /\ calls \in Nat /\ calls + 1 # 0
  BY <1>0, <1>1 DEF CallKnown, Data
<1>4. c \in Tasks \ {Watcher} /\ c \notin Closers \cup Forced /\ Watcher \in Tasks
  BY Kinds
<1>5. pc = [j \in Tasks |-> pc[j]]
  BY <1>0 DEF Places
<1>6. /\ pc'[c] = at /\ pc'[Watcher] = "wait"
      /\ \A j \in Tasks : j # c /\ j # Watcher => pc'[j] = pc[j]
  BY <1>2, <1>4, <1>5
<1>7. lock # <<>> /\ lock[1] = c /\ \A d \in Clients : pc[d] = "dial" => d = c
  <2>1. \A d \in Clients : pc[d] = "dial" => lock # <<>> /\ lock[1] = d
    <3>1. \A k \in Tasks \ {Watcher} : pc[k] \in Opening \cup Inside => lock # <<>> /\ lock[1] = k
      BY <1>0, Standing
    <3>2. \A d \in Clients : d \in Tasks \ {Watcher}
      BY Kinds
    <3>. QED
      BY <3>1, <3>2 DEF Opening
  <2>. QED
    BY <1>1, <2>1
<1>8. Places(pc')
  <2>1. Watcher \notin Clients \cup Closers \cup Forced
    BY Kinds
  <2>2. \A k \in Clients : pc'[k] \in {"idle", "read", "lock"} \cup Opening
    BY <1>0, <1>6, <2>1, Kinds DEF Places, Opening
  <2>3. \A k \in Closers \cup Forced : pc'[k] = pc[k]
    BY <1>4, <1>6, <2>1, Kinds
  <2>4. pc' \in [Tasks -> {"idle", "read", "lock", "sleep", "cancelled", "new", "stop", "start",
                           "removed", "wait"} \cup Opening \cup Inside]
    BY <1>0, <1>2, <1>4 DEF Places, Opening
  <2>. QED
    BY <1>0, <1>6, <2>2, <2>3, <2>4 DEF Places
<1>9. Order(pc', lock, closing)
  <2>1. ASSUME NEW j \in Tasks
        PROVE  \/ pc'[j] = pc[j]
               \/ /\ j \in Clients /\ lock # <<>> /\ lock[1] = j
                  /\ pc[j] \in {"lock"} \cup Opening /\ pc'[j] \in Opening
               \/ j = Watcher /\ pc'[j] = "wait" /\ closing = <<>>
    BY <1>1, <1>3, <1>6, <1>7 DEF Opening
  <2>. QED
    BY <1>0, <1>8, <2>1, MovesOn
<1>10. CallKnown(pc', closing, call', watched')
  <2>1. \A d \in Clients : pc'[d] # "dial"
    BY <1>4, <1>6, <1>7, Kinds
  <2>2. pc'[Watcher] \notin Inside
    BY <1>6 DEF Inside
  <2>. QED
    BY <1>1, <1>3, <2>1, <2>2 DEF CallKnown
<1>11. Attached(pc', lock, closing, call', clients)
  BY <1>0, <1>1, <1>3, AttachedAside
<1>12. Kept(clients')
  BY <1>0, <1>1, <1>9, <1>10, <1>11 DEF Kept, Media, media
<1>13. Data'
  <2>1. MaxCalls \in Nat
    BY CameraAssumption
  <2>. QED
    BY <1>0, <1>1, <2>1 DEF Data
<1>14. up' \subseteq {call'}
  BY <1>0, <1>1, <1>3 DEF Data
<1>. QED
  BY <1>0, <1>1, <1>12, <1>13, <1>14, Whole

\* open() failed: the client is dropped, a call that is up by now stays.
LEMMA FailureKeeps ==
  ASSUME StreamInv, NEW c \in Clients, pc[c] \in Opening, OpenFails(c), OpenUnchanged,
         UNCHANGED <<calls, call, up, watched>>, Media'
  PROVE  StreamInv'
<1>0. Data /\ up \subseteq {call} /\ (handlers <=> clients # {}) /\ handlers \in BOOLEAN
  BY DEF StreamInv, Data
<1>1. /\ pc' = [pc EXCEPT ![c] = "read"] /\ lock' = Tail(lock) /\ closing' = closing
      /\ clients' = clients \ {c} /\ handlers' = (handlers /\ clients \ {c} # {})
      /\ conn' = [conn EXCEPT ![c] = "closing"]
  BY DEF OpenFails, ClientsBecome, OpenUnchanged
<1>2. Kept(clients')
  BY <1>1, LockLeft
<1>3. handlers' <=> clients' # {}
  BY <1>0, <1>1
<1>4. Data'
  BY <1>0, <1>1 DEF Data, OpenUnchanged
<1>. QED
  BY <1>0, <1>2, <1>3, <1>4, Whole

\* The endpoint of an open() that goes on, or fails.
LEMMA EndpointKeeps ==
  ASSUME StreamInv, NEW c \in Clients, pc[c] \in {"switch", "video"},
         NEW at \in {"video", "audio"}, NextEndpoint(c, at), OpenUnchanged,
         UNCHANGED <<calls, call, up, watched>>, Media'
  PROVE  StreamInv'
<1>0. Data /\ up \subseteq {call} /\ (handlers <=> clients # {})
  BY DEF StreamInv
<1>1. CASE socks
  <2>1. /\ pc' = [pc EXCEPT ![c] = at]
        /\ UNCHANGED <<clients, handlers, conn, lock>>
    BY <1>1 DEF NextEndpoint, Continues
  <2>2. UNCHANGED closing
    BY DEF OpenUnchanged
  <2>3. Kept(clients')
    BY <2>1, <2>2, GoesOn
  <2>4. Data'
    BY <1>0, <2>1 DEF Data, OpenUnchanged
  <2>. QED
    BY <1>0, <2>1, <2>3, <2>4, Whole
<1>2. CASE ~socks
  <2>1. OpenFails(c) /\ pc[c] \in Opening
    BY <1>2 DEF NextEndpoint, Opening
  <2>. QED
    BY <2>1, FailureKeeps
<1>. QED
  BY <1>1, <1>2

\* open() fails while nothing of a call is there.
LEMMA DialFailsKeeps ==
  ASSUME StreamInv, NEW c \in Clients, DialFails(c)
  PROVE  StreamInv'
BY FailureKeeps DEF DialFails, StreamInv, Media, media, Opening

\* The camera is switched; the video socket is next.
LEMMA SwitchedKeeps ==
  ASSUME StreamInv, NEW c \in Clients, Switched(c)
  PROVE  StreamInv'
BY EndpointKeeps DEF Switched, StreamInv, Media, media

\* The video socket is bound; the audio one is next.
LEMMA VideoBoundKeeps ==
  ASSUME StreamInv, NEW c \in Clients, VideoBound(c)
  PROVE  StreamInv'
<1>1. Media'
  BY DEF VideoBound, StreamInv, Media
<1>. QED
  BY <1>1, EndpointKeeps DEF VideoBound

\* The last await of open(): the client gets on without asking whether the call
\* is still there, and it is, for who has attached stands nowhere else.
LEMMA AudioBoundKeeps ==
  ASSUME StreamInv, NEW c \in Clients, AudioBound(c)
  PROVE  StreamInv'
<1>0. /\ Data /\ up \subseteq {call} /\ (handlers <=> clients # {}) /\ Media
      /\ Attached(pc, lock, closing, call, clients)
  BY DEF StreamInv
<1>1. pc[c] = "audio" /\ pc[c] \in Opening /\ OpenUnchanged
      /\ UNCHANGED <<calls, call, up, watched>>
  BY DEF AudioBound, Opening
<1>2. CASE ~video /\ Active
  <2>1. OpenFails(c) /\ Media'
    BY <1>0, <1>2 DEF AudioBound, Media
  <2>. QED
    BY <1>1, <2>1, FailureKeeps
<1>3. CASE ~(~video /\ Active)
  <2>1. /\ pc' = [pc EXCEPT ![c] = "read"] /\ lock' = Tail(lock) /\ Media'
        /\ UNCHANGED <<clients, handlers, conn>>
    BY <1>0, <1>3 DEF AudioBound, Media
  <2>2. c \in clients' => call # 0
    BY <1>0, <1>1, <2>1 DEF Attached
  <2>3. UNCHANGED <<closing, call, watched>>
    BY <1>1 DEF OpenUnchanged
  <2>4. Kept(clients')
    BY <1>1, <2>1, <2>2, <2>3, LockLeft
  <2>5. Data'
    BY <1>0, <1>1, <2>1 DEF Data, OpenUnchanged
  <2>. QED
    BY <1>0, <1>1, <2>1, <2>4, <2>5, Whole
<1>. QED
  BY <1>2, <1>3
----------------------------------------------------------------------------
(* The steps around the lock and of close().                               *)

\* The first who waits goes on under the lock.
LEMMA LockGrantedKeeps ==
  ASSUME StreamInv, NEW k \in Tasks, LockGranted(k)
  PROVE  StreamInv'
<1>0. /\ Data /\ up \subseteq {call} /\ (handlers <=> clients # {}) /\ Media
      /\ Order(pc, lock, closing) /\ Places(pc) /\ Queue(pc, lock)
      /\ CallKnown(pc, closing, call, watched) /\ Attached(pc, lock, closing, call, clients)
  BY DEF StreamInv, Order
<1>1. /\ pc[k] = "lock" /\ lock # <<>> /\ Head(lock) = k /\ WithLock(k, pc, lock)
      /\ UNCHANGED <<allowed, signals, rtsp, coord, calls, call, up, watched>>
  BY DEF LockGranted, Holds
<1>2. k \in Tasks \ {Watcher} /\ lock[1] = k
  <2>1. pc[Watcher] # "lock"
    BY <1>0 DEF Places, Inside
  <2>2. lock \in Seq(Tasks \ {Watcher})
    BY <1>0 DEF Queue
  <2>. QED
    BY <1>1, <2>1, <2>2
<1>3. pc = [j \in Tasks |-> pc[j]] /\ pc = [pc EXCEPT ![k] = "lock"]
  BY <1>0, <1>1 DEF Places
<1>4. /\ Order([pc EXCEPT ![k] = "lock"], lock, closing)
      /\ CallKnown([pc EXCEPT ![k] = "lock"], closing, call, watched)
      /\ Attached([pc EXCEPT ![k] = "lock"], lock, closing, call, clients)
  BY <1>0, <1>3
<1>5. Kept(clients)
  BY <1>0, <1>1, <1>2, <1>3, <1>4, Granted
<1>6. clients' = clients /\ Data'
  BY <1>0, <1>1 DEF Data, rtsp, coord
<1>. QED
  BY <1>0, <1>1, <1>5, <1>6, Whole DEF coord

\* close() goes on to the hangup if there is a call, and returns if not; the
\* watcher is inside only when there is one.
LEMMA TasksStoppedKeeps ==
  ASSUME StreamInv, NEW k \in Tasks, TasksStopped(k)
  PROVE  StreamInv'
<1>0. /\ Data /\ up \subseteq {call} /\ (handlers <=> clients # {}) /\ Media
      /\ Order(pc, lock, closing) /\ Places(pc) /\ Queue(pc, lock) /\ Closing(pc, lock, closing)
      /\ CallKnown(pc, closing, call, watched) /\ Attached(pc, lock, closing, call, clients)
  BY DEF StreamInv, Order
<1>1. /\ pc[k] = "tasks" /\ Media'
      /\ UNCHANGED <<allowed, signals, starts, slot, listening, sessions, closeTask,
                     calls, call, up, watched>>
  BY DEF TasksStopped, MediaDown, Media
<1>2. k \notin Clients
  BY <1>0, <1>1 DEF Places, Opening
<1>3. CASE Active
  <2>1. /\ pc' = [pc EXCEPT ![k] = "hangup"]
        /\ UNCHANGED <<clients, handlers, conn, lock, closing>>
    BY <1>3 DEF TasksStopped
  <2>2. pc = [j \in Tasks |-> pc[j]]
    BY <1>0 DEF Places
  <2>3. \A j \in Tasks : pc'[j] = pc[j] \/ (j = k /\ pc[j] = "tasks" /\ pc'[j] = "hangup")
    BY <1>1, <2>1
  <2>4. Places(pc')
    BY <1>0, <1>1, <2>1, Kinds DEF Places, Inside, Opening
  <2>5. \A j \in Tasks : pc'[j] = pc[j] \/ (pc[j] \in Inside /\ pc'[j] \in Inside)
    BY <2>3 DEF Inside
  <2>6. Order(pc', lock, closing)
    BY <1>0, <2>4, <2>5, MovesOn
  <2>7. \A c \in Clients : pc'[c] = pc[c]
    BY <1>2, <2>3, Kinds
  <2>8. CallKnown(pc', closing, call, watched)
    BY <1>0, <1>3, <2>3, <2>7, Kinds DEF CallKnown, Active
  <2>9. Attached(pc', lock, closing, call, clients)
    BY <1>0, <2>7 DEF Attached, Data
  <2>10. Data'
    BY <1>0, <1>1, <2>1 DEF Data
  <2>. QED
    BY <1>0, <1>1, <2>1, <2>6, <2>8, <2>9, <2>10, Whole DEF Kept
<1>4. CASE ~Active
  <2>1. k # Watcher /\ k \in Tasks
    BY <1>0, <1>1, <1>4 DEF CallKnown, Active, Inside
  <2>2. PICK to \in {"idle", "removed", "start"} :
          /\ closing' = RemoveFirst(closing, k) /\ lock' = Tail(lock)
          /\ pc' = [pc EXCEPT ![k] = to]
          /\ to = IF k \in Closers THEN "idle" ELSE IF k = Remover THEN "removed" ELSE "start"
          /\ UNCHANGED <<clients, handlers, conn>>
    BY <1>4, <2>1 DEF TasksStopped, CloseReturns
  <2>3. to \in Outside /\ Places([pc EXCEPT ![k] = to])
    BY <1>0, <1>2, <2>1, <2>2, Kinds DEF Places, Outside, Forced
  <2>4. lock # <<>> /\ lock[1] = k
    <3>1. pc[k] \in Opening \cup Inside
      BY <1>1 DEF Inside
    <3>. QED
      BY <1>0, <2>1, <3>1, Standing
  <2>5. RemoveFirst(closing, k) \in Seq(Tasks) /\ Without(closing, k, RemoveFirst(closing, k))
    BY <1>0, Forgets DEF Closing
  <2>. DEFINE cl2 == RemoveFirst(closing, k)
  <2>6. Order(pc', lock', closing') /\ \A n \in 1..Len(closing') : closing'[n] = Watcher
    <3>. HIDE DEF cl2
    <3>1. cl2 \in Seq(Tasks) /\ Without(closing, k, cl2) /\ closing' = cl2
      BY <2>2, <2>5 DEF cl2
    <3>2. /\ Order([pc EXCEPT ![k] = to], Tail(lock), cl2)
          /\ \A n \in 1..Len(cl2) : cl2[n] = Watcher
      BY <1>0, <2>3, <2>4, <3>1, GivenBack
    <3>. QED
      BY <2>2, <3>1, <3>2
  <2>7. Attached(pc', lock', closing', call, clients)
    <3>1. \A c \in clients \ {k} : pc[c] \in Served => call # 0
      BY <1>0 DEF Attached, Served
    <3>2. k \notin clients
      BY <1>0, <1>2 DEF Data
    <3>3. Attached([pc EXCEPT ![k] = to], Tail(lock), closing', call, clients)
      BY <1>0, <2>4, <2>6, <3>1, <3>2, AttachedGivenBack
    <3>. QED
      BY <2>2, <3>3
  <2>8. CallKnown(pc', closing', call, watched)
    <3>1. pc = [j \in Tasks |-> pc[j]]
      BY <1>0 DEF Places
    <3>2. pc'[Watcher] = pc[Watcher] /\ \A c \in Clients : pc'[c] = pc[c]
      BY <1>2, <2>1, <2>2, <3>1, Kinds
    <3>3. \A c \in Clients : pc[c] # "dial"
      <4>1. \E n \in 1..Len(closing) : closing[n] = k
        BY <1>0, <1>1 DEF Closing, Inside
      <4>. QED
        BY <1>0, <4>1 DEF CallKnown
    <3>. QED
      BY <1>0, <3>2, <3>3 DEF CallKnown
  <2>9. Data'
    BY <1>0, <1>1, <2>2 DEF Data
  <2>. QED
    BY <1>0, <1>1, <2>2, <2>6, <2>7, <2>8, <2>9, Whole DEF Kept
<1>. QED
  BY <1>3, <1>4
\* The hangup has returned.  Whoever was attached while a holder of the lock
\* was closing waits behind it and will open a session of its own; the watcher
\* drops everybody.
LEMMA HungUpKeeps ==
  ASSUME StreamInv, NEW k \in Tasks, HungUp(k)
  PROVE  StreamInv'
<1>0. /\ Data /\ up \subseteq {call} /\ (handlers <=> clients # {}) /\ Media
      /\ Order(pc, lock, closing) /\ Places(pc) /\ Queue(pc, lock) /\ Closing(pc, lock, closing)
      /\ CallKnown(pc, closing, call, watched) /\ Attached(pc, lock, closing, call, clients)
  BY DEF StreamInv, Order
<1>1. /\ pc[k] = "hangup" /\ Head(closing) = k /\ up' = up \ {call} /\ call' = 0
      /\ CloseReturns(k)
      /\ UNCHANGED <<allowed, signals, starts, slot, listening, sessions, closeTask,
                     calls, watched, media>>
  BY DEF HungUp
<1>2. k \notin Clients
  BY <1>0, <1>1 DEF Places, Opening
<1>3. Media' /\ up' = {}
  BY <1>0, <1>1 DEF Media, media
<1>4. closing # <<>> /\ closing[1] = k /\ 1 \in 1..Len(closing)
  <2>1. closing \in Seq(Tasks)
    BY <1>0 DEF Closing
  <2>2. \E n \in 1..Len(closing) : closing[n] = k
    BY <1>0, <1>1 DEF Closing, Inside
  <2>. QED
    BY <1>1, <2>1, <2>2
<1>5. \A c \in Clients : pc[c] # "dial"
  BY <1>0, <1>4 DEF CallKnown
<1>6. RemoveFirst(closing, k) \in Seq(Tasks) /\ Without(closing, k, RemoveFirst(closing, k))
  BY <1>0, Forgets DEF Closing
<1>7. PICK cl2 \in Seq(Tasks) : closing' = cl2 /\ Without(closing, k, cl2)
  BY <1>1, <1>6 DEF CloseReturns
<1>8. pc = [j \in Tasks |-> pc[j]]
  BY <1>0 DEF Places
<1>9. CASE k = Watcher
  <2>1. /\ pc' = [pc EXCEPT ![Watcher] = "idle"] /\ clients' = {} /\ handlers' = FALSE
        /\ conn' = [c \in Clients |-> IF c \in clients THEN "closing" ELSE conn[c]]
        /\ lock' = lock
    BY <1>1, <1>9 DEF CloseReturns, ClientsBecome
  <2>2. Order(pc', lock, cl2)
    BY <1>0, <1>7, <1>9, <2>1, WatcherOut
  <2>3. CallKnown(pc', cl2, 0, watched)
    <3>1. pc'[Watcher] = "idle" /\ \A c \in Clients : pc'[c] = pc[c]
      BY <1>8, <2>1, Kinds
    <3>. QED
      BY <1>5, <3>1 DEF CallKnown, Inside
  <2>4. Attached(pc', lock, cl2, 0, {})
    BY DEF Attached
  <2>5. Data'
    <3>1. conn' \in [Clients -> {"none", "open", "closing"}]
      BY <1>0, <2>1 DEF Data
    <3>2. call' \in 0..calls'
      BY <1>0, <1>1 DEF Data
    <3>3. clients' \subseteq Clients /\ handlers' \in BOOLEAN /\ up' \subseteq 1..calls'
      BY <1>3, <2>1
    <3>. QED
      BY <1>0, <1>1, <3>1, <3>2, <3>3 DEF Data
  <2>. QED
    BY <1>1, <1>3, <1>7, <2>1, <2>2, <2>3, <2>4, <2>5, Whole DEF Kept
<1>10. CASE k # Watcher
  <2>1. PICK to \in {"idle", "removed", "start"} :
          /\ lock' = Tail(lock) /\ pc' = [pc EXCEPT ![k] = to]
          /\ to = IF k \in Closers THEN "idle" ELSE IF k = Remover THEN "removed" ELSE "start"
          /\ UNCHANGED <<clients, handlers, conn>>
    BY <1>1, <1>10 DEF CloseReturns
  <2>2. to \in Outside /\ Places([pc EXCEPT ![k] = to])
    BY <1>0, <1>2, <1>10, <2>1, Kinds DEF Places, Outside, Forced
  <2>3. lock # <<>> /\ lock[1] = k /\ 1 \in 1..Len(lock)
    <3>1. pc[k] \in Opening \cup Inside
      BY <1>1 DEF Inside
    <3>. QED
      BY <1>0, <1>10, <3>1, Standing
  <2>4. Order(pc', lock', cl2) /\ \A n \in 1..Len(cl2) : cl2[n] = Watcher
    <3>1. /\ Order([pc EXCEPT ![k] = to], Tail(lock), cl2)
          /\ \A n \in 1..Len(cl2) : cl2[n] = Watcher
      BY <1>0, <1>7, <2>2, <2>3, GivenBack
    <3>. QED
      BY <2>1, <3>1
  <2>5. pc[Watcher] \notin Inside /\ pc[Watcher] # "wait"
    <3>1. closing # <<>>
      BY <1>4
    <3>2. ASSUME pc[Watcher] \in Inside PROVE FALSE
      <4>1. PICK n \in 1..Len(closing) : closing[n] = Watcher
        BY <1>0, <3>2, Kinds DEF Closing
      <4>2. n = 1
        BY <1>0, <4>1 DEF Closing, Closes
      <4>. QED
        BY <1>4, <1>10, <4>1, <4>2
    <3>. QED
      BY <1>0, <3>1, <3>2 DEF Closing
  <2>6. CallKnown(pc', cl2, 0, watched)
    <3>1. pc'[Watcher] = pc[Watcher] /\ \A c \in Clients : pc'[c] = pc[c]
      BY <1>2, <1>8, <1>10, <2>1, Kinds
    <3>. QED
      BY <1>5, <2>5, <3>1 DEF CallKnown
  <2>7. \A c \in clients : pc[c] \notin Served
    <3>1. Shut(1, lock, closing)
      BY <1>4, <2>3 DEF Shut
    <3>2. \A c \in clients : \E m \in 2..Len(lock) : lock[m] = c
      BY <1>0, <2>3, <3>1 DEF Attached
    <3>3. \A m \in 2..Len(lock) : pc[lock[m]] \in {"lock", "cancelled"}
      BY <1>0, Standing
    <3>4. \A c \in clients : pc[c] \in {"lock", "cancelled"}
      BY <3>2, <3>3
    <3>. QED
      BY <3>4 DEF Served
  <2>8. Attached(pc', lock', cl2, 0, clients)
    <3>1. k \notin clients
      BY <1>0, <1>2 DEF Data
    <3>2. \A c \in clients \ {k} : pc[c] \in Served => 0 # 0
      BY <2>7
    <3>3. Attached([pc EXCEPT ![k] = to], Tail(lock), cl2, 0, clients)
      BY <1>0, <2>3, <2>4, <3>1, <3>2, AttachedGivenBack
    <3>. QED
      BY <2>1, <3>3
  <2>9. Data'
    BY <1>0, <1>1, <1>3, <2>1 DEF Data
  <2>. QED
    BY <1>0, <1>1, <1>3, <1>7, <2>1, <2>4, <2>6, <2>8, <2>9, Whole DEF Kept
<1>. QED
  BY <1>9, <1>10

\* The watcher enters close() for the call it was started for, and for no other.
LEMMA WatcherRunsKeeps ==
  ASSUME StreamInv, WatcherRuns
  PROVE  StreamInv'
<1>0. /\ Data /\ up \subseteq {call} /\ (handlers <=> clients # {}) /\ Media
      /\ Order(pc, lock, closing) /\ Places(pc) /\ Queue(pc, lock) /\ Closing(pc, lock, closing)
      /\ CallKnown(pc, closing, call, watched) /\ Attached(pc, lock, closing, call, clients)
  BY DEF StreamInv, Order
<1>1. /\ pc[Watcher] = "wait"
      /\ UNCHANGED <<allowed, signals, rtsp, coord, lock, calls, call, up, watched>>
  BY DEF WatcherRuns
<1>2. Data' /\ up' \subseteq {call'} /\ clients' = clients /\ (handlers' <=> clients' # {})
  BY <1>0, <1>1 DEF Data, rtsp, coord
<1>3. CASE call = watched
  <2>1. PICK at \in Inside : pc' = [pc EXCEPT ![Watcher] = at]
    BY <1>3 DEF WatcherRuns, BeginClose, Inside
  <2>2. closing' = Append(closing, Watcher) /\ Media'
    BY <1>0, <1>3 DEF WatcherRuns, BeginClose, MediaDown, Media, media
  <2>3. Order(pc', lock, closing')
    BY <1>0, <1>1, <2>1, <2>2, WatcherIn
  <2>4. call # 0 /\ \A c \in Clients : pc[c] # "dial"
    BY <1>0, <1>1, <1>3 DEF CallKnown
  <2>5. pc = [j \in Tasks |-> pc[j]]
    BY <1>0 DEF Places
  <2>6. pc'[Watcher] = at /\ \A c \in Clients : pc'[c] = pc[c]
    BY <2>1, <2>5, Kinds
  <2>7. CallKnown(pc', closing', call, watched)
    BY <2>4, <2>6 DEF CallKnown, Inside
  <2>8. Attached(pc', lock, closing', call, clients)
    <3>1. \A n \in 1..Len(lock) : lock[n] # Watcher
      BY <1>0, Standing
    <3>2. \A c \in clients : pc'[c] = pc[c]
      BY <1>0, <2>6 DEF Data
    <3>3. closing \in Seq(Tasks) /\ Watcher \in Tasks
      BY <1>0, Kinds DEF Closing
    <3>4. Attached(pc', lock, Append(closing, Watcher), call, clients)
      BY <1>0, <3>1, <3>2, <3>3, AttachedBegun
    <3>. QED
      BY <2>2, <3>4
  <2>. QED
    BY <1>1, <1>2, <2>2, <2>3, <2>7, <2>8, Whole DEF Kept
<1>4. CASE call # watched
  <2>1. pc' = [pc EXCEPT ![Watcher] = "idle"] /\ UNCHANGED <<closing, media>>
    BY <1>4 DEF WatcherRuns
  <2>2. Watcher \in Tasks /\ pc[Watcher] \in Outside /\ "idle" \in Outside \ {"wait"}
    BY <1>1, Kinds DEF Outside
  <2>3. Places([pc EXCEPT ![Watcher] = "idle"])
    BY <1>0, Kinds DEF Places
  <2>4. Kept(clients')
    BY <1>1, <1>2, <2>1, <2>2, <2>3, MovedOnly
  <2>. QED
    BY <1>2, <2>4, Whole
<1>. QED
  BY <1>3, <1>4
----------------------------------------------------------------------------
(* The steps of the others.                                                *)

\* Clients that are closing are dropped, and the grace begins after the last.
LEMMA ForwardKeeps ==
  ASSUME StreamInv, Forward
  PROVE  StreamInv'
<1>0. /\ Data /\ up \subseteq {call} /\ (handlers <=> clients # {}) /\ handlers \in BOOLEAN
      /\ Order(pc, lock, closing) /\ CallKnown(pc, closing, call, watched)
      /\ Attached(pc, lock, closing, call, clients)
  BY DEF StreamInv, Data
<1>. DEFINE cs == {c \in clients : conn[c] = "open"}
            schedule == \A c \in clients : conn[c] # "open"
<1>1. /\ clients' = cs /\ handlers' = (handlers /\ cs # {}) /\ ScheduleCloseIf(schedule, pc)
      /\ UNCHANGED <<allowed, signals, rtsp, lock, sess>>
  BY DEF Forward, ClientsBecome
<1>2. cs \subseteq clients /\ cs \in SUBSET Clients
  BY <1>0 DEF Data
<1>. HIDE DEF cs, schedule
<1>3. Attached(pc, lock, closing, call, cs)
  BY <1>0, <1>2 DEF Attached
<1>4. Kept(clients') /\ closeTask' \in Closers \cup {NoTask}
  BY <1>0, <1>1, <1>2, <1>3, Rescheduled
<1>5. handlers' <=> clients' # {}
  BY <1>0, <1>1, <1>2
<1>6. Data' /\ up' \subseteq {call'}
  BY <1>0, <1>1, <1>2, <1>4 DEF Data, rtsp, sess, media
<1>. QED
  BY <1>4, <1>5, <1>6, Whole

\* The grace period is over: with nobody in the list the closer asks for the
\* lock.
LEMMA GraceOverKeeps ==
  ASSUME StreamInv, NEW k \in Closers, GraceOver(k)
  PROVE  StreamInv'
<1>0. /\ Data /\ up \subseteq {call} /\ (handlers <=> clients # {}) /\ Media
      /\ Order(pc, lock, closing) /\ Places(pc) /\ CallKnown(pc, closing, call, watched)
      /\ Attached(pc, lock, closing, call, clients)
  BY DEF StreamInv, Order
<1>1. /\ pc[k] = "sleep" /\ pc[k] \in Outside /\ "idle" \in Outside \ {"wait"}
      /\ UNCHANGED <<allowed, signals, rtsp, coord, calls, call, up, watched>>
  BY DEF GraceOver, Outside
<1>2. Data' /\ up' \subseteq {call'} /\ clients' = clients /\ (handlers' <=> clients' # {})
  BY <1>0, <1>1 DEF Data, rtsp, coord
<1>3. k \in Tasks \ {Watcher} /\ k \notin Clients \cup Forced
  BY Kinds
<1>4. CASE clients = {}
  <2>1. EnterLock(k, pc)
    BY <1>4 DEF GraceOver
  <2>2. clients \in SUBSET (clients \cup {k})
    OBVIOUS
  <2>3. Kept(clients)
    BY <1>0, <1>1, <1>3, <1>4, <2>1, <2>2, Entered
  <2>. QED
    BY <1>2, <2>3, Whole
<1>5. CASE clients # {}
  <2>1. pc' = [pc EXCEPT ![k] = "idle"] /\ UNCHANGED <<lock, closing, media>>
    BY <1>5 DEF GraceOver
  <2>2. Places([pc EXCEPT ![k] = "idle"])
    BY <1>0, Kinds DEF Places
  <2>3. Kept(clients')
    BY <1>1, <1>2, <1>3, <2>1, <2>2, MovedOnly
  <2>. QED
    BY <1>2, <2>3, Whole
<1>. QED
  BY <1>4, <1>5

\* A closer that was cancelled leaves the queue and close(); the call stays.
LEMMA CloserCancelledKeeps ==
  ASSUME StreamInv, NEW k \in Closers, CloserCancelled(k)
  PROVE  StreamInv'
<1>0. /\ Data /\ up \subseteq {call} /\ (handlers <=> clients # {}) /\ Media
      /\ Order(pc, lock, closing) /\ Places(pc) /\ Queue(pc, lock) /\ Closing(pc, lock, closing)
      /\ CallKnown(pc, closing, call, watched) /\ Attached(pc, lock, closing, call, clients)
  BY DEF StreamInv, Order
<1>1. /\ pc[k] = "cancelled" /\ pc' = [pc EXCEPT ![k] = "idle"]
      /\ lock' = RemoveFirst(lock, k) /\ closing' = RemoveFirst(closing, k)
      /\ UNCHANGED <<allowed, signals, rtsp, coord, calls, call, up, watched, media>>
  BY DEF CloserCancelled
<1>2. Data' /\ Media' /\ up' \subseteq {call'} /\ clients' = clients
      /\ (handlers' <=> clients' # {}) /\ clients \in SUBSET Clients
  BY <1>0, <1>1 DEF Data, Media, media, rtsp, coord
<1>3. PICK l2 \in Seq(Tasks \ {Watcher}) : lock' = l2 /\ Without(lock, k, l2)
  BY <1>0, <1>1, Forgets DEF Queue
<1>4. PICK cl2 \in Seq(Tasks) : closing' = cl2 /\ Without(closing, k, cl2)
  BY <1>0, <1>1, Forgets DEF Closing
<1>5. Order(pc', l2, cl2)
  BY <1>0, <1>1, <1>3, <1>4, Forgotten
<1>6. Attached(pc', l2, cl2, call, clients)
  BY <1>0, <1>1, <1>2, <1>3, <1>4, AttachedForgotten
<1>7. CallKnown(pc', cl2, call, watched)
  <2>1. pc = [j \in Tasks |-> pc[j]]
    BY <1>0 DEF Places
  <2>2. pc'[Watcher] = pc[Watcher] /\ \A c \in Clients : pc'[c] = pc[c]
    BY <1>1, <2>1, Kinds
  <2>3. closing = <<>> => cl2 = <<>>
    BY <1>4 DEF Without
  <2>. QED
    BY <1>0, <2>2, <2>3 DEF CallKnown
<1>. QED
  BY <1>1, <1>2, <1>3, <1>4, <1>5, <1>6, <1>7, Whole DEF Kept

\* Who closes the session by force has emptied the list before it asks for the
\* lock.
LEMMA ForceCloseKeeps ==
  ASSUME StreamInv, NEW k \in Forced, pc[k] \in Outside, ForceClose(k),
         UNCHANGED <<call, watched>>
  PROVE  Kept(clients') /\ clients' = {} /\ handlers' = FALSE /\ closeTask' = NoTask
<1>. DEFINE p == CloseTaskCancelled
<1>1. /\ Order(p, lock, closing) /\ CallKnown(p, closing, call, watched)
      /\ Attached(p, lock, closing, call, clients)
      /\ \A j \in Tasks \ Closers : p[j] = pc[j]
  BY Marked
<1>2. k \in Tasks \ {Watcher} /\ k \notin Clients \cup Closers /\ Watcher \in Tasks \ Closers
  BY Kinds
<1>3. EnterLock(k, p) /\ clients' = {} /\ handlers' = FALSE /\ closeTask' = NoTask
  BY DEF ForceClose, ClientsBecome
<1>. HIDE DEF p
<1>4. p[k] \in Outside /\ p[Watcher] = pc[Watcher]
  BY <1>1, <1>2
<1>5. Media /\ {} \in SUBSET (clients \cup {k})
  BY DEF StreamInv
<1>6. Kept({})
  BY <1>1, <1>2, <1>3, <1>4, <1>5, Entered
<1>. QED
  BY <1>3, <1>6

\* The server stops: its sessions are forgotten, and a close is next.
LEMMA StopServerKeeps ==
  ASSUME StreamInv, NEW k \in Forced, StopServer(k)
  PROVE  StreamInv'
<1>0. /\ Data /\ up \subseteq {call} /\ (handlers <=> clients # {}) /\ Places(pc)
  BY DEF StreamInv, Order
<1>1. /\ pc[k] \in {"idle", "new"} /\ pc[k] \in Outside /\ "stop" \in Outside \ {"wait"}
      /\ sessions' = {} /\ listening' = listening \ {slot}
      /\ conn' = [c \in Clients |-> IF c \in sessions THEN "closing" ELSE conn[c]]
      /\ UNCHANGED <<allowed, signals, starts, slot, calls, call, up, watched>>
  BY DEF StopServer, Outside
<1>2. /\ conn' \in [Clients -> {"none", "open", "closing"}]
      /\ listening' \subseteq 1..starts /\ sessions' \subseteq Clients
  BY <1>0, <1>1 DEF Data
<1>3. CASE slot # 0
  <2>1. pc' = [pc EXCEPT ![k] = "stop"] /\ UNCHANGED <<coord, lock, closing, media>>
    BY <1>3 DEF StopServer
  <2>2. k \in Tasks /\ k \notin Clients
    BY Kinds
  <2>3. Places([pc EXCEPT ![k] = "stop"])
    BY <1>0, Kinds DEF Places
  <2>4. Kept(clients')
    BY <1>1, <2>1, <2>2, <2>3, MovedOnly DEF coord
  <2>5. Data'
    BY <1>0, <1>1, <1>2, <2>1 DEF Data, coord
  <2>. QED
    BY <1>0, <1>1, <2>1, <2>4, <2>5, Whole DEF coord
<1>4. CASE slot = 0
  <2>1. ForceClose(k)
    BY <1>4 DEF StopServer
  <2>2. Kept(clients') /\ clients' = {} /\ handlers' = FALSE /\ closeTask' = NoTask
    BY <1>1, <2>1, ForceCloseKeeps
  <2>3. Data'
    BY <1>0, <1>1, <1>2, <2>2 DEF Data
  <2>. QED
    BY <1>0, <1>1, <2>2, <2>3, Whole
<1>. QED
  BY <1>3, <1>4

\* The server has stopped, and the close is next.
LEMMA ServerStoppedKeeps ==
  ASSUME StreamInv, NEW k \in Forced, ServerStopped(k)
  PROVE  StreamInv'
<1>0. Data /\ up \subseteq {call}
  BY DEF StreamInv
<1>1. /\ pc[k] \in Outside /\ ForceClose(k) /\ slot' = 0
      /\ UNCHANGED <<allowed, signals, starts, listening, sessions, conn,
                     calls, call, up, watched>>
  BY DEF ServerStopped, Outside
<1>2. Kept(clients') /\ clients' = {} /\ handlers' = FALSE /\ closeTask' = NoTask
  BY <1>1, ForceCloseKeeps
<1>3. Data'
  <2>1. starts \in Nat /\ slot' = 0 /\ starts' = starts
    BY <1>0, <1>1 DEF Data
  <2>2. slot' \in 0..starts'
    BY <2>1
  <2>3. handlers' \in BOOLEAN /\ clients' \subseteq Clients
    BY <1>2
  <2>. QED
    BY <1>0, <1>1, <1>2, <2>2, <2>3 DEF Data
<1>. QED
  BY <1>0, <1>1, <1>2, <1>3, Whole

\* The teardown has closed, and the server listens again.
LEMMA ServerStartedKeeps ==
  ASSUME StreamInv, NEW k \in Forced, ServerStarted(k)
  PROVE  StreamInv'
<1>0. /\ Data /\ up \subseteq {call} /\ (handlers <=> clients # {}) /\ Places(pc)
  BY DEF StreamInv, Order
<1>1. /\ pc[k] \in Outside /\ "idle" \in Outside \ {"wait"} /\ k \in Tasks
      /\ starts' = starts + 1 /\ slot' = starts + 1
      /\ listening' = listening \cup {starts + 1} /\ pc' = [pc EXCEPT ![k] = "idle"]
      /\ UNCHANGED <<allowed, signals, sessions, conn, coord, lock, sess>>
  BY Kinds DEF ServerStarted, Outside
<1>2. Places([pc EXCEPT ![k] = "idle"])
  BY <1>0, Kinds DEF Places
<1>3. Kept(clients')
  BY <1>1, <1>2, MovedOnly DEF coord, sess
<1>4. Data'
  BY <1>0, <1>1 DEF Data, coord, sess, media
<1>. QED
  BY <1>0, <1>1, <1>3, <1>4, Whole DEF coord, sess

\* The gate closes; what is in use gets a teardown, not yet begun.
LEMMA GateClosesKeeps ==
  ASSUME StreamInv, GateCloses
  PROVE  StreamInv'
<1>0. /\ Data /\ up \subseteq {call} /\ (handlers <=> clients # {}) /\ Places(pc)
  BY DEF StreamInv, Order
<1>1. /\ signals' = signals + 1 /\ signals < MaxSignals /\ allowed' = FALSE
      /\ UNCHANGED <<rtsp, coord, lock, sess>>
  BY DEF GateCloses
<1>2. clients' = clients /\ UNCHANGED <<lock, closing, call, watched, media>>
  BY <1>1 DEF coord, sess
<1>3. Kept(clients')
  <2>1. CASE pc' = pc
    BY <1>2, <2>1, Still
  <2>2. CASE \E k \in Teardowns : pc[k] = "idle" /\ pc' = [pc EXCEPT ![k] = "new"]
    <3>1. PICK k \in Teardowns : pc[k] = "idle" /\ pc' = [pc EXCEPT ![k] = "new"]
      BY <2>2
    <3>2. k \in Forced /\ k \in Tasks /\ pc[k] \in Outside /\ "new" \in Outside \ {"wait"}
      BY <3>1, Kinds DEF Forced, Outside
    <3>3. Places([pc EXCEPT ![k] = "new"])
      BY <1>0, <3>2, Kinds DEF Places
    <3>. QED
      BY <1>2, <3>1, <3>2, <3>3, MovedOnly
  <2>. QED
    BY <2>1, <2>2 DEF GateCloses
<1>4. Data'
  <2>1. MaxSignals \in Nat
    BY CameraAssumption
  <2>2. signals' \in 0..MaxSignals
    BY <1>0, <1>1, <2>1 DEF Data
  <2>3. allowed' \in BOOLEAN
    BY <1>1
  <2>. QED
    BY <1>0, <1>1, <2>2, <2>3 DEF Data, rtsp, coord, sess, media
<1>. QED
  BY <1>0, <1>1, <1>3, <1>4, Whole DEF coord, sess

\* The gate opens, and nothing else changes.
LEMMA GateOpensKeeps ==
  ASSUME StreamInv, GateOpens
  PROVE  StreamInv'
<1>1. Data' /\ up' \subseteq {call'} /\ (handlers' <=> clients' # {})
  BY DEF StreamInv, GateOpens, Data, rtsp, coord, sess, media
<1>2. clients' \subseteq clients /\ UNCHANGED <<pc, lock, closing, call, watched, media>>
  BY DEF GateOpens, coord, sess
<1>. QED
  BY <1>1, <1>2, Still, Whole

\* The gateway ends a call, which its watcher will see.
LEMMA CallEndsKeeps ==
  ASSUME StreamInv, CallEnds
  PROVE  StreamInv'
<1>1. Data' /\ up' \subseteq {call'} /\ (handlers' <=> clients' # {})
  BY DEF StreamInv, CallEnds, Data, rtsp, coord, media
<1>2. clients' \subseteq clients /\ UNCHANGED <<pc, lock, closing, call, watched, media>>
  BY DEF CallEnds, coord
<1>. QED
  BY <1>1, <1>2, Still, Whole

\* There is nobody, no session and no call.
LEMMA InitHolds == Init => StreamInv
<1>. SUFFICES ASSUME Init PROVE StreamInv
  OBVIOUS
<1>. USE DEF Init
<1>1. Data
  <2>1. 0 \in 0..MaxSignals /\ 0 \in 0..MaxCalls /\ 0 \in 0..0 /\ 1 \in 0..1 /\ {1} \subseteq 1..1
    BY CameraAssumption
  <2>2. conn \in [Clients -> {"none", "open", "closing"}]
    OBVIOUS
  <2>. QED
    BY <2>1, <2>2 DEF Data
<1>0. Media /\ up \subseteq {call} /\ (handlers <=> clients # {})
  BY DEF Media
<1>2. \A k \in Tasks : pc[k] = "idle"
  OBVIOUS
<1>3. Places(pc)
  BY <1>2, Kinds DEF Places
<1>4. Queue(pc, lock)
  BY <1>2 DEF Queue, Opening, Inside
<1>5. Closing(pc, lock, closing)
  BY <1>2 DEF Closing, Inside
<1>6. CallKnown(pc, closing, call, watched)
  BY <1>2, Kinds DEF CallKnown, Inside
<1>7. Attached(pc, lock, closing, call, clients)
  BY DEF Attached
<1>. QED
  BY <1>0, <1>1, <1>3, <1>4, <1>5, <1>6, <1>7 DEF StreamInv, Order
----------------------------------------------------------------------------
(* The theorems.                                                           *)

\* What happens to one camera is orderly in every reachable state: one queue
\* for the lock, at most its head opening or closing, the watcher beside it and
\* only for a call that is up (camera.py, media_pipeline.py, rtsp_server.py).
THEOREM StreamSound == Spec => []StreamInv
<1>1. StreamInv /\ [Next]_vars => StreamInv'
  <2>. SUFFICES ASSUME StreamInv, [Next]_vars PROVE StreamInv'
    OBVIOUS
  <2>1. ASSUME NEW c \in Clients, ClientStep(c) PROVE StreamInv'
    BY <2>1, ConnectKeeps, SetUpKeeps, PlayKeeps, PeerClosesKeeps, HandlerEndsKeeps,
       CallUpKeeps, DialFailsKeeps, SwitchedKeeps, VideoBoundKeeps, AudioBoundKeeps
       DEF ClientStep
  <2>2. ASSUME NEW k \in Closers, GraceOver(k) \/ CloserCancelled(k) PROVE StreamInv'
    BY <2>2, GraceOverKeeps, CloserCancelledKeeps
  <2>3. ASSUME NEW k \in Forced, TeardownStep(k) PROVE StreamInv'
    BY <2>3, StopServerKeeps, ServerStoppedKeeps, ServerStartedKeeps DEF TeardownStep
  <2>4. ASSUME NEW k \in Tasks, LockGranted(k) \/ TasksStopped(k) \/ HungUp(k)
        PROVE  StreamInv'
    BY <2>4, LockGrantedKeeps, TasksStoppedKeeps, HungUpKeeps
  <2>5. CASE WatcherRuns \/ Forward \/ GateCloses \/ GateOpens \/ CallEnds
    BY <2>5, WatcherRunsKeeps, ForwardKeeps, GateClosesKeeps, GateOpensKeeps, CallEndsKeeps
  <2>6. CASE UNCHANGED vars
    BY <2>6 DEF StreamInv, Data, Media, vars, rtsp, coord, sess, media
  <2>. QED
    BY <2>1, <2>2, <2>3, <2>4, <2>5, <2>6 DEF Next, Forced
<1>. QED
  BY InitHolds, <1>1, PTL DEF Spec

\* The variables of the server, the coordinator and the session have their
\* types.
THEOREM StreamTyped == Spec => []TypeOK
<1>1. StreamInv => TypeOK
  <2>. SUFFICES ASSUME StreamInv PROVE TypeOK
    OBVIOUS
  <2>1. Data /\ Media /\ Places(pc) /\ Queue(pc, lock) /\ Closing(pc, lock, closing)
    BY DEF StreamInv, Order
  <2>2. pc \in [Tasks -> {"idle", "read", "lock", "dial", "switch", "video", "audio",
                          "sleep", "cancelled", "new", "stop", "start", "removed",
                          "wait", "tasks", "hangup"}]
    BY <2>1 DEF Places, Opening, Inside
  <2>3. lock \in Seq(Tasks) /\ closing \in Seq(Tasks)
    BY <2>1 DEF Queue, Closing
  <2>. QED
    BY <2>1, <2>2, <2>3 DEF TypeOK, Data, Media
<1>. QED
  BY StreamSound, <1>1, PTL

\* Whatever path open, close, a cancellation and the watcher take, a call that
\* the gateway still holds for us is the session's own (media_pipeline.py:
\* _call is only replaced when there is none, and only dropped after a hangup).
THEOREM NoCallLost == Spec => []NoLostCall
<1>1. StreamInv => NoLostCall
  BY DEF StreamInv, NoLostCall
<1>. QED
  BY StreamSound, <1>1, PTL

\* A dial of open() overlaps neither a close, of the watcher or of a holder of
\* the stream lock, nor an earlier call of the session.
THEOREM DialsAlone == Spec => []NoDialDuringClose
<1>1. StreamInv => NoDialDuringClose
  BY DEF StreamInv, CallKnown, NoDialDuringClose
<1>. QED
  BY StreamSound, <1>1, PTL

\* The packet handlers are installed exactly while somebody is attached, and
\* whoever is attached has, outside PLAY, a call (camera.py: attach and
\* detach_rtsp_session, _on_gateway_call_ended, force_close).
THEOREM AttachedServed == Spec => []AttachedAreServed
<1>1. StreamInv => AttachedAreServed
  BY DEF StreamInv, Attached, AttachedAreServed, Active
<1>. QED
  BY StreamSound, <1>1, PTL
=============================================================================
