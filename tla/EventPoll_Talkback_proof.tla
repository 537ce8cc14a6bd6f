--------------------------- MODULE EventPoll_Talkback_proof --------------------------
(***************************************************************************)
(* What a user is shown and what a user says, proved for every value of    *)
(* the constants.                                                          *)
(*                                                                         *)
(* The event poll (EventPoll): for every history the portal may have,      *)
(* every size of its pages, of the cache and of the screenshot window, the *)
(* cache is the recent history, each event is fired once, and what the     *)
(* entities show agrees.                                                   *)
(*                                                                         *)
(* The microphone (Talkback): for every set of sessions, every queue,      *)
(* every length of chunks and tones, what waits in the queue is new and in *)
(* order, and a stale client cannot take the ownership over.               *)
(*                                                                         *)
(* The two share no state.                                                 *)
(***************************************************************************)
EXTENDS EventPoll, Talkback, WellFoundedInduction, TLAPS

----------------------------------------------------------------------------
(* The event poll: the inductive invariant.                                *)

\* The thread keeps what it has found in the page.
Keeping == poll \in {"image", "id", "rest"}

\* The cursor is the newest event of the cache.
CursorInv ==
  /\ cursor = None <=> events = <<>>
  /\ events # <<>> => events[1] = cursor

\* The page the thread works with is the head of the cache.
PageInv ==
  Keeping =>
    \E k \in 1..Page :
      /\ k <= cursor /\ k <= Len(events)
      /\ page = [j \in 1..k |-> cursor + 1 - j]
      /\ \A j \in 1..k : events[j] = cursor + 1 - j

\* The event entity has fired what the cache holds up to the event it has
\* seen, and nothing after it.
SeenInv ==
  /\ seen <= cursor
  /\ \A e \in Ids : fired[e] <= 1 /\ (fired[e] = 1 => e <= seen)
  /\ \A e \in ToSet(events) : e <= seen => IsShot(e) \/ fired[e] = 1
  /\ seen \in ToSet(events) \/ \A e \in ToSet(events) : seen < e

\* What the picture and the last event are, or will be when the thread has
\* kept them.
Coming(step, found, kept) == IF poll \in step /\ found # None THEN found ELSE kept
ComingShot == Coming({"image"}, NewestShot, shot)
ComingId == Coming({"image", "id"}, NewestShot, shotId)
ComingLast == Coming({"image", "id", "rest"}, Newest(Rest(ToSet(page))), last)
ShotInv ==
  /\ Shots(ToSet(events)) # {} => ComingShot = Max(Shots(ToSet(events)))
  /\ Rest(ToSet(events)) # {} => ComingLast = Max(Rest(ToSet(events)))
  /\ ComingId = ComingShot
  /\ {shot, shotId, imageId} \subseteq 0..cursor

\* The picture the image entity has is that of its identifier or has been torn
\* off it, unless it was taken over between the two writes; then the identifier
\* is to change.
Between == poll = "id" /\ NewestShot # None
ImageInv ==
  /\ poll # "id" => shot = shotId
  /\ poll \in {"image", "id"} /\ NewestShot # None => NewestShot \notin {shotId, imageId}
  /\ ~Between /\ reading = "none" /\ imageId = shotId => image = shot \/ torn = shotId
  /\ poll = "idle" /\ "image" \in subs /\ shot # None => imageId = shotId

\* A screenshot of the cache that names an event has the station it should.
StationInv ==
  \A i \in Shots(ToSet(events)) :
    Names(i, ToSet(events), station) => Given(i, ToSet(events), station)

PollInv ==
  /\ PollTypeOK /\ CursorInv /\ CacheIsRecentHistory /\ PageInv /\ SeenInv
  /\ ShotInv /\ ImageInv /\ StationInv

\* Every set of natural numbers has a least element.
LEMMA LeastNatural ==
  ASSUME NEW S \in SUBSET Nat, S # {}
  PROVE  \E x \in S : \A y \in S : x <= y
<1>1. PICK x \in S : \A y \in S : <<y, x>> \notin OpToRel(<, Nat)
  BY NatLessThanWellFounded, WFMin
<1>2. ASSUME NEW y \in S PROVE x <= y
  <2>1. x \in Nat /\ y \in Nat
    OBVIOUS
  <2>2. <<y, x>> \in Nat \X Nat /\ <<y, x>>[1] = y /\ <<y, x>>[2] = x
    BY <2>1
  <2>3. ~(y < x)
    BY <1>1, <2>2, Zenon DEF OpToRel
  <2>. QED
    BY <2>1, <2>3
<1>. QED
  BY <1>2

\* The oldest of a set of events.
LEMMA MinIsLeast ==
  ASSUME NEW S \in SUBSET Nat, S # {}
  PROVE  Min(S) \in S /\ \A y \in S : Min(S) <= y
BY LeastNatural DEF Min

\* The newest of a set of events; there are only so many.
LEMMA MaxIsGreatest ==
  ASSUME NEW S, NEW b \in Nat, S \subseteq 0..b, S # {}
  PROVE  Max(S) \in S /\ \A y \in S : Max(S) >= y
<1>. DEFINE D == {b - x : x \in S}
<1>1. D \in SUBSET Nat /\ D # {}
  <2>1. ASSUME NEW x \in S PROVE b - x \in Nat
    <3>1. x \in 0..b
      OBVIOUS
    <3>. QED
      BY <3>1
  <2>. QED
    BY <2>1
<1>2. PICK d \in D : \A y \in D : d <= y
  BY <1>1, LeastNatural
<1>3. PICK x \in S : d = b - x
  BY <1>2
<1>4. ASSUME NEW y \in S PROVE x >= y
  <2>1. d <= b - y
    BY <1>2
  <2>2. x \in 0..b /\ y \in 0..b
    OBVIOUS
  <2>. QED
    BY <1>3, <2>1, <2>2
<1>. QED
  BY <1>4 DEF Max

\* An upper bound in the set is its greatest element.
LEMMA MaxIs ==
  ASSUME NEW S \in SUBSET Nat, NEW x \in S, \A y \in S : y <= x
  PROVE  Max(S) = x
<1>1. \E m \in S : \A y \in S : m >= y
  BY Zenon
<1>2. Max(S) \in S /\ \A y \in S : Max(S) >= y
  BY <1>1, Zenon DEF Max
<1>3. Max(S) \in Nat /\ x \in Nat
  BY <1>2
<1>. QED
  BY <1>2, <1>3

\* A lower bound in the set is its least element.
LEMMA MinIs ==
  ASSUME NEW S \in SUBSET Nat, NEW x \in S, \A y \in S : x <= y
  PROVE  Min(S) = x
<1>1. Min(S) \in S /\ \A y \in S : Min(S) <= y
  BY MinIsLeast, Zenon
<1>2. Min(S) \in Nat /\ x \in Nat
  BY <1>1
<1>. QED
  BY <1>1, <1>2

\* The smaller of two numbers, as the page and the cap are cut.
LEMMA MinOfTwo ==
  ASSUME NEW x \in Nat, NEW y \in Nat
  PROVE  /\ Min({x, y}) \in Nat
         /\ Min({x, y}) <= x /\ Min({x, y}) <= y
         /\ Min({x, y}) = x \/ Min({x, y}) = y
<1>1. CASE x <= y
  BY <1>1, MinIs
<1>2. CASE y <= x
  BY <1>2, MinIs
<1>. QED
  BY <1>1, <1>2

----------------------------------------------------------------------------
(* The cache and a page.                                                   *)

\* What falls from each place to the next falls from each to any later one.
LEMMA FallsThroughout ==
  ASSUME NEW n \in Nat, NEW f, \A j \in 1..n : f[j] \in Nat,
         \A j \in 1..(n - 1) : f[j] > f[j + 1]
  PROVE  \A h, j \in 1..n : h < j => f[h] > f[j]
<1> SUFFICES ASSUME NEW h \in 1..n PROVE \A j \in 1..n : h < j => f[h] > f[j]
  OBVIOUS
<1>. DEFINE Bad == {j \in 1..n : h < j /\ ~(f[h] > f[j])}
<1>1. ASSUME Bad # {} PROVE FALSE
  <2>1. PICK j \in Bad : \A y \in Bad : j <= y
    <3>1. Bad \in SUBSET Nat
      OBVIOUS
    <3>. QED
      BY <1>1, <3>1, LeastNatural
  <2>2. j \in 1..n /\ h < j /\ ~(f[h] > f[j])
    BY <2>1
  <2>. HIDE DEF Bad
  <2>3. j - 1 \in 1..(n - 1) /\ (j - 1) + 1 = j /\ h <= j - 1 /\ j - 1 \in 1..n
    BY <2>2
  <2>4. f[j - 1] > f[j]
    BY <2>3
  <2>5. f[h] \in Nat /\ f[j] \in Nat /\ f[j - 1] \in Nat
    BY <2>2, <2>3
  <2>6. h # j - 1
    BY <2>2, <2>4
  <2>7. ~(f[h] > f[j - 1])
    BY <2>2, <2>4, <2>5
  <2>8. j - 1 \in Bad
    BY <2>3, <2>6, <2>7 DEF Bad
  <2>9. j <= j - 1
    BY <2>1, <2>8
  <2>. QED
    BY <2>2, <2>9
<1>. QED
  BY <1>1

\* The cache falls from its first event, which is the cursor.
LEMMA CacheFalls ==
  ASSUME PollTypeOK, CursorInv, CacheIsRecentHistory
  PROVE  /\ Len(events) \in Nat /\ ToSet(events) = {events[j] : j \in 1..Len(events)}
         /\ \A j \in 1..Len(events) : events[j] \in Ids /\ events[j] \in 1..cursor
         /\ \A h, j \in 1..Len(events) : h < j => events[h] > events[j]
<1>1. events \in Seq(Ids) /\ Ids \subseteq Nat /\ cursor \in Nat
  BY DEF PollTypeOK, Ids
<1>2. PICK n \in Nat : n = Len(events)
  BY <1>1
<1>3. \A j \in 1..n : events[j] \in Ids /\ events[j] \in Nat /\ events[j] >= 1
  <2>1. \A j \in 1..n : events[j] \in Ids
    BY <1>1, <1>2
  <2>2. \A e \in Ids : e \in Nat /\ e >= 1
    BY PollAssumption DEF Ids
  <2>. QED
    BY <2>1, <2>2
<1>4. \A j \in 1..(n - 1) : events[j] > events[j + 1]
  BY <1>2 DEF CacheIsRecentHistory
<1>5. \A h, j \in 1..n : h < j => events[h] > events[j]
  BY <1>3, <1>4, FallsThroughout
<1>6. \A j \in 1..n : events[j] <= cursor
  <2> SUFFICES ASSUME NEW j \in 1..n PROVE events[j] <= cursor
    OBVIOUS
  <2>1. events # <<>> /\ 1 \in 1..n
    BY <1>2
  <2>2. events[1] = cursor
    BY <2>1 DEF CursorInv
  <2>3. j = 1 \/ 1 < j
    OBVIOUS
  <2>4. j = 1 \/ events[1] > events[j]
    BY <1>5, <2>1, <2>3
  <2>5. events[j] \in Nat
    BY <1>3
  <2>. QED
    BY <1>1, <2>2, <2>4, <2>5
<1>7. ToSet(events) = {events[j] : j \in 1..n}
  <2>1. DOMAIN events = 1..n
    BY <1>1, <1>2
  <2>. QED
    BY <2>1, Zenon DEF ToSet
<1>8. \A j \in 1..n : events[j] \in Ids /\ events[j] \in 1..cursor
  BY <1>1, <1>3, <1>6
<1>. QED
  BY <1>2, <1>5, <1>7, <1>8

\* What a page of so many events does to the cursor and the cache.
PageTaken(k) ==
  LET newest == Len(history)
  IN  /\ k \in 1..Page /\ k <= newest - cursor
      /\ k = Page \/ k = newest - cursor
      /\ page' = [j \in 1..k |-> newest + 1 - j]
      /\ cursor' = newest
      /\ events' \in Seq(Ids)
      /\ k <= Len(events') /\ Len(events') <= Cap /\ Len(events') <= k + Len(events)
      /\ \A j \in 1..k : events'[j] = newest + 1 - j
      /\ \A j \in (k + 1)..Len(events') : events'[j] = events[j - k]

\* A page that is not empty is put in front of the cache, which is then cut.
LEMMA PageTakes ==
  ASSUME PollTypeOK, PageArrives, poll' = "image"
  PROVE  /\ \E k \in Nat : PageTaken(k)
         /\ page' \in Seq(Ids) /\ station' = Assigned(page')
<1>1. PICK newest \in Nat : newest = Len(history)
  BY DEF PollTypeOK
<1>2. newest <= MaxEvents /\ cursor \in Nat /\ cursor <= newest /\ newest - cursor \in Nat
  <2>1. newest <= MaxEvents /\ cursor \in 0..newest
    BY <1>1 DEF PollTypeOK
  <2>. QED
    BY <1>1, <2>1
<1>3. Page \in Nat /\ Cap \in Nat /\ MaxEvents \in Nat /\ 0 < Page /\ Page <= Cap
  BY PollAssumption
<1>4. PICK k \in Nat : k = Min({Page, newest - cursor})
  BY <1>2, <1>3, MinOfTwo
<1>5. /\ k <= Page /\ k <= newest - cursor
      /\ k = Page \/ k = newest - cursor
  BY <1>2, <1>3, <1>4, MinOfTwo
<1>. DEFINE new == [j \in 1..k |-> newest + 1 - j]
<1>6. /\ new # <<>> => /\ page' = new
                       /\ station' = Assigned(new)
                       /\ cursor' = Foremost(new)
                       /\ events' = Capped(new \o events)
      /\ new = <<>> => poll' = "done"
  BY <1>1, <1>4 DEF PageArrives
<1>7. new # <<>>
  BY <1>6
<1>8. new \in Seq(Ids) /\ Len(new) = k
  <2>1. ASSUME NEW j \in 1..k PROVE newest + 1 - j \in Ids
    BY <1>2, <1>3, <1>4, <1>5 DEF Ids
  <2>. QED
    BY <2>1
<1>9. k >= 1
  BY <1>7, <1>8
<1>10. PICK n \in Nat : n = Len(events)
  BY DEF PollTypeOK
<1>11. events \in Seq(Ids)
  BY DEF PollTypeOK
<1>. DEFINE both == new \o events
<1>12. /\ both \in Seq(Ids) /\ Len(both) = k + n
       /\ \A j \in 1..k : both[j] = newest + 1 - j
       /\ \A j \in (k + 1)..(k + n) : both[j] = events[j - k]
  <2>1. both \in Seq(Ids) /\ Len(both) = k + n
    BY <1>8, <1>10, <1>11
  <2>2. \A j \in 1..k : both[j] = new[j]
    BY <1>8, <1>10, <1>11
  <2>3. \A j \in (k + 1)..(k + n) : both[j] = events[j - k]
    BY <1>8, <1>10, <1>11
  <2>. QED
    BY <2>1, <2>2, <2>3
<1>13. PICK m \in Nat : m = Min({Cap, k + n})
  BY <1>3, MinOfTwo
<1>14. m <= Cap /\ m <= k + n /\ (m = Cap \/ m = k + n)
  BY <1>3, <1>13, MinOfTwo
<1>15. events' = SubSeq(both, 1, m)
  BY <1>6, <1>7, <1>12, <1>13 DEF Capped
<1>. HIDE DEF both, new
<1>16. events' \in Seq(Ids) /\ Len(events') = m /\ \A j \in 1..m : events'[j] = both[j]
  BY <1>12, <1>14, <1>15
<1>17. k <= m
  BY <1>3, <1>5, <1>14
<1>18. cursor' = newest
  <2>1. Foremost(new) = new[1]
    BY <1>8 DEF Foremost
  <2>2. new[1] = newest
    BY <1>9 DEF new
  <2>. QED
    BY <1>6, <1>7, <2>1, <2>2
<1>19. \A j \in 1..k : events'[j] = newest + 1 - j
  BY <1>12, <1>16, <1>17
<1>20. \A j \in (k + 1)..m : events'[j] = events[j - k]
  BY <1>12, <1>14, <1>16
<1>21. page' = [j \in 1..k |-> newest + 1 - j]
  BY <1>6, <1>7 DEF new
<1>22. k \in 1..Page
  BY <1>3, <1>5, <1>9
<1>23. PageTaken(k)
  BY <1>1, <1>5, <1>10, <1>14, <1>16, <1>17, <1>18, <1>19, <1>20, <1>21, <1>22 DEF PageTaken
<1>. QED
  BY <1>6, <1>7, <1>8, <1>23

\* The cache is the recent history after the page as before it: within the
\* page nothing is missing, behind it only if it was full, and the rest is the
\* old cache.
LEMMA CacheTakes ==
  ASSUME PollTypeOK, CursorInv, CacheIsRecentHistory, NEW k \in Nat, PageTaken(k)
  PROVE  CursorInv' /\ CacheIsRecentHistory'
<1>1. PICK newest \in Nat : newest = Len(history)
  BY DEF PollTypeOK
<1>2. PICK n \in Nat : n = Len(events)
  BY CacheFalls
<1>3. PICK m \in Nat : m = Len(events')
  BY DEF PageTaken
<1>4. cursor \in Nat /\ Page \in Nat
  BY <1>1, PollAssumption DEF PollTypeOK
<1>5. /\ k >= 1 /\ k <= Page /\ cursor + k <= newest /\ (k = Page \/ k = newest - cursor)
      /\ k <= m /\ m <= k + n
  BY <1>1, <1>2, <1>3, <1>4 DEF PageTaken
<1>6. /\ \A j \in 1..k : events'[j] = newest + 1 - j
      /\ \A j \in (k + 1)..m : events'[j] = events[j - k]
  BY <1>1, <1>3 DEF PageTaken
<1>7. cursor' = newest
  BY <1>1 DEF PageTaken
<1>8. \A j \in 1..n : events[j] \in Nat /\ events[j] <= cursor
  BY <1>2, <1>4, CacheFalls
<1>9. n >= 1 => events[1] = cursor
  BY <1>2 DEF CursorInv
<1>10. \A j \in 1..(n - 1) :
         /\ events[j] > events[j + 1]
         /\ events[j] > events[j + 1] + 1 =>
              j >= Page /\ \A d \in 1..(Page - 1) : events[j - d] = events[j] + d
  BY <1>2 DEF CacheIsRecentHistory
<1>11. CursorInv'
  <2>1. events'[1] = newest
    BY <1>5, <1>6
  <2>2. events' # <<>>
    BY <1>3, <1>5
  <2>3. newest # None
    BY <1>4, <1>5 DEF None
  <2>. QED
    BY <1>7, <2>1, <2>2, <2>3 DEF CursorInv, None
<1>12. CacheIsRecentHistory'
  <2> SUFFICES ASSUME NEW j \in 1..(m - 1)
               PROVE  /\ events'[j] > events'[j + 1]
                      /\ events'[j] > events'[j + 1] + 1 =>
                           j >= Page /\ \A d \in 1..(Page - 1) : events'[j - d] = events'[j] + d
    BY <1>3 DEF CacheIsRecentHistory
  <2>1. CASE j < k
    <3>1. events'[j] = newest + 1 - j /\ events'[j + 1] = newest + 1 - (j + 1)
      BY <1>5, <1>6, <2>1
    <3>. QED
      BY <1>5, <2>1, <3>1
  <2>2. CASE j = k
    <3>1. events'[j] = newest + 1 - j /\ events'[j + 1] = events[1] /\ n >= 1
      BY <1>5, <1>6, <2>2
    <3>2. events[1] = cursor
      BY <1>9, <3>1
    <3>3. events'[j] > events'[j + 1]
      BY <1>4, <1>5, <2>2, <3>1, <3>2
    <3>4. ASSUME events'[j] > events'[j + 1] + 1, NEW d \in 1..(Page - 1)
          PROVE  events'[j - d] = events'[j] + d /\ k = Page
      <4>1. k = Page
        BY <1>4, <1>5, <2>2, <3>1, <3>2, <3>4
      <4>2. j - d \in 1..k
        BY <1>4, <2>2, <4>1
      <4>3. events'[j - d] = newest + 1 - (j - d)
        BY <1>6, <4>2
      <4>. QED
        BY <1>4, <3>1, <4>1, <4>3
    <3>5. ASSUME events'[j] > events'[j + 1] + 1 PROVE k = Page
      BY <1>4, <1>5, <2>2, <3>1, <3>2, <3>5
    <3>. QED
      BY <1>4, <2>2, <3>3, <3>4, <3>5
  <2>3. CASE j > k
    <3>1. j - k \in 1..(n - 1) /\ (j - k) + 1 = (j + 1) - k
      BY <1>5, <2>3
    <3>2. events'[j] = events[j - k] /\ events'[j + 1] = events[(j - k) + 1]
      BY <1>5, <1>6, <2>3, <3>1
    <3>3. events'[j] > events'[j + 1]
      BY <1>10, <3>1, <3>2
    <3>4. ASSUME events'[j] > events'[j + 1] + 1
          PROVE  /\ j >= Page
                 /\ \A d \in 1..(Page - 1) : events'[j - d] = events'[j] + d
      <4>1. /\ j - k >= Page
            /\ \A d \in 1..(Page - 1) : events[(j - k) - d] = events[j - k] + d
        BY <1>10, <3>1, <3>2, <3>4
      <4>2. ASSUME NEW d \in 1..(Page - 1) PROVE events'[j - d] = events'[j] + d
        <5>1. j - d \in (k + 1)..m /\ (j - d) - k = (j - k) - d
          BY <1>4, <1>5, <4>1
        <5>2. events'[j - d] = events[(j - k) - d]
          BY <1>6, <5>1
        <5>. QED
          BY <3>2, <4>1, <5>2
      <4>. QED
        BY <1>4, <1>5, <4>1, <4>2
    <3>. QED
      BY <3>3, <3>4
  <2>. QED
    BY <1>5, <2>1, <2>2, <2>3
<1>. QED
  BY <1>11, <1>12

\* The same by membership: the page is what is newer than all that was kept,
\* and of the old cache only the oldest may be gone.
LEMMA CacheKeeps ==
  ASSUME PollTypeOK, CursorInv, CacheIsRecentHistory, NEW k \in Nat, PageTaken(k)
  PROVE  /\ ToSet(page') \subseteq ToSet(events')
         /\ ToSet(events') \subseteq ToSet(page') \cup ToSet(events)
         /\ \A e \in ToSet(page') : e \in Nat /\ cursor < e /\ e <= cursor'
         /\ \A e \in ToSet(events) : e \in Nat /\ 0 < e /\ e <= cursor
         /\ \A e \in ToSet(events), d \in ToSet(events') : d < e => e \in ToSet(events')
<1>1. PICK newest \in Nat : newest = Len(history)
  BY DEF PollTypeOK
<1>2. PICK n \in Nat : n = Len(events)
  BY CacheFalls
<1>3. PICK m \in Nat : m = Len(events')
  BY DEF PageTaken
<1>4. cursor \in Nat /\ Page \in Nat
  BY <1>1, PollAssumption DEF PollTypeOK
<1>5. /\ k >= 1 /\ cursor + k <= newest /\ k <= m /\ m <= k + n /\ cursor' = newest
  BY <1>1, <1>2, <1>3, <1>4 DEF PageTaken
<1>6. /\ \A j \in 1..k : events'[j] = newest + 1 - j
      /\ \A j \in (k + 1)..m : events'[j] = events[j - k]
  BY <1>1, <1>3 DEF PageTaken
<1>7. ToSet(page') = {newest + 1 - j : j \in 1..k}
  <2>1. page' = [j \in 1..k |-> newest + 1 - j]
    BY <1>1 DEF PageTaken
  <2>. QED
    BY <2>1 DEF ToSet
<1>8. ToSet(events') = {events'[j] : j \in 1..m}
  <2>1. DOMAIN events' = 1..m
    BY <1>3 DEF PageTaken
  <2>. QED
    BY <2>1 DEF ToSet
<1>9. /\ ToSet(events) = {events[j] : j \in 1..n}
      /\ \A j \in 1..n : events[j] \in 1..cursor
      /\ \A h, j \in 1..n : h < j => events[h] > events[j]
  BY <1>2, CacheFalls
<1>10. ToSet(page') \subseteq ToSet(events')
  BY <1>5, <1>6, <1>7, <1>8
<1>11. ASSUME NEW j \in 1..m PROVE events'[j] \in ToSet(page') \cup ToSet(events)
  <2>1. CASE j <= k
    BY <1>6, <1>7, <2>1
  <2>2. CASE j > k
    <3>1. events'[j] = events[j - k] /\ j - k \in 1..n
      BY <1>5, <1>6, <2>2
    <3>. QED
      BY <1>9, <3>1
  <2>. QED
    BY <2>1, <2>2
<1>12. \A e \in ToSet(page') : e \in Nat /\ cursor < e /\ e <= cursor'
  BY <1>4, <1>5, <1>7
<1>13. \A e \in ToSet(events) : e \in Nat /\ 0 < e /\ e <= cursor
  BY <1>4, <1>9
<1>14. ASSUME NEW e \in ToSet(events), NEW d \in ToSet(events'), d < e PROVE e \in ToSet(events')
  <2>1. PICK h \in 1..n : e = events[h]
    BY <1>9
  <2>2. PICK j \in 1..m : d = events'[j]
    BY <1>8
  <2>3. ~(j <= k)
    <3>1. ASSUME j <= k PROVE FALSE
      <4>1. d = newest + 1 - j
        BY <1>6, <2>2, <3>1
      <4>. QED
        BY <1>4, <1>5, <1>13, <1>14, <3>1, <4>1
    <3>. QED
      BY <3>1
  <2>4. d = events[j - k] /\ j - k \in 1..n
    BY <1>5, <1>6, <2>2, <2>3
  <2>5. ~(j - k < h)
    <3>1. ASSUME j - k < h PROVE FALSE
      <4>1. events[j - k] > events[h]
        BY <1>9, <2>4, <3>1
      <4>2. events[j - k] \in Nat /\ events[h] \in Nat
        BY <1>4, <1>9, <2>4
      <4>. QED
        BY <1>14, <2>1, <2>4, <4>1, <4>2
    <3>. QED
      BY <3>1
  <2>6. h + k \in (k + 1)..m /\ (h + k) - k = h /\ h + k \in 1..m
    BY <1>5, <2>4, <2>5
  <2>7. events'[h + k] = e
    BY <1>6, <2>1, <2>6
  <2>. QED
    BY <1>8, <2>6, <2>7
<1>. QED
  BY <1>8, <1>10, <1>11, <1>12, <1>13, <1>14

----------------------------------------------------------------------------
(* The event a screenshot was taken for.                                   *)

\* What is known of an event the portal has told.
LEMMA ReportShape ==
  ASSUME PollTypeOK, NEW e \in Known
  PROVE  /\ e \in Nat /\ e \in Ids /\ e <= Len(history)
         /\ history[e] \in Reports /\ history[e].at \in Nat /\ history[e].belongs \in Nat
         /\ history[e].station \in Stations \cup {NoStation}
         /\ IsShot(e) => history[e].station = NoStation
<1>1. history \in Seq(Reports) /\ Len(history) \in Nat /\ Len(history) <= MaxEvents
  BY DEF PollTypeOK
<1>2. e \in Nat /\ e >= 1 /\ e <= Len(history)
  BY <1>1 DEF Known
<1>3. e \in Ids
  BY <1>1, <1>2, PollAssumption DEF Ids
<1>4. history[e] \in Reports
  BY <1>1, <1>2
<1>5. history[e] \in [kind : {"ring", "door-open", "screenshot"},
                      station : Stations \cup {NoStation}, belongs : Nat, at : Nat]
  BY <1>4, PollAssumption
<1>6. history[e].kind = "screenshot" => history[e].station = NoStation
  BY <1>4, PollAssumption
<1>. QED
  BY <1>2, <1>3, <1>4, <1>5, <1>6 DEF IsShot

\* min() finds a candidate: the closest, of these a ring if there is one, and
\* of those the newest.
LEMMA ClosestExists ==
  ASSUME PollTypeOK, NEW i \in Known, NEW C \in SUBSET Known, C # {}
  PROVE  \E e \in C : \A f \in C : Closer(e, f, i)
<1>1. \A e \in C : Distance(e, i) \in Nat /\ e \in Nat
  <2> SUFFICES ASSUME NEW e \in C PROVE Distance(e, i) \in Nat /\ e \in Nat
    OBVIOUS
  <2>1. history[e].at \in Nat /\ history[i].at \in Nat /\ e \in Nat
    BY ReportShape
  <2>. QED
    BY <2>1 DEF Distance
<1>. DEFINE D == {Distance(e, i) : e \in C}
<1>2. PICK near \in C : \A e \in C : Distance(near, i) <= Distance(e, i)
  <2>1. D \in SUBSET Nat /\ D # {}
    BY <1>1
  <2>2. PICK d \in D : \A y \in D : d <= y
    BY <2>1, LeastNatural
  <2>. QED
    BY <2>2
<1>. DEFINE Nearest == {e \in C : Distance(e, i) = Distance(near, i)}
            Rings == {e \in Nearest : history[e].kind = "ring"}
            Best == IF Rings = {} THEN Nearest ELSE Rings
            best == Max(Best)
<1>3. best \in Best /\ \A y \in Best : best >= y
  <2>1. Best \subseteq C /\ Best # {}
    BY <1>2
  <2>2. C \subseteq 0..Len(history) /\ Len(history) \in Nat
    BY DEF Known, PollTypeOK
  <2>3. Best \subseteq 0..Len(history)
    BY <2>1, <2>2
  <2>. QED
    BY <2>1, <2>2, <2>3, MaxIsGreatest
<1>4. best \in C /\ Distance(best, i) = Distance(near, i)
  BY <1>3
<1>5. ASSUME NEW f \in C PROVE Closer(best, f, i)
  <2>1. Distance(best, i) <= Distance(f, i)
    BY <1>2, <1>4
  <2>2. Distance(best, i) \in Nat /\ Distance(f, i) \in Nat
    BY <1>1, <1>4
  <2>3. CASE Distance(best, i) < Distance(f, i)
    BY <2>3 DEF Closer
  <2>4. CASE Distance(best, i) = Distance(f, i)
    <3>1. f \in Nearest
      BY <1>4, <2>4
    <3>2. CASE Rings = {}
      <4>1. history[best].kind # "ring" /\ history[f].kind # "ring" /\ best >= f
        BY <1>3, <3>1, <3>2
      <4>. QED
        BY <2>4, <4>1 DEF Closer
    <3>3. CASE Rings # {}
      <4>1. history[best].kind = "ring"
        BY <1>3, <3>3
      <4>2. history[f].kind = "ring" => best >= f
        BY <1>3, <3>1, <3>3
      <4>. QED
        BY <2>4, <4>1, <4>2 DEF Closer
    <3>. QED
      BY <3>2, <3>3
  <2>. QED
    BY <2>1, <2>2, <2>3, <2>4
<1>. QED
  BY <1>4, <1>5

\* The event found is a candidate, and the newest that is linked if there is any.
LEMMA StationEventFound ==
  ASSUME PollTypeOK, NEW i \in Known, NEW C \in SUBSET Known
  PROVE  /\ StationEvent(i, C) \in C \cup {None}
         /\ Linked(i, C) # {} =>
              /\ StationEvent(i, C) \in Linked(i, C)
              /\ \A e \in Linked(i, C) : StationEvent(i, C) >= e
<1>. DEFINE best == CHOOSE e \in C : \A f \in C : Closer(e, f, i)
<1>1. C \subseteq 0..Len(history) /\ Len(history) \in Nat
  BY DEF Known, PollTypeOK
<1>2. Linked(i, C) \subseteq C
  BY DEF Linked
<1>3. Linked(i, C) # {} => /\ Max(Linked(i, C)) \in Linked(i, C)
                          /\ \A e \in Linked(i, C) : Max(Linked(i, C)) >= e
  <2>1. Linked(i, C) \subseteq 0..Len(history)
    BY <1>1, <1>2
  <2>. QED
    BY <1>1, <2>1, MaxIsGreatest
<1>4. C # {} => Max(C) \in C
  BY <1>1, MaxIsGreatest
<1>5. C # {} => best \in C
  BY ClosestExists, Zenon
<1>6. StationEvent(i, C) =
        IF C = {} THEN None
        ELSE IF Linked(i, C) # {} THEN Max(Linked(i, C))
        ELSE IF history[i].at = 0 THEN Max(C)
        ELSE IF history[best].at # 0 /\ Distance(best, i) > Window THEN None
        ELSE best
  BY Zenon DEF StationEvent
<1>. HIDE DEF best
<1>7. CASE C = {}
  BY <1>2, <1>6, <1>7
<1>8. CASE C # {} /\ Linked(i, C) # {}
  BY <1>2, <1>3, <1>6, <1>8
<1>9. CASE C # {} /\ Linked(i, C) = {}
  BY <1>4, <1>5, <1>6, <1>9
<1>. QED
  BY <1>7, <1>8, <1>9

----------------------------------------------------------------------------
(* The stations of a page.                                                 *)

\* The loop over the page is well defined: the labels after each place follow
\* from those after the place before.
LEMMA AssignedRuns ==
  ASSUME NEW new, Len(new) \in Nat
  PROVE  \E after : /\ after[0] = Told(new)
                    /\ \A j \in 1..Len(new) : after[j] = Assign(after[j - 1], new[j], new)
                    /\ Assigned(new) = after[Len(new)]
<1>. DEFINE Step(g, j) == IF j = 0 THEN Told(new) ELSE Assign(g[j - 1], new[j], new)
            Runs(m) == \E g : g = [j \in 0..m |-> Step(g, j)]
            Bad == {m \in 0..Len(new) : ~Runs(m)}
            run == CHOOSE g : g = [j \in 0..Len(new) |-> Step(g, j)]
<1>1. ASSUME Bad # {} PROVE FALSE
  <2>1. PICK m \in Bad : \A y \in Bad : m <= y
    <3>1. Bad \in SUBSET Nat
      OBVIOUS
    <3>. QED
      BY <1>1, <3>1, LeastNatural
  <2>2. m \in 0..Len(new) /\ ~Runs(m)
    BY <2>1
  <2>3. CASE m = 0
    <3>. DEFINE h == [j \in 0..0 |-> Told(new)]
    <3>1. h = [j \in 0..0 |-> Step(h, j)]
      OBVIOUS
    <3>. QED
      BY <2>2, <2>3, <3>1
  <2>4. CASE m # 0
    <3>1. m - 1 \in 0..Len(new) /\ ~(m <= m - 1)
      BY <2>2, <2>4
    <3>2. Runs(m - 1)
      BY <2>1, <3>1
    <3>3. PICK g : g = [j \in 0..(m - 1) |-> Step(g, j)]
      BY <3>2
    <3>. DEFINE h == [j \in 0..m |-> IF j = m THEN Step(g, m) ELSE g[j]]
    <3>4. ASSUME NEW j \in 0..m PROVE h[j] = Step(h, j)
      <4>1. j = 0 \/ h[j - 1] = g[j - 1]
        BY <2>2
      <4>2. Step(h, j) = Step(g, j)
        BY <4>1
      <4>3. CASE j = m
        BY <4>2, <4>3
      <4>4. CASE j # m
        <5>1. j \in 0..(m - 1)
          BY <2>2, <4>4
        <5>2. g[j] = Step(g, j)
          BY <3>3, <5>1
        <5>. QED
          BY <4>2, <4>4, <5>2
      <4>. QED
        BY <4>3, <4>4
    <3>5. h = [j \in 0..m |-> Step(h, j)]
      <4>. HIDE DEF Step
      <4>. QED
        BY <3>4
    <3>6. Runs(m)
      BY <3>5
    <3>. QED
      BY <2>2, <3>6
  <2>. QED
    BY <2>3, <2>4
<1>2. Runs(Len(new))
  BY <1>1
<1>3. run = [j \in 0..Len(new) |-> Step(run, j)]
  BY <1>2, Zenon
<1>4. Assigned(new) = run[Len(new)]
  BY Zenon DEF Assigned
<1>. HIDE DEF run
<1>5. \A j \in 0..Len(new) : run[j] = Step(run, j)
  <2>. HIDE DEF Step
  <2>. QED
    BY <1>3
<1>6. run[0] = Told(new)
  BY <1>5
<1>7. \A j \in 1..Len(new) : run[j] = Assign(run[j - 1], new[j], new)
  BY <1>5
<1>. QED
  BY <1>4, <1>6, <1>7

Labels == [Ids -> Stations \cup {NoStation}]

\* How far the loop has come after so many places of the page: only
\* screenshots of the page change, those it has passed have the station they
\* should, and those still to come have none.
Passed(new, known, j) ==
  LET both == ToSet(new) \cup ToSet(events)
  IN  /\ known \in Labels
      /\ \A e \in Ids : (e \in ToSet(new) /\ IsShot(e)) \/ known[e] = Told(new)[e]
      /\ \A i \in Shots(ToSet(events)) \ ToSet(new) :
           Names(i, both, Told(new)) => Given(i, both, known)
      /\ \A h \in 1..j :
           IsShot(new[h]) /\ Names(new[h], both, Told(new)) => Given(new[h], both, known)
      /\ \A h \in (j + 1)..Len(new) : IsShot(new[h]) => known[new[h]] = NoStation

\* One place more: the event a screenshot names is itself a candidate, and the
\* newest that is linked gives its station; no station given before changes.
LEMMA PassesOne ==
  ASSUME PollTypeOK, NEW new, NEW known, Len(new) \in Nat, NEW j \in 1..Len(new),
         ToSet(new) \subseteq Known, ToSet(events) \subseteq Known,
         \A h \in 1..Len(new) : new[h] \in ToSet(new),
         \A g, h \in 1..Len(new) : g # h => new[g] # new[h],
         Passed(new, known, j - 1)
  PROVE  Passed(new, Assign(known, new[j], new), j)
<1>. DEFINE both == ToSet(new) \cup ToSet(events)
            told == Told(new)
            s == new[j]
            candidates == {e \in both \ {s} : known[e] # NoStation}
            from == StationEvent(s, candidates)
            next == Assign(known, s, new)
<1>1. next = IF IsShot(s) /\ from # None THEN [known EXCEPT ![s] = known[from]] ELSE known
  BY Zenon DEF Assign
<1>2. /\ known \in Labels
      /\ \A e \in Ids : (e \in ToSet(new) /\ IsShot(e)) \/ known[e] = told[e]
      /\ \A i \in Shots(ToSet(events)) \ ToSet(new) : Names(i, both, told) => Given(i, both, known)
      /\ \A h \in 1..(j - 1) :
           IsShot(new[h]) /\ Names(new[h], both, told) => Given(new[h], both, known)
      /\ \A h \in (j - 1 + 1)..Len(new) : IsShot(new[h]) => known[new[h]] = NoStation
  BY Zenon DEF Passed
<1>3. s \in Known /\ both \subseteq Known /\ candidates \subseteq Known /\ s \in ToSet(new)
  OBVIOUS
<1>4. \A e \in both : e \in Ids /\ e \in Nat /\ e # None
  <2> SUFFICES ASSUME NEW e \in both PROVE e \in Ids /\ e \in Nat /\ e # None
    OBVIOUS
  <2>1. e \in Known
    BY <1>3
  <2>2. e >= 1
    BY <2>1, ReportShape DEF Known
  <2>. QED
    BY <2>1, <2>2, ReportShape DEF None
<1>5. IsShot(s) => known[s] = NoStation
  BY <1>2
<1>6. \A h \in 1..Len(new) : h # j => new[h] # s
  OBVIOUS
<1>7. s \in both /\ s \in Ids
  BY <1>3, <1>4
<1>8. Shots(ToSet(events)) \subseteq both /\ \A h \in 1..Len(new) : new[h] \in both
  BY DEF Shots
<1>. HIDE DEF both, told, candidates, from, next, s
<1>9. from # None => from \in candidates
  BY <1>3, StationEventFound DEF from
<1>10. next \in Labels
  <2>1. known \in [Ids -> Stations \cup {NoStation}]
    BY <1>2 DEF Labels
  <2>2. from # None => known[from] \in Stations \cup {NoStation}
    BY <1>4, <1>9, <2>1 DEF candidates
  <2>3. next \in [Ids -> Stations \cup {NoStation}]
    BY <1>1, <2>1, <2>2
  <2>. QED
    BY <2>3 DEF Labels
<1>11. \A e \in Ids : e # s => next[e] = known[e]
  BY <1>1, <1>2 DEF Labels
<1>12. next[s] = IF IsShot(s) /\ from # None THEN known[from] ELSE known[s]
  BY <1>1, <1>2, <1>7 DEF Labels
<1>13. \A e \in Ids : (e \in ToSet(new) /\ IsShot(e)) \/ next[e] = told[e]
  <2> SUFFICES ASSUME NEW e \in Ids PROVE (e \in ToSet(new) /\ IsShot(e)) \/ next[e] = told[e]
    OBVIOUS
  <2>1. CASE e = s
    BY <1>2, <1>3, <1>12, <2>1
  <2>2. CASE e # s
    BY <1>2, <1>11, <2>2
  <2>. QED
    BY <2>1, <2>2
\* What has been given before is still given: s gave nobody its station.
<1>14. ASSUME NEW i \in both, i # s, Given(i, both, known) PROVE Given(i, both, next)
  <2>1. PICK f \in Linked(i, both \ {i}) :
          f >= history[i].belongs /\ known[f] # NoStation /\ known[i] = known[f]
    BY <1>14 DEF Given
  <2>2. f \in both /\ f \in Ids /\ i \in Ids
    BY <1>4, <2>1 DEF Linked
  <2>3. next[f] = known[f]
    BY <1>1, <1>5, <1>11, <2>1, <2>2
  <2>4. next[i] = known[i]
    BY <1>11, <1>14, <2>2
  <2>. QED
    BY <2>1, <2>3, <2>4 DEF Given
\* The station a screenshot is given.
<1>15. ASSUME IsShot(s), Names(s, both, told) PROVE Given(s, both, next)
  <2>. DEFINE e == history[s].belongs
  <2>1. e \in both /\ ~IsShot(e) /\ e < s /\ told[e] # NoStation
    BY <1>15 DEF Names, Rest, Shots
  <2>2. e # s /\ e # None /\ e \in Ids /\ e \in Nat
    BY <1>4, <1>15, <2>1
  <2>3. known[e] = told[e]
    BY <1>2, <2>1, <2>2
  <2>4. e \in candidates
    BY <2>1, <2>2, <2>3 DEF candidates
  <2>5. e \in Linked(s, candidates)
    BY <2>2, <2>4 DEF Linked
  <2>6. from \in Linked(s, candidates) /\ from >= e
    BY <1>3, <2>5, StationEventFound DEF from
  <2>7. from \in both \ {s} /\ known[from] # NoStation
    BY <2>6 DEF Linked, candidates
  <2>8. from \in Linked(s, both \ {s})
    BY <2>6, <2>7 DEF Linked
  <2>9. from \in Ids /\ from # None /\ from # s
    BY <1>4, <2>7
  <2>10. next[from] = known[from] /\ next[s] = known[from]
    BY <1>11, <1>12, <1>15, <2>9
  <2>. QED
    BY <2>6, <2>7, <2>8, <2>10 DEF Given
<1>16. ASSUME NEW i \in Shots(ToSet(events)) \ ToSet(new), Names(i, both, told)
       PROVE  Given(i, both, next)
  <2>1. i \in both /\ i # s
    BY <1>3, <1>8
  <2>2. Given(i, both, known)
    BY <1>2, <1>16
  <2>. QED
    BY <1>14, <2>1, <2>2
<1>17. ASSUME NEW h \in 1..j, IsShot(new[h]), Names(new[h], both, told)
       PROVE  Given(new[h], both, next)
  <2>1. CASE h = j
    BY <1>15, <1>17, <2>1 DEF s
  <2>2. CASE h # j
    <3>1. h \in 1..(j - 1) /\ h \in 1..Len(new)
      BY <2>2
    <3>2. new[h] \in both /\ new[h] # s
      BY <1>6, <1>8, <2>2, <3>1
    <3>3. Given(new[h], both, known)
      BY <1>2, <1>17, <3>1
    <3>. QED
      BY <1>14, <3>2, <3>3
  <2>. QED
    BY <2>1, <2>2
<1>18. ASSUME NEW h \in (j + 1)..Len(new), IsShot(new[h]) PROVE next[new[h]] = NoStation
  <2>1. h # j /\ h \in 1..Len(new) /\ h \in (j - 1 + 1)..Len(new)
    OBVIOUS
  <2>2. new[h] # s /\ new[h] \in Ids
    BY <1>4, <1>6, <1>8, <2>1
  <2>3. known[new[h]] = NoStation
    BY <1>2, <1>18, <2>1
  <2>. QED
    BY <1>11, <2>2, <2>3
<1>19. Passed(new, next, j)
  BY <1>10, <1>13, <1>16, <1>17, <1>18, Zenon DEF Passed, told, both
<1>. QED
  BY <1>19, Zenon DEF next, s

\* Before the loop a screenshot of the page has no station, and those of the
\* cache have the one they should.
LEMMA PassesNone ==
  ASSUME PollTypeOK, StationInv, NEW new, Len(new) \in Nat,
         ToSet(new) \subseteq Known, ToSet(events) \subseteq Known,
         \A h \in 1..Len(new) : new[h] \in ToSet(new),
         \A e \in ToSet(new) : cursor < e, \A e \in ToSet(events) : e <= cursor
  PROVE  Passed(new, Told(new), 0)
<1>. DEFINE both == ToSet(new) \cup ToSet(events)
            told == Told(new)
<1>1. /\ \A e \in Ids : told[e] = IF e \in ToSet(new) THEN history[e].station ELSE station[e]
      /\ told = [e \in Ids |-> IF e \in ToSet(new) THEN history[e].station ELSE station[e]]
  BY DEF Told
<1>. HIDE DEF told
<1>2. told \in Labels
  <2>1. station \in [Ids -> Stations \cup {NoStation}]
    BY DEF PollTypeOK
  <2>2. \A e \in Ids : e \in ToSet(new) => history[e].station \in Stations \cup {NoStation}
    BY ReportShape
  <2>3. \A e \in Ids : (IF e \in ToSet(new) THEN history[e].station ELSE station[e])
                         \in Stations \cup {NoStation}
    BY <2>1, <2>2
  <2>. QED
    BY <1>1, <2>3 DEF Labels
<1>3. cursor \in Nat /\ \A e \in both : e \in Ids /\ e \in Nat
  <2>1. cursor \in Nat
    BY DEF PollTypeOK
  <2>. QED
    BY <2>1, ReportShape
\* The cache is told as before.
<1>4. \A e \in ToSet(events) : e \notin ToSet(new) /\ told[e] = station[e]
  <2> SUFFICES ASSUME NEW e \in ToSet(events)
               PROVE  e \notin ToSet(new) /\ told[e] = station[e]
    OBVIOUS
  <2>1. e \in Nat /\ e \in Ids /\ ~(cursor < e)
    BY <1>3
  <2>. QED
    BY <1>1, <2>1
<1>5. ASSUME NEW i \in Shots(ToSet(events)) \ ToSet(new), Names(i, both, told)
      PROVE  Given(i, both, told)
  <2>. DEFINE e == history[i].belongs
  <2>1. i \in ToSet(events) /\ e \in both /\ ~IsShot(e) /\ e < i /\ told[e] # NoStation
    BY <1>5 DEF Names, Rest, Shots
  <2>2. e \in ToSet(events)
    <3>1. e \in Nat /\ i \in Nat /\ i <= cursor
      BY <1>3, <2>1
    <3>2. ~(cursor < e)
      BY <1>3, <2>1, <3>1
    <3>. QED
      BY <2>1, <3>2
  <2>3. Names(i, ToSet(events), station)
    BY <1>4, <2>1, <2>2 DEF Names, Rest, Shots
  <2>4. PICK f \in Linked(i, ToSet(events) \ {i}) :
          f >= e /\ station[f] # NoStation /\ station[i] = station[f]
    BY <2>3 DEF StationInv, Given
  <2>5. f \in ToSet(events) /\ f \in Linked(i, both \ {i})
    BY <2>4 DEF Linked
  <2>6. told[f] = station[f] /\ told[i] = station[i]
    BY <1>4, <2>1, <2>5
  <2>. QED
    BY <2>4, <2>5, <2>6 DEF Given
<1>6. ASSUME NEW h \in 1..Len(new), IsShot(new[h]) PROVE told[new[h]] = NoStation
  BY <1>1, <1>3, <1>6, ReportShape
<1>7. \A h \in 1..0 :
        IsShot(new[h]) /\ Names(new[h], both, told) => Given(new[h], both, told)
  OBVIOUS
<1>8. \A h \in (0 + 1)..Len(new) : IsShot(new[h]) => told[new[h]] = NoStation
  BY <1>6
<1>9. \A e \in Ids : (e \in ToSet(new) /\ IsShot(e)) \/ told[e] = told[e]
  OBVIOUS
<1>. QED
  BY <1>2, <1>5, <1>7, <1>8, <1>9, Zenon DEF Passed, told

\* After the loop.
LEMMA PassesAll ==
  ASSUME PollTypeOK, StationInv, NEW new, Len(new) \in Nat,
         ToSet(new) \subseteq Known, ToSet(events) \subseteq Known,
         \A j \in 1..Len(new) : new[j] \in ToSet(new),
         \A g, h \in 1..Len(new) : g # h => new[g] # new[h],
         \A e \in ToSet(new) : cursor < e, \A e \in ToSet(events) : e <= cursor
  PROVE  Passed(new, Assigned(new), Len(new))
<1>1. PICK after : /\ after[0] = Told(new)
                   /\ \A j \in 1..Len(new) : after[j] = Assign(after[j - 1], new[j], new)
                   /\ Assigned(new) = after[Len(new)]
  BY AssignedRuns
<1>. DEFINE Bad == {j \in 0..Len(new) : ~Passed(new, after[j], j)}
<1>2. ASSUME Bad # {} PROVE FALSE
  <2>1. PICK j \in Bad : \A y \in Bad : j <= y
    <3>1. Bad \in SUBSET Nat
      OBVIOUS
    <3>. QED
      BY <1>2, <3>1, LeastNatural
  <2>2. j \in 0..Len(new) /\ ~Passed(new, after[j], j)
    BY <2>1
  <2>3. CASE j = 0
    BY <1>1, <2>2, <2>3, PassesNone
  <2>4. CASE j # 0
    <3>1. j - 1 \in 0..Len(new) /\ ~(j <= j - 1) /\ j \in 1..Len(new)
      BY <2>2, <2>4
    <3>2. Passed(new, after[j - 1], j - 1)
      BY <2>1, <3>1
    <3>3. Passed(new, Assign(after[j - 1], new[j], new), j)
      BY <3>1, <3>2, PassesOne
    <3>. QED
      BY <1>1, <2>2, <3>1, <3>3
  <2>. QED
    BY <2>3, <2>4
<1>. QED
  BY <1>1, <1>2

----------------------------------------------------------------------------
(* What is newest.                                                         *)

\* The cache is of events the portal has told.
LEMMA CacheIsKnown ==
  ASSUME PollTypeOK, CursorInv, CacheIsRecentHistory
  PROVE  /\ \A e \in ToSet(events) : e \in 1..cursor /\ e \in Nat /\ e \in Ids /\ e \in Known
         /\ cursor \in Nat /\ cursor <= Len(history) /\ Len(history) \in Nat
<1>1. cursor \in Nat /\ cursor <= Len(history) /\ Len(history) \in Nat
  BY DEF PollTypeOK
<1>2. \A e \in ToSet(events) : e \in 1..cursor /\ e \in Ids
  BY CacheFalls
<1>3. \A e \in 1..cursor : e \in Nat /\ e \in Known
  BY <1>1 DEF Known
<1>. QED
  BY <1>1, <1>2, <1>3

\* The page the thread works with is part of the cache.
LEMMA PageIsCached ==
  ASSUME PollTypeOK, PageInv, Keeping
  PROVE  ToSet(page) \subseteq ToSet(events)
<1>1. PICK k \in 1..Page : /\ k <= Len(events)
                           /\ page = [j \in 1..k |-> cursor + 1 - j]
                           /\ \A j \in 1..k : events[j] = cursor + 1 - j
  BY DEF PageInv
<1>2. DOMAIN events = 1..Len(events) /\ Len(events) \in Nat /\ Page \in Nat
  BY PollAssumption DEF PollTypeOK
<1>3. \A j \in 1..k : j \in 1..Len(events) /\ page[j] = events[j]
  BY <1>1, <1>2
<1>4. DOMAIN page = 1..k
  BY <1>1
<1>. QED
  BY <1>2, <1>3, <1>4 DEF ToSet

\* The newest of some events, and None where there are none.
LEMMA NewestIs ==
  ASSUME NEW b \in Nat, NEW S, S \subseteq 1..b
  PROVE  /\ Newest(S) \in 0..b
         /\ S # {} => Newest(S) = Max(S) /\ Newest(S) \in S /\ Newest(S) # None
         /\ S = {} => Newest(S) = None
<1>1. CASE S = {}
  BY <1>1 DEF Newest, None
<1>2. CASE S # {}
  <2>1. S \subseteq 0..b
    OBVIOUS
  <2>2. Max(S) \in S
    BY <1>2, <2>1, MaxIsGreatest
  <2>3. Max(S) \in 1..b
    BY <2>2
  <2>. QED
    BY <1>2, <2>2, <2>3 DEF Newest, None
<1>. QED
  BY <1>1, <1>2

\* A cache K follows from a page N, the old cache E and the cursors.
Follows(K, N, E, c, d) ==
  /\ c \in Nat /\ d \in Nat
  /\ N \subseteq K /\ K \subseteq N \cup E
  /\ \A e \in N : e \in Nat /\ c < e /\ e <= d
  /\ \A e \in E : e \in Nat /\ e <= c
  /\ \A e \in E, x \in K : x < e => e \in K

\* The newest after a page is the newest of the page, or of the old cache if
\* the page has none.
LEMMA NewestMerges ==
  ASSUME NEW c, NEW d, NEW N, NEW E, NEW K, Follows(K, N, E, c, d), K # {}
  PROVE  /\ N # {} => Max(K) = Max(N)
         /\ N = {} => E # {} /\ Max(K) = Max(E)
<1>. c \in Nat /\ d \in Nat
  BY DEF Follows
<1>1. K \subseteq Nat
  BY DEF Follows
<1>2. ASSUME N # {} PROVE Max(K) = Max(N)
  <2>. DEFINE m == Max(N)
  <2>1. N \subseteq 0..d
    BY DEF Follows
  <2>2. m \in N /\ \A y \in N : m >= y
    BY <1>2, <2>1, MaxIsGreatest
  <2>. HIDE DEF m
  <2>3. m \in K /\ m \in Nat /\ c < m
    BY <2>2 DEF Follows
  <2>4. ASSUME NEW y \in K PROVE y <= m
    <3>1. CASE y \in N
      <4>1. m >= y /\ y \in Nat
        BY <2>2, <3>1 DEF Follows
      <4>. QED
        BY <2>3, <4>1
    <3>2. CASE y \in E
      <4>1. y <= c /\ y \in Nat
        BY <3>2 DEF Follows
      <4>. QED
        BY <2>3, <4>1
    <3>. QED
      BY <3>1, <3>2 DEF Follows
  <2>5. K \in SUBSET Nat
    BY <1>1
  <2>6. Max(K) = m
    BY <2>3, <2>4, <2>5, MaxIs
  <2>. QED
    BY <2>6 DEF m
<1>3. ASSUME N = {} PROVE E # {} /\ Max(K) = Max(E)
  <2>. DEFINE m == Max(E)
  <2>1. K \subseteq E /\ E # {}
    BY <1>3 DEF Follows
  <2>2. E \subseteq 0..c
    BY DEF Follows
  <2>3. m \in E /\ \A y \in E : m >= y
    BY <2>1, <2>2, MaxIsGreatest
  <2>. HIDE DEF m
  <2>4. m \in Nat /\ \A y \in K : y \in Nat /\ y <= m
    BY <2>1, <2>3 DEF Follows
  <2>5. PICK x \in K : TRUE
    OBVIOUS
  <2>6. x < m \/ x = m
    BY <2>4, <2>5
  <2>7. m \in K
    BY <2>3, <2>5, <2>6 DEF Follows
  <2>8. K \in SUBSET Nat /\ m \in K
    BY <1>1, <2>3, <2>7
  <2>9. Max(K) = m
    BY <2>4, <2>8, MaxIs
  <2>. QED
    BY <2>1, <2>9 DEF m
<1>. QED
  BY <1>2, <1>3

\* The loop of the event entity stops at the event it has seen: what comes
\* before is newer.
LEMMA UnseenIsNewer ==
  ASSUME PollTypeOK, CursorInv, CacheIsRecentHistory, SeenInv
  PROVE  Unseen = {e \in ToSet(events) : seen < e}
<1>1. PICK n \in Nat : n = Len(events)
  BY CacheFalls
<1>2. /\ ToSet(events) = {events[j] : j \in 1..n}
      /\ \A h, j \in 1..n : h < j => events[h] > events[j]
  BY <1>1, CacheFalls
<1>3. seen \in Nat /\ \A j \in 1..n : events[j] \in Nat
  <2>1. \A j \in 1..n : events[j] \in Nat
    BY <1>2, CacheIsKnown
  <2>. QED
    BY <2>1 DEF PollTypeOK
<1>4. CASE ~(\E j \in 1..n : events[j] = seen)
  <2>1. Unseen = ToSet(events)
    BY <1>1, <1>4 DEF Unseen
  <2>2. seen \notin ToSet(events)
    BY <1>2, <1>4
  <2>3. \A e \in ToSet(events) : seen < e
    BY <2>2 DEF SeenInv
  <2>. QED
    BY <2>1, <2>3
<1>5. CASE \E j \in 1..n : events[j] = seen
  <2>1. PICK j \in 1..n : events[j] = seen
    BY <1>5
  <2>. DEFINE I == {i \in 1..n : events[i] = seen}
  <2>2. I = {j}
    <3>1. ASSUME NEW i \in 1..n, events[i] = seen PROVE i = j
      <4>1. i < j \/ j < i \/ i = j
        OBVIOUS
      <4>2. ~(i < j)
        BY <1>2, <1>3, <2>1, <3>1
      <4>3. ~(j < i)
        BY <1>2, <1>3, <2>1, <3>1
      <4>. QED
        BY <4>1, <4>2, <4>3
    <3>. QED
      BY <2>1, <3>1
  <2>3. SelectInSeq(events, LAMBDA e : e = seen) = IF I # {} THEN Min(I) ELSE 0
    BY <1>1 DEF SelectInSeq
  <2>4. Min(I) = j
    <3>1. j \in I /\ I \in SUBSET Nat /\ \A y \in I : j <= y
      BY <2>2
    <3>. QED
      BY <3>1, MinIs
  <2>5. SelectInSeq(events, LAMBDA e : e = seen) = j
    BY <2>2, <2>3, <2>4
  <2>6. Unseen = ToSet(SubSeq(events, 1, j - 1))
    BY <1>1, <1>5, <2>5 DEF Unseen
  <2>7. ToSet(SubSeq(events, 1, j - 1)) = {events[h] : h \in 1..(j - 1)}
    <3>. DEFINE before == SubSeq(events, 1, j - 1)
    <3>1. events \in Seq(Ids) /\ j - 1 \in 0..Len(events)
      BY <1>1 DEF PollTypeOK
    <3>2. DOMAIN before = 1..(j - 1) /\ \A h \in 1..(j - 1) : before[h] = events[h]
      BY <3>1
    <3>. QED
      BY <3>2 DEF ToSet
  <2>8. ASSUME NEW e \in ToSet(events) PROVE e \in {events[h] : h \in 1..(j - 1)} <=> seen < e
    <3>1. PICK h \in 1..n : e = events[h]
      BY <1>2
    <3>2. CASE h < j
      <4>1. seen < e
        BY <1>2, <1>3, <2>1, <3>1, <3>2
      <4>2. h \in 1..(j - 1)
        BY <3>2
      <4>. QED
        BY <3>1, <4>1, <4>2
    <3>3. CASE ~(h < j)
      <4>1. h = j \/ j < h
        BY <3>3
      <4>2. ~(seen < e)
        BY <1>2, <1>3, <2>1, <3>1, <4>1
      <4>3. ASSUME NEW i \in 1..(j - 1), e = events[i] PROVE FALSE
        <5>1. i \in 1..n /\ i < j
          OBVIOUS
        <5>2. events[i] > events[j]
          BY <1>2, <5>1
        <5>. QED
          BY <1>3, <2>1, <4>2, <4>3, <5>1, <5>2
      <4>. QED
        BY <4>2, <4>3
    <3>. QED
      BY <3>2, <3>3
  <2>9. {events[h] : h \in 1..(j - 1)} \subseteq ToSet(events)
    BY <1>2
  <2>. QED
    BY <2>6, <2>7, <2>8, <2>9
<1>. QED
  BY <1>4, <1>5

----------------------------------------------------------------------------
(* The steps.                                                              *)

\* The portal has another event: all that is kept is of earlier ones, of which
\* the portal tells the same as before.
LEMMA ReportKeeps ==
  ASSUME PollInv, NEW r \in Reports, Report(r)
  PROVE  PollInv'
<1>1. PICK newest \in Nat : newest = Len(history)
  BY DEF PollInv, PollTypeOK
<1>2. /\ history' = Append(history, r) /\ history \in Seq(Reports) /\ newest < MaxEvents
      /\ UNCHANGED <<life, loads, poll, page, cursor, events, station, shot, shotId, byStation,
                     last, polled, subs, seen, fired, image, imageId, reading, torn>>
  BY <1>1 DEF Report, PollInv, PollTypeOK, data, entities
<1>3. /\ history' \in Seq(Reports) /\ Len(history') = newest + 1
      /\ \A i \in 1..newest : history'[i] = history[i]
      /\ history'[newest + 1] = r
  BY <1>1, <1>2
<1>4. Known = 1..newest /\ Known' = 1..(newest + 1)
  BY <1>1, <1>3 DEF Known
<1>5. \A i \in 1..newest : IsShot(i)' <=> IsShot(i)
  BY <1>3 DEF IsShot
<1>6. \A S : S \subseteq 1..newest => Shots(S)' = Shots(S) /\ Rest(S)' = Rest(S)
  BY <1>5 DEF Rest, Shots
<1>7. ToSet(events) \subseteq 1..newest /\ ToSet(events)' = ToSet(events)
  BY <1>2, <1>4, CacheIsKnown DEF PollInv
<1>8. Keeping => ToSet(page) \subseteq 1..newest /\ ToSet(page)' = ToSet(page)
  BY <1>2, <1>7, PageIsCached DEF PollInv
<1>9. /\ Shots(ToSet(events))' = Shots(ToSet(events))
      /\ Rest(ToSet(events))' = Rest(ToSet(events))
  BY <1>6, <1>7
<1>10. Keeping => NewestShot' = NewestShot /\ Newest(Rest(ToSet(page)))' = Newest(Rest(ToSet(page)))
  BY <1>6, <1>8 DEF NewestShot, Newest
<1>11. PollTypeOK'
  <2>1. \A x : x \in 0..newest => x \in 0..(newest + 1)
    OBVIOUS
  <2>2. byStation' \in [Stations -> 0..(newest + 1)]
    BY <1>1, <1>2, <2>1 DEF PollInv, PollTypeOK
  <2>3. {cursor, shot, shotId, last, seen, image, imageId, torn}' \subseteq 0..(newest + 1)
    BY <1>1, <1>2, <2>1 DEF PollInv, PollTypeOK
  <2>4. newest + 1 <= MaxEvents
    BY <1>2, PollAssumption
  <2>. QED
    BY <1>2, <1>3, <2>2, <2>3, <2>4 DEF PollInv, PollTypeOK
<1>13. CursorInv' /\ CacheIsRecentHistory' /\ PageInv'
  BY <1>2 DEF PollInv, CursorInv, CacheIsRecentHistory, PageInv, Keeping
<1>14. SeenInv'
  BY <1>2, <1>5, <1>7 DEF PollInv, SeenInv
<1>15. ComingShot' = ComingShot /\ ComingId' = ComingId /\ ComingLast' = ComingLast
  <2>1. poll' = poll /\ shot' = shot /\ shotId' = shotId /\ last' = last
    BY <1>2
  <2>. QED
    BY <1>10, <2>1, Zenon DEF ComingShot, ComingId, ComingLast, Coming, Keeping
<1>16. ShotInv'
  BY <1>2, <1>9, <1>15 DEF PollInv, ShotInv
<1>17. ImageInv'
  <2>1. Between' <=> Between
    BY <1>2, <1>10 DEF Between, Keeping
  <2>2. poll \in {"image", "id"} => NewestShot' = NewestShot
    BY <1>10 DEF Keeping
  <2>. QED
    BY <1>2, <2>1, <2>2 DEF PollInv, ImageInv
<1>18. StationInv'
  <2> SUFFICES ASSUME NEW i \in Shots(ToSet(events)),
                      Names(i, ToSet(events), station)'
               PROVE  Given(i, ToSet(events), station)'
    BY <1>2, <1>7, <1>9 DEF StationInv
  <2>1. \A e \in ToSet(events) : history'[e] = history[e]
    BY <1>3, <1>7
  <2>2. i \in ToSet(events) /\ history'[i] = history[i]
    BY <2>1 DEF Shots
  <2>3. Names(i, ToSet(events), station)
    BY <1>2, <1>7, <1>9, <2>2 DEF Names
  <2>4. Linked(i, ToSet(events) \ {i})' = Linked(i, ToSet(events) \ {i})
    BY <1>7, <2>1, <2>2 DEF Linked
  <2>5. Given(i, ToSet(events), station)
    BY <2>3 DEF PollInv, StationInv
  <2>. QED
    BY <1>2, <2>2, <2>4, <2>5 DEF Given
<1>. QED
  BY <1>11, <1>13, <1>14, <1>16, <1>17, <1>18 DEF PollInv

\* A set-up and an unload leave nothing behind.
LEMMA FreshKeeps ==
  ASSUME PollInv, Fresh, history' = history, life' \in {"none", "loaded"}, loads' \in 0..MaxLoads,
         poll' \in {"idle", "ask"}, page' = <<>>
  PROVE  PollInv'
<1>1. Len(history) \in Nat /\ Page \in Nat /\ Cap \in Nat
  BY PollAssumption DEF PollInv, PollTypeOK
<1>2. PollTypeOK'
  <2>1. 0 \in 0..Len(history)
    BY <1>1
  <2>2. byStation' \in [Stations -> 0..Len(history)]
    BY <2>1 DEF Fresh, None
  <2>3. {cursor, shot, shotId, last, seen, image, imageId, torn}' \subseteq 0..Len(history)
    BY <2>1 DEF Fresh, None
  <2>4. Len(page') <= Page /\ Len(events') <= Cap
    BY <1>1 DEF Fresh
  <2>5. /\ page' \in Seq(Ids) /\ events' \in Seq(Ids)
        /\ station' \in [Ids -> Stations \cup {NoStation}]
        /\ polled' \in BOOLEAN /\ subs' \subseteq {"event", "image"}
        /\ reading' \in {"none", "picture", "id"}
        /\ fired' \in [Ids -> Nat]
    <3>1. page' \in Seq(Ids) /\ events' \in Seq(Ids)
      BY DEF Fresh
    <3>2. station' \in [Ids -> Stations \cup {NoStation}] /\ fired' \in [Ids -> Nat]
      BY DEF Fresh
    <3>3. polled' \in BOOLEAN
      BY DEF Fresh
    <3>4. subs' \subseteq {"event", "image"}
      BY DEF Fresh
    <3>5. reading' \in {"none", "picture", "id"}
      BY DEF Fresh
    <3>. QED
      BY <3>1, <3>2, <3>3, <3>4, <3>5
  <2>6. history' = history /\ history \in Seq(Reports) /\ Len(history) <= MaxEvents
    BY DEF PollInv, PollTypeOK
  <2>7. {page, events}' \subseteq Seq(Ids)
    BY <2>5
  <2>. QED
    BY <2>2, <2>3, <2>4, <2>5, <2>6, <2>7, Zenon DEF PollTypeOK
<1>3. ToSet(events)' = {}
  BY DEF Fresh, ToSet
<1>4. Shots(ToSet(events))' = {} /\ Rest(ToSet(events))' = {}
  BY <1>3 DEF Shots, Rest
<1>6. CursorInv' /\ PageInv'
  BY DEF Fresh, CursorInv, PageInv, Keeping
<1>7. CacheIsRecentHistory'
  BY DEF Fresh, CacheIsRecentHistory
<1>8. SeenInv'
  BY <1>3 DEF Fresh, SeenInv, None
<1>9. ShotInv' /\ ImageInv'
  BY <1>4 DEF Fresh, ShotInv, ImageInv, Coming, ComingShot, ComingId, ComingLast, Between, None
<1>10. StationInv'
  BY <1>4 DEF StationInv
<1>. QED
  BY <1>2, <1>6, <1>7, <1>8, <1>9, <1>10 DEF PollInv

\* A poll begins, or ends without an event.
LEMMA QuietKeeps ==
  ASSUME PollInv, poll \in {"idle", "ask"}, poll' \in {"ask", "done"},
         UNCHANGED <<history, life, loads, page, data, entities>>
  PROVE  PollInv'
<1>1. UNCHANGED <<history, life, loads, page, cursor, events, station, shot, shotId, byStation,
                  last, polled, subs, seen, fired, image, imageId, reading, torn>>
  BY DEF data, entities
<1>2. PollTypeOK'
  BY <1>1 DEF PollInv, PollTypeOK
<1>3. Shots(ToSet(events))' = Shots(ToSet(events)) /\ Rest(ToSet(events))' = Rest(ToSet(events))
  BY <1>1 DEF Shots, Rest, IsShot
<1>5. CursorInv' /\ CacheIsRecentHistory' /\ PageInv'
  BY <1>1 DEF PollInv, CursorInv, CacheIsRecentHistory, PageInv, Keeping
<1>6. SeenInv'
  BY <1>1 DEF PollInv, SeenInv, IsShot
<1>7. ShotInv'
  BY <1>1, <1>3 DEF PollInv, ShotInv, Coming, ComingShot, ComingId, ComingLast
<1>8. ImageInv'
  BY <1>1 DEF PollInv, ImageInv, Between
<1>9. StationInv'
  BY <1>1, <1>3 DEF PollInv, StationInv, Names, Given, Linked, Rest, Shots, IsShot
<1>. QED
  BY <1>2, <1>5, <1>6, <1>7, <1>8, <1>9 DEF PollInv

\* A page arrives.
LEMMA PageKeeps ==
  ASSUME PollInv, PageArrives, poll' = "image"
  PROVE  PollInv'
<1>1. /\ poll = "ask"
      /\ UNCHANGED <<history, life, loads, shot, shotId, byStation, last, polled, entities>>
      /\ UNCHANGED <<subs, seen, fired, image, imageId, reading, torn>>
  BY DEF PageArrives, entities
<1>2. PICK k \in Nat : PageTaken(k)
  BY PageTakes DEF PollInv
<1>3. page' \in Seq(Ids) /\ station' = Assigned(page')
  BY PageTakes DEF PollInv
<1>4. CursorInv' /\ CacheIsRecentHistory'
  BY <1>2, CacheTakes DEF PollInv
<1>. DEFINE N == ToSet(page')
            E == ToSet(events)
            K == ToSet(events')
<1>5. /\ N \subseteq K /\ K \subseteq N \cup E
      /\ \A e \in N : e \in Nat /\ cursor < e /\ e <= cursor'
      /\ \A e \in E : e \in Nat /\ 0 < e /\ e <= cursor
      /\ \A e \in E, d \in K : d < e => e \in K
  BY <1>2, CacheKeeps DEF PollInv
<1>6. PICK newest \in Nat : newest = Len(history)
  <2>1. Len(history) \in Nat
    BY DEF PollInv, PollTypeOK
  <2>. QED
    BY <2>1
<1>7. cursor' = newest /\ cursor \in Nat /\ cursor <= newest
  BY <1>2, <1>6 DEF PageTaken, PollInv, PollTypeOK
<1>8. ToSet(page)' = N /\ ToSet(events)' = K
  BY DEF ToSet
<1>9. N \subseteq 1..newest /\ E \subseteq 1..newest /\ Known = 1..newest
  BY <1>5, <1>6, <1>7 DEF Known
<1>10. \A S : Shots(S)' = Shots(S) /\ Rest(S)' = Rest(S)
  BY <1>1 DEF Shots, Rest, IsShot
<1>11. Passed(page', station', Len(page'))
  <2>1. Len(page') \in Nat /\ DOMAIN page' = 1..Len(page')
    BY <1>3
  <2>2. \A j \in 1..Len(page') : page'[j] \in ToSet(page')
    BY <2>1 DEF ToSet
  <2>3. \A e \in ToSet(page') : cursor < e
    BY <1>5
  <2>4. \A e \in ToSet(events) : e <= cursor
    BY <1>5
  <2>5. \A g, h \in 1..Len(page') : g # h => page'[g] # page'[h]
    <3>1. k \in 1..Page /\ page' = [j \in 1..k |-> Len(history) + 1 - j] /\ Page \in Nat
      BY <1>2, PollAssumption DEF PageTaken
    <3>2. Len(page') = k
      BY <1>3, <3>1
    <3>. QED
      BY <1>6, <3>1, <3>2
  <2>. QED
    BY <1>3, <1>9, <2>1, <2>2, <2>3, <2>4, <2>5, PassesAll DEF PollInv
<1>12. PollTypeOK'
  <2>1. station' \in [Ids -> Stations \cup {NoStation}]
    BY <1>11 DEF Passed, Labels
  <2>2. Len(page') <= Page
    <3>1. k \in 1..Page /\ page' = [j \in 1..k |-> Len(history) + 1 - j] /\ Page \in Nat
      BY <1>2, PollAssumption DEF PageTaken
    <3>2. k \in Nat /\ DOMAIN page' = 1..k /\ k <= Page
      BY <3>1
    <3>3. Len(page') = k
      BY <1>3, <3>2
    <3>. QED
      BY <3>2, <3>3
  <2>3. events' \in Seq(Ids) /\ Len(events') <= Cap
    BY <1>2 DEF PageTaken
  <2>4. cursor' \in 0..newest
    BY <1>7
  <2>5. {shot, shotId, last, seen, image, imageId, torn} \subseteq 0..newest
    BY <1>6 DEF PollInv, PollTypeOK
  <2>6. {cursor, shot, shotId, last, seen, image, imageId, torn}' \subseteq 0..newest
    BY <1>1, <2>4, <2>5
  <2>7. {page, events}' \subseteq Seq(Ids)
    BY <1>3, <2>3
  <2>. QED
    BY <1>1, <1>6, <2>1, <2>2, <2>3, <2>6, <2>7 DEF PollInv, PollTypeOK
<1>14. PageInv'
  <2>1. /\ k \in 1..Page /\ k <= newest - cursor
        /\ page' = [j \in 1..k |-> newest + 1 - j]
        /\ k <= Len(events')
        /\ \A j \in 1..k : events'[j] = newest + 1 - j
    BY <1>2, <1>6 DEF PageTaken
  <2>2. k <= newest
    BY <1>7, <2>1
  <2>. QED
    BY <1>7, <2>1, <2>2 DEF PageInv
\* Of what is left of the old cache the same has been seen and fired as before.
<1>15. SeenInv'
  <2>1. seen <= cursor /\ seen \in Nat
    BY DEF PollInv, SeenInv, PollTypeOK
  <2>2. seen <= cursor'
    BY <1>7, <2>1
  <2>3. ASSUME NEW e \in K, e <= seen PROVE IsShot(e)' \/ fired'[e] = 1
    <3>1. e \in E
      BY <1>5, <1>7, <2>1, <2>3
    <3>2. IsShot(e) \/ fired[e] = 1
      BY <2>3, <3>1 DEF PollInv, SeenInv
    <3>. QED
      BY <1>1, <3>2 DEF IsShot
  <2>4. ASSUME seen \notin K, NEW e \in K PROVE seen < e
    <3>1. e \in Nat
      BY <1>5
    <3>2. CASE seen \in E
      <4>1. ~(e < seen)
        BY <1>5, <2>4, <3>2
      <4>2. e # seen
        BY <2>4
      <4>. QED
        BY <2>1, <3>1, <4>1, <4>2
    <3>3. CASE seen \notin E
      <4>1. \A x \in E : seen < x
        BY <3>3 DEF PollInv, SeenInv
      <4>2. CASE e \in E
        BY <4>1, <4>2
      <4>3. CASE e \in N
        BY <1>5, <1>7, <2>1, <4>3
      <4>. QED
        BY <1>5, <4>2, <4>3
    <3>. QED
      BY <3>2, <3>3
  <2>5. \A e \in Ids : fired'[e] <= 1 /\ (fired'[e] = 1 => e <= seen)
    BY <1>1 DEF PollInv, SeenInv
  <2>. QED
    BY <1>1, <1>8, <2>2, <2>3, <2>4, <2>5 DEF SeenInv
<1>. HIDE DEF N, E, K
<1>16. Follows(K, N, E, cursor, newest)
  BY <1>5, <1>7 DEF Follows
<1>17. /\ NewestShot' = Newest(Shots(N))
       /\ Newest(Rest(ToSet(page)))' = Newest(Rest(N))
  BY <1>8, <1>10 DEF NewestShot, Newest
<1>18. Shots(N) \subseteq 1..newest /\ Rest(N) \subseteq 1..newest
  BY <1>9 DEF Shots, Rest
<1>19. ASSUME Shots(K) # {}
       PROVE  IF Newest(Shots(N)) # None THEN Max(Shots(K)) = Newest(Shots(N))
              ELSE Shots(E) # {} /\ Max(Shots(K)) = Max(Shots(E))
  <2>1. Follows(Shots(K), Shots(N), Shots(E), cursor, newest)
    BY <1>16 DEF Follows, Shots
  <2>2. /\ Shots(N) # {} => Max(Shots(K)) = Max(Shots(N))
        /\ Shots(N) = {} => Shots(E) # {} /\ Max(Shots(K)) = Max(Shots(E))
    BY <1>19, <2>1, NewestMerges
  <2>. QED
    BY <1>18, <2>2, NewestIs
<1>20. ASSUME Rest(K) # {}
       PROVE  IF Newest(Rest(N)) # None THEN Max(Rest(K)) = Newest(Rest(N))
              ELSE Rest(E) # {} /\ Max(Rest(K)) = Max(Rest(E))
  <2>1. Follows(Rest(K), Rest(N), Rest(E), cursor, newest)
    BY <1>16 DEF Follows, Rest, Shots
  <2>2. /\ Rest(N) # {} => Max(Rest(K)) = Max(Rest(N))
        /\ Rest(N) = {} => Rest(E) # {} /\ Max(Rest(K)) = Max(Rest(E))
    BY <1>20, <2>1, NewestMerges
  <2>. QED
    BY <1>18, <2>2, NewestIs
<1>21. ComingShot = shot /\ ComingId = shotId /\ ComingLast = last
  BY <1>1 DEF Coming, ComingShot, ComingId, ComingLast
<1>22. /\ ComingShot' = IF Newest(Shots(N)) # None THEN Newest(Shots(N)) ELSE shot
       /\ ComingId' = IF Newest(Shots(N)) # None THEN Newest(Shots(N)) ELSE shotId
       /\ ComingLast' = IF Newest(Rest(N)) # None THEN Newest(Rest(N)) ELSE last
  BY <1>1, <1>17 DEF Coming, ComingShot, ComingId, ComingLast
<1>23. ShotInv'
  <2>1. Shots(ToSet(events))' = Shots(K) /\ Rest(ToSet(events))' = Rest(K)
    BY <1>8, <1>10
  <2>2. Shots(K) # {} => ComingShot' = Max(Shots(K))
    BY <1>19, <1>21, <1>22 DEF PollInv, ShotInv, E
  <2>3. Rest(K) # {} => ComingLast' = Max(Rest(K))
    BY <1>20, <1>21, <1>22 DEF PollInv, ShotInv, E
  <2>4. ComingId' = ComingShot'
    BY <1>21, <1>22 DEF PollInv, ShotInv
  <2>5. {shot, shotId, imageId}' \subseteq 0..cursor'
    BY <1>1, <1>7 DEF PollInv, ShotInv
  <2>. QED
    BY <2>1, <2>2, <2>3, <2>4, <2>5 DEF ShotInv
<1>24. ImageInv'
  <2>1. ASSUME NewestShot' # None PROVE NewestShot' \notin {shotId, imageId}
    <3>1. NewestShot' \in N
      BY <1>17, <1>18, <2>1, NewestIs DEF Shots
    <3>2. cursor < NewestShot' /\ NewestShot' \in Nat
      BY <1>5, <3>1
    <3>3. shotId \in 0..cursor /\ imageId \in 0..cursor
      BY DEF PollInv, ShotInv
    <3>. QED
      BY <1>7, <3>2, <3>3
  <2>2. /\ reading = "none" /\ imageId = shotId => image = shot \/ torn = shotId
        /\ shot = shotId
    BY <1>1 DEF PollInv, ImageInv, Between
  <2>. QED
    BY <1>1, <2>1, <2>2 DEF ImageInv
\* The event that gave a screenshot its station is no older than the one it
\* names, and stays in the cache with it.
<1>25. StationInv'
  <2>. DEFINE both == N \cup E
              told == Told(page')
  <2> SUFFICES ASSUME NEW i \in Shots(K), Names(i, K, station') PROVE Given(i, K, station')
    <3>1. \A i : /\ Names(i, ToSet(events), station)' <=> Names(i, K, station')
                 /\ Given(i, ToSet(events), station)' <=> Given(i, K, station')
      BY <1>1, <1>8, <1>10 DEF Names, Given, Linked
    <3>. QED
      BY <1>8, <1>10, <3>1 DEF StationInv
  <2>. DEFINE e == history[i].belongs
  <2>1. e \in K /\ ~IsShot(e) /\ e < i /\ station'[e] # NoStation /\ i \in K /\ IsShot(i)
    BY DEF Names, Rest, Shots
  <2>2. i \in both /\ e \in both /\ i \in Shots(both) /\ e \in Rest(both)
    BY <1>5, <2>1 DEF Rest, Shots
  <2>3. e \in Ids /\ e \in Nat
    BY <1>9, <2>2, ReportShape DEF PollInv
  <2>4. /\ \A x \in Ids : (x \in N /\ IsShot(x)) \/ station'[x] = told[x]
        /\ \A s \in Shots(E) \ N : Names(s, both, told) => Given(s, both, station')
        /\ \A h \in 1..Len(page') :
             IsShot(page'[h]) /\ Names(page'[h], both, told) => Given(page'[h], both, station')
    BY <1>11, Zenon DEF Passed, N, E
  <2>5. Names(i, both, told)
    BY <2>1, <2>2, <2>3, <2>4 DEF Names
  <2>6. Given(i, both, station')
    <3>1. CASE i \in N
      <4>1. PICK h \in 1..Len(page') : i = page'[h]
        BY <1>3, <3>1 DEF N, ToSet
      <4>. QED
        BY <2>1, <2>4, <2>5, <4>1
    <3>2. CASE i \notin N
      <4>1. i \in Shots(E) \ N
        BY <2>1, <2>2, <3>2 DEF Shots
      <4>. QED
        BY <2>4, <2>5, <4>1
    <3>. QED
      BY <3>1, <3>2
  <2>7. PICK f \in Linked(i, both \ {i}) :
          f >= e /\ station'[f] # NoStation /\ station'[i] = station'[f]
    BY <2>6 DEF Given
  <2>8. f \in both \ {i} /\ (f = e \/ history[f].belongs = e) /\ e # None
    BY <2>7 DEF Linked
  <2>9. f \in K
    <3>1. CASE f \in N
      BY <1>5, <3>1
    <3>2. CASE f = e
      BY <2>1, <3>2
    <3>3. CASE f \in E /\ f # e
      <4>1. f \in Nat /\ e < f
        BY <1>5, <2>3, <2>7, <3>3
      <4>. QED
        BY <1>5, <2>1, <3>3, <4>1
    <3>. QED
      BY <2>8, <3>1, <3>2, <3>3
  <2>10. f \in Linked(i, K \ {i})
    BY <2>8, <2>9 DEF Linked
  <2>. QED
    BY <2>7, <2>10 DEF Given
<1>. QED
  BY <1>4, <1>12, <1>14, <1>15, <1>23, <1>24, <1>25 DEF PollInv

\* What the thread finds in the page is of the cache.
LEMMA FoundIsKnown ==
  ASSUME PollInv, Keeping
  PROVE  /\ NewestShot \in 0..cursor /\ Newest(Rest(ToSet(page))) \in 0..cursor
         /\ ToSet(page) \subseteq 1..cursor
         /\ cursor \in Nat /\ cursor <= Len(history) /\ Len(history) \in Nat
<1>1. ToSet(page) \subseteq 1..cursor
  BY PageIsCached, CacheIsKnown DEF PollInv
<1>2. cursor \in Nat /\ cursor <= Len(history) /\ Len(history) \in Nat
  BY DEF PollInv, PollTypeOK
<1>3. Shots(ToSet(page)) \subseteq 1..cursor /\ Rest(ToSet(page)) \subseteq 1..cursor
  BY <1>1 DEF Shots, Rest
<1>. QED
  BY <1>1, <1>2, <1>3, NewestIs DEF NewestShot

\* What a step of the thread leaves alone while it keeps the page.
LEMMA KeepingKeeps ==
  ASSUME PollInv, Keeping, UNCHANGED <<history, page, cursor, events, station, seen, fired>>
  PROVE  /\ CursorInv' /\ CacheIsRecentHistory' /\ PageInv' /\ SeenInv' /\ StationInv'
         /\ NewestShot' = NewestShot /\ Newest(Rest(ToSet(page)))' = Newest(Rest(ToSet(page)))
         /\ Shots(ToSet(events))' = Shots(ToSet(events))
         /\ Rest(ToSet(events))' = Rest(ToSet(events))
<1>1. \A S : Shots(S)' = Shots(S) /\ Rest(S)' = Rest(S)
  BY DEF Shots, Rest, IsShot
<1>2. ToSet(events)' = ToSet(events) /\ ToSet(page)' = ToSet(page)
  OBVIOUS
<1>3. /\ NewestShot' = NewestShot /\ Newest(Rest(ToSet(page)))' = Newest(Rest(ToSet(page)))
      /\ Shots(ToSet(events))' = Shots(ToSet(events))
      /\ Rest(ToSet(events))' = Rest(ToSet(events))
  BY <1>1, <1>2 DEF NewestShot, Newest
<1>5. CursorInv' /\ CacheIsRecentHistory'
  BY DEF PollInv, CursorInv, CacheIsRecentHistory
<1>6. PageInv'
  <2>1. \E k \in 1..Page :
          /\ k <= cursor /\ k <= Len(events)
          /\ page = [j \in 1..k |-> cursor + 1 - j]
          /\ \A j \in 1..k : events[j] = cursor + 1 - j
    BY DEF PollInv, PageInv
  <2>. QED
    BY <2>1 DEF PageInv
<1>7. SeenInv'
  BY DEF PollInv, SeenInv, IsShot
<1>8. StationInv'
  BY <1>1, <1>3 DEF PollInv, StationInv, Names, Given, Linked
<1>. QED
  BY <1>3, <1>5, <1>6, <1>7, <1>8

\* latest_screenshot.
LEMMA ImageKeeps ==
  ASSUME PollInv, KeepImage
  PROVE  PollInv'
<1>1. /\ poll = "image" /\ poll' = "id" /\ Keeping
      /\ shot' = IF NewestShot = None THEN shot ELSE NewestShot
      /\ UNCHANGED <<history, life, loads, page, cursor, events, station, shotId, byStation, last,
                     polled, subs, seen, fired, image, imageId, reading, torn>>
  BY DEF KeepImage, entities, Keeping
<1>2. shot' \in 0..cursor /\ cursor \in Nat /\ cursor <= Len(history) /\ Len(history) \in Nat
  BY <1>1, FoundIsKnown DEF PollInv, ShotInv
<1>3. PollTypeOK'
  <2>1. shot' \in 0..Len(history)
    BY <1>2
  <2>. QED
    BY <1>1, <2>1 DEF PollInv, PollTypeOK
<1>4. /\ CursorInv' /\ CacheIsRecentHistory' /\ PageInv' /\ SeenInv' /\ StationInv'
      /\ NewestShot' = NewestShot /\ Newest(Rest(ToSet(page)))' = Newest(Rest(ToSet(page)))
      /\ Shots(ToSet(events))' = Shots(ToSet(events))
      /\ Rest(ToSet(events))' = Rest(ToSet(events))
  BY <1>1, KeepingKeeps
<1>5. ShotInv'
  <2>1. ComingShot' = ComingShot /\ ComingId' = ComingId /\ ComingLast' = ComingLast
    BY <1>1, <1>4 DEF Coming, ComingShot, ComingId, ComingLast
  <2>. QED
    BY <1>1, <1>2, <1>4, <2>1 DEF PollInv, ShotInv
<1>6. ImageInv'
  BY <1>1, <1>4 DEF PollInv, ImageInv, Between
<1>. QED
  BY <1>3, <1>4, <1>5, <1>6 DEF PollInv

\* latest_screenshot_event_id.
LEMMA ImageIdKeeps ==
  ASSUME PollInv, KeepImageId
  PROVE  PollInv'
<1>1. /\ poll = "id" /\ poll' = "rest" /\ Keeping
      /\ shotId' = IF NewestShot = None THEN shotId ELSE NewestShot
      /\ UNCHANGED <<history, life, loads, page, cursor, events, station, shot, byStation, last,
                     polled, subs, seen, fired, image, imageId, reading, torn>>
  BY DEF KeepImageId, entities, Keeping
<1>2. shotId' \in 0..cursor /\ cursor \in Nat /\ cursor <= Len(history) /\ Len(history) \in Nat
  BY <1>1, FoundIsKnown DEF PollInv, ShotInv
<1>3. PollTypeOK'
  <2>1. shotId' \in 0..Len(history)
    BY <1>2
  <2>. QED
    BY <1>1, <2>1 DEF PollInv, PollTypeOK
<1>4. /\ CursorInv' /\ CacheIsRecentHistory' /\ PageInv' /\ SeenInv' /\ StationInv'
      /\ NewestShot' = NewestShot /\ Newest(Rest(ToSet(page)))' = Newest(Rest(ToSet(page)))
      /\ Shots(ToSet(events))' = Shots(ToSet(events))
      /\ Rest(ToSet(events))' = Rest(ToSet(events))
  BY <1>1, KeepingKeeps
<1>5. ShotInv'
  <2>1. ComingShot' = ComingShot /\ ComingId' = ComingId /\ ComingLast' = ComingLast
    BY <1>1, <1>4 DEF Coming, ComingShot, ComingId, ComingLast
  <2>. QED
    BY <1>1, <1>2, <1>4, <2>1 DEF PollInv, ShotInv
<1>6. ImageInv'
  <2>1. shotId' = shot
    BY <1>1 DEF PollInv, ShotInv, Coming, ComingShot, ComingId
  <2>. QED
    BY <1>1, <1>4, <2>1 DEF PollInv, ImageInv, Between
<1>. QED
  BY <1>3, <1>4, <1>5, <1>6 DEF PollInv

\* latest_screenshots_by_station and last_event.
LEMMA RestKeeps ==
  ASSUME PollInv, KeepRest
  PROVE  PollInv'
<1>. DEFINE of(s) == {e \in Shots(ToSet(page)) : station[e] = s}
            told == Newest(Rest(ToSet(page)))
<1>1. /\ poll = "rest" /\ poll' = "done" /\ Keeping
      /\ byStation' = [s \in Stations |-> IF of(s) = {} THEN byStation[s] ELSE Min(of(s))]
      /\ last' = IF told = None THEN last ELSE told
      /\ UNCHANGED <<history, life, loads, page, cursor, events, station, shot, shotId, polled,
                     subs, seen, fired, image, imageId, reading, torn>>
  BY DEF KeepRest, entities, Keeping
<1>2. /\ told \in 0..cursor /\ ToSet(page) \subseteq 1..cursor
      /\ cursor \in Nat /\ cursor <= Len(history) /\ Len(history) \in Nat
  BY <1>1, FoundIsKnown
<1>3. PollTypeOK'
  <2>1. last' \in 0..Len(history)
    <3>1. told \in 0..Len(history)
      BY <1>2
    <3>. QED
      BY <1>1, <3>1 DEF PollInv, PollTypeOK
  <2>2. ASSUME NEW s \in Stations
        PROVE  (IF of(s) = {} THEN byStation[s] ELSE Min(of(s))) \in 0..Len(history)
    <3>1. byStation[s] \in 0..Len(history)
      BY DEF PollInv, PollTypeOK
    <3>2. of(s) \subseteq 1..cursor
      BY <1>2 DEF Shots
    <3>3. of(s) # {} => Min(of(s)) \in of(s)
      <4>1. of(s) \in SUBSET Nat
        BY <1>2, <3>2
      <4>. QED
        BY <4>1, MinIsLeast
    <3>4. \A e \in of(s) : e \in 0..Len(history)
      BY <1>2, <3>2
    <3>. QED
      BY <3>1, <3>3, <3>4
  <2>3. byStation' \in [Stations -> 0..Len(history)]
    <3>. HIDE DEF of
    <3>. QED
      BY <1>1, <2>2
  <2>. HIDE DEF of
  <2>. QED
    BY <1>1, <2>1, <2>3 DEF PollInv, PollTypeOK
<1>4. /\ CursorInv' /\ CacheIsRecentHistory' /\ PageInv' /\ SeenInv' /\ StationInv'
      /\ Shots(ToSet(events))' = Shots(ToSet(events))
      /\ Rest(ToSet(events))' = Rest(ToSet(events))
  BY <1>1, KeepingKeeps
<1>5. ShotInv'
  <2>1. ComingShot' = ComingShot /\ ComingId' = ComingId /\ ComingLast' = ComingLast
    BY <1>1, <1>4 DEF Coming, ComingShot, ComingId, ComingLast
  <2>. QED
    BY <1>1, <1>4, <2>1 DEF PollInv, ShotInv
<1>6. ImageInv'
  BY <1>1 DEF PollInv, ImageInv, Between
<1>. QED
  BY <1>3, <1>4, <1>5, <1>6 DEF PollInv

\* What a step of the entities leaves alone.
LEMMA DataKeeps ==
  ASSUME PollInv,
         UNCHANGED <<history, page, cursor, events, station, shot, shotId, byStation, last>>,
         poll' = poll \/ (poll = "done" /\ poll' = "idle"), imageId' \in {imageId, shotId}
  PROVE  /\ CursorInv' /\ CacheIsRecentHistory' /\ PageInv' /\ StationInv' /\ ShotInv'
         /\ NewestShot' = NewestShot
<1>1. \A S : Shots(S)' = Shots(S) /\ Rest(S)' = Rest(S)
  BY DEF Shots, Rest, IsShot
<1>2. ToSet(events)' = ToSet(events) /\ ToSet(page)' = ToSet(page)
  OBVIOUS
<1>3. /\ NewestShot' = NewestShot /\ Newest(Rest(ToSet(page)))' = Newest(Rest(ToSet(page)))
      /\ Shots(ToSet(events))' = Shots(ToSet(events))
      /\ Rest(ToSet(events))' = Rest(ToSet(events))
  BY <1>1, <1>2 DEF NewestShot, Newest
<1>5. CursorInv' /\ CacheIsRecentHistory'
  BY DEF PollInv, CursorInv, CacheIsRecentHistory
<1>6. PageInv'
  <2> SUFFICES ASSUME Keeping' PROVE PageInv'
    BY DEF PageInv
  <2>1. Keeping
    BY DEF Keeping
  <2>2. \E k \in 1..Page :
          /\ k <= cursor /\ k <= Len(events)
          /\ page = [j \in 1..k |-> cursor + 1 - j]
          /\ \A j \in 1..k : events[j] = cursor + 1 - j
    BY <2>1 DEF PollInv, PageInv
  <2>. QED
    BY <2>2 DEF PageInv
<1>7. StationInv'
  BY <1>1, <1>3 DEF PollInv, StationInv, Names, Given, Linked
<1>8. ComingShot' = ComingShot /\ ComingId' = ComingId /\ ComingLast' = ComingLast
  BY <1>3 DEF Coming, ComingShot, ComingId, ComingLast
<1>9. {shot, shotId, imageId}' \subseteq 0..cursor'
  BY DEF PollInv, ShotInv
<1>10. ShotInv'
  BY <1>3, <1>8, <1>9 DEF PollInv, ShotInv
<1>. QED
  BY <1>3, <1>5, <1>6, <1>7, <1>10

\* async_added_to_hass of the event entity.
LEMMA AddEventKeeps ==
  ASSUME PollInv, AddEventEntity
  PROVE  PollInv'
<1>1. /\ UNCHANGED <<history, life, loads, poll, page, data, cursor, events, station, shot, shotId,
                     byStation, last, polled, seen, fired, image, imageId, reading, torn>>
      /\ subs' = subs \cup {"event"}
  BY DEF AddEventEntity, data
<1>2. PollTypeOK'
  BY <1>1 DEF PollInv, PollTypeOK
<1>3. /\ CursorInv' /\ CacheIsRecentHistory' /\ PageInv' /\ StationInv' /\ ShotInv'
      /\ NewestShot' = NewestShot
  BY <1>1, DataKeeps
<1>4. SeenInv'
  BY <1>1 DEF PollInv, SeenInv, IsShot
<1>5. ImageInv'
  BY <1>1, <1>3 DEF PollInv, ImageInv, Between
<1>. QED
  BY <1>2, <1>3, <1>4, <1>5 DEF PollInv

\* async_added_to_hass of the image entity begins, also between the thread's
\* writes: it finds nothing new, or starts to read.
LEMMA AddImageKeeps ==
  ASSUME PollInv, AddImage
  PROVE  PollInv'
<1>1. /\ UNCHANGED <<history, life, loads, poll, page, data, cursor, events, station, shot, shotId,
                     byStation, last, polled, seen, fired, image, imageId, torn>>
      /\ reading = "none"
      /\ \/ reading' = "picture" /\ subs' = subs
         \/ reading' = reading /\ subs' = subs \cup {"image"} /\ (shot = None \/ shotId = imageId)
  BY DEF AddImage, LoopIsFree, data
<1>2. PollTypeOK'
  BY <1>1 DEF PollInv, PollTypeOK
<1>3. /\ CursorInv' /\ CacheIsRecentHistory' /\ PageInv' /\ StationInv' /\ ShotInv'
      /\ NewestShot' = NewestShot
  BY <1>1, DataKeeps
<1>4. SeenInv'
  BY <1>1 DEF PollInv, SeenInv, IsShot
<1>5. ImageInv'
  BY <1>1, <1>3 DEF PollInv, ImageInv, Between
<1>. QED
  BY <1>2, <1>3, <1>4, <1>5 DEF PollInv

\* It takes the picture.
LEMMA ReadPictureKeeps ==
  ASSUME PollInv, ReadPicture
  PROVE  PollInv'
<1>1. /\ UNCHANGED <<history, life, loads, poll, page, data, cursor, events, station, shot, shotId,
                     byStation, last, polled, subs, seen, fired, imageId, torn>>
      /\ reading' = "id" /\ image' = shot
  BY DEF ReadPicture, data
<1>2. PollTypeOK'
  <2>1. image' \in 0..Len(history)
    BY <1>1 DEF PollInv, PollTypeOK
  <2>. QED
    BY <1>1, <2>1 DEF PollInv, PollTypeOK
<1>3. /\ CursorInv' /\ CacheIsRecentHistory' /\ PageInv' /\ StationInv' /\ ShotInv'
      /\ NewestShot' = NewestShot
  BY <1>1, DataKeeps
<1>4. SeenInv'
  BY <1>1 DEF PollInv, SeenInv, IsShot
<1>5. ImageInv'
  BY <1>1, <1>3 DEF PollInv, ImageInv, Between
<1>. QED
  BY <1>2, <1>3, <1>4, <1>5 DEF PollInv

\* It takes the identifier, which may be another's by then.
LEMMA ReadIdKeeps ==
  ASSUME PollInv, ReadId
  PROVE  PollInv'
<1>1. /\ UNCHANGED <<history, life, loads, poll, page, data, cursor, events, station, shot, shotId,
                     byStation, last, polled, seen, fired, image>>
      /\ reading' = "none" /\ imageId' = shotId /\ subs' = subs \cup {"image"}
      /\ torn' = IF image # shotId THEN shotId ELSE torn
  BY DEF ReadId, data
<1>2. PollTypeOK'
  <2>1. {imageId', torn'} \subseteq 0..Len(history)
    BY <1>1 DEF PollInv, PollTypeOK
  <2>. QED
    BY <1>1, <2>1 DEF PollInv, PollTypeOK
<1>3. /\ CursorInv' /\ CacheIsRecentHistory' /\ PageInv' /\ StationInv' /\ ShotInv'
      /\ NewestShot' = NewestShot
  BY <1>1, DataKeeps
<1>4. SeenInv'
  BY <1>1 DEF PollInv, SeenInv, IsShot
<1>5. ~Between => shot = shotId
  <2>1. CASE poll = "id"
    BY <2>1 DEF PollInv, ShotInv, Coming, ComingShot, ComingId, Between
  <2>2. CASE poll # "id"
    BY <2>2 DEF PollInv, ImageInv
  <2>. QED
    BY <2>1, <2>2
<1>6. ImageInv'
  BY <1>1, <1>3, <1>5 DEF PollInv, ImageInv, Between
<1>. QED
  BY <1>2, <1>3, <1>4, <1>6 DEF PollInv

\* The listeners are called: the event entity fires what is newer than what it
\* has seen, and the image entity takes what is new.
LEMMA DeliverKeeps ==
  ASSUME PollInv, Deliver
  PROVE  PollInv'
<1>1. /\ poll = "done" /\ poll' = "idle" /\ polled' = TRUE /\ reading = "none"
      /\ UNCHANGED <<history, life, loads, page, cursor, events, station, shot, shotId, byStation,
                     last, subs, reading, torn>>
      /\ IF "image" \in subs /\ shot # None /\ shotId # imageId
           THEN image' = shot /\ imageId' = shotId
           ELSE image' = image /\ imageId' = imageId
  BY DEF Deliver, ImageSync, LoopIsFree
<1>2. \/ /\ events # <<>>
         /\ fired' = [e \in Ids |-> IF e \in Rest(Unseen) THEN fired[e] + 1 ELSE fired[e]]
         /\ seen' = Head(events)
      \/ UNCHANGED <<fired, seen>>
  BY DEF Deliver, EventUpdate, EventUpdateIf
<1>3. /\ seen \in Nat /\ cursor \in Nat /\ cursor <= Len(history) /\ Len(history) \in Nat
      /\ fired \in [Ids -> Nat]
  BY DEF PollInv, PollTypeOK
<1>4. Unseen = {e \in ToSet(events) : seen < e}
  BY UnseenIsNewer DEF PollInv
<1>5. \A e \in ToSet(events) : e \in Nat /\ e <= cursor /\ e \in Ids
  BY CacheIsKnown DEF PollInv
<1>6. events # <<>> => Head(events) = cursor /\ cursor \in ToSet(events)
  <2>1. events # <<>> => Head(events) = events[1] /\ 1 \in DOMAIN events
    BY DEF PollInv, PollTypeOK
  <2>. QED
    BY <2>1 DEF PollInv, CursorInv, ToSet
<1>7. seen' \in 0..cursor /\ seen' <= cursor
  <2>1. seen <= cursor
    BY DEF PollInv, SeenInv
  <2>. QED
    BY <1>2, <1>3, <1>6, <2>1
<1>8. fired' \in [Ids -> Nat]
  BY <1>2, <1>3
<1>9. PollTypeOK'
  <2>1. {image', imageId', seen'} \subseteq 0..Len(history)
    BY <1>1, <1>3, <1>7 DEF PollInv, PollTypeOK
  <2>. QED
    BY <1>1, <1>8, <2>1 DEF PollInv, PollTypeOK
<1>10. /\ CursorInv' /\ CacheIsRecentHistory' /\ PageInv' /\ StationInv' /\ ShotInv'
  BY <1>1, DataKeeps
<1>11. SeenInv'
  <2>1. CASE UNCHANGED <<fired, seen>>
    BY <1>1, <2>1 DEF PollInv, SeenInv, IsShot
  <2>2. CASE /\ events # <<>>
             /\ fired' = [e \in Ids |-> IF e \in Rest(Unseen) THEN fired[e] + 1 ELSE fired[e]]
             /\ seen' = Head(events)
    <3>1. seen' = cursor /\ cursor \in ToSet(events) /\ seen <= cursor
      BY <1>6, <2>2 DEF PollInv, SeenInv
    <3>2. \A e \in Ids : fired[e] \in Nat /\ fired[e] <= 1 /\ (fired[e] = 1 => e <= seen)
      BY <1>3 DEF PollInv, SeenInv
    <3>3. ASSUME NEW e \in Ids PROVE fired'[e] <= 1 /\ (fired'[e] = 1 => e <= cursor)
      <4>1. CASE e \in Rest(Unseen)
        <5>1. e \in ToSet(events) /\ seen < e
          BY <1>4, <4>1 DEF Rest
        <5>2. e \in Nat /\ e <= cursor
          BY <1>5, <5>1
        <5>3. ~(e <= seen)
          BY <1>3, <5>1, <5>2
        <5>4. fired[e] = 0
          BY <3>2, <5>3
        <5>5. fired'[e] = 1
          BY <2>2, <4>1, <5>4
        <5>. QED
          BY <5>2, <5>5
      <4>2. CASE e \notin Rest(Unseen)
        <5>1. fired'[e] = fired[e]
          BY <2>2, <4>2
        <5>2. e \in Nat
          BY PollAssumption DEF Ids
        <5>. QED
          BY <1>3, <3>1, <3>2, <5>1, <5>2
      <4>. QED
        BY <4>1, <4>2
    <3>4. ASSUME NEW e \in ToSet(events) PROVE IsShot(e) \/ fired'[e] = 1
      <4>1. e \in Ids /\ e \in Nat
        BY <1>5
      <4>2. CASE seen < e /\ ~IsShot(e)
        <5>1. e \in Rest(Unseen)
          BY <1>4, <4>2 DEF Rest, Shots
        <5>2. fired[e] = 0
          <6>1. ~(e <= seen)
            BY <1>3, <4>1, <4>2
          <6>. QED
            BY <3>2, <4>1, <6>1
        <5>. QED
          BY <2>2, <4>1, <5>1, <5>2
      <4>3. CASE ~(seen < e) /\ ~IsShot(e)
        <5>1. e <= seen
          BY <1>3, <4>1, <4>3
        <5>2. fired[e] = 1
          BY <4>3, <5>1 DEF PollInv, SeenInv
        <5>3. e \notin Rest(Unseen)
          BY <1>4, <4>3 DEF Rest
        <5>. QED
          BY <2>2, <4>1, <5>2, <5>3
      <4>. QED
        BY <4>2, <4>3
    <3>5. ToSet(events)' = ToSet(events) /\ \A e : IsShot(e)' <=> IsShot(e)
      BY <1>1 DEF IsShot
    <3>. QED
      BY <1>1, <1>3, <3>1, <3>3, <3>4, <3>5 DEF SeenInv
  <2>. QED
    BY <1>2, <2>1, <2>2
<1>12. ImageInv'
  <2>1. shotId = shot
    BY <1>1 DEF PollInv, ShotInv, Coming, ComingShot, ComingId
  <2>2. imageId = shotId => image = shot \/ torn = shotId
    BY <1>1 DEF PollInv, ImageInv, Between
  <2>. QED
    BY <1>1, <2>1, <2>2 DEF ImageInv, Between
<1>. QED
  BY <1>9, <1>10, <1>11, <1>12 DEF PollInv

\* Before the first set-up nothing is kept.
LEMMA PollInitInv == PollInit => PollInv
<1> SUFFICES ASSUME PollInit PROVE PollInv
  OBVIOUS
<1>1. MaxLoads \in Nat /\ MaxEvents \in Nat /\ Page \in Nat /\ Cap \in Nat
  BY PollAssumption
<1>2. PollTypeOK
  <2>1. history \in Seq(Reports) /\ Len(history) = 0 /\ Len(page) = 0 /\ Len(events) = 0
    BY DEF PollInit
  <2>2. {page, events} \subseteq Seq(Ids)
    BY DEF PollInit
  <2>3. {cursor, shot, shotId, last, seen, image, imageId, torn} \subseteq 0..0
    BY DEF PollInit, None
  <2>4. station \in [Ids -> Stations \cup {NoStation}] /\ fired \in [Ids -> Nat]
    BY DEF PollInit
  <2>5. byStation \in [Stations -> 0..0]
    BY DEF PollInit, None
  <2>6. /\ life \in {"none", "loaded"} /\ poll \in {"idle", "ask", "image", "id", "rest", "done"}
        /\ polled \in BOOLEAN /\ reading \in {"none", "picture", "id"}
    BY DEF PollInit
  <2>7. subs \subseteq {"event", "image"}
    BY DEF PollInit
  <2>8. loads \in 0..MaxLoads
    BY <1>1 DEF PollInit
  <2>. QED
    BY <1>1, <2>1, <2>2, <2>3, <2>4, <2>5, <2>6, <2>7, <2>8 DEF PollTypeOK
<1>3. ToSet(events) = {} /\ Known = {}
  BY DEF PollInit, ToSet, Known
<1>4. Shots(ToSet(events)) = {} /\ Rest(ToSet(events)) = {}
  BY <1>3 DEF Shots, Rest
<1>5. StationInv
  BY <1>4 DEF StationInv
<1>6. CursorInv /\ CacheIsRecentHistory /\ PageInv
  BY DEF PollInit, CursorInv, CacheIsRecentHistory, PageInv, Keeping
<1>7. SeenInv
  BY <1>3 DEF PollInit, SeenInv, None
<1>8. ShotInv /\ ImageInv
  BY <1>4 DEF PollInit, ShotInv, ImageInv, Coming, ComingShot, ComingId, ComingLast, Between, None
<1>. QED
  BY <1>2, <1>5, <1>6, <1>7, <1>8 DEF PollInv

\* Every step keeps it.
LEMMA PollStep == PollInv /\ [PollNext]_pollVars => PollInv'
<1> SUFFICES ASSUME PollInv, [PollNext]_pollVars PROVE PollInv'
  OBVIOUS
<1>1. ASSUME NEW r \in Reports, Report(r) PROVE PollInv'
  BY <1>1, ReportKeeps
<1>2. CASE Setup
  <2>1. loads' \in 0..MaxLoads
    BY <1>2, PollAssumption DEF Setup, PollInv, PollTypeOK
  <2>. QED
    BY <1>2, <2>1, FreshKeeps DEF Setup
<1>3. CASE Unload
  <2>1. loads' \in 0..MaxLoads
    BY <1>3 DEF Unload, PollInv, PollTypeOK
  <2>. QED
    BY <1>3, <2>1, FreshKeeps DEF Unload
<1>4. CASE Poll
  BY <1>4, QuietKeeps DEF Poll
<1>5. CASE PageArrives
  <2>1. CASE poll' = "image"
    BY <1>5, <2>1, PageKeeps
  <2>2. CASE poll' # "image"
    <3>1. /\ poll = "ask" /\ poll' = "done"
          /\ UNCHANGED <<page, cursor, events, station>>
          /\ UNCHANGED <<history, life, loads, shot, shotId, byStation, last, polled, entities>>
      BY <1>5, <2>2, Zenon DEF PageArrives
    <3>2. UNCHANGED <<history, life, loads, page, data, entities>>
      BY <3>1 DEF data
    <3>. QED
      BY <3>1, <3>2, QuietKeeps
  <2>. QED
    BY <2>1, <2>2
<1>6. CASE PollFails
  BY <1>6, QuietKeeps DEF PollFails
<1>7. CASE KeepImage
  BY <1>7, ImageKeeps
<1>8. CASE KeepImageId
  BY <1>8, ImageIdKeeps
<1>9. CASE KeepRest
  BY <1>9, RestKeeps
<1>10. CASE Deliver
  BY <1>10, DeliverKeeps
<1>11. CASE AddEventEntity
  BY <1>11, AddEventKeeps
<1>12. CASE AddImage
  BY <1>12, AddImageKeeps
<1>14. CASE ReadPicture
  BY <1>14, ReadPictureKeeps
<1>15. CASE ReadId
  BY <1>15, ReadIdKeeps
<1>13. CASE UNCHANGED pollVars
  <2>1. UNCHANGED <<history, life, loads, poll, page, data, cursor, events, station, shot, shotId,
                    byStation, last, polled, subs, seen, fired, image, imageId, reading, torn>>
    BY <1>13 DEF pollVars, data, entities
  <2>2. PollTypeOK'
    BY <2>1 DEF PollInv, PollTypeOK
  <2>3. /\ CursorInv' /\ CacheIsRecentHistory' /\ PageInv' /\ StationInv' /\ ShotInv'
        /\ NewestShot' = NewestShot
    BY <2>1, DataKeeps
  <2>4. SeenInv'
    BY <2>1 DEF PollInv, SeenInv, IsShot
  <2>5. ImageInv'
    BY <2>1, <2>3 DEF PollInv, ImageInv, Between
  <2>. QED
    BY <2>2, <2>3, <2>4, <2>5 DEF PollInv
<1>. QED
  BY <1>1, <1>2, <1>3, <1>4, <1>5, <1>6, <1>7, <1>8, <1>9, <1>10, <1>11, <1>12, <1>13,
     <1>14, <1>15 DEF PollNext, Thread

\* The inductive invariant holds throughout.
THEOREM PollSound == PollSpec => []PollInv
BY PollInitInv, PollStep, PTL DEF PollSpec

\* Whatever the portal tells, the coordinator and the entities keep what they
\* are meant to keep: places of the history, stations, and no more than the cap.
THEOREM PollTyped == PollSpec => []PollTypeOK
<1>1. PollInv => PollTypeOK
  BY DEF PollInv
<1>. QED
  BY <1>1, PollSound, PTL

\* coordinator.py:267-274: the cache is the portal's history from its newest
\* event on, in order and without repetition; an event is missing only behind a
\* full page.
THEOREM CacheAlwaysRecent == PollSpec => []CacheIsRecentHistory
<1>1. PollInv => CacheIsRecentHistory
  BY DEF PollInv
<1>. QED
  BY <1>1, PollSound, PTL

\* event.py:87-120: an event is fired once, and all of the cache up to the one
\* seen last have been, for every size of pages and of the cache.
THEOREM EventsFiredOnce == PollSpec => []EachEventFiredOnce
<1>1. PollInv => EachEventFiredOnce
  BY DEF PollInv, SeenInv, EachEventFiredOnce, Rest, Shots
<1>. QED
  BY <1>1, PollSound, PTL

\* Between two polls picture, identifier and last event are of the newest
\* events; the picture may be of another event only if the image entity was
\* added while the thread wrote (image.py:103-106 reads the identifier twice).
\* A screenshot that names its event has the station of an event of the same
\* call, that one or a later one, also where others name the event they belong
\* to.
THEOREM AlwaysShownTogether == PollSpec => []ShownTogether
<1>1. ASSUME PollInv PROVE ShownTogether
  <2>1. ASSUME poll = "idle", reading = "none"
        PROVE  /\ shot = shotId
               /\ "image" \in subs /\ shot # None =>
                    imageId = shot /\ (image = shot \/ torn = shot)
               /\ Shots(ToSet(events)) # {} => shot = Max(Shots(ToSet(events)))
               /\ Rest(ToSet(events)) # {} => last = Max(Rest(ToSet(events)))
    <3>1. ComingShot = shot /\ ComingId = shotId /\ ComingLast = last /\ ~Between
      BY <2>1 DEF Coming, ComingShot, ComingId, ComingLast, Between
    <3>2. shot = shotId
      BY <1>1, <3>1 DEF PollInv, ShotInv
    <3>3. "image" \in subs /\ shot # None => imageId = shot /\ (image = shot \/ torn = shot)
      BY <1>1, <2>1, <3>1, <3>2 DEF PollInv, ImageInv
    <3>. QED
      BY <1>1, <3>1, <3>2, <3>3 DEF PollInv, ShotInv
  <2>2. \A i \in Shots(ToSet(events)) :
          Names(i, ToSet(events), station) => Given(i, ToSet(events), station)
    BY <1>1 DEF PollInv, StationInv
  <2>. QED
    BY <2>1, <2>2 DEF ShownTogether, LoopIsFree
<1>. QED
  BY <1>1, PollSound, PTL

----------------------------------------------------------------------------
(* The microphone.                                                         *)

\* Nobody holds a microphone whose sender's task has ended; that is why the
\* owner may be forgotten after the call (Release).
IdleIsUnheld == ~Active => holder = Anonymous

\* The inductive invariant.
HolderInv == NewestHoldsTalkback /\ IdleIsUnheld

\* Before the first call nobody owns the microphone.
LEMMA HolderInit == Init => HolderInv
BY DEF Init, HolderInv, NewestHoldsTalkback, IdleIsUnheld

\* Every step keeps it; the argument is in the calls that change the owner.
LEMMA HolderStep == HolderInv /\ [Next]_vars => HolderInv'
<1> SUFFICES ASSUME HolderInv, [Next]_vars PROVE HolderInv'
  OBVIOUS
<1> USE DEF HolderInv, NewestHoldsTalkback, IdleIsUnheld, Active
<1>1. CASE Open
  BY <1>1 DEF Open, ghosts
<1>2. CASE Close
  BY <1>2 DEF Close
<1>3. CASE LoopEnds
  BY <1>3 DEF LoopEnds
<1>4. CASE Gone
  BY <1>4 DEF Gone
\* The owner is forgotten, but without a sender nobody holds it.
<1>5. CASE Release
  BY <1>5 DEF Release, ghosts
<1>6. CASE Send
  BY <1>6 DEF Send
<1>7. ASSUME NEW c \in Callers, Start(c) PROVE HolderInv'
  BY <1>7 DEF Start, ghosts
\* Who may stop is the holder, or speaks for nobody.
<1>8. ASSUME NEW c \in Callers, Stop(c) PROVE HolderInv'
  BY <1>8 DEF Stop, MayStop, HolderAfter
\* A claim leaves an owner what he owns.
<1>9. ASSUME NEW c \in Callers, NEW halves \in 1..MaxChunk, Feed(c, halves) PROVE HolderInv'
  BY <1>9 DEF Feed, Claimed, ghosts
<1>10. ASSUME NEW c \in Callers, ToneBegins(c) PROVE HolderInv'
  BY <1>10 DEF ToneBegins, Claimed, ghosts
<1>11. ASSUME NEW c \in Callers, ToneFrame(c) PROVE HolderInv'
  BY <1>11 DEF ToneFrame, ghosts
<1>12. ASSUME NEW c \in Callers, ToneEnds(c) PROVE HolderInv'
  BY <1>12 DEF ToneEnds, HolderAfter
<1>13. CASE UNCHANGED vars
  BY <1>13 DEF vars, ghosts
<1>. QED
  BY <1>1, <1>2, <1>3, <1>4, <1>5, <1>6, <1>7, <1>8, <1>9, <1>10, <1>11, <1>12, <1>13 DEF Next

\* README.md:216: the session that last started its microphone owns it until
\* it stops, whatever older sessions and their tones still ask for.
THEOREM NewestAlwaysHolds == Spec => []NewestHoldsTalkback
<1>1. HolderInv => NewestHoldsTalkback
  BY DEF HolderInv
<1>. QED
  BY HolderInit, HolderStep, <1>1, PTL DEF Spec

----------------------------------------------------------------------------
(* The queue.                                                              *)

\* q is the end of the first n frames.
EndOf(q, n) ==
  /\ q \in Seq(Nat) /\ Len(q) <= n
  /\ \A j \in 1..Len(q) : q[j] = n - Len(q) + j

\* Frames that are taken go behind what waits.
LEMMA EndOfMore ==
  ASSUME NEW q, NEW n \in Nat, NEW k \in Nat, EndOf(q, n)
  PROVE  EndOf(q \o [j \in 1..k |-> n + j], n + k)
<1> DEFINE new == [j \in 1..k |-> n + j]
           all == q \o new
<1>1. new \in Seq(Nat) /\ Len(new) = k
  OBVIOUS
<1>2. q \in Seq(Nat) /\ Len(q) \in Nat
  BY DEF EndOf
<1>3. all \in Seq(Nat) /\ Len(all) = Len(q) + k
  BY <1>1, <1>2
<1>4. ASSUME NEW j \in 1..Len(all) PROVE all[j] = (n + k) - Len(all) + j
  <2>1. CASE j <= Len(q)
    <3>1. all[j] = q[j]
      BY <1>1, <1>2, <1>3, <2>1
    <3>. QED
      BY <3>1, <1>2, <1>3, <2>1 DEF EndOf
  <2>2. CASE j > Len(q)
    <3>1. j - Len(q) \in 1..k /\ all[j] = new[j - Len(q)]
      BY <1>1, <1>2, <1>3, <2>2
    <3>. QED
      BY <3>1, <1>2, <1>3
  <2>. QED
    BY <2>1, <2>2, <1>2, <1>3
<1>5. Len(all) <= n + k
  BY <1>2, <1>3 DEF EndOf
<1>. QED
  BY <1>3, <1>4, <1>5 DEF EndOf

\* At its limit the queue loses the oldest frames.
LEMMA EndOfLimited ==
  ASSUME NEW q, NEW n \in Nat, EndOf(q, n)
  PROVE  EndOf(Limited(q), n) /\ Len(Limited(q)) <= MaxQueue /\ Len(Limited(q)) <= Len(q)
<1>1. q \in Seq(Nat) /\ Len(q) \in Nat /\ MaxQueue \in Nat \ {0}
  BY TalkbackAssumption DEF EndOf
<1>2. CASE Len(q) <= MaxQueue
  BY <1>1, <1>2 DEF Limited
<1>3. CASE Len(q) > MaxQueue
  <2> DEFINE s == SubSeq(q, Len(q) - MaxQueue + 1, Len(q))
  <2>1. s \in Seq(Nat) /\ Len(s) = MaxQueue
    BY <1>1, <1>3
  <2>2. \A j \in 1..MaxQueue : s[j] = q[Len(q) - MaxQueue + j]
    BY <1>1, <1>3
  <2>3. \A j \in 1..MaxQueue : s[j] = n - Len(s) + j
    BY <1>1, <1>3, <2>1, <2>2 DEF EndOf
  <2>. QED
    BY <1>1, <1>3, <2>1, <2>3 DEF Limited, EndOf
<1>. QED
  BY <1>1, <1>2, <1>3

\* The sender takes the first frame that waits.
LEMMA EndOfTail ==
  ASSUME NEW q, NEW n \in Nat, EndOf(q, n), q # <<>>
  PROVE  /\ EndOf(Tail(q), n) /\ Len(Tail(q)) = Len(q) - 1
         /\ Head(q) = n - Len(q) + 1 /\ Len(q) >= 1
<1>1. q \in Seq(Nat) /\ Len(q) \in Nat /\ Len(q) >= 1
  BY DEF EndOf
<1>2. Tail(q) \in Seq(Nat) /\ Len(Tail(q)) = Len(q) - 1 /\ Head(q) = q[1]
  BY <1>1
<1>3. \A j \in 1..Len(Tail(q)) : Tail(q)[j] = q[j + 1]
  BY <1>1, <1>2
<1>. QED
  BY <1>1, <1>2, <1>3 DEF EndOf

\* The inductive invariant.  The queue begins behind what has been sent and
\* behind the last stop, and not only holds later frames: what the sender
\* takes next is then later too.
VoiceTypes ==
  /\ by \in Seq(Speakers)
  /\ rest \in 0..1
  /\ sent \in Nat /\ fence \in Nat
VoiceInv ==
  /\ VoiceTypes
  /\ EndOf(queue, Taken) /\ Len(queue) <= MaxQueue
  /\ Len(queue) + sent <= Taken /\ Len(queue) + fence <= Taken
  /\ queue # <<>> => talking

\* The empty queue of a sender nobody has spoken to.
LEMMA VoiceInit == Init => VoiceInv
<1>1. <<>> \in Seq(Nat) /\ Len(<<>>) = 0 /\ <<>> \in Seq(Speakers)
  OBVIOUS
<1>. QED
  BY <1>1, TalkbackAssumption DEF Init, VoiceInv, VoiceTypes, EndOf, Taken

\* feed_pcm16le of a sender that talks.
LEMMA FeedKeepsVoice ==
  ASSUME VoiceInv, NEW speaker \in Speakers, NEW halves \in Nat,
         FeedSender(speaker, halves), talking' = TRUE, UNCHANGED <<sent, fence>>
  PROVE  VoiceInv'
<1> DEFINE k == (rest + halves) \div 2
           more == queue \o [j \in 1..k |-> Taken + j]
<1>1. k \in Nat /\ Taken \in Nat /\ rest' \in 0..1
  BY DEF FeedSender, VoiceInv, VoiceTypes, Taken
<1>2. by' \in Seq(Speakers) /\ Taken' = Taken + k
  <2> DEFINE said == [j \in 1..k |-> speaker]
  <2>1. said \in Seq(Speakers) /\ Len(said) = k
    BY <1>1
  <2>2. by' = by \o said
    BY DEF FeedSender
  <2>. QED
    BY <2>1, <2>2 DEF VoiceInv, VoiceTypes, Taken
<1>3. EndOf(more, Taken + k)
  BY <1>1, EndOfMore DEF VoiceInv
<1>4. Len(more) = Len(queue) + k /\ Len(queue) \in Nat
  BY <1>1 DEF VoiceInv, EndOf
<1>5. queue' = Limited(more)
  BY DEF FeedSender
<1>6. EndOf(queue', Taken + k) /\ Len(queue') <= MaxQueue /\ Len(queue') <= Len(more)
  <2>1. Taken + k \in Nat
    BY <1>1
  <2> HIDE DEF more, k
  <2>2. /\ EndOf(Limited(more), Taken + k)
        /\ Len(Limited(more)) <= MaxQueue /\ Len(Limited(more)) <= Len(more)
    BY <2>1, <1>3, EndOfLimited
  <2>. QED
    BY <2>2, <1>5
<1>7. Len(queue') + sent <= Taken + k /\ Len(queue') + fence <= Taken + k
  <2>1. Len(queue') \in Nat
    BY <1>6 DEF EndOf
  <2>. QED
    BY <2>1, <1>1, <1>4, <1>6 DEF VoiceInv, VoiceTypes
<1>. QED
  BY <1>1, <1>2, <1>6, <1>7 DEF VoiceInv, VoiceTypes

\* stop_talk.
LEMMA StopKeepsVoice ==
  ASSUME VoiceInv, StopTalk, UNCHANGED by
  PROVE  VoiceInv'
<1>1. queue' = <<>> /\ Len(queue') = 0 /\ queue' \in Seq(Nat)
  BY DEF StopTalk, Cleared
<1>2. Taken \in Nat /\ Taken' = Taken /\ sent <= Taken
  BY DEF VoiceInv, VoiceTypes, Taken, EndOf
<1>3. fence' = Taken /\ sent' = sent /\ rest' = 0
  BY DEF StopTalk
<1>4. EndOf(queue', Taken')
  BY <1>1, <1>2 DEF EndOf
<1>. QED
  BY <1>1, <1>2, <1>3, <1>4, TalkbackAssumption DEF VoiceInv, VoiceTypes

\* Steps that leave queue and speakers alone keep it, if they do not switch
\* the microphone off.
LEMMA RestKeepsVoice ==
  ASSUME VoiceInv, UNCHANGED <<by, rest, queue, sent, fence>>, talking' = talking \/ talking' = TRUE
  PROVE  VoiceInv'
BY DEF VoiceInv, VoiceTypes, EndOf, Taken

\* A turn of the loop.
LEMMA SendKeepsVoice ==
  ASSUME VoiceInv, Send
  PROVE  VoiceInv'
<1>1. UNCHANGED <<by, rest, fence, talking>> /\ Taken' = Taken /\ Taken \in Nat
  BY DEF Send, VoiceInv, VoiceTypes, Taken
<1>2. CASE talking /\ queue # <<>>
  <2>1. queue' = Tail(queue) /\ sent' = Head(queue)
    BY <1>2 DEF Send
  <2>2. /\ EndOf(queue', Taken) /\ Len(queue') = Len(queue) - 1
        /\ sent' = Taken - Len(queue) + 1 /\ Len(queue) >= 1
    BY <1>1, <1>2, <2>1, EndOfTail DEF VoiceInv
  <2>3. Len(queue) \in Nat /\ Len(queue) <= Taken
    BY DEF VoiceInv, EndOf
  <2>4. sent' \in Nat /\ Len(queue') + sent' <= Taken /\ Len(queue') + fence <= Taken
    BY <1>1, <2>2, <2>3 DEF VoiceInv, VoiceTypes
  <2>5. Len(queue') <= MaxQueue
    BY <2>2, <2>3, TalkbackAssumption DEF VoiceInv
  <2>. QED
    BY <1>1, <1>2, <2>2, <2>4, <2>5 DEF VoiceInv, VoiceTypes
<1>3. CASE ~(talking /\ queue # <<>>)
  <2>1. UNCHANGED <<queue, sent>>
    BY <1>3 DEF Send
  <2>. QED
    BY <1>1, <2>1, RestKeepsVoice
<1>. QED
  BY <1>2, <1>3
\* Every step keeps it.
LEMMA VoiceStep == VoiceInv /\ [Next]_vars => VoiceInv'
<1> SUFFICES ASSUME VoiceInv, [Next]_vars PROVE VoiceInv'
  OBVIOUS
<1>1. CASE Open \/ LoopEnds \/ Release
  BY <1>1, RestKeepsVoice DEF Open, LoopEnds, Release, talk, ghosts
<1>2. CASE Close \/ Gone
  BY <1>2, StopKeepsVoice DEF Close, Gone
<1>3. CASE Send
  BY <1>3, SendKeepsVoice
\* To start a microphone leaves the queue as it is.
<1>4. ASSUME NEW c \in Callers, Start(c) PROVE VoiceInv'
  BY <1>4, RestKeepsVoice DEF Start, StartTalk, talk, ghosts
<1>5. ASSUME NEW c \in Callers, Stop(c) PROVE VoiceInv'
  <2>1. CASE sender = 0
    BY <1>5, <2>1, RestKeepsVoice DEF Stop, talk
  <2>2. CASE sender # 0
    BY <1>5, <2>2, StopKeepsVoice DEF Stop
  <2>. QED
    BY <2>1, <2>2
<1>6. ASSUME NEW c \in Callers, NEW halves \in 1..MaxChunk, Feed(c, halves) PROVE VoiceInv'
  <2>1. CASE Active /\ talking
    <3>1. /\ FeedSender(Voice(c), halves) /\ talking' = TRUE /\ UNCHANGED <<sent, fence>>
          /\ halves \in Nat /\ Voice(c) \in Speakers
      BY <1>6, <2>1, TalkbackAssumption DEF Feed, ghosts, Voice, Speakers
    <3>. QED
      BY <3>1, FeedKeepsVoice
  <2>2. CASE ~(Active /\ talking)
    BY <1>6, <2>2, RestKeepsVoice DEF Feed, talk, ghosts
  <2>. QED
    BY <2>1, <2>2
<1>7. ASSUME NEW c \in Callers, ToneBegins(c) PROVE VoiceInv'
  <2>1. CASE Active
    <3>1. /\ FeedSender(ToneOf(c), 2) /\ talking' = TRUE /\ UNCHANGED <<sent, fence>>
          /\ ToneOf(c) \in Speakers
      BY <1>7, <2>1 DEF ToneBegins, ghosts, ToneOf, Speakers
    <3>. QED
      BY <3>1, FeedKeepsVoice
  <2>2. CASE ~Active
    BY <1>7, <2>2, RestKeepsVoice DEF ToneBegins, talk, ghosts
  <2>. QED
    BY <2>1, <2>2
<1>8. ASSUME NEW c \in Callers, ToneFrame(c) PROVE VoiceInv'
  <2>1. CASE tones[c].sender = sender /\ talking
    <3>1. /\ FeedSender(ToneOf(c), 2) /\ talking' = TRUE /\ UNCHANGED <<sent, fence>>
          /\ ToneOf(c) \in Speakers
      BY <1>8, <2>1 DEF ToneFrame, ghosts, ToneOf, Speakers
    <3>. QED
      BY <3>1, FeedKeepsVoice
  <2>2. CASE ~(tones[c].sender = sender /\ talking)
    BY <1>8, <2>2, RestKeepsVoice DEF ToneFrame, talk, ghosts
  <2>. QED
    BY <2>1, <2>2
<1>9. ASSUME NEW c \in Callers, ToneEnds(c) PROVE VoiceInv'
  <2>1. CASE tones[c].sender = sender
    BY <1>9, <2>1, StopKeepsVoice DEF ToneEnds
  <2>2. CASE tones[c].sender # sender
    BY <1>9, <2>2, RestKeepsVoice DEF ToneEnds, talk
  <2>. QED
    BY <2>1, <2>2
<1>10. CASE UNCHANGED vars
  BY <1>10, RestKeepsVoice DEF vars, talk, ghosts
<1>. QED
  BY <1>1, <1>2, <1>3, <1>4, <1>5, <1>6, <1>7, <1>8, <1>9, <1>10 DEF Next

\* A queue that ends with the newest frame, and begins behind the last frame
\* sent and behind the last stop, holds later frames only.
LEMMA VoiceMeaning == VoiceInv => QueueIsTheTail
<1> SUFFICES ASSUME VoiceInv PROVE QueueIsTheTail
  OBVIOUS
<1>1. Taken \in Nat /\ Len(queue) \in Nat /\ sent \in Nat /\ fence \in Nat
  BY DEF VoiceInv, VoiceTypes, EndOf, Taken
<1>2. \A j \in 1..Len(queue) : queue[j] = Taken - Len(queue) + j
  BY DEF VoiceInv, EndOf
<1>3. Len(queue) + sent <= Taken /\ Len(queue) + fence <= Taken
  BY DEF VoiceInv
<1>4. ASSUME NEW j \in 1..Len(queue) PROVE queue[j] > sent /\ queue[j] > fence
  BY <1>1, <1>2, <1>3
<1>. QED
  BY <1>2, <1>4 DEF VoiceInv, QueueIsTheTail

\* What waits to be sent is always the end of what was taken, in its order,
\* new, and meant for a microphone that is on: whatever the limit of the
\* queue, and whoever starts, stops and feeds (_PCMATalkSender).
THEOREM QueueIsAlwaysTheTail == Spec => []QueueIsTheTail
BY VoiceInit, VoiceStep, VoiceMeaning, PTL DEF Spec

----------------------------------------------------------------------------
(* The marker, and whose voice waits.                                      *)

\* A microphone that is on and has sent no voice yet has its marker left.
MarkInv == talking /\ quiet => marker

\* Every step keeps the marker of a microphone without voice.
LEMMA MarkStep == MarkInv /\ [Next]_vars => MarkInv'
<1> SUFFICES ASSUME MarkInv, [Next]_vars PROVE MarkInv'
  OBVIOUS
<1> USE DEF MarkInv
<1>1. CASE UNCHANGED vars \/ Open \/ LoopEnds \/ Release
  BY <1>1 DEF vars, Open, LoopEnds, Release, talk, ghosts
<1>2. CASE Close \/ Gone
  BY <1>2 DEF Close, Gone, StopTalk
\* Silence leaves the marker to the first voice.
<1>3. CASE Send
  <2>1. CASE talking /\ queue # <<>>
    BY <1>3, <2>1 DEF Send
  <2>2. CASE ~(talking /\ queue # <<>>)
    BY <1>3, <2>2 DEF Send, MarkerAfter
  <2>. QED
    BY <2>1, <2>2
<1>4. ASSUME NEW c \in Callers, Start(c) \/ ToneBegins(c) PROVE MarkInv'
  BY <1>4 DEF Start, StartTalk, ToneBegins, talk, ghosts
<1>5. ASSUME NEW c \in Callers, Stop(c) \/ ToneEnds(c) PROVE MarkInv'
  BY <1>5 DEF Stop, ToneEnds, StopTalk, talk
<1>6. ASSUME NEW c \in Callers, ToneFrame(c) \/ \E halves \in 1..MaxChunk : Feed(c, halves)
      PROVE  MarkInv'
  BY <1>6 DEF ToneFrame, Feed, talk, ghosts
<1>. QED
  BY <1>1, <1>2, <1>3, <1>4, <1>5, <1>6 DEF Next

\* However much silence goes out before, whoever starts the microphone again
\* and whatever is dropped at the limit of the queue, the first voice after a
\* stop carries the RTP marker (_PCMATalkSender.start_talk, _loop).
THEOREM FirstVoiceAlwaysMarked == Spec => []FirstVoiceIsMarked
<1>1. Init => MarkInv
  BY DEF Init, MarkInv
<1>2. VoiceInv /\ MarkInv => FirstVoiceIsMarked
  BY DEF VoiceInv, MarkInv, FirstVoiceIsMarked
<1>. QED
  BY VoiceInit, VoiceStep, MarkStep, <1>1, <1>2, PTL DEF Spec

\* What a concatenation holds.
LEMMA Joined ==
  ASSUME NEW S, NEW a \in Seq(S), NEW b \in Seq(S)
  PROVE  /\ Len(a \o b) = Len(a) + Len(b)
         /\ \A n \in 1..Len(a) : (a \o b)[n] = a[n]
         /\ \A n \in 1..Len(b) : (a \o b)[Len(a) + n] = b[n]
OBVIOUS

----------------------------------------------------------------------------
(* Types.                                                                  *)

\* What TypeOK says beyond the queue and its frames.
TalkTypes ==
  /\ sender \in {0, senders} /\ (sender = 0 <=> loop = "none")
  /\ loop \in {"none", "runs", "cancelled", "done"}
  /\ senders \in 0..MaxSenders
  /\ owner \in Callers /\ holder \in Callers
  /\ talking \in BOOLEAN /\ marker \in BOOLEAN /\ quiet \in BOOLEAN
  /\ tones \in [Callers -> [sender : 0..MaxSenders, left : 0..ToneFrames]]
  /\ Taken <= MaxFrames

\* feed_pcm16le takes no more than the bound.
LEMMA FeedBounded ==
  ASSUME VoiceInv, NEW speaker \in Speakers, NEW halves \in Nat,
         FeedSender(speaker, halves)
  PROVE  Taken' <= MaxFrames
<1> DEFINE k == (rest + halves) \div 2
           said == [j \in 1..k |-> speaker]
<1>1. k \in Nat /\ Taken \in Nat /\ by \in Seq(Speakers) /\ Len(by) = Taken
  BY DEF VoiceInv, VoiceTypes, Taken
<1>2. by' = by \o said /\ Taken + k <= MaxFrames
  BY DEF FeedSender
<1>3. said \in Seq(Speakers) /\ Len(said) = k
  BY <1>1
<1> HIDE DEF k, said
<1>4. Len(by \o said) = Taken + k
  BY <1>1, <1>3, Joined
<1>. QED
  BY <1>2, <1>4 DEF Taken

\* Every step keeps the types.
LEMMA TalkTypesStep == VoiceInv /\ TalkTypes /\ [Next]_vars => TalkTypes'
<1> SUFFICES ASSUME VoiceInv, TalkTypes, [Next]_vars PROVE TalkTypes'
  OBVIOUS
<1>0. /\ MaxSenders \in Nat /\ MaxFrames \in Nat /\ MaxQueue \in Nat /\ ToneFrames \in Nat \ {0}
      /\ MaxChunk \in Nat
      /\ Anonymous \in Callers /\ 0 \in 0..MaxSenders /\ 0 \in 0..ToneFrames
  BY TalkbackAssumption DEF Callers
<1>1. by' = by => Taken' = Taken
  BY DEF Taken
<1>2. CASE UNCHANGED vars \/ Open \/ LoopEnds \/ Release
  BY <1>0, <1>1, <1>2 DEF vars, Open, LoopEnds, Release, TalkTypes, talk, ghosts
<1>8. CASE Send
  <2>1. marker' \in BOOLEAN /\ quiet' \in BOOLEAN
    <3>1. marker' \in BOOLEAN
      BY <1>8, Zenon DEF Send
    <3>. QED
      BY <1>8, <3>1 DEF Send, TalkTypes
  <2>2. UNCHANGED <<sender, senders, loop, owner, talking, tones, by, holder>>
    BY <1>8 DEF Send
  <2>. QED
    BY <1>1, <2>1, <2>2 DEF TalkTypes
<1>3. CASE Close \/ Gone
  BY <1>0, <1>1, <1>3 DEF Close, Gone, StopTalk, TalkTypes
<1>4. ASSUME NEW c \in Callers, Start(c) \/ Stop(c) PROVE TalkTypes'
  BY <1>0, <1>1, <1>4 DEF Start, Stop, StartTalk, StopTalk, HolderAfter, TalkTypes, talk, ghosts
<1>5. ASSUME NEW c \in Callers, NEW halves \in 1..MaxChunk, Feed(c, halves) PROVE TalkTypes'
  <2>1. Taken' <= MaxFrames
    <3>1. halves \in Nat /\ Voice(c) \in Speakers
      BY <1>0 DEF Voice, Speakers
    <3>2. FeedSender(Voice(c), halves) \/ by' = by
      BY <1>5 DEF Feed
    <3>. QED
      BY <1>1, <3>1, <3>2, FeedBounded DEF TalkTypes
  <2>. QED
    BY <1>0, <1>5, <2>1 DEF Feed, Claimed, TalkTypes, talk, ghosts
<1>6. ASSUME NEW c \in Callers, ToneBegins(c) \/ ToneFrame(c) PROVE TalkTypes'
  <2>1. Taken' <= MaxFrames
    <3>1. (FeedSender(ToneOf(c), 2) \/ by' = by) /\ ToneOf(c) \in Speakers
      BY <1>6 DEF ToneBegins, ToneFrame, ToneOf, Speakers
    <3>. QED
      BY <1>1, <3>1, FeedBounded DEF TalkTypes
  <2>2. tones' \in [Callers -> [sender : 0..MaxSenders, left : 0..ToneFrames]]
    <3>1. /\ [sender |-> sender, left |-> ToneFrames - 1]
               \in [sender : 0..MaxSenders, left : 0..ToneFrames]
      BY <1>0 DEF TalkTypes
    <3>2. tones[c].left > 0 => [tones[c] EXCEPT !.left = @ - 1]
                                 \in [sender : 0..MaxSenders, left : 0..ToneFrames]
      BY <1>0 DEF TalkTypes
    <3>3. CASE ToneBegins(c)
      BY <3>1, <3>3 DEF ToneBegins, TalkTypes
    <3>4. CASE ToneFrame(c)
      <4>1. tones' = [tones EXCEPT ![c] = [tones[c] EXCEPT !.left = @ - 1]] /\ tones[c].left > 0
        BY <3>4 DEF ToneFrame, TalkTypes
      <4>. QED
        BY <3>2, <4>1 DEF TalkTypes
    <3>. QED
      BY <1>6, <3>3, <3>4
  <2>. QED
    BY <1>0, <1>6, <2>1, <2>2 DEF ToneBegins, ToneFrame, Claimed, TalkTypes, talk, ghosts
<1>7. ASSUME NEW c \in Callers, ToneEnds(c) PROVE TalkTypes'
  <2>1. NoTone \in [sender : 0..MaxSenders, left : 0..ToneFrames]
    BY <1>0 DEF NoTone
  <2>. QED
    BY <1>0, <1>1, <1>7, <2>1 DEF ToneEnds, StopTalk, HolderAfter, TalkTypes, talk
<1>. QED
  BY <1>2, <1>3, <1>4, <1>5, <1>6, <1>7, <1>8 DEF Next

\* Nobody talks.
LEMMA TalkTypesInit == Init => TalkTypes
<1>1. Len(<<>>) = 0 /\ 0 \in 0..MaxSenders /\ 0 \in 0..ToneFrames /\ 0 <= MaxFrames
  BY TalkbackAssumption
<1>2. NoTone \in [sender : 0..MaxSenders, left : 0..ToneFrames]
  BY <1>1 DEF NoTone
<1>. QED
  BY <1>1, <1>2 DEF Init, TalkTypes, Taken, Callers

----------------------------------------------------------------------------
(* What of an older session is mixed into what the newer one says.         *)

\* What the speakers of frames may be while a session holds its microphone.
Fits(speaker) ==
  speaker.who \in {holder, Anonymous} \/ (speaker.tone /\ speaker.who \in ringing)

\* Of all the frames taken since the holder began, whether they still wait or
\* not, none is another session's, but for the tones that were sounding then;
\* and no other tone is sounding now.
BeganInv ==
  /\ began \in 0..Taken
  /\ ringing \subseteq Callers
  /\ holder # Anonymous =>
       /\ \A n \in 1..Taken : n > began => Fits(by[n])
       /\ Sounding \subseteq ringing \cup {holder, Anonymous}

\* The frames of who may feed.
LEMMA FeedKeepsBegan ==
  ASSUME VoiceInv, BeganInv, NEW speaker \in Speakers, NEW halves \in Nat,
         FeedSender(speaker, halves), UNCHANGED <<holder, began, ringing>>,
         holder # Anonymous =>
           Fits(speaker) /\ Sounding' \subseteq ringing \cup {holder, Anonymous}
  PROVE  BeganInv'
<1> DEFINE k == (rest + halves) \div 2
           said == [j \in 1..k |-> speaker]
<1>1. k \in Nat /\ Taken \in Nat /\ by \in Seq(Speakers) /\ Len(by) = Taken
  BY DEF VoiceInv, VoiceTypes, Taken
<1>2. by' = by \o said
  BY DEF FeedSender
<1>3. said \in Seq(Speakers) /\ Len(said) = k /\ \A j \in 1..k : said[j] = speaker
  BY <1>1
<1> HIDE DEF k, said
<1>4. /\ Len(by \o said) = Taken + k
      /\ \A n \in 1..Taken : (by \o said)[n] = by[n]
      /\ \A j \in 1..k : (by \o said)[Taken + j] = said[j]
  <2>1. Len(by \o said) = Taken + k
    BY <1>1, <1>3, Joined
  <2>2. ASSUME NEW n \in 1..Taken PROVE (by \o said)[n] = by[n]
    BY <1>1, <1>3, Joined
  <2>3. ASSUME NEW j \in 1..k PROVE (by \o said)[Taken + j] = said[j]
    BY <1>1, <1>3, Joined
  <2>. QED
    BY <2>1, <2>2, <2>3
<1>5. Taken' = Taken + k /\ \A n \in 1..Taken : by'[n] = by[n]
  BY <1>2, <1>4 DEF Taken
<1>6. ASSUME NEW n \in 1..Taken', n > Taken PROVE by'[n] = speaker
  <2>1. n - Taken \in 1..k /\ n = Taken + (n - Taken)
    BY <1>1, <1>5, <1>6
  <2>2. by'[n] = said[n - Taken]
    BY <1>2, <1>4, <2>1
  <2>. QED
    BY <1>3, <2>1, <2>2
<1>7. ASSUME holder # Anonymous, NEW n \in 1..Taken', n > began PROVE Fits(by'[n])
  <2>1. CASE n > Taken
    BY <1>6, <1>7, <2>1
  <2>2. CASE ~(n > Taken)
    <3>1. n \in 1..Taken /\ by'[n] = by[n]
      BY <1>1, <1>5, <2>2
    <3>. QED
      BY <1>7, <3>1 DEF BeganInv
  <2>. QED
    BY <2>1, <2>2
<1>8. began' \in 0..Taken' /\ ringing' \subseteq Callers
  BY <1>1, <1>5 DEF BeganInv
<1>. QED
  BY <1>7, <1>8 DEF BeganInv, Fits

\* Steps in which nothing is fed keep it, whether the holder stays or goes.
LEMMA RestKeepsBegan ==
  ASSUME VoiceInv, BeganInv, UNCHANGED <<by, began, ringing>>, holder' \in {holder, Anonymous},
         holder' # Anonymous => Sounding' \subseteq Sounding
  PROVE  BeganInv'
BY DEF BeganInv, Fits, Taken

\* Every step keeps other sessions' frames out since the holder began.
LEMMA BeganStep == VoiceInv /\ HolderInv /\ TalkTypes /\ BeganInv /\ [Next]_vars => BeganInv'
<1> SUFFICES ASSUME VoiceInv, HolderInv, TalkTypes, BeganInv, [Next]_vars PROVE BeganInv'
  OBVIOUS
<1>1. CASE UNCHANGED vars \/ Release \/ Send
  BY <1>1, RestKeepsBegan DEF vars, Release, Send, ghosts, Sounding
\* Without a running sender nobody holds the microphone.
<1>2. CASE Open \/ LoopEnds \/ Close \/ Gone
  <2>1. holder' = Anonymous /\ UNCHANGED <<by, began, ringing>>
    BY <1>2 DEF Open, LoopEnds, Close, Gone, StopTalk, ghosts, HolderInv, IdleIsUnheld, Active
  <2>. QED
    BY <2>1, RestKeepsBegan
\* The frames of the session before are older.
<1>3. ASSUME NEW c \in Callers, Start(c) PROVE BeganInv'
  <2>1. CASE Active
    <3>1. /\ began' = Taken /\ by' = by /\ Taken \in Nat
          /\ ringing' = Sounding /\ Sounding' = Sounding
      BY <1>3, <2>1 DEF Start, VoiceInv, VoiceTypes, Taken, Sounding
    <3>2. Sounding \subseteq Callers
      BY DEF Sounding
    <3>. QED
      BY <3>1, <3>2 DEF BeganInv, Taken
  <2>2. CASE ~Active
    BY <1>3, <2>2, RestKeepsBegan DEF Start, ghosts, Sounding
  <2>. QED
    BY <2>1, <2>2
<1>4. ASSUME NEW c \in Callers, Stop(c) PROVE BeganInv'
  BY <1>4, RestKeepsBegan DEF Stop, HolderAfter, Sounding
<1>5. ASSUME NEW c \in Callers, ToneEnds(c) PROVE BeganInv'
  <2>1. tones' = [tones EXCEPT ![c] = NoTone] /\ sender' = sender
    BY <1>5 DEF ToneEnds
  <2>2. Sounding' \subseteq Sounding
    BY <2>1 DEF Sounding, TalkTypes, NoTone
  <2>. QED
    BY <1>5, <2>2, RestKeepsBegan DEF ToneEnds, HolderAfter
\* A session that is not the owner is refused.
<1>6. ASSUME NEW c \in Callers, MayFeed(c), holder # Anonymous PROVE c \in {holder, Anonymous}
  BY <1>6 DEF MayFeed, HolderInv, NewestHoldsTalkback
<1>7. ASSUME NEW c \in Callers, NEW halves \in 1..MaxChunk, Feed(c, halves) PROVE BeganInv'
  <2>1. Sounding' = Sounding
    BY <1>7 DEF Feed, Sounding
  <2>2. CASE Active /\ talking
    <3>1. FeedSender(Voice(c), halves) /\ UNCHANGED <<holder, began, ringing>> /\ MayFeed(c)
      BY <1>7, <2>2 DEF Feed, ghosts
    <3>2. halves \in Nat /\ Voice(c) \in Speakers
      BY TalkbackAssumption DEF Voice, Speakers
    <3>3. holder # Anonymous => Fits(Voice(c))
      BY <1>6, <3>1 DEF Fits, Voice
    <3>. QED
      BY <2>1, <3>1, <3>2, <3>3, FeedKeepsBegan DEF BeganInv
  <2>3. CASE ~(Active /\ talking)
    BY <1>7, <2>1, <2>3, RestKeepsBegan DEF Feed, ghosts
  <2>. QED
    BY <2>2, <2>3
\* Nor may it begin a tone.
<1>8. ASSUME NEW c \in Callers, ToneBegins(c) PROVE BeganInv'
  <2>1. CASE Active
    <3>1. /\ FeedSender(ToneOf(c), 2) /\ UNCHANGED <<holder, began, ringing, sender>> /\ MayFeed(c)
          /\ tones' = [tones EXCEPT ![c] = [sender |-> sender, left |-> ToneFrames - 1]]
      BY <1>8, <2>1 DEF ToneBegins, ghosts
    <3>2. ToneOf(c) \in Speakers
      BY DEF ToneOf, Speakers
    <3>3. Sounding' \subseteq Sounding \cup {c}
      BY <3>1 DEF Sounding, TalkTypes
    <3>4. holder # Anonymous =>
            Fits(ToneOf(c)) /\ Sounding' \subseteq ringing \cup {holder, Anonymous}
      BY <1>6, <3>1, <3>3 DEF Fits, ToneOf, BeganInv
    <3>. QED
      BY <3>1, <3>2, <3>4, FeedKeepsBegan
  <2>2. CASE ~Active
    BY <1>8, <2>2, RestKeepsBegan DEF ToneBegins, ghosts, Sounding
  <2>. QED
    BY <2>1, <2>2
\* A tone that sounds on is one of those that did at the start.
<1>9. ASSUME NEW c \in Callers, ToneFrame(c) PROVE BeganInv'
  <2>1. /\ tones' = [tones EXCEPT ![c] = [tones[c] EXCEPT !.left = @ - 1]] /\ tones[c].left > 0
        /\ UNCHANGED <<holder, began, ringing, sender>>
    BY <1>9 DEF ToneFrame, ghosts
  <2>2. Sounding' \subseteq Sounding
    <3>1. \A d \in Callers : d # c => tones'[d] = tones[d]
      BY <2>1 DEF TalkTypes
    <3>2. tones'[c].sender = tones[c].sender
      BY <2>1 DEF TalkTypes
    <3>. QED
      BY <2>1, <3>1, <3>2 DEF Sounding
  <2>3. CASE tones[c].sender = sender /\ talking
    <3>1. FeedSender(ToneOf(c), 2) /\ c \in Sounding
      BY <1>9, <2>1, <2>3 DEF ToneFrame, Sounding
    <3>2. ToneOf(c) \in Speakers
      BY DEF ToneOf, Speakers
    <3>3. holder # Anonymous =>
            Fits(ToneOf(c)) /\ Sounding' \subseteq ringing \cup {holder, Anonymous}
      BY <2>2, <3>1 DEF Fits, ToneOf, BeganInv
    <3>. QED
      BY <2>1, <3>1, <3>2, <3>3, FeedKeepsBegan
  <2>4. CASE ~(tones[c].sender = sender /\ talking)
    BY <1>9, <2>1, <2>2, <2>4, RestKeepsBegan DEF ToneFrame
  <2>. QED
    BY <2>3, <2>4
<1>. QED
  BY <1>1, <1>2, <1>3, <1>4, <1>5, <1>7, <1>8, <1>9 DEF Next

\* There is no holder, and no frame.
LEMMA BeganInit == Init => BeganInv
<1>1. Len(<<>>) = 0
  OBVIOUS
<1>. QED
  BY <1>1 DEF Init, BeganInv, Taken

\* README.md:216: what an older session feeds after a newer one has begun is
\* not mixed into what the newer one says, nor a tone it begins then: the owner
\* check of both services refuses it for as long as the newer one holds its
\* microphone.  Only a tone that was sounding when the newer one began is not
\* asked again (media_pipeline.py:1116-1130), and goes on into its queue.
THEOREM NoStaleVoiceEver == Spec => []NoStaleVoice
<1>1. VoiceInv /\ BeganInv => NoStaleVoice
  <2> SUFFICES ASSUME VoiceInv, BeganInv, holder # Anonymous, NEW j \in 1..Len(queue),
                      queue[j] > began
               PROVE  Fits(by[queue[j]])
    BY DEF NoStaleVoice, Fits
  <2>1. queue[j] \in 1..Taken
    <3>1. /\ Len(queue) \in Nat /\ Taken \in Nat /\ Len(queue) <= Taken
          /\ queue[j] = Taken - Len(queue) + j
      BY DEF VoiceInv, VoiceTypes, EndOf, Taken
    <3>. QED
      BY <3>1
  <2>. QED
    BY <2>1 DEF BeganInv
<1>. QED
  BY VoiceInit, VoiceStep, HolderInit, HolderStep, TalkTypesInit, TalkTypesStep, BeganInit,
     BeganStep, <1>1, PTL DEF Spec

\* The microphone keeps its types; in particular the queue never exceeds its
\* limit and there is a sender just while a call has one.
THEOREM TalkbackTyped == Spec => []TypeOK
<1>1. VoiceInv /\ BeganInv /\ TalkTypes => TypeOK
  <2> SUFFICES ASSUME VoiceInv, BeganInv, TalkTypes PROVE TypeOK
    OBVIOUS
  <2>1. /\ queue \in Seq(Nat) /\ Len(queue) \in Nat /\ Len(queue) <= MaxQueue
        /\ Taken \in Nat /\ Len(queue) <= Taken /\ Taken <= MaxFrames /\ MaxFrames \in Nat
        /\ \A j \in 1..Len(queue) : queue[j] = Taken - Len(queue) + j
    BY TalkbackAssumption DEF VoiceInv, VoiceTypes, EndOf, Taken, TalkTypes
  <2>2. \A j \in 1..Len(queue) : queue[j] \in 1..MaxFrames
    BY <2>1
  <2>3. queue \in Seq(1..MaxFrames)
    <3>1. queue \in [1..Len(queue) -> Nat]
      BY <2>1
    <3>2. queue \in [1..Len(queue) -> 1..MaxFrames]
      BY <2>2, <3>1
    <3>. QED
      BY <2>1, <3>2
  <2>4. {sent, fence, began} \subseteq 0..Taken
    <3>1. sent \in 0..Taken /\ fence \in 0..Taken
      BY <2>1 DEF VoiceInv, VoiceTypes
    <3>. QED
      BY <3>1 DEF BeganInv
  <2>5. ringing \subseteq Callers
    BY DEF BeganInv
  <2>. QED
    BY <2>1, <2>3, <2>4, <2>5 DEF TypeOK, TalkTypes, VoiceInv, VoiceTypes
<1>. QED
  BY VoiceInit, VoiceStep, HolderInit, HolderStep, BeganInit, BeganStep, TalkTypesInit,
     TalkTypesStep, <1>1, PTL DEF Spec
=============================================================================
