--------------------------- MODULE SipUnlock_proof ---------------------------
(***************************************************************************)
(* Proofs about opening a door, SipUnlock.tla: for any number of presses,  *)
(* of stations and of requests of the gateway, whatever answers come in    *)
(* which order.                                                            *)
(*                                                                         *)
(* The invariant follows the conversation of one thread phase by phase:    *)
(* what may still be on its way in either direction, what the gateway has  *)
(* done by then, and what the next frame may hence be taken for.           *)
(***************************************************************************)
EXTENDS SipUnlock, SequenceTheorems, TLAPS

Methods == {"REGISTER", "INVITE", "MESSAGE", "ACK", "BYE", "CANCEL"}
Codes == {0, 100, 183, 200, 401, 486, 487}
Requests == [method : Methods, auth : BOOLEAN]
Frames == [method : Methods, code : Codes]

Types ==
  /\ strategy \in Strategies
  /\ pc \in [Presses -> Phases]
  /\ door \in [Presses -> Stations]
  /\ retried \in [Presses -> BOOLEAN] /\ early \in [Presses -> BOOLEAN]
  /\ result \in [Presses -> BOOLEAN] /\ cut \in [Presses -> BOOLEAN]
  /\ missed \in [Presses -> BOOLEAN] /\ taken \in [Presses -> BOOLEAN]
  /\ call \in [Presses -> {"none", "rings", "up"}]
  /\ opened \in [Presses -> Seq(Stations)]
  /\ rings \in 0..MaxRings
  /\ out \in [Presses -> Seq(Requests)]
  /\ in \in [Presses -> Seq(Frames)]

\* An answer that ends a request.
Final(f) == f.code \notin {0, 100, 183}
NoFinal(s) == \A i \in 1..Len(s) : ~Final(s[i])
OneFinal(s) == \A i, j \in 1..Len(s) : Final(s[i]) /\ Final(s[j]) => i = j
NoCode(s, c) == \A i \in 1..Len(s) : s[i].code # c
NoMethod(s, m) == \A i \in 1..Len(s) : s[i].method # m
Once(s, m) == \A i, j \in 1..Len(s) : s[i].method = m /\ s[j].method = m => i = j
Has(s, e) == \E i \in 1..Len(s) : s[i] = e

\* What ends a call, and what the gateway may say to it.
Cancels == Request("CANCEL", FALSE)
Leaves == Request("BYE", FALSE)
LeavesAgain == Request("BYE", TRUE)
NotYet == Frame("BYE", 401)

\* One request is on its way, perhaps after acknowledgements, or none.
Alone(s, m) == \A i \in 1..Len(s) : s[i].method = IF i = Len(s) THEN m ELSE "ACK"

\* Nothing has been asked of the station, and no call is made.
BeforeCall(p) ==
  pc[p] \in {"idle", "REGISTER"} =>
    call[p] = "none" /\ ~early[p] /\ ~cut[p]
BeforeMessage(p) ==
  pc[p] \in {"idle", "REGISTER", "INVITE"} => opened[p] = <<>> /\ ~result[p]

IdleOK(p) == pc[p] = "idle" => out[p] = <<>> /\ in[p] = <<>>

\* One question, one answer.
RegisterOK(p) ==
  pc[p] = "REGISTER" =>
    /\ Alone(out[p], "REGISTER") /\ OneFinal(in[p]) /\ NoCode(in[p], 183)
    /\ out[p] # <<>> => NoFinal(in[p])

\* What comes is of the one INVITE, and says how the call stands.
InviteOK(p) ==
  pc[p] = "INVITE" =>
    /\ Alone(out[p], "INVITE") /\ OneFinal(in[p]) /\ ~cut[p]
    /\ out[p] # <<>> => call[p] = "none" /\ NoFinal(in[p])
    /\ call[p] = "none" => NoCode(in[p], 183) /\ NoCode(in[p], 200)
    /\ call[p] = "rings" => NoFinal(in[p])
    /\ call[p] = "up" => NoCode(in[p], 401) /\ NoCode(in[p], 486)

\* The MESSAGE is on its way, or challenged, or answered, once.  Only in an
\* early session the station may still answer the INVITE.
MessageOK(p) ==
  pc[p] = "MESSAGE" =>
    /\ Alone(out[p], "MESSAGE") /\ ~cut[p]
    /\ out[p] # <<>> => opened[p] = <<>>
    /\ ~NoCode(in[p], 401) /\ ~retried[p] => opened[p] = <<>> /\ out[p] = <<>>
    /\ ~early[p] =>
         /\ call[p] # "rings"
         /\ OneFinal(in[p]) /\ (out[p] # <<>> => NoFinal(in[p]))
         /\ opened[p] = <<>> => NoCode(in[p], 200)

\* A MESSAGE that has been given up may still be on its way, but no other.
LateMessage(p) ==
  pc[p] \in {"BYE", "CANCEL", "done"} =>
    /\ ~NoMethod(out[p], "MESSAGE") => opened[p] = <<>>
    /\ Once(out[p], "MESSAGE")

\* A call that is still up is ended by a BYE with credentials, or by one without
\* which the thread will send again when it reads that it is challenged.
ByeEnds(p) ==
  \/ Has(out[p], LeavesAgain)
  \/ ~retried[p] /\ (Has(out[p], Leaves) \/ Has(in[p], NotYet))

ByeOK(p) ==
  pc[p] = "BYE" =>
    /\ ~early[p] /\ call[p] # "rings"
    /\ NoMethod(out[p], "INVITE") /\ NoMethod(out[p], "CANCEL")
    /\ call[p] # "none" => ByeEnds(p)

\* A call that rings will still meet the CANCEL, and a 487 says that it has ended.
CancelOK(p) ==
  pc[p] = "CANCEL" =>
    /\ early[p] /\ NoMethod(out[p], "INVITE")
    /\ call[p] = "rings" => Has(out[p], Cancels)
    /\ call[p] = "none" \/ NoCode(in[p], 487)

NotCancelled(p) ==
  pc[p] \notin {"CANCEL", "done"} => NoCode(in[p], 487)

\* What is left of the call when the thread has gone, and what still ends it.
Left(p) ==
  \/ early[p] /\ (call[p] = "up" \/ Has(out[p], Cancels))
  \/ Has(out[p], Leaves) \/ Has(out[p], LeavesAgain)
  \/ missed[p] \/ Has(in[p], NotYet)

DoneOK(p) ==
  pc[p] = "done" /\ ~cut[p] => NoMethod(out[p], "INVITE") /\ (call[p] # "none" => Left(p))

\* The fast route makes no call.
FastOK(p) ==
  Fast(door[p]) =>
    /\ pc[p] \notin {"INVITE", "BYE", "CANCEL"} /\ call[p] = "none" /\ ~early[p]
    /\ NoMethod(out[p], "INVITE")

OpensOK(p) ==
  /\ Len(opened[p]) <= 1 /\ \A i \in 1..Len(opened[p]) : opened[p][i] = door[p]
  /\ result[p] /\ ~early[p] => opened[p] # <<>>

ThreadOK(p) ==
  /\ BeforeCall(p) /\ BeforeMessage(p) /\ IdleOK(p) /\ RegisterOK(p) /\ InviteOK(p)
  /\ MessageOK(p) /\ LateMessage(p) /\ ByeOK(p) /\ CancelOK(p) /\ NotCancelled(p)
  /\ DoneOK(p) /\ FastOK(p) /\ OpensOK(p)

UnlockInv == Types /\ \A p \in Presses : ThreadOK(p)

----------------------------------------------------------------------------
(* Sequences.                                                              *)

\* What is left of a sequence when its head is taken.
LEMMA TailFacts ==
  ASSUME NEW S, NEW s \in Seq(S), s # <<>>
  PROVE  /\ Tail(s) \in Seq(S) /\ Len(s) \in Nat \ {0} /\ Len(Tail(s)) = Len(s) - 1
         /\ Head(s) = s[1] /\ s[1] \in S
         /\ \A i \in 1..Len(Tail(s)) : Tail(s)[i] = s[i + 1] /\ i + 1 \in 2..Len(s)
OBVIOUS

\* What is on a sequence when one element more is put on it.
LEMMA PushFacts ==
  ASSUME NEW S, NEW s \in Seq(S), NEW e \in S
  PROVE  /\ s \o <<e>> \in Seq(S) /\ Len(s) \in Nat /\ Len(s \o <<e>>) = Len(s) + 1
         /\ s \o <<e>> # <<>>
         /\ (s \o <<e>>)[Len(s) + 1] = e
         /\ \A i \in 1..Len(s) : (s \o <<e>>)[i] = s[i]
OBVIOUS

\* Two elements are put on one after the other.
LEMMA PushTwo ==
  ASSUME NEW S, NEW s \in Seq(S), NEW d \in S, NEW e \in S
  PROVE  s \o <<d, e>> = (s \o <<d>>) \o <<e>>
<1>. DEFINE a == s \o <<d, e>>
            b == (s \o <<d>>) \o <<e>>
            n == Len(s) + 2
<1>1. Len(s) \in Nat /\ <<d, e>> \in Seq(S) /\ <<d>> \in Seq(S) /\ <<e>> \in Seq(S)
  OBVIOUS
<1>2. a \in Seq(S) /\ Len(a) = n /\ b \in Seq(S) /\ Len(b) = n
  <2>1. \A u, v \in Seq(S) : u \o v \in Seq(S) /\ Len(u \o v) = Len(u) + Len(v)
    OBVIOUS
  <2>2. Len(<<d, e>>) = 2 /\ Len(<<d>>) = 1 /\ Len(<<e>>) = 1
    OBVIOUS
  <2>3. s \o <<d>> \in Seq(S) /\ Len(s \o <<d>>) = Len(s) + 1
    BY <1>1, <2>1, <2>2
  <2>4. a \in Seq(S) /\ Len(a) = Len(s) + 2
    BY <1>1, <2>1, <2>2
  <2>5. b \in Seq(S) /\ Len(b) = Len(s) + 1 + 1
    BY <1>1, <2>1, <2>2, <2>3
  <2>. QED
    BY <1>1, <2>4, <2>5
<1>3. \A i \in 1..n : i \in 1..Len(s) \/ i = Len(s) + 1 \/ i = Len(s) + 2
  BY <1>1
<1>4. ASSUME NEW i \in 1..n PROVE a[i] = b[i]
  <2>1. CASE i \in 1..Len(s)
    BY <1>1, <2>1
  <2>2. CASE i = Len(s) + 1
    BY <1>1, <2>2
  <2>3. CASE i = Len(s) + 2
    BY <1>1, <2>3
  <2>. QED
    BY <1>3, <2>1, <2>2, <2>3
<1>. HIDE DEF a, b
<1>5. a = b
  BY <1>2, <1>4, SeqEqual
<1>. QED
  BY <1>5 DEF a, b

\* What is there stays when one more comes, and while another is taken.
LEMMA HasFacts ==
  ASSUME NEW S, NEW s \in Seq(S), NEW e \in S
  PROVE  /\ Has(s \o <<e>>, e) /\ \A d : Has(s, d) => Has(s \o <<e>>, d)
         /\ s # <<>> => \A d : Has(s, d) /\ Head(s) # d => Has(Tail(s), d)
<1>1. Has(s \o <<e>>, e) /\ \A d : Has(s, d) => Has(s \o <<e>>, d)
  <2>. DEFINE t == s \o <<e>>
  <2>1. /\ Len(s) \in Nat /\ Len(t) = Len(s) + 1 /\ t[Len(s) + 1] = e
        /\ \A i \in 1..Len(s) : t[i] = s[i]
    BY PushFacts
  <2>2. Len(s) + 1 \in 1..Len(t) /\ \A i \in 1..Len(s) : i \in 1..Len(t)
    BY <2>1
  <2>. HIDE DEF t
  <2>3. Has(t, e) /\ \A d : Has(s, d) => Has(t, d)
    BY <2>1, <2>2 DEF Has
  <2>. QED
    BY <2>3 DEF t
<1>2. ASSUME s # <<>>, NEW d, Has(s, d), Head(s) # d PROVE Has(Tail(s), d)
  <2>. DEFINE t == Tail(s)
  <2>1. /\ Len(s) \in Nat \ {0} /\ Len(t) = Len(s) - 1 /\ Head(s) = s[1]
        /\ \A i \in 1..Len(t) : t[i] = s[i + 1]
    BY <1>2, TailFacts
  <2>. HIDE DEF t
  <2>2. PICK i \in 1..Len(s) : s[i] = d
    BY <1>2 DEF Has
  <2>3. i # 1
    BY <1>2, <2>1, <2>2
  <2>4. i - 1 \in 1..Len(t) /\ (i - 1) + 1 = i
    BY <2>1, <2>3
  <2>5. t[i - 1] = d
    BY <2>1, <2>2, <2>4
  <2>6. Has(t, d)
    BY <2>4, <2>5 DEF Has
  <2>. QED
    BY <2>6 DEF t
<1>. QED
  BY <1>1, <1>2

\* The frames that are left when one has been read (recv_frame).
LEMMA FrameRead ==
  ASSUME NEW s \in Seq(Frames), s # <<>>
  PROVE  /\ Tail(s) \in Seq(Frames) /\ Head(s) \in Frames
         /\ NoFinal(s) => NoFinal(Tail(s)) /\ ~Final(Head(s))
         /\ OneFinal(s) => OneFinal(Tail(s))
         /\ OneFinal(s) /\ Final(Head(s)) => NoFinal(Tail(s))
         /\ \A c \in Codes : NoCode(s, c) => NoCode(Tail(s), c) /\ Head(s).code # c
<1>1. /\ Tail(s) \in Seq(Frames) /\ Len(s) \in Nat \ {0} /\ Len(Tail(s)) = Len(s) - 1
      /\ Head(s) = s[1] /\ s[1] \in Frames
      /\ \A i \in 1..Len(Tail(s)) : Tail(s)[i] = s[i + 1] /\ i + 1 \in 2..Len(s)
  BY TailFacts
<1>2. 1 \in 1..Len(s) /\ \A i \in 2..Len(s) : i \in 1..Len(s) /\ i # 1
  BY <1>1
<1>. DEFINE t == Tail(s)
<1>3. t = Tail(s)
  OBVIOUS
<1>. HIDE DEF t
<1>4. NoFinal(s) => NoFinal(t) /\ ~Final(Head(s))
  BY <1>1, <1>2, <1>3 DEF NoFinal
<1>5. OneFinal(s) => OneFinal(t)
  BY <1>1, <1>2, <1>3 DEF OneFinal
<1>6. OneFinal(s) /\ Final(Head(s)) => NoFinal(t)
  BY <1>1, <1>2, <1>3 DEF OneFinal, NoFinal
<1>7. \A c \in Codes : NoCode(s, c) => NoCode(t, c) /\ Head(s).code # c
  BY <1>1, <1>2, <1>3 DEF NoCode
<1>. QED
  BY <1>1, <1>3, <1>4, <1>5, <1>6, <1>7

\* The frames there are when one more has come.
LEMMA FrameCame ==
  ASSUME NEW s \in Seq(Frames), NEW f \in Frames
  PROVE  /\ s \o <<f>> \in Seq(Frames)
         /\ NoFinal(s) /\ ~Final(f) => NoFinal(s \o <<f>>)
         /\ OneFinal(s) /\ ~Final(f) => OneFinal(s \o <<f>>)
         /\ NoFinal(s) => OneFinal(s \o <<f>>)
         /\ \A c \in Codes : NoCode(s, c) /\ f.code # c => NoCode(s \o <<f>>, c)
<1>. DEFINE t == s \o <<f>>
<1>1. /\ t \in Seq(Frames) /\ Len(s) \in Nat /\ Len(t) = Len(s) + 1
      /\ t[Len(s) + 1] = f /\ \A i \in 1..Len(s) : t[i] = s[i]
  BY PushFacts
<1>2. \A i \in 1..Len(t) : i \in 1..Len(s) \/ i = Len(s) + 1
  BY <1>1
<1>. HIDE DEF t
<1>3. NoFinal(s) /\ ~Final(f) => NoFinal(t)
  BY <1>1, <1>2 DEF NoFinal
<1>4. OneFinal(s) /\ ~Final(f) => OneFinal(t)
  BY <1>1, <1>2 DEF OneFinal
<1>5. NoFinal(s) => OneFinal(t)
  BY <1>1, <1>2 DEF OneFinal, NoFinal
<1>6. \A c \in Codes : NoCode(s, c) /\ f.code # c => NoCode(t, c)
  BY <1>1, <1>2 DEF NoCode
<1>. QED
  BY <1>1, <1>3, <1>4, <1>5, <1>6 DEF t

\* The requests that are left when the gateway has taken one.
LEMMA RequestTaken ==
  ASSUME NEW s \in Seq(Requests), s # <<>>
  PROVE  /\ Tail(s) \in Seq(Requests) /\ Head(s) \in Requests
         /\ \A m \in Methods :
              /\ NoMethod(s, m) => NoMethod(Tail(s), m) /\ Head(s).method # m
              /\ Once(s, m) => Once(Tail(s), m)
              /\ Once(s, m) /\ Head(s).method = m => NoMethod(Tail(s), m)
         /\ \A m \in Methods :
              Alone(s, m) => /\ Alone(Tail(s), m) /\ Head(s).method \in {"ACK", m}
                             /\ m # "ACK" /\ Head(s).method = m => Tail(s) = <<>>
                             /\ Head(s).method # m => Tail(s) # <<>>
<1>1. /\ Tail(s) \in Seq(Requests) /\ Len(s) \in Nat \ {0} /\ Len(Tail(s)) = Len(s) - 1
      /\ Head(s) = s[1] /\ s[1] \in Requests
      /\ \A i \in 1..Len(Tail(s)) : Tail(s)[i] = s[i + 1] /\ i + 1 \in 2..Len(s)
  BY TailFacts
<1>2. 1 \in 1..Len(s) /\ \A i \in 2..Len(s) : i \in 1..Len(s) /\ i # 1
  BY <1>1
<1>. DEFINE t == Tail(s)
<1>4. t = Tail(s)
  OBVIOUS
<1>. HIDE DEF t
<1>3. (t = <<>>) <=> (Len(s) = 1)
  <2>1. t \in Seq(Requests) /\ Len(t) = Len(s) - 1
    BY <1>1, <1>4
  <2>. QED
    BY <1>1, <2>1
<1>5. \A m \in Methods : NoMethod(s, m) => NoMethod(t, m) /\ Head(s).method # m
  BY <1>1, <1>2, <1>4 DEF NoMethod
<1>6. ASSUME NEW m \in Methods, Alone(s, m)
      PROVE  /\ Alone(t, m) /\ Head(s).method \in {"ACK", m}
             /\ m # "ACK" /\ Head(s).method = m => t = <<>>
             /\ Head(s).method # m => t # <<>>
  <2>1. Alone(t, m)
    <3>1. ASSUME NEW i \in 1..Len(t) PROVE t[i].method = IF i = Len(t) THEN m ELSE "ACK"
      <4>1. i + 1 \in 1..Len(s) /\ t[i] = s[i + 1] /\ (i + 1 = Len(s) <=> i = Len(t))
        BY <1>1, <1>2, <1>4
      <4>. QED
        BY <1>6, <4>1 DEF Alone
    <3>. QED
      BY <3>1 DEF Alone
  <2>2. Head(s).method = IF Len(s) = 1 THEN m ELSE "ACK"
    BY <1>1, <1>2, <1>6 DEF Alone
  <2>. QED
    BY <1>3, <1>4, <2>1, <2>2
<1>7. \A m \in Methods : Once(s, m) => Once(t, m)
  BY <1>1, <1>2, <1>4 DEF Once
<1>9. \A m \in Methods : Once(s, m) /\ Head(s).method = m => NoMethod(t, m)
  BY <1>1, <1>2, <1>4 DEF NoMethod, Once
<1>. QED
  BY <1>1, <1>4, <1>5, <1>6, <1>7, <1>9

\* The requests there are when one more has been sent.
LEMMA RequestSent ==
  ASSUME NEW s \in Seq(Requests), NEW r \in Requests
  PROVE  /\ s \o <<r>> \in Seq(Requests) /\ s \o <<r>> # <<>>
         /\ \A m \in Methods :
              /\ NoMethod(s, m) /\ r.method # m => NoMethod(s \o <<r>>, m)
              /\ NoMethod(s, m) => Once(s \o <<r>>, m)
              /\ Once(s, m) /\ r.method # m => Once(s \o <<r>>, m)
<1>. DEFINE t == s \o <<r>>
<1>1. /\ t \in Seq(Requests) /\ Len(s) \in Nat /\ Len(t) = Len(s) + 1 /\ t # <<>>
      /\ t[Len(s) + 1] = r /\ \A i \in 1..Len(s) : t[i] = s[i]
  BY PushFacts
<1>2. \A i \in 1..Len(t) : i \in 1..Len(s) \/ i = Len(s) + 1
  BY <1>1
<1>. HIDE DEF t
<1>3. \A m \in Methods : NoMethod(s, m) /\ r.method # m => NoMethod(t, m)
  BY <1>1, <1>2 DEF NoMethod
<1>4. \A m \in Methods : NoMethod(s, m) => Once(t, m)
  BY <1>1, <1>2 DEF NoMethod, Once
<1>5. \A m \in Methods : Once(s, m) /\ r.method # m => Once(t, m)
  BY <1>1, <1>2 DEF Once
<1>. QED
  BY <1>1, <1>3, <1>4, <1>5 DEF t

\* What is said of a request that is sent alone.
LEMMA SentAlone ==
  ASSUME NEW r \in Requests
  PROVE  /\ <<>> \o <<r>> = <<r>> /\ <<r>> \in Seq(Requests) /\ <<r>> # <<>>
         /\ Alone(<<r>>, r.method)
<1>1. <<r>> \in Seq(Requests) /\ Len(<<r>>) = 1 /\ <<r>>[1] = r
  OBVIOUS
<1>2. <<>> \o <<r>> = <<r>>
  BY <1>1, ConcatEmptySeq
<1>. QED
  BY <1>1, <1>2 DEF Alone

\* The same of one that is sent after an acknowledgement.
LEMMA SentAfterAck ==
  ASSUME NEW a \in Requests, NEW r \in Requests, a.method = "ACK"
  PROVE  /\ <<>> \o <<a, r>> = <<a, r>> /\ <<a, r>> \in Seq(Requests) /\ <<a, r>> # <<>>
         /\ Alone(<<a, r>>, r.method)
<1>1. /\ <<a, r>> \in Seq(Requests) /\ Len(<<a, r>>) = 2
      /\ <<a, r>>[1] = a /\ <<a, r>>[2] = r
  OBVIOUS
<1>2. <<>> \o <<a, r>> = <<a, r>>
  BY <1>1, ConcatEmptySeq
<1>3. \A i \in 1..2 : i = 1 \/ i = 2
  OBVIOUS
<1>. QED
  BY <1>1, <1>2, <1>3 DEF Alone

\* When nothing is on its way, nothing is said of it.
LEMMA Nothing ==
  /\ <<>> \in Seq(Requests)
  /\ \A m \in Methods : Alone(<<>>, m) /\ NoMethod(<<>>, m) /\ Once(<<>>, m)
BY DEF Alone, NoMethod, Once

\* Who is alone is there once, and no other request is.
LEMMA AloneMeans ==
  ASSUME NEW s \in Seq(Requests), NEW m \in Methods \ {"ACK"}, Alone(s, m)
  PROVE  Once(s, m) /\ \A o \in Methods \ {"ACK", m} : NoMethod(s, o) /\ Once(s, o)
BY DEF Alone, Once, NoMethod

----------------------------------------------------------------------------
(* Steps.                                                                  *)

\* A step of one thread, or of the gateway for it, leaves the others alone.
LEMMA Elsewhere ==
  ASSUME UnlockInv, NEW p \in Presses, Types', ThreadOK(p)',
         strategy' = strategy,
         \A q \in Presses \ {p} :
           /\ pc'[q] = pc[q] /\ door'[q] = door[q] /\ retried'[q] = retried[q]
           /\ early'[q] = early[q] /\ result'[q] = result[q] /\ cut'[q] = cut[q]
           /\ missed'[q] = missed[q] /\ call'[q] = call[q] /\ opened'[q] = opened[q]
           /\ out'[q] = out[q] /\ in'[q] = in[q]
  PROVE  UnlockInv'
<1>1. ASSUME NEW q \in Presses \ {p} PROVE ThreadOK(q)'
  <2>1. ThreadOK(q)
    BY DEF UnlockInv
  <2>2. /\ BeforeCall(q)' /\ BeforeMessage(q)' /\ IdleOK(q)' /\ RegisterOK(q)' /\ InviteOK(q)'
        /\ MessageOK(q)' /\ LateMessage(q)' /\ CancelOK(q)' /\ NotCancelled(q)'
    BY <2>1 DEF ThreadOK, BeforeCall, BeforeMessage, IdleOK, RegisterOK, InviteOK, MessageOK,
       LateMessage, CancelOK, NotCancelled
  <2>3. ByeOK(q)' /\ DoneOK(q)'
    BY <2>1 DEF ThreadOK, ByeOK, ByeEnds, DoneOK, Left
  <2>4. FastOK(q)' /\ OpensOK(q)'
    BY <2>1 DEF ThreadOK, FastOK, Fast, OpensOK
  <2>. QED
    BY <2>2, <2>3, <2>4 DEF ThreadOK
<1>. QED
  BY <1>1 DEF UnlockInv

\* A list of one and of two, element by element.
LEMMA ListOfOne ==
  ASSUME NEW S, NEW r \in S
  PROVE  [j \in 1..1 |-> r] = <<r>>
OBVIOUS

\* The sequence of two elements, as SMT and Zenon write it.
LEMMA ListOfTwo ==
  ASSUME NEW S, NEW a \in S, NEW b \in S,
         NEW f, f = [j \in 1..2 |-> IF j = 1 THEN a ELSE b]
  PROVE  f = <<a, b>>
<1>1. f \in Seq(S) /\ <<a, b>> \in Seq(S)
  OBVIOUS
<1>2. Len(f) = 2
  OBVIOUS
<1>3. Len(<<a, b>>) = 2 /\ <<a, b>>[1] = a /\ <<a, b>>[2] = b
  OBVIOUS
<1>4. \A i \in 1..2 : f[i] = <<a, b>>[i]
  OBVIOUS
<1>. QED
  BY <1>1, <1>2, <1>3, <1>4, SeqEqual

\* What the thread asks first or next (_send).
LEMMA AskedOne ==
  ASSUME NEW p \in Presses, NEW m \in Methods, Ask(p, <<m>>)
  PROVE  /\ out' = [out EXCEPT ![p] = out[p] \o <<Request(m, FALSE)>>]
         /\ retried' = [retried EXCEPT ![p] = FALSE] /\ pc' = [pc EXCEPT ![p] = m]
         /\ Request(m, FALSE) \in Requests /\ Request(m, FALSE).method = m
<1>1. Request(m, FALSE) \in Requests /\ Request(m, FALSE).method = m
  BY DEF Request, Requests
<1>2. Len(<<m>>) = 1 /\ \A j \in 1..1 : <<m>>[j] = m
  OBVIOUS
<1>3. \A j \in 1..1 : Request(<<m>>[j], FALSE) = Request(m, FALSE)
  BY <1>2
<1>4. [j \in 1..Len(<<m>>) |-> Request(<<m>>[j], FALSE)] = [j \in 1..1 |-> Request(m, FALSE)]
  BY <1>2, <1>3
<1>5. [j \in 1..1 |-> Request(m, FALSE)] = <<Request(m, FALSE)>>
  BY <1>1, ListOfOne
<1>6. Last(<<m>>) = m
  BY DEF Last
<1>. QED
  BY <1>1, <1>4, <1>5, <1>6 DEF Ask, Send, Goto

\* An answered INVITE is acknowledged before the MESSAGE is sent.
LEMMA AskedWithAck ==
  ASSUME NEW p \in Presses, Ask(p, <<"ACK", "MESSAGE">>)
  PROVE  /\ out' = [out EXCEPT ![p] =
                      out[p] \o <<Request("ACK", FALSE), Request("MESSAGE", FALSE)>>]
         /\ retried' = [retried EXCEPT ![p] = FALSE] /\ pc' = [pc EXCEPT ![p] = "MESSAGE"]
         /\ Request("ACK", FALSE) \in Requests /\ Request("ACK", FALSE).method = "ACK"
         /\ Request("MESSAGE", FALSE) \in Requests
         /\ Request("MESSAGE", FALSE).method = "MESSAGE"
<1>. DEFINE ms == <<"ACK", "MESSAGE">>
<1>1. /\ Request("ACK", FALSE) \in Requests /\ Request("ACK", FALSE).method = "ACK"
      /\ Request("MESSAGE", FALSE) \in Requests /\ Request("MESSAGE", FALSE).method = "MESSAGE"
  BY DEF Request, Requests, Methods
<1>2. Len(ms) = 2 /\ \A j \in 1..2 : ms[j] = IF j = 1 THEN "ACK" ELSE "MESSAGE"
  OBVIOUS
<1>3. Last(ms) = "MESSAGE"
  BY <1>2 DEF Last
<1>. HIDE DEF ms
<1>4. \A j \in 1..2 : Request(ms[j], FALSE) = IF j = 1 THEN Request("ACK", FALSE)
                                                       ELSE Request("MESSAGE", FALSE)
  BY <1>2
<1>5. PICK f : f = [j \in 1..2 |-> IF j = 1 THEN Request("ACK", FALSE)
                                             ELSE Request("MESSAGE", FALSE)]
  OBVIOUS
<1>6. [j \in 1..Len(ms) |-> Request(ms[j], FALSE)] = f
  BY <1>2, <1>4, <1>5
<1>7. f = <<Request("ACK", FALSE), Request("MESSAGE", FALSE)>>
  BY <1>1, <1>5, ListOfTwo
<1>8. Ask(p, ms)
  BY DEF ms
<1>. QED
  BY <1>1, <1>3, <1>6, <1>7, <1>8 DEF Ask, Send, Goto

\* The thread has taken a frame (recv_frame).
LEMMA FrameTaken ==
  ASSUME UnlockInv, NEW p \in Presses, NEW phase, Reads(p, phase)
  PROVE  /\ Types /\ ThreadOK(p) /\ pc[p] = phase
         /\ in' = [in EXCEPT ![p] = Tail(in[p])] /\ in' \in [Presses -> Seq(Frames)]
         /\ UNCHANGED <<strategy, door, call, opened, rings, missed, cut>>
         /\ in'[p] = Tail(in[p]) /\ out[p] \in Seq(Requests) /\ in'[p] \in Seq(Frames)
         /\ Head(in[p]) \in Frames
         /\ NoFinal(in[p]) => NoFinal(in'[p]) /\ ~Final(Head(in[p]))
         /\ OneFinal(in[p]) => OneFinal(in'[p])
         /\ OneFinal(in[p]) /\ Final(Head(in[p])) => NoFinal(in'[p])
         /\ \A c \in Codes : NoCode(in[p], c) => NoCode(in'[p], c) /\ Head(in[p]).code # c
<1>1. Types /\ ThreadOK(p)
  BY DEF UnlockInv
<1>2. /\ pc[p] = phase /\ in[p] # <<>> /\ in' = [in EXCEPT ![p] = Tail(in[p])]
      /\ UNCHANGED <<strategy, door, call, opened, rings, missed, cut>>
  BY DEF Reads, gateway
<1>3. in[p] \in Seq(Frames) /\ out[p] \in Seq(Requests) /\ in'[p] = Tail(in[p])
  BY <1>1, <1>2 DEF Types
<1>4. Tail(in[p]) \in Seq(Frames)
  BY <1>2, <1>3, FrameRead
<1>5. in' \in [Presses -> Seq(Frames)]
  BY <1>1, <1>2, <1>4 DEF Types
<1>. QED
  BY <1>1, <1>2, <1>3, <1>4, <1>5, FrameRead

\* A MESSAGE that is on its way is the only one, and has opened nothing yet.
LEMMA MessageOut ==
  ASSUME UnlockInv, NEW p \in Presses
  PROVE  /\ ~NoMethod(out[p], "MESSAGE") => opened[p] = <<>>
         /\ Once(out[p], "MESSAGE")
<1>1. Types /\ ThreadOK(p) /\ out[p] \in Seq(Requests) /\ pc[p] \in Phases
  BY DEF UnlockInv, Types
<1>2. CASE pc[p] = "idle"
  BY <1>1, <1>2, Nothing DEF ThreadOK, IdleOK, Methods
<1>3. CASE pc[p] = "REGISTER"
  <2>1. Alone(out[p], "REGISTER")
    BY <1>1, <1>3 DEF ThreadOK, RegisterOK
  <2>. QED
    BY <1>1, <2>1, AloneMeans DEF Methods
<1>4. CASE pc[p] = "INVITE"
  <2>1. Alone(out[p], "INVITE")
    BY <1>1, <1>4 DEF ThreadOK, InviteOK
  <2>. QED
    BY <1>1, <2>1, AloneMeans DEF Methods
<1>5. CASE pc[p] = "MESSAGE"
  <2>1. Alone(out[p], "MESSAGE") /\ (out[p] # <<>> => opened[p] = <<>>)
    BY <1>1, <1>5 DEF ThreadOK, MessageOK
  <2>2. Once(out[p], "MESSAGE")
    BY <1>1, <2>1, AloneMeans DEF Methods
  <2>3. out[p] = <<>> => NoMethod(out[p], "MESSAGE")
    BY Nothing DEF Methods
  <2>. QED
    BY <2>1, <2>2, <2>3
<1>6. CASE pc[p] \in {"BYE", "CANCEL", "done"}
  BY <1>1, <1>6 DEF ThreadOK, LateMessage
<1>. QED
  BY <1>1, <1>2, <1>3, <1>4, <1>5, <1>6 DEF Phases

\* A thread that stops leaves its requests as they are, and nobody reads what
\* still comes (sock.close).
LEMMA Stops ==
  ASSUME UnlockInv, NEW p \in Presses, Finish(p), DoneOK(p)',
         result' \in [Presses -> BOOLEAN], result'[p] /\ ~early[p] => opened[p] # <<>>,
         \A q \in Presses \ {p} : result'[q] = result[q],
         cut' \in [Presses -> BOOLEAN], \A q \in Presses \ {p} : cut'[q] = cut[q],
         taken' \in [Presses -> BOOLEAN],
         in' \in [Presses -> Seq(Frames)], \A q \in Presses \ {p} : in'[q] = in[q],
         UNCHANGED <<strategy, door, call, opened, rings, missed, early>>
  PROVE  UnlockInv'
<1>1. Types /\ ThreadOK(p)
  BY DEF UnlockInv
<1>2. pc' = [pc EXCEPT ![p] = "done"] /\ UNCHANGED <<out, retried>>
  BY DEF Finish, Goto
<1>3. Types'
  BY <1>1, <1>2 DEF Types, Phases
<1>4. pc'[p] = "done"
  BY <1>1, <1>2 DEF Types
<1>5. ~NoMethod(out'[p], "MESSAGE") => opened'[p] = <<>>
  BY <1>2, MessageOut
<1>6. Once(out'[p], "MESSAGE")
  BY <1>2, MessageOut
<1>7. ThreadOK(p)'
  BY <1>1, <1>2, <1>4, <1>5, <1>6 DEF ThreadOK, BeforeCall, BeforeMessage, IdleOK, RegisterOK,
     InviteOK, MessageOK, LateMessage, ByeOK, CancelOK, NotCancelled, FastOK, Fast, OpensOK
<1>. QED
  BY <1>1, <1>2, <1>3, <1>7, Elsewhere DEF Types

\* A button is pressed, or no connection can be made (unlock_door).
LEMMA PressStep ==
  ASSUME UnlockInv, NEW p \in Presses, Press(p) \/ NoConnection(p)
  PROVE  UnlockInv'
<1>1. Types /\ ThreadOK(p) /\ pc[p] = "idle" /\ out[p] = <<>> /\ in[p] = <<>>
  BY DEF UnlockInv, ThreadOK, IdleOK, Press, NoConnection
<1>2. CASE NoConnection(p)
  <2>1. /\ UNCHANGED <<strategy, door, early, result, in, call, opened, rings, missed, cut, taken>>
        /\ Finish(p)
    BY <1>2 DEF NoConnection, gateway
  <2>2. UNCHANGED out
    BY <2>1 DEF Finish
  <2>3. DoneOK(p)'
    BY <1>1, <2>1, <2>2, Nothing DEF DoneOK, ThreadOK, BeforeCall, Methods
  <2>. QED
    BY <1>1, <2>1, <2>3, Stops DEF Types, ThreadOK, BeforeMessage
<1>3. CASE Press(p)
  <2>. DEFINE r == Request("REGISTER", FALSE)
  <2>1. PICK s \in Stations : door' = [door EXCEPT ![p] = s]
    BY <1>3 DEF Press
  <2>2. UNCHANGED <<strategy, early, result, in, call, opened, rings, missed, cut, taken>>
    BY <1>3 DEF Press, gateway
  <2>3. /\ out' = [out EXCEPT ![p] = out[p] \o <<r>>] /\ retried' = [retried EXCEPT ![p] = FALSE]
        /\ pc' = [pc EXCEPT ![p] = "REGISTER"] /\ r \in Requests /\ r.method = "REGISTER"
    BY <1>3, AskedOne DEF Press, Methods
  <2>. HIDE DEF r
  <2>4. out[p] \o <<r>> = <<r>> /\ <<r>> \in Seq(Requests) /\ Alone(<<r>>, "REGISTER")
    BY <1>1, <2>3, SentAlone
  <2>5. NoMethod(<<r>>, "INVITE")
    BY <2>3 DEF NoMethod
  <2>6. Types'
    BY <1>1, <2>1, <2>2, <2>3, <2>4 DEF Types, Phases
  <2>7. pc'[p] = "REGISTER" /\ out'[p] = <<r>> /\ in'[p] = <<>>
    BY <1>1, <2>2, <2>3, <2>4 DEF Types
  <2>8. NoFinal(in'[p]) /\ OneFinal(in'[p]) /\ NoCode(in'[p], 183)
    BY <2>7 DEF NoFinal, OneFinal, NoCode
  <2>9. ThreadOK(p)'
    BY <1>1, <2>2, <2>4, <2>5, <2>7, <2>8 DEF ThreadOK, BeforeCall, BeforeMessage, IdleOK,
       RegisterOK, InviteOK, MessageOK, LateMessage, ByeOK, CancelOK, NotCancelled, DoneOK,
       FastOK, Fast, OpensOK
  <2>. QED
    BY <1>1, <2>1, <2>2, <2>3, <2>6, <2>9, Elsewhere DEF Types
<1>. QED
  BY <1>2, <1>3

\* The frame that is next answers the MESSAGE, challenges it or is skipped
\* (_send_plain_message); the answer ends the fast route or the call.
LEMMA MessageStep ==
  ASSUME UnlockInv, NEW p \in Presses, ReadMessage(p)
  PROVE  UnlockInv'
<1>. DEFINE f == Head(in[p])
<1>1. Types /\ ThreadOK(p)
  BY DEF UnlockInv
<1>2. /\ pc[p] = "MESSAGE" /\ in[p] # <<>> /\ in' = [in EXCEPT ![p] = Tail(in[p])]
      /\ UNCHANGED <<strategy, door, call, opened, rings, missed, cut, taken, early>>
  BY DEF ReadMessage, Reads, gateway
<1>3. in[p] \in Seq(Frames) /\ out[p] \in Seq(Requests) /\ in'[p] = Tail(in[p])
  BY <1>1, <1>2 DEF Types
<1>4. /\ Tail(in[p]) \in Seq(Frames) /\ f \in Frames
      /\ NoFinal(in[p]) => NoFinal(Tail(in[p])) /\ ~Final(f)
      /\ OneFinal(in[p]) => OneFinal(Tail(in[p]))
      /\ OneFinal(in[p]) /\ Final(f) => NoFinal(Tail(in[p]))
      /\ \A c \in Codes : NoCode(in[p], c) => NoCode(Tail(in[p]), c) /\ f.code # c
  BY <1>2, <1>3, FrameRead
<1>. HIDE DEF f
<1>5. CASE Provisional(f) /\ UNCHANGED <<pc, retried, result, out>>
  <2>1. Types'
    BY <1>1, <1>2, <1>4, <1>5 DEF Types
  <2>2. ThreadOK(p)'
    BY <1>1, <1>2, <1>3, <1>4, <1>5 DEF ThreadOK, BeforeCall, BeforeMessage, IdleOK, RegisterOK,
       InviteOK, MessageOK, LateMessage, ByeOK, CancelOK, NotCancelled, DoneOK, FastOK, Fast,
       OpensOK, Codes
  <2>. QED
    BY <1>1, <1>2, <1>5, <2>1, <2>2, Elsewhere DEF Types
<1>6. CASE Repeats(p, f) /\ Again(p) /\ UNCHANGED result
  <2>. DEFINE r == Request("MESSAGE", TRUE)
  <2>1. r \in Requests /\ r.method = "MESSAGE"
    BY DEF Request, Requests, Methods
  <2>2. f.code = 401 /\ ~retried[p]
    BY <1>6 DEF Repeats, Challenged
  <2>3. opened[p] = <<>> /\ out[p] = <<>> /\ ~cut[p]
    BY <1>1, <1>2, <1>4, <2>2 DEF ThreadOK, MessageOK, Codes
  <2>4. /\ UNCHANGED pc /\ out' = [out EXCEPT ![p] = out[p] \o <<r>>]
        /\ retried' = [retried EXCEPT ![p] = TRUE]
    BY <1>2, <1>6 DEF Again, Send
  <2>5. out[p] \o <<r>> = <<r>> /\ <<r>> \in Seq(Requests) /\ <<r>> # <<>>
        /\ Alone(<<r>>, "MESSAGE")
    BY <2>1, <2>3, SentAlone
  <2>. HIDE DEF r
  <2>6. Types'
    BY <1>1, <1>2, <1>4, <1>6, <2>4, <2>5 DEF Types
  <2>7. retried'[p] /\ out'[p] = <<r>> /\ pc'[p] = "MESSAGE"
    BY <1>1, <1>2, <2>4, <2>5 DEF Types
  <2>8. NoMethod(out'[p], "INVITE")
    <3>1. NoMethod(<<r>>, "INVITE")
      BY <2>1 DEF NoMethod
    <3>. QED
      BY <2>7, <3>1
  <2>9. ThreadOK(p)'
    BY <1>1, <1>2, <1>3, <1>4, <1>6, <2>2, <2>3, <2>5, <2>7, <2>8 DEF ThreadOK, BeforeCall,
       BeforeMessage, IdleOK, RegisterOK, InviteOK, MessageOK, LateMessage, ByeOK, CancelOK,
       NotCancelled, DoneOK, FastOK, Fast, OpensOK, Codes, Final
  <2>. QED
    BY <1>1, <1>2, <1>6, <2>4, <2>6, <2>9, Elsewhere DEF Types
<1>7. CASE ~Provisional(f) /\ ~Repeats(p, f) /\ Teardown(p)
           /\ result' = [result EXCEPT ![p] = Accepted(f)]
  <2>1. f.code \notin {100, 183} /\ result'[p] = (f.code = 200)
        /\ result' \in [Presses -> BOOLEAN]
    BY <1>1, <1>7 DEF Provisional, Accepted, Types
  <2>2. Alone(out[p], "MESSAGE") /\ (out[p] # <<>> => opened[p] = <<>>) /\ ~cut[p]
    BY <1>1, <1>2 DEF ThreadOK, MessageOK
  <2>3. result'[p] /\ ~early[p] => opened[p] # <<>>
    BY <1>1, <1>2, <1>4, <2>1 DEF ThreadOK, MessageOK, Codes
  <2>4. Once(out[p], "MESSAGE") /\ NoMethod(out[p], "INVITE") /\ NoMethod(out[p], "CANCEL")
    BY <1>3, <2>2, AloneMeans DEF Methods
  <2>5. CASE Fast(door[p]) /\ Finish(p)
    <3>1. pc' = [pc EXCEPT ![p] = "done"] /\ UNCHANGED <<out, retried>>
      BY <2>5 DEF Finish, Goto
    <3>2. Types'
      BY <1>1, <1>2, <1>4, <2>1, <3>1 DEF Types, Phases
    <3>3. pc'[p] = "done"
      BY <1>1, <3>1 DEF Types
    <3>4. ThreadOK(p)'
      BY <1>1, <1>2, <1>3, <1>4, <2>1, <2>2, <2>3, <2>4, <2>5, <3>1, <3>3 DEF ThreadOK, BeforeCall,
         BeforeMessage, IdleOK, RegisterOK, InviteOK, MessageOK, LateMessage, ByeOK, CancelOK,
         NotCancelled, DoneOK, FastOK, Fast, OpensOK, Codes, NoMethod
    <3>. QED
      BY <1>1, <1>2, <1>7, <3>1, <3>2, <3>4, Elsewhere DEF Types
  <2>6. CASE ~Fast(door[p]) /\ early[p] /\ Ask(p, <<"CANCEL">>)
    <3>. DEFINE r == Request("CANCEL", FALSE)
    <3>1. /\ out' = [out EXCEPT ![p] = out[p] \o <<r>>]
          /\ retried' = [retried EXCEPT ![p] = FALSE] /\ pc' = [pc EXCEPT ![p] = "CANCEL"]
          /\ r \in Requests /\ r.method = "CANCEL" /\ r = Cancels
      BY <2>6, AskedOne DEF Methods, Cancels
    <3>. HIDE DEF r
    <3>2. /\ out[p] \o <<r>> \in Seq(Requests) /\ NoMethod(out[p] \o <<r>>, "INVITE")
          /\ Once(out[p] \o <<r>>, "MESSAGE") /\ Has(out[p] \o <<r>>, r)
          /\ NoMethod(out[p], "MESSAGE") => NoMethod(out[p] \o <<r>>, "MESSAGE")
      BY <1>3, <2>4, <3>1, RequestSent, HasFacts DEF Methods
    <3>3. out[p] = <<>> => NoMethod(out[p], "MESSAGE")
      BY DEF NoMethod
    <3>4. Types'
      BY <1>1, <1>2, <1>4, <2>1, <3>1, <3>2 DEF Types, Phases
    <3>5. pc'[p] = "CANCEL" /\ ~retried'[p] /\ out'[p] = out[p] \o <<r>>
      BY <1>1, <3>1 DEF Types
    <3>6. NoCode(in'[p], 487)
      BY <1>1, <1>2, <1>3, <1>4 DEF ThreadOK, NotCancelled, Codes
    <3>8. LateMessage(p)' /\ CancelOK(p)'
      BY <1>2, <2>2, <2>6, <3>2, <3>3, <3>5, <3>1, <3>6 DEF LateMessage, CancelOK
    <3>9. ThreadOK(p)'
      BY <1>1, <1>2, <1>3, <1>4, <2>1, <2>3, <2>6, <3>5, <3>8 DEF ThreadOK, BeforeCall,
         BeforeMessage, IdleOK, RegisterOK, InviteOK, MessageOK, ByeOK,
         NotCancelled, DoneOK, FastOK, Fast, OpensOK, Codes
    <3>. QED
      BY <1>1, <1>2, <1>7, <3>1, <3>4, <3>9, Elsewhere DEF Types
  <2>7. CASE ~Fast(door[p]) /\ ~early[p] /\ Ask(p, <<"BYE">>)
    <3>. DEFINE r == Request("BYE", FALSE)
    <3>1. /\ out' = [out EXCEPT ![p] = out[p] \o <<r>>]
          /\ retried' = [retried EXCEPT ![p] = FALSE] /\ pc' = [pc EXCEPT ![p] = "BYE"]
          /\ r \in Requests /\ r.method = "BYE" /\ r = Leaves
      BY <2>7, AskedOne DEF Methods, Leaves
    <3>. HIDE DEF r
    <3>2. /\ out[p] \o <<r>> \in Seq(Requests) /\ NoMethod(out[p] \o <<r>>, "INVITE")
          /\ Has(out[p] \o <<r>>, r) /\ Once(out[p] \o <<r>>, "MESSAGE")
          /\ NoMethod(out[p] \o <<r>>, "CANCEL")
          /\ NoMethod(out[p], "MESSAGE") => NoMethod(out[p] \o <<r>>, "MESSAGE")
      BY <1>3, <2>4, <3>1, RequestSent, HasFacts DEF Methods
    <3>3. out[p] = <<>> => NoMethod(out[p], "MESSAGE")
      BY DEF NoMethod
    <3>4. Types'
      BY <1>1, <1>2, <1>4, <2>1, <3>1, <3>2 DEF Types, Phases
    <3>5. pc'[p] = "BYE" /\ ~retried'[p] /\ out'[p] = out[p] \o <<r>>
      BY <1>1, <3>1 DEF Types
    <3>8. LateMessage(p)' /\ ByeOK(p)'
      BY <1>1, <1>2, <2>2, <2>7, <3>1, <3>2, <3>3, <3>5 DEF LateMessage, ByeOK, ByeEnds,
         ThreadOK, MessageOK
    <3>9. ThreadOK(p)'
      BY <1>1, <1>2, <1>3, <1>4, <2>1, <2>3, <2>7, <3>5, <3>8 DEF ThreadOK, BeforeCall,
         BeforeMessage, IdleOK, RegisterOK, InviteOK, MessageOK, CancelOK,
         NotCancelled, DoneOK, FastOK, Fast, OpensOK, Codes
    <3>. QED
      BY <1>1, <1>2, <1>7, <3>1, <3>4, <3>9, Elsewhere DEF Types
  <2>8. \/ Fast(door[p]) /\ Finish(p)
        \/ ~Fast(door[p]) /\ early[p] /\ Ask(p, <<"CANCEL">>)
        \/ ~Fast(door[p]) /\ ~early[p] /\ Ask(p, <<"BYE">>)
    <3>1. ~(Fast(door[p]) /\ early[p])
      BY <1>1 DEF ThreadOK, FastOK
    <3>. QED
      BY <1>7, <3>1 DEF Teardown
  <2>. QED
    BY <2>5, <2>6, <2>7, <2>8
<1>. QED
  BY <1>5, <1>6, <1>7 DEF ReadMessage, f

\* The registration is answered: the MESSAGE or the INVITE follows
\* (_register_client).
LEMMA RegisterStep ==
  ASSUME UnlockInv, NEW p \in Presses, ReadRegister(p)
  PROVE  UnlockInv'
<1>. DEFINE f == Head(in[p])
<1>1. Reads(p, "REGISTER") /\ UNCHANGED taken
  BY DEF ReadRegister
<1>2. /\ Types /\ ThreadOK(p) /\ pc[p] = "REGISTER"
      /\ in' = [in EXCEPT ![p] = Tail(in[p])] /\ in' \in [Presses -> Seq(Frames)]
      /\ UNCHANGED <<strategy, door, call, opened, rings, missed, cut, taken>>
      /\ f \in Frames
      /\ OneFinal(in[p]) => OneFinal(in'[p])
      /\ NoFinal(in[p]) => NoFinal(in'[p]) /\ ~Final(f)
      /\ OneFinal(in[p]) /\ Final(f) => NoFinal(in'[p])
      /\ \A c \in Codes : NoCode(in[p], c) => NoCode(in'[p], c) /\ f.code # c
  BY <1>1, FrameTaken
<1>3. /\ Alone(out[p], "REGISTER") /\ OneFinal(in'[p]) /\ NoCode(in'[p], 183)
      /\ out[p] # <<>> => NoFinal(in'[p]) /\ ~Final(f)
      /\ Final(f) => out[p] = <<>> /\ NoFinal(in'[p])
      /\ out[p] \in Seq(Requests) /\ NoMethod(out[p], "INVITE")
      /\ call[p] = "none" /\ ~early[p] /\ ~cut[p] /\ ~result[p] /\ opened[p] = <<>>
      /\ NoCode(in'[p], 487)
  <2>1. RegisterOK(p) /\ BeforeCall(p) /\ BeforeMessage(p) /\ NotCancelled(p)
    BY <1>2 DEF ThreadOK
  <2>2. out[p] \in Seq(Requests)
    BY <1>2 DEF Types
  <2>3. NoMethod(out[p], "INVITE")
    BY <1>2, <2>1, <2>2, AloneMeans DEF RegisterOK, Methods
  <2>. QED
    BY <1>2, <2>1, <2>2, <2>3 DEF RegisterOK, BeforeCall, BeforeMessage, NotCancelled, Codes
<1>. HIDE DEF f
<1>4. CASE Challenged(p, f) /\ Again(p) /\ UNCHANGED <<early, result>>
  <2>. DEFINE r == Request("REGISTER", TRUE)
  <2>1. r \in Requests /\ r.method = "REGISTER"
    BY DEF Request, Requests, Methods
  <2>2. Final(f)
    BY <1>4 DEF Challenged, Final
  <2>3. /\ UNCHANGED pc /\ out' = [out EXCEPT ![p] = out[p] \o <<r>>]
        /\ retried' = [retried EXCEPT ![p] = TRUE]
    BY <1>2, <1>4 DEF Again, Send
  <2>. HIDE DEF r
  <2>4. out[p] \o <<r>> = <<r>> /\ <<r>> \in Seq(Requests) /\ Alone(<<r>>, "REGISTER")
    BY <1>3, <2>1, <2>2, SentAlone
  <2>5. NoMethod(<<r>>, "INVITE")
    BY <2>1 DEF NoMethod
  <2>6. Types'
    BY <1>2, <1>4, <2>3, <2>4 DEF Types
  <2>7. pc'[p] = "REGISTER" /\ out'[p] = <<r>>
    BY <1>2, <2>3, <2>4 DEF Types
  <2>8. ThreadOK(p)'
    BY <1>2, <1>3, <1>4, <2>2, <2>4, <2>5, <2>7 DEF ThreadOK, BeforeCall, BeforeMessage, IdleOK,
       RegisterOK, InviteOK, MessageOK, LateMessage, ByeOK, CancelOK, NotCancelled, DoneOK,
       FastOK, Fast, OpensOK
  <2>. QED
    BY <1>2, <1>4, <2>3, <2>6, <2>8, Elsewhere DEF Types
<1>5. CASE Provisional(f) /\ Skips
  <2>1. UNCHANGED <<pc, retried, early, result, out>>
    BY <1>5 DEF Skips
  <2>2. Types'
    BY <1>2, <2>1 DEF Types
  <2>3. ThreadOK(p)'
    BY <1>2, <1>3, <2>1 DEF ThreadOK, BeforeCall, BeforeMessage, IdleOK,
       RegisterOK, InviteOK, MessageOK, LateMessage, ByeOK, CancelOK, NotCancelled, DoneOK,
       FastOK, Fast, OpensOK
  <2>. QED
    BY <1>2, <2>1, <2>2, <2>3, Elsewhere DEF Types
<1>6. CASE Finish(p) /\ UNCHANGED <<early, result>>
  <2>1. DoneOK(p)'
    BY <1>2, <1>3, <1>6 DEF DoneOK, Finish
  <2>. QED
    BY <1>2, <1>3, <1>6, <2>1, Stops DEF Types
<1>7. ASSUME NEW m \in {"MESSAGE", "INVITE"}, m = (IF Fast(door[p]) THEN "MESSAGE" ELSE "INVITE"),
             f.code = 200, Ask(p, <<m>>), UNCHANGED <<early, result>>
      PROVE  UnlockInv'
  <2>. DEFINE r == Request(m, FALSE)
  <2>1. /\ out' = [out EXCEPT ![p] = out[p] \o <<r>>] /\ retried' = [retried EXCEPT ![p] = FALSE]
        /\ pc' = [pc EXCEPT ![p] = m] /\ r \in Requests /\ r.method = m
    BY <1>7, AskedOne DEF Methods
  <2>2. Final(f)
    BY <1>7 DEF Final
  <2>. HIDE DEF r
  <2>3. out[p] \o <<r>> = <<r>> /\ <<r>> \in Seq(Requests) /\ Alone(<<r>>, m) /\ <<r>> # <<>>
    BY <1>3, <2>1, <2>2, SentAlone
  <2>4. m = "MESSAGE" => NoMethod(<<r>>, "INVITE")
    BY <2>1 DEF NoMethod
  <2>5. Types'
    BY <1>2, <1>7, <2>1, <2>3 DEF Types, Phases
  <2>6. pc'[p] = m /\ out'[p] = <<r>> /\ ~retried'[p]
    BY <1>2, <2>1, <2>3 DEF Types
  <2>7. NoFinal(in'[p])
    BY <1>3, <2>2
  <2>8. NoCode(in'[p], 200) /\ NoCode(in'[p], 401)
    BY <2>7 DEF NoFinal, NoCode, Final
  <2>9. ThreadOK(p)'
    BY <1>2, <1>3, <1>7, <2>3, <2>4, <2>6, <2>7, <2>8 DEF ThreadOK, BeforeCall, BeforeMessage,
       IdleOK, RegisterOK, InviteOK, MessageOK, LateMessage, ByeOK, CancelOK, NotCancelled,
       DoneOK, FastOK, Fast, OpensOK
  <2>. QED
    BY <1>2, <1>7, <2>1, <2>5, <2>9, Elsewhere DEF Types
<1>. QED
  BY <1>4, <1>5, <1>6, <1>7 DEF ReadRegister, f, Provisional, Challenged

\* The INVITE is answered (_start_invite_call).  A call that has been made is in
\* progress or up, and nothing but its answer is on the way.
LEMMA InviteStep ==
  ASSUME UnlockInv, NEW p \in Presses, ReadInvite(p)
  PROVE  UnlockInv'
<1>. DEFINE f == Head(in[p])
<1>1. Reads(p, "INVITE") /\ UNCHANGED <<result, taken>>
  BY DEF ReadInvite
<1>2. /\ Types /\ ThreadOK(p) /\ pc[p] = "INVITE"
      /\ in' = [in EXCEPT ![p] = Tail(in[p])] /\ in' \in [Presses -> Seq(Frames)]
      /\ UNCHANGED <<strategy, door, call, opened, rings, missed, cut, taken, result>>
      /\ f \in Frames
      /\ OneFinal(in[p]) => OneFinal(in'[p])
      /\ NoFinal(in[p]) => NoFinal(in'[p]) /\ ~Final(f)
      /\ OneFinal(in[p]) /\ Final(f) => NoFinal(in'[p])
      /\ \A c \in Codes : NoCode(in[p], c) => NoCode(in'[p], c) /\ f.code # c
  BY <1>1, FrameTaken
<1>3. /\ Alone(out[p], "INVITE") /\ OneFinal(in'[p]) /\ ~cut[p]
      /\ out[p] # <<>> => call[p] = "none" /\ NoFinal(in'[p]) /\ ~Final(f)
      /\ call[p] = "none" => /\ NoCode(in'[p], 183) /\ NoCode(in'[p], 200)
                             /\ f.code # 183 /\ f.code # 200
      /\ call[p] = "rings" => NoFinal(in'[p]) /\ ~Final(f)
      /\ call[p] = "up" => /\ NoCode(in'[p], 401) /\ NoCode(in'[p], 486)
                           /\ f.code # 401 /\ f.code # 486
      /\ Final(f) => out[p] = <<>> /\ NoFinal(in'[p])
      /\ ~Fast(door[p]) /\ out[p] \in Seq(Requests)
      /\ call[p] \in {"none", "rings", "up"}
      /\ ~result[p] /\ opened[p] = <<>>
      /\ NoCode(in'[p], 487) /\ f.code # 487
  <2>1. /\ InviteOK(p) /\ BeforeMessage(p) /\ NotCancelled(p) /\ FastOK(p)
    BY <1>2 DEF ThreadOK
  <2>2. out[p] \in Seq(Requests) /\ call[p] \in {"none", "rings", "up"}
    BY <1>2 DEF Types
  <2>3. {183, 200, 401, 486, 487} \subseteq Codes
    BY DEF Codes
  <2>. QED
    BY <1>2, <2>1, <2>2, <2>3 DEF InviteOK, BeforeMessage, NotCancelled, FastOK
<1>. HIDE DEF f
<1>4. CASE f.code \in {0, 100} /\ retried' = [retried EXCEPT ![p] = TRUE]
           /\ UNCHANGED <<pc, early, out>>
  <2>1. Types'
    BY <1>2, <1>4 DEF Types
  <2>2. ThreadOK(p)'
    BY <1>2, <1>3, <1>4 DEF ThreadOK, BeforeCall, BeforeMessage, IdleOK,
       RegisterOK, InviteOK, MessageOK, LateMessage, ByeOK, CancelOK, NotCancelled, DoneOK,
       FastOK, Fast, OpensOK
  <2>. QED
    BY <1>2, <1>4, <2>1, <2>2, Elsewhere DEF Types
<1>5. CASE Challenged(p, f) /\ Again(p) /\ UNCHANGED early
  <2>. DEFINE r == Request("INVITE", TRUE)
  <2>1. r \in Requests /\ r.method = "INVITE"
    BY DEF Request, Requests, Methods
  <2>2. Final(f) /\ f.code = 401
    BY <1>5 DEF Challenged, Final
  <2>3. /\ UNCHANGED pc /\ out' = [out EXCEPT ![p] = out[p] \o <<r>>]
        /\ retried' = [retried EXCEPT ![p] = TRUE]
    BY <1>2, <1>5 DEF Again, Send
  <2>. HIDE DEF r
  <2>4. out[p] \o <<r>> = <<r>> /\ <<r>> \in Seq(Requests) /\ Alone(<<r>>, "INVITE")
    <3>1. out[p] = <<>>
      BY <1>3, <2>2
    <3>. QED
      BY <2>1, <3>1, SentAlone
  <2>5. Types'
    BY <1>2, <1>5, <2>3, <2>4 DEF Types
  <2>6. pc'[p] = "INVITE" /\ out'[p] = <<r>>
    BY <1>2, <2>3, <2>4 DEF Types
  <2>7. ThreadOK(p)'
    BY <1>2, <1>3, <1>5, <2>2, <2>4, <2>6 DEF ThreadOK, BeforeCall, BeforeMessage, IdleOK,
       RegisterOK, InviteOK, MessageOK, LateMessage, ByeOK, CancelOK, NotCancelled, DoneOK,
       FastOK, Fast, OpensOK
  <2>. QED
    BY <1>2, <1>5, <2>3, <2>5, <2>7, Elsewhere DEF Types
<1>6. CASE f.code = 183 /\ Ask(p, <<"MESSAGE">>) /\ early' = [early EXCEPT ![p] = TRUE]
  <2>. DEFINE r == Request("MESSAGE", FALSE)
  <2>1. /\ out' = [out EXCEPT ![p] = out[p] \o <<r>>] /\ retried' = [retried EXCEPT ![p] = FALSE]
        /\ pc' = [pc EXCEPT ![p] = "MESSAGE"] /\ r \in Requests /\ r.method = "MESSAGE"
    BY <1>6, AskedOne DEF Methods
  <2>. HIDE DEF r
  <2>2. call[p] # "none" /\ out[p] = <<>> /\ NoCode(in'[p], 401)
    <3>1. call[p] \in {"rings", "up"}
      BY <1>3, <1>6
    <3>2. NoFinal(in'[p]) => NoCode(in'[p], 401)
      BY DEF NoFinal, NoCode, Final
    <3>. QED
      BY <1>3, <3>1, <3>2
  <2>3. out[p] \o <<r>> = <<r>> /\ <<r>> \in Seq(Requests) /\ Alone(<<r>>, "MESSAGE")
    BY <2>1, <2>2, SentAlone
  <2>4. NoMethod(<<r>>, "INVITE")
    BY <2>1 DEF NoMethod
  <2>5. Types'
    BY <1>2, <1>6, <2>1, <2>3 DEF Types, Phases
  <2>6. pc'[p] = "MESSAGE" /\ out'[p] = <<r>> /\ ~retried'[p] /\ early'[p]
    BY <1>2, <1>6, <2>1, <2>3 DEF Types
  <2>7. ThreadOK(p)'
    BY <1>2, <1>3, <2>2, <2>3, <2>4, <2>6 DEF ThreadOK, BeforeCall, BeforeMessage, IdleOK,
       RegisterOK, InviteOK, MessageOK, LateMessage, ByeOK, CancelOK, NotCancelled, DoneOK,
       FastOK, Fast, OpensOK
  <2>. QED
    BY <1>2, <1>6, <2>1, <2>5, <2>7, Elsewhere DEF Types
<1>7. CASE f.code = 200 /\ Ask(p, <<"ACK", "MESSAGE">>) /\ early' = [early EXCEPT ![p] = FALSE]
  <2>. DEFINE a == Request("ACK", FALSE)
              r == Request("MESSAGE", FALSE)
  <2>1. /\ out' = [out EXCEPT ![p] = out[p] \o <<a, r>>]
        /\ retried' = [retried EXCEPT ![p] = FALSE] /\ pc' = [pc EXCEPT ![p] = "MESSAGE"]
        /\ a \in Requests /\ a.method = "ACK" /\ r \in Requests /\ r.method = "MESSAGE"
    <3>1. Ask(p, <<"ACK", "MESSAGE">>)
      BY <1>7
    <3>. QED
      BY <3>1, AskedWithAck, Zenon
  <2>. HIDE DEF a, r
  <2>2. Final(f)
    BY <1>7 DEF Final
  <2>3. call[p] = "up" /\ out[p] = <<>> /\ NoFinal(in'[p])
    BY <1>3, <1>7, <2>2
  <2>4. NoCode(in'[p], 401) /\ NoCode(in'[p], 200)
    BY <2>3 DEF NoFinal, NoCode, Final
  <2>5. /\ out[p] \o <<a, r>> = <<a, r>> /\ <<a, r>> \in Seq(Requests)
        /\ Alone(<<a, r>>, "MESSAGE")
    BY <2>1, <2>3, SentAfterAck
  <2>6. NoMethod(<<a, r>>, "INVITE")
    BY <2>5, AloneMeans DEF Methods
  <2>7. Types'
    BY <1>2, <1>7, <2>1, <2>5 DEF Types, Phases
  <2>8. pc'[p] = "MESSAGE" /\ out'[p] = <<a, r>> /\ ~retried'[p] /\ ~early'[p]
    BY <1>2, <1>7, <2>1, <2>5 DEF Types
  <2>9. ThreadOK(p)'
    BY <1>2, <1>3, <2>3, <2>4, <2>5, <2>6, <2>8 DEF ThreadOK, BeforeCall, BeforeMessage, IdleOK,
       RegisterOK, InviteOK, MessageOK, LateMessage, ByeOK, CancelOK, NotCancelled, DoneOK,
       FastOK, Fast, OpensOK
  <2>. QED
    BY <1>2, <1>7, <2>1, <2>7, <2>9, Elsewhere DEF Types
<1>8. CASE f.code \in {401, 486, 487} /\ Finish(p) /\ UNCHANGED early
  <2>1. Final(f)
    BY <1>8 DEF Final
  <2>2. call[p] = "none" /\ NoMethod(out[p], "INVITE")
    BY <1>3, <1>8, <2>1, Nothing DEF Methods
  <2>3. DoneOK(p)'
    BY <1>2, <1>8, <2>2 DEF DoneOK, Finish
  <2>. QED
    BY <1>2, <1>3, <1>8, <2>3, Stops DEF Types
<1>9. f.code \in Codes
  BY <1>2 DEF Frames
<1>. QED
  BY <1>4, <1>5, <1>6, <1>7, <1>8, <1>9 DEF ReadInvite, f, Challenged, Codes

\* The BYE is answered (_send_bye).  A challenge is answered once; what else is
\* taken for the answer leaves the challenge unread, or the BYE on its way.
LEMMA ByeStep ==
  ASSUME UnlockInv, NEW p \in Presses, ReadBye(p)
  PROVE  UnlockInv'
<1>. DEFINE f == Head(in[p])
<1>1. /\ Reads(p, "BYE") /\ UNCHANGED <<early, result>>
      /\ taken' = [taken EXCEPT ![p] = taken[p] \/ IsRequest(f)]
  BY DEF ReadBye
<1>2. /\ Types /\ ThreadOK(p) /\ pc[p] = "BYE"
      /\ in' = [in EXCEPT ![p] = Tail(in[p])] /\ in' \in [Presses -> Seq(Frames)]
      /\ UNCHANGED <<strategy, door, call, opened, rings, missed, cut, early, result>>
      /\ f \in Frames
      /\ \A c \in Codes : NoCode(in[p], c) => NoCode(in'[p], c) /\ f.code # c
  BY <1>1, FrameTaken
<1>3. /\ ~early[p] /\ call[p] # "rings" /\ ~Fast(door[p])
      /\ NoMethod(out[p], "INVITE") /\ NoMethod(out[p], "CANCEL")
      /\ call[p] # "none" => ByeEnds(p)
      /\ ~NoMethod(out[p], "MESSAGE") => opened[p] = <<>>
      /\ Once(out[p], "MESSAGE") /\ out[p] \in Seq(Requests)
      /\ NoCode(in'[p], 487) /\ OpensOK(p)
      /\ f.code \in Codes
  <2>1. ByeOK(p) /\ LateMessage(p) /\ NotCancelled(p) /\ FastOK(p) /\ OpensOK(p)
    BY <1>2 DEF ThreadOK
  <2>2. out[p] \in Seq(Requests) /\ f.code \in Codes
    BY <1>2 DEF Types, Frames
  <2>3. NoCode(in'[p], 487)
    BY <1>2, <2>1 DEF Codes, NotCancelled
  <2>. QED
    BY <1>2, <2>1, <2>2, <2>3 DEF ByeOK, LateMessage, NotCancelled, FastOK
<1>4. /\ taken' \in [Presses -> BOOLEAN]
      /\ Has(in[p], NotYet) /\ f # NotYet => Has(in'[p], NotYet)
  <2>1. in[p] \in Seq(Frames) /\ in[p] # <<>> /\ in'[p] = Tail(in[p])
    BY <1>1, <1>2 DEF Types, Reads
  <2>2. Has(in[p], NotYet) /\ f # NotYet => Has(Tail(in[p]), NotYet)
    BY <1>2, <2>1, HasFacts
  <2>3. taken' \in [Presses -> BOOLEAN]
    BY <1>1, <1>2 DEF Types, IsRequest
  <2>. QED
    BY <2>1, <2>2, <2>3
<1>5. NotYet.code = 401
  BY DEF Frame, NotYet
<1>. HIDE DEF f
<1>6. CASE (Provisional(f) \/ IsRequest(f)) /\ UNCHANGED <<pc, retried, out>>
  <2>1. Types'
    BY <1>2, <1>4, <1>6 DEF Types
  <2>2. f # NotYet
    BY <1>5, <1>6 DEF Provisional, IsRequest
  <2>3. ByeOK(p)'
    BY <1>2, <1>3, <1>4, <1>6, <2>2 DEF ByeOK, ByeEnds
  <2>4. ThreadOK(p)'
    BY <1>2, <1>3, <1>6, <2>3 DEF ThreadOK, BeforeCall, BeforeMessage, IdleOK, RegisterOK,
       InviteOK, MessageOK, LateMessage, CancelOK, NotCancelled, DoneOK, FastOK, Fast, OpensOK
  <2>. QED
    BY <1>2, <1>6, <2>1, <2>4, Elsewhere DEF Types
<1>7. CASE Challenged(p, f) /\ Again(p)
  <2>. DEFINE r == Request("BYE", TRUE)
  <2>1. r \in Requests /\ r.method = "BYE" /\ r = LeavesAgain
    BY DEF Request, Requests, Methods, LeavesAgain
  <2>2. /\ UNCHANGED pc /\ out' = [out EXCEPT ![p] = out[p] \o <<r>>]
        /\ retried' = [retried EXCEPT ![p] = TRUE]
    BY <1>2, <1>7 DEF Again, Send
  <2>. HIDE DEF r
  <2>3. /\ out[p] \o <<r>> \in Seq(Requests) /\ NoMethod(out[p] \o <<r>>, "INVITE")
        /\ NoMethod(out[p] \o <<r>>, "CANCEL")
        /\ Has(out[p] \o <<r>>, r) /\ Once(out[p] \o <<r>>, "MESSAGE")
        /\ NoMethod(out[p], "MESSAGE") => NoMethod(out[p] \o <<r>>, "MESSAGE")
    BY <1>3, <2>1, RequestSent, HasFacts DEF Methods
  <2>4. Types'
    BY <1>2, <1>4, <1>7, <2>2, <2>3 DEF Types
  <2>5. pc'[p] = "BYE" /\ out'[p] = out[p] \o <<r>>
    BY <1>2, <2>2 DEF Types
  <2>6. ByeOK(p)'
    BY <1>2, <1>3, <2>1, <2>3, <2>5 DEF ByeOK, ByeEnds
  <2>7. ThreadOK(p)'
    BY <1>2, <1>3, <2>3, <2>5, <2>6 DEF ThreadOK, BeforeCall, BeforeMessage, IdleOK, RegisterOK,
       InviteOK, MessageOK, LateMessage, CancelOK, NotCancelled, DoneOK, FastOK, Fast, OpensOK
  <2>. QED
    BY <1>2, <2>2, <2>4, <2>7, Elsewhere DEF Types
<1>8. CASE f.code \in {200, 401, 486, 487} /\ ~Challenged(p, f) /\ Finish(p)
  <2>1. f = NotYet => retried[p]
    BY <1>5, <1>8 DEF Challenged
  <2>2. UNCHANGED <<out, retried>>
    BY <1>8 DEF Finish
  <2>3. call[p] # "none" => Left(p)'
    BY <1>2, <1>3, <1>4, <2>1, <2>2 DEF ByeEnds, Left
  <2>4. DoneOK(p)'
    BY <1>2, <1>3, <2>2, <2>3 DEF DoneOK
  <2>. QED
    BY <1>2, <1>3, <1>4, <1>8, <2>4, Stops DEF Types, OpensOK
<1>. QED
  BY <1>3, <1>6, <1>7, <1>8 DEF ReadBye, f, Codes, Provisional, IsRequest, Challenged

\* The CANCEL is answered, or the INVITE it cancels (_cancel_invite).  While the
\* call rings it is still to come, also when the thread has given up.
LEMMA CancelStep ==
  ASSUME UnlockInv, NEW p \in Presses, ReadCancel(p)
  PROVE  UnlockInv'
<1>. DEFINE f == Head(in[p])
            counts == f \in {Frame("CANCEL", 200), Frame("INVITE", 487)}
            ack == IF f.code = 487 THEN <<Request("ACK", FALSE)>> ELSE <<>>
            o == out[p] \o ack
<1>1. /\ Reads(p, "CANCEL") /\ UNCHANGED <<early, result, taken>> /\ out' = [out EXCEPT ![p] = o]
      /\ retried' = [retried EXCEPT ![p] = retried[p] \/ counts]
      /\ IF counts /\ retried[p] THEN Goto(p, "done") ELSE UNCHANGED pc
  BY DEF ReadCancel
<1>2. /\ Types /\ ThreadOK(p) /\ pc[p] = "CANCEL"
      /\ in' = [in EXCEPT ![p] = Tail(in[p])] /\ in' \in [Presses -> Seq(Frames)]
      /\ UNCHANGED <<strategy, door, call, opened, rings, missed, cut, early, result, taken>>
      /\ NoCode(in[p], 487) => NoCode(in'[p], 487)
  BY <1>1, FrameTaken DEF Codes
<1>3. /\ o \in Seq(Requests)
      /\ NoMethod(out[p], "INVITE") => NoMethod(o, "INVITE")
      /\ NoMethod(out[p], "MESSAGE") => NoMethod(o, "MESSAGE")
      /\ Once(out[p], "MESSAGE") => Once(o, "MESSAGE")
      /\ Has(out[p], Cancels) => Has(o, Cancels)
  <2>1. out[p] \in Seq(Requests) /\ Request("ACK", FALSE) \in Requests
        /\ Request("ACK", FALSE).method = "ACK"
    BY <1>2 DEF Types, Request, Requests, Methods
  <2>2. CASE f.code = 487
    <3>1. o = out[p] \o <<Request("ACK", FALSE)>>
      BY <2>2
    <3>. HIDE DEF o
    <3>. QED
      BY <2>1, <3>1, RequestSent, HasFacts DEF Methods
  <2>3. CASE f.code # 487
    <3>1. o = out[p] \o <<>>
      BY <2>3
    <3>2. o = out[p]
      BY <2>1, <3>1, ConcatEmptySeq
    <3>. HIDE DEF o
    <3>. QED
      BY <2>1, <3>2
  <2>. QED
    BY <2>2, <2>3
<1>4. counts \in BOOLEAN
  OBVIOUS
<1>. HIDE DEF o, counts, f
<1>5. /\ early[p] /\ NoMethod(o, "INVITE") /\ ~Fast(door[p])
      /\ call[p] = "rings" => Has(o, Cancels)
      /\ call[p] = "none" \/ NoCode(in'[p], 487)
      /\ OpensOK(p) /\ (~NoMethod(o, "MESSAGE") => opened[p] = <<>>) /\ Once(o, "MESSAGE")
  <2>1. CancelOK(p) /\ FastOK(p) /\ OpensOK(p)
    BY <1>2 DEF ThreadOK
  <2>. QED
    BY <1>2, <1>3, <2>1, MessageOut DEF CancelOK, FastOK
<1>6. out'[p] = o /\ out' \in [Presses -> Seq(Requests)] /\ retried' \in [Presses -> BOOLEAN]
  BY <1>1, <1>2, <1>3, <1>4 DEF Types
<1>7. CASE UNCHANGED pc
  <2>1. Types'
    BY <1>2, <1>6, <1>7 DEF Types
  <2>2. CancelOK(p)'
    BY <1>2, <1>5, <1>6 DEF CancelOK
  <2>3. ThreadOK(p)'
    BY <1>2, <1>5, <1>6, <1>7, <2>2 DEF ThreadOK, BeforeCall, BeforeMessage, IdleOK,
       RegisterOK, InviteOK, MessageOK, LateMessage, ByeOK, NotCancelled, DoneOK, FastOK, Fast,
       OpensOK
  <2>. QED
    BY <1>1, <1>2, <1>7, <2>1, <2>3, Elsewhere DEF Types
<1>8. CASE Goto(p, "done")
  <2>1. pc' = [pc EXCEPT ![p] = "done"]
    BY <1>8 DEF Goto
  <2>2. Types'
    BY <1>2, <1>6, <2>1 DEF Types, Phases
  <2>3. pc'[p] = "done"
    BY <1>2, <2>1 DEF Types
  <2>4. call[p] \in {"none", "rings", "up"}
    BY <1>2 DEF Types
  <2>5. DoneOK(p)'
    BY <1>2, <1>5, <1>6, <2>4 DEF DoneOK, Left
  <2>6. ThreadOK(p)'
    BY <1>2, <1>5, <1>6, <2>3, <2>5 DEF ThreadOK, BeforeCall, BeforeMessage, IdleOK,
       RegisterOK, InviteOK, MessageOK, LateMessage, ByeOK, CancelOK, NotCancelled, FastOK, Fast,
       OpensOK
  <2>. QED
    BY <1>1, <1>2, <2>1, <2>2, <2>6, Elsewhere DEF Types
<1>. QED
  BY <1>1, <1>7, <1>8

\* Nothing comes in time, or the connection is dead: the thread stops, or ends
\* the call it has made.
LEMMA CutStep ==
  ASSUME UnlockInv, NEW p \in Presses, TimesOut(p) \/ Breaks(p)
  PROVE  UnlockInv'
<1>1. /\ Types /\ ThreadOK(p) /\ in[p] = <<>> /\ Waiting(p)
      /\ UNCHANGED <<strategy, door, early, result, in, call, opened, rings, missed, taken>>
  BY DEF UnlockInv, TimesOut, Breaks, gateway
<1>2. /\ cut' \in [Presses -> BOOLEAN] /\ \A q \in Presses \ {p} : cut'[q] = cut[q]
      /\ TimesOut(p) => cut'[p] = (pc[p] = "INVITE")
      /\ Breaks(p) => cut'[p]
  BY <1>1 DEF Types, TimesOut, Breaks
<1>3. OpensOK(p)
  BY <1>1 DEF ThreadOK
<1>4. CASE Finish(p) /\ (Breaks(p) \/ pc[p] # "MESSAGE" \/ Fast(door[p]))
  <2>1. UNCHANGED out /\ pc[p] \in Phases /\ out[p] \in Seq(Requests)
    BY <1>1, <1>4 DEF Finish, Types
  <2>2. ASSUME Breaks(p) \/ pc[p] = "INVITE" PROVE DoneOK(p)'
    BY <1>2, <2>2 DEF DoneOK, TimesOut, Breaks
  <2>3. ASSUME pc[p] = "REGISTER" PROVE DoneOK(p)'
    <3>1. Alone(out[p], "REGISTER") /\ call[p] = "none"
      BY <1>1, <2>3 DEF ThreadOK, RegisterOK, BeforeCall
    <3>2. NoMethod(out[p], "INVITE")
      BY <2>1, <3>1, AloneMeans DEF Methods
    <3>. QED
      BY <1>1, <2>1, <3>1, <3>2 DEF DoneOK
  <2>4. ASSUME Fast(door[p]) PROVE DoneOK(p)'
    BY <1>1, <2>1, <2>4 DEF ThreadOK, FastOK, DoneOK
  <2>5. ASSUME pc[p] = "BYE" PROVE DoneOK(p)'
    BY <1>1, <2>1, <2>5 DEF ThreadOK, ByeOK, ByeEnds, DoneOK, Left
  <2>6. ASSUME pc[p] = "CANCEL" PROVE DoneOK(p)'
    <3>1. call[p] \in {"none", "rings", "up"}
      BY <1>1 DEF Types
    <3>. QED
      BY <1>1, <2>1, <2>6, <3>1 DEF ThreadOK, CancelOK, DoneOK, Left
  <2>7. DoneOK(p)'
    BY <1>1, <1>4, <2>1, <2>2, <2>3, <2>4, <2>5, <2>6 DEF Waiting, Phases
  <2>. QED
    BY <1>1, <1>2, <1>3, <1>4, <2>7, Stops DEF Types, OpensOK
<1>5. CASE pc[p] = "MESSAGE" /\ ~Fast(door[p]) /\ Teardown(p) /\ TimesOut(p)
  <2>1. PICK m \in {"CANCEL", "BYE"} : Ask(p, <<m>>) /\ m = IF early[p] THEN "CANCEL" ELSE "BYE"
    <3>1. \/ early[p] /\ Ask(p, <<"CANCEL">>)
          \/ ~early[p] /\ Ask(p, <<"BYE">>)
      BY <1>5 DEF Teardown
    <3>. QED
      BY <3>1
  <2>. DEFINE r == Request(m, FALSE)
  <2>2. /\ out' = [out EXCEPT ![p] = out[p] \o <<r>>] /\ retried' = [retried EXCEPT ![p] = FALSE]
        /\ pc' = [pc EXCEPT ![p] = m] /\ r \in Requests /\ r.method = m
        /\ r = IF m = "CANCEL" THEN Cancels ELSE Leaves
    BY <2>1, AskedOne DEF Methods, Cancels, Leaves
  <2>. HIDE DEF r
  <2>3. /\ Alone(out[p], "MESSAGE") /\ out[p] \in Seq(Requests)
        /\ ~early[p] => call[p] # "rings"
        /\ NoCode(in[p], 487)
    BY <1>1, <1>5 DEF ThreadOK, MessageOK, NotCancelled, Types
  <2>4. Once(out[p], "MESSAGE") /\ NoMethod(out[p], "INVITE") /\ NoMethod(out[p], "CANCEL")
    BY <2>3, AloneMeans DEF Methods
  <2>5. /\ out[p] \o <<r>> \in Seq(Requests) /\ NoMethod(out[p] \o <<r>>, "INVITE")
        /\ m = "BYE" => NoMethod(out[p] \o <<r>>, "CANCEL")
        /\ Once(out[p] \o <<r>>, "MESSAGE") /\ Has(out[p] \o <<r>>, r)
        /\ NoMethod(out[p], "MESSAGE") => NoMethod(out[p] \o <<r>>, "MESSAGE")
    BY <2>2, <2>3, <2>4, RequestSent, HasFacts DEF Methods
  <2>6. ~NoMethod(out[p], "MESSAGE") => opened[p] = <<>>
    BY MessageOut
  <2>7. Types'
    BY <1>1, <1>2, <2>2, <2>5 DEF Types, Phases
  <2>8. pc'[p] = m /\ ~retried'[p] /\ out'[p] = out[p] \o <<r>>
    BY <1>1, <2>2 DEF Types
  <2>9. LateMessage(p)' /\ CancelOK(p)' /\ ByeOK(p)'
    BY <1>1, <2>1, <2>2, <2>3, <2>5, <2>6, <2>8 DEF LateMessage, CancelOK, ByeOK, ByeEnds
  <2>10. ThreadOK(p)'
    BY <1>1, <1>2, <1>3, <1>5, <2>3, <2>8, <2>9 DEF ThreadOK, BeforeCall, BeforeMessage, IdleOK,
       RegisterOK, InviteOK, MessageOK, NotCancelled, DoneOK, FastOK, Fast, OpensOK
  <2>. QED
    BY <1>1, <1>2, <2>2, <2>7, <2>10, Elsewhere DEF Types
<1>6. Teardown(p) /\ Fast(door[p]) => Finish(p)
  <2>1. ~(Fast(door[p]) /\ early[p])
    BY <1>1 DEF ThreadOK, FastOK
  <2>. QED
    BY <2>1 DEF Teardown
<1>. QED
  BY <1>4, <1>5, <1>6 DEF TimesOut, Breaks

\* The station answers or shows its picture only while a call rings, and a
\* visitor's ring makes no promise but that the count has grown.
LEMMA StationStep ==
  ASSUME UnlockInv, NEW p \in Presses, Progress(p) \/ Answer(p) \/ Ring(p)
  PROVE  UnlockInv'
<1>1. Types /\ ThreadOK(p)
  BY DEF UnlockInv
<1>2. PICK f \in Frames : /\ Replies(p, <<f>>)
                          /\ \/ f.method = "INVITE" /\ f.code = 183 /\ Progress(p)
                             \/ f.method = "INVITE" /\ f.code = 200 /\ Answer(p)
                             \/ f.method = "INVITE" /\ f.code = 0 /\ Ring(p)
  <2>1. \A c \in {0, 183, 200} : /\ Frame("INVITE", c) \in Frames
                                 /\ Frame("INVITE", c).method = "INVITE"
                                 /\ Frame("INVITE", c).code = c
    BY DEF Frame, Frames, Methods, Codes
  <2>2. CASE Progress(p)
    <3>1. Replies(p, <<Frame("INVITE", 183)>>)
      BY <2>2 DEF Progress
    <3>. QED
      BY <2>1, <2>2, <3>1
  <2>3. CASE Answer(p)
    <3>1. Replies(p, <<Frame("INVITE", 200)>>)
      BY <2>3 DEF Answer
    <3>. QED
      BY <2>1, <2>3, <3>1
  <2>4. CASE Ring(p)
    <3>1. Replies(p, <<Frame("INVITE", 0)>>)
      BY <2>4 DEF Ring
    <3>. QED
      BY <2>1, <2>4, <3>1
  <2>. QED
    BY <2>2, <2>3, <2>4
<1>. DEFINE i == in[p] \o <<f>>
<1>3. /\ in' = [in EXCEPT ![p] = IF pc[p] = "done" THEN in[p] ELSE i]
      /\ UNCHANGED <<strategy, pc, door, retried, early, result, cut, taken, missed, out, opened>>
  BY <1>2 DEF Replies, Progress, Answer, Ring, client, gateway
<1>4. in[p] \in Seq(Frames) /\ out[p] \in Seq(Requests) /\ f.method = "INVITE"
  BY <1>1, <1>2 DEF Types
<1>5. /\ i \in Seq(Frames)
      /\ NoFinal(in[p]) /\ ~Final(f) => NoFinal(i)
      /\ OneFinal(in[p]) /\ ~Final(f) => OneFinal(i)
      /\ NoFinal(in[p]) => OneFinal(i)
      /\ \A c \in Codes : NoCode(in[p], c) /\ f.code # c => NoCode(i, c)
      /\ \A d : Has(in[p], d) => Has(i, d)
  BY <1>4, FrameCame, HasFacts
<1>. HIDE DEF i
<1>6. in' \in [Presses -> Seq(Frames)] /\ in'[p] = IF pc[p] = "done" THEN in[p] ELSE i
  BY <1>1, <1>3, <1>5 DEF Types
<1>7. CASE Progress(p) /\ f.code = 183
  <2>1. /\ pc[p] = "INVITE" /\ call[p] = "rings" /\ UNCHANGED <<call, rings>>
    BY <1>7 DEF Progress, gateway
  <2>2. Types'
    BY <1>1, <1>3, <1>6, <2>1 DEF Types
  <2>3. ThreadOK(p)'
    BY <1>1, <1>3, <1>5, <1>6, <1>7, <2>1 DEF ThreadOK, BeforeCall, BeforeMessage, IdleOK,
       RegisterOK, InviteOK, MessageOK, LateMessage, ByeOK, CancelOK, NotCancelled, DoneOK,
       FastOK, Fast, OpensOK, Codes, Final
  <2>. QED
    BY <1>1, <1>3, <2>1, <2>2, <2>3, Elsewhere DEF Types
<1>8. CASE Answer(p) /\ f.code = 200
  <2>1. /\ call[p] = "rings" /\ call' = [call EXCEPT ![p] = "up"] /\ UNCHANGED rings
    BY <1>8 DEF Answer
  <2>2. Types'
    BY <1>1, <1>3, <1>6, <2>1 DEF Types
  <2>3. call'[p] = "up"
    BY <1>1, <2>1 DEF Types
  <2>4. pc[p] \in {"INVITE", "MESSAGE", "CANCEL", "done"}
    BY <1>1, <2>1 DEF ThreadOK, BeforeCall, ByeOK, Types, Phases
  <2>5. InviteOK(p)'
    <3>1. NoFinal(in[p]) => NoCode(in[p], 401) /\ NoCode(in[p], 486)
      BY DEF NoFinal, NoCode, Final
    <3>. QED
      BY <1>1, <1>3, <1>5, <1>6, <1>8, <2>1, <2>3, <3>1 DEF ThreadOK, InviteOK, Codes
  <2>6. MessageOK(p)'
    BY <1>1, <1>3, <1>5, <1>6, <1>8, <2>1, <2>3 DEF ThreadOK, MessageOK, Codes
  <2>7. CancelOK(p)' /\ NotCancelled(p)'
    BY <1>1, <1>3, <1>5, <1>6, <1>8, <2>1, <2>3 DEF ThreadOK, CancelOK, NotCancelled, Codes
  <2>8. DoneOK(p)'
    BY <1>1, <1>3, <1>6, <2>1, <2>3 DEF ThreadOK, DoneOK, Left
  <2>9. ThreadOK(p)'
    BY <1>1, <1>3, <2>1, <2>3, <2>4, <2>5, <2>6, <2>7, <2>8 DEF ThreadOK, BeforeCall,
       BeforeMessage, IdleOK, RegisterOK, LateMessage, ByeOK, FastOK, Fast, OpensOK
  <2>. QED
    BY <1>1, <1>3, <2>1, <2>2, <2>9, Elsewhere DEF Types
<1>9. CASE Ring(p) /\ f.code = 0
  <2>1. pc[p] \notin {"idle", "done"} /\ rings' = rings + 1 /\ rings < MaxRings /\ UNCHANGED call
    BY <1>9 DEF Ring, Waiting
  <2>2. rings' \in 0..MaxRings
    BY <1>1, <2>1, UnlockAssumption DEF Types
  <2>3. Types'
    BY <1>1, <1>3, <1>6, <2>1, <2>2 DEF Types
  <2>4. ~Final(f)
    BY <1>9 DEF Final
  <2>5. RegisterOK(p)' /\ InviteOK(p)'
    BY <1>1, <1>3, <1>5, <1>6, <1>9, <2>1, <2>4 DEF ThreadOK, RegisterOK, InviteOK, Codes
  <2>6. MessageOK(p)'
    BY <1>1, <1>3, <1>5, <1>6, <1>9, <2>1, <2>4 DEF ThreadOK, MessageOK, Codes
  <2>7. CancelOK(p)' /\ NotCancelled(p)'
    BY <1>1, <1>3, <1>5, <1>6, <1>9, <2>1 DEF ThreadOK, CancelOK, NotCancelled, Codes
  <2>8. ByeOK(p)'
    BY <1>1, <1>3, <1>5, <1>6, <2>1 DEF ThreadOK, ByeOK, ByeEnds
  <2>9. ThreadOK(p)'
    BY <1>1, <1>3, <2>1, <2>2, <2>5, <2>6, <2>7, <2>8 DEF ThreadOK, BeforeCall, BeforeMessage,
       IdleOK, LateMessage, DoneOK, FastOK, Fast, OpensOK
  <2>. QED
    BY <1>1, <1>3, <2>1, <2>2, <2>3, <2>9, Elsewhere DEF Types
<1>. QED
  BY <1>2, <1>7, <1>8, <1>9

\* What the gateway may do with a request: answer it with one frame, take a call
\* and say so, open the door, end the call, or nothing.  An INVITE alone may be
\* challenged after a 100.
Says(p, f) == in' = [in EXCEPT ![p] = IF pc[p] = "done" THEN in[p] ELSE in[p] \o <<f>>]
SaysTwo(p, f, g) ==
  in' = [in EXCEPT ![p] = IF pc[p] = "done" THEN in[p] ELSE (in[p] \o <<f>>) \o <<g>>]
Refusal(m, r, f) ==
  /\ f.method = m
  /\ \/ f.code = 401 /\ ~r.auth /\ m \in {"REGISTER", "INVITE", "MESSAGE", "BYE"}
     \/ f.code = 486 /\ m \in {"REGISTER", "INVITE", "MESSAGE"}
Calls(p, state) == call' = [call EXCEPT ![p] = state]

\* A challenge that is missed stays missed.
Missing(p) ==
  /\ missed' \in [Presses -> BOOLEAN] /\ (missed[p] => missed'[p])
  /\ \A q \in Presses \ {p} : missed'[q] = missed[q]

Outcome(p, r) ==
  LET m == r.method
  IN  \/ \E f \in Frames : /\ Refusal(m, r, f) /\ Says(p, f) /\ UNCHANGED <<call, opened>>
                           /\ (m = "BYE" /\ pc[p] = "done" => missed'[p])
      \/ /\ m = "INVITE" /\ UNCHANGED <<call, opened>>
         /\ \E f, g \in Frames : f.method = m /\ f.code = 100 /\ Refusal(m, r, g)
              /\ SaysTwo(p, f, g)
      \/ \E f \in Frames : /\ m = "REGISTER" /\ f.method = m /\ f.code = 200 /\ Says(p, f)
                           /\ UNCHANGED <<call, opened>>
      \/ \E f \in Frames : /\ m = "INVITE" /\ f.method = m /\ f.code = 100 /\ Says(p, f)
                           /\ Calls(p, "rings") /\ UNCHANGED opened
      \/ \E f \in Frames : /\ m = "MESSAGE" /\ f.method = m /\ f.code = 200 /\ Says(p, f)
                           /\ opened' = [opened EXCEPT ![p] = Append(opened[p], door[p])]
                           /\ UNCHANGED call
      \/ \E f, g \in Frames : /\ m = "CANCEL" /\ call[p] = "rings" /\ Calls(p, "none")
                              /\ f.method = m /\ f.code = 200
                              /\ g.method = "INVITE" /\ g.code = 487
                              /\ SaysTwo(p, f, g) /\ UNCHANGED opened
      \/ \E f \in Frames : /\ m = "CANCEL" /\ call[p] # "rings" /\ f.method = m /\ f.code = 200
                           /\ Says(p, f) /\ UNCHANGED <<call, opened>>
      \/ \E f \in Frames : /\ m = "BYE" /\ f.method = m /\ f.code = 200
                           /\ Says(p, f) /\ Calls(p, "none") /\ UNCHANGED opened
      \/ m = "ACK" /\ UNCHANGED <<in, call, opened>>

\* The gateway takes the first request of a press and answers it.
LEMMA ServedHow ==
  ASSUME Types, NEW p \in Presses, Serve(p)
  PROVE  /\ out[p] # <<>> /\ out' = [out EXCEPT ![p] = Tail(out[p])]
         /\ UNCHANGED <<strategy, pc, door, retried, early, result, cut, taken, rings>>
         /\ Missing(p) /\ Outcome(p, Head(out[p]))
<1>. DEFINE r == Head(out[p])
            m == r.method
<1>1. /\ out[p] # <<>> /\ out' = [out EXCEPT ![p] = Tail(out[p])]
      /\ UNCHANGED <<strategy, pc, door, retried, early, result, cut, taken, rings>>
  BY DEF Serve, client
<1>2. in[p] \in Seq(Frames) /\ m \in Methods
  <2>1. out[p] \in Seq(Requests)
    BY DEF Types
  <2>2. r \in Requests
    BY <1>1, <2>1, RequestTaken
  <2>. QED
    BY <2>2 DEF Types, Requests
<1>3. \A k \in Methods, c \in Codes : /\ Frame(k, c) \in Frames
                                      /\ Frame(k, c).method = k /\ Frame(k, c).code = c
  BY DEF Frame, Frames
<1>4. \A k \in Methods, c \in Codes : Replies(p, <<Frame(k, c)>>) => Says(p, Frame(k, c))
  BY DEF Replies, Says
<1>5. \A k, l \in Methods, c, d \in Codes :
        Replies(p, <<Frame(k, c), Frame(l, d)>>) => SaysTwo(p, Frame(k, c), Frame(l, d))
  <2>. SUFFICES ASSUME NEW k \in Methods, NEW l \in Methods, NEW c \in Codes, NEW d \in Codes
                PROVE  Replies(p, <<Frame(k, c), Frame(l, d)>>)
                         => SaysTwo(p, Frame(k, c), Frame(l, d))
    OBVIOUS
  <2>1. in[p] \o <<Frame(k, c), Frame(l, d)>> = (in[p] \o <<Frame(k, c)>>) \o <<Frame(l, d)>>
    BY <1>2, <1>3, PushTwo
  <2>. QED
    BY <2>1 DEF Replies, SaysTwo
<1>. HIDE DEF r
<1>6. {100, 200, 401, 486, 487} \subseteq Codes /\ "INVITE" \in Methods
  BY DEF Codes, Methods
<1>7. ASSUME /\ ~r.auth /\ m \in {"REGISTER", "INVITE", "MESSAGE", "BYE"}
             /\ Replies(p, <<Frame(m, 401)>>) /\ UNCHANGED <<call, opened>>
             /\ (m = "BYE" /\ pc[p] = "done" => missed'[p])
      PROVE  Outcome(p, Head(out[p]))
  <2>1. Frame(m, 401) \in Frames /\ Refusal(m, r, Frame(m, 401)) /\ Says(p, Frame(m, 401))
    BY <1>2, <1>3, <1>4, <1>6, <1>7 DEF Refusal
  <2>. QED
    BY <1>1, <1>7, <2>1 DEF Outcome, r
<1>8. ASSUME /\ ~r.auth /\ m = "INVITE" /\ Replies(p, <<Frame(m, 100), Frame(m, 401)>>)
             /\ UNCHANGED <<call, opened>>
      PROVE  Outcome(p, Head(out[p]))
  <2>1. /\ Frame(m, 100) \in Frames /\ Frame(m, 401) \in Frames
        /\ Frame(m, 100).method = m /\ Frame(m, 100).code = 100
        /\ Refusal(m, r, Frame(m, 401)) /\ SaysTwo(p, Frame(m, 100), Frame(m, 401))
    BY <1>2, <1>3, <1>5, <1>6, <1>8 DEF Refusal
  <2>. QED
    BY <1>1, <1>8, <2>1 DEF Outcome, r
<1>9. ASSUME /\ m \in {"REGISTER", "INVITE", "MESSAGE"} /\ Replies(p, <<Frame(m, 486)>>)
             /\ UNCHANGED <<call, opened>>
      PROVE  Outcome(p, Head(out[p]))
  <2>1. Frame(m, 486) \in Frames /\ Refusal(m, r, Frame(m, 486)) /\ Says(p, Frame(m, 486))
    BY <1>2, <1>3, <1>4, <1>6, <1>9 DEF Refusal
  <2>. QED
    BY <1>1, <1>9, <2>1 DEF Outcome, r
<1>10. ASSUME NEW c \in {100, 200}, Replies(p, <<Frame(m, c)>>)
       PROVE  /\ Frame(m, c) \in Frames /\ Frame(m, c).method = m /\ Frame(m, c).code = c
              /\ Says(p, Frame(m, c))
  BY <1>2, <1>3, <1>4, <1>6, <1>10
<1>11. ASSUME m = "REGISTER" /\ Replies(p, <<Frame(m, 200)>>) /\ UNCHANGED <<call, opened>>
       PROVE  Outcome(p, Head(out[p]))
  BY <1>1, <1>10, <1>11 DEF Outcome, r
<1>12. ASSUME /\ m = "INVITE" /\ call' = [call EXCEPT ![p] = "rings"]
              /\ Replies(p, <<Frame(m, 100)>>) /\ UNCHANGED opened
       PROVE  Outcome(p, Head(out[p]))
  BY <1>1, <1>10, <1>12 DEF Outcome, Calls, r
<1>13. ASSUME /\ m = "MESSAGE" /\ opened' = [opened EXCEPT ![p] = Append(opened[p], door[p])]
              /\ Replies(p, <<Frame(m, 200)>>) /\ UNCHANGED call
       PROVE  Outcome(p, Head(out[p]))
  BY <1>1, <1>10, <1>13 DEF Outcome, r
<1>14. ASSUME /\ m = "CANCEL" /\ call[p] = "rings" /\ call' = [call EXCEPT ![p] = "none"]
              /\ Replies(p, <<Frame(m, 200), Frame("INVITE", 487)>>) /\ UNCHANGED opened
       PROVE  Outcome(p, Head(out[p]))
  <2>1. /\ Frame(m, 200) \in Frames /\ Frame("INVITE", 487) \in Frames
        /\ Frame(m, 200).method = m /\ Frame(m, 200).code = 200
        /\ Frame("INVITE", 487).method = "INVITE" /\ Frame("INVITE", 487).code = 487
        /\ SaysTwo(p, Frame(m, 200), Frame("INVITE", 487))
    BY <1>2, <1>3, <1>5, <1>6, <1>14
  <2>. QED
    BY <1>1, <1>14, <2>1 DEF Outcome, Calls, r
<1>15. ASSUME /\ m = "CANCEL" /\ call[p] # "rings" /\ UNCHANGED call
              /\ Replies(p, <<Frame(m, 200)>>) /\ UNCHANGED opened
       PROVE  Outcome(p, Head(out[p]))
  BY <1>1, <1>10, <1>15 DEF Outcome, r
<1>16. ASSUME /\ m = "BYE" /\ call' = [call EXCEPT ![p] = "none"]
              /\ Replies(p, <<Frame(m, 200)>>) /\ UNCHANGED opened
       PROVE  Outcome(p, Head(out[p]))
  BY <1>1, <1>10, <1>16 DEF Outcome, Calls, r
<1>17. ASSUME m = "ACK" /\ UNCHANGED <<in, call, opened>>
       PROVE  Outcome(p, Head(out[p]))
  BY <1>1, <1>17 DEF Outcome, r
<1>18. ASSUME missed' = [missed EXCEPT ![p] = @ \/ (m = "BYE" /\ pc[p] = "done")]
       PROVE  Missing(p) /\ (m = "BYE" /\ pc[p] = "done" => missed'[p])
  BY <1>18 DEF Types, Missing
<1>19. UNCHANGED missed => Missing(p)
  BY DEF Types, Missing
<1>20. CASE /\ ~r.auth /\ m \in {"REGISTER", "INVITE", "MESSAGE", "BYE"}
            /\ \/ Replies(p, <<Frame(m, 401)>>)
               \/ m = "INVITE" /\ Replies(p, <<Frame(m, 100), Frame(m, 401)>>)
            /\ missed' = [missed EXCEPT ![p] = @ \/ (m = "BYE" /\ pc[p] = "done")]
            /\ UNCHANGED <<call, opened>>
  BY <1>1, <1>7, <1>8, <1>18, <1>20
<1>21. ASSUME m = "CANCEL", UNCHANGED opened,
              IF call[p] = "rings"
                THEN /\ call' = [call EXCEPT ![p] = "none"]
                     /\ Replies(p, <<Frame(m, 200), Frame("INVITE", 487)>>)
                ELSE UNCHANGED call /\ Replies(p, <<Frame(m, 200)>>)
       PROVE  Outcome(p, Head(out[p]))
  BY <1>14, <1>15, <1>21
<1>22. \/ /\ ~r.auth /\ m \in {"REGISTER", "INVITE", "MESSAGE", "BYE"}
          /\ \/ Replies(p, <<Frame(m, 401)>>)
             \/ m = "INVITE" /\ Replies(p, <<Frame(m, 100), Frame(m, 401)>>)
          /\ missed' = [missed EXCEPT ![p] = @ \/ (m = "BYE" /\ pc[p] = "done")]
          /\ UNCHANGED <<call, opened>>
       \/ UNCHANGED missed /\ Outcome(p, Head(out[p]))
  BY <1>9, <1>11, <1>12, <1>13, <1>16, <1>17, <1>21 DEF Serve, r
<1>. QED
  BY <1>1, <1>19, <1>20, <1>22

\* What a request that is taken leaves on its way, and what it opens: the station
\* of the DoorSpec, once.
LEMMA ServedDoor ==
  ASSUME UnlockInv, NEW p \in Presses, Serve(p)
  PROVE  /\ opened' \in [Presses -> Seq(Stations)] /\ OpensOK(p)' /\ LateMessage(p)'
         /\ \A q \in Presses \ {p} : opened'[q] = opened[q]
         /\ opened'[p] # opened[p] => Head(out[p]).method = "MESSAGE"
         /\ opened[p] # <<>> => opened'[p] # <<>>
         /\ out' \in [Presses -> Seq(Requests)] /\ out'[p] = Tail(out[p])
<1>. DEFINE r == Head(out[p])
            o == Tail(out[p])
<1>1. Types /\ ThreadOK(p)
  BY DEF UnlockInv
<1>2. /\ out[p] # <<>> /\ out' = [out EXCEPT ![p] = Tail(out[p])]
      /\ UNCHANGED <<strategy, pc, door, retried, early, result, cut, taken, rings>>
      /\ Outcome(p, Head(out[p]))
  BY <1>1, ServedHow
<1>3. out[p] \in Seq(Requests) /\ door[p] \in Stations /\ opened[p] \in Seq(Stations)
  BY <1>1 DEF Types
<1>4. /\ o \in Seq(Requests)
      /\ NoMethod(out[p], "MESSAGE") => NoMethod(o, "MESSAGE") /\ r.method # "MESSAGE"
      /\ Once(out[p], "MESSAGE") => Once(o, "MESSAGE")
      /\ Once(out[p], "MESSAGE") /\ r.method = "MESSAGE" => NoMethod(o, "MESSAGE")
  BY <1>2, <1>3, RequestTaken DEF Methods
<1>5. /\ ~NoMethod(out[p], "MESSAGE") => opened[p] = <<>>
      /\ Once(out[p], "MESSAGE")
  BY MessageOut
<1>. HIDE DEF r, o
<1>6. out' \in [Presses -> Seq(Requests)] /\ out'[p] = o
  BY <1>1, <1>2, <1>4 DEF Types, o
<1>7. CASE UNCHANGED opened
  <2>1. OpensOK(p)' /\ LateMessage(p)'
    BY <1>1, <1>2, <1>4, <1>5, <1>6, <1>7 DEF ThreadOK, OpensOK, LateMessage
  <2>. QED
    BY <1>1, <1>6, <1>7, <2>1 DEF Types, o
<1>8. CASE r.method = "MESSAGE" /\ opened' = [opened EXCEPT ![p] = Append(opened[p], door[p])]
  <2>1. opened[p] = <<>> /\ NoMethod(o, "MESSAGE")
    BY <1>4, <1>5, <1>8
  <2>2. Append(opened[p], door[p]) \in Seq(Stations)
    BY <1>3
  <2>3. /\ Len(Append(opened[p], door[p])) = 1 /\ Append(opened[p], door[p])[1] = door[p]
        /\ Append(opened[p], door[p]) # <<>>
    BY <1>3, <2>1, AppendProperties
  <2>4. opened' \in [Presses -> Seq(Stations)] /\ opened'[p] = Append(opened[p], door[p])
    BY <1>1, <1>8, <2>2 DEF Types
  <2>5. OpensOK(p)'
    BY <1>2, <2>3, <2>4 DEF OpensOK
  <2>6. LateMessage(p)'
    BY <1>2, <1>4, <1>5, <1>6, <2>1 DEF LateMessage
  <2>. QED
    BY <1>1, <1>6, <1>8, <2>3, <2>4, <2>5, <2>6 DEF Types, o, r
<1>. QED
  BY <1>2, <1>7, <1>8 DEF Outcome, r

\* How a call stands and what is not yet read when its INVITE has been taken.
Answered(p, n, state) ==
  /\ in' = [in EXCEPT ![p] = n] /\ n \in Seq(Frames)
  /\ OneFinal(n) /\ NoCode(n, 487)
  /\ call' = [call EXCEPT ![p] = state] /\ state \in {"none", "rings"}
  /\ state = "none" => NoCode(n, 183) /\ NoCode(n, 200)
  /\ state = "rings" => NoFinal(n)

\* The gateway takes a request while the thread waits for its registration or
\* for its call.
LEMMA ServeEarly ==
  ASSUME UnlockInv, NEW p \in Presses, Serve(p), pc[p] \in {"REGISTER", "INVITE"}
  PROVE  Types' /\ ThreadOK(p)' /\ \A q \in Presses \ {p} : call'[q] = call[q] /\ in'[q] = in[q]
<1>. DEFINE r == Head(out[p])
            o == Tail(out[p])
            i == in[p]
<1>1. /\ Types /\ ThreadOK(p) /\ out[p] # <<>>
      /\ UNCHANGED <<strategy, pc, door, retried, early, result, cut, taken, rings>>
      /\ Missing(p) /\ Outcome(p, r)
  BY ServedHow DEF UnlockInv
<1>2. /\ opened' \in [Presses -> Seq(Stations)] /\ OpensOK(p)' /\ LateMessage(p)'
      /\ opened'[p] # opened[p] => r.method = "MESSAGE"
      /\ out' \in [Presses -> Seq(Requests)] /\ out'[p] = o
  BY ServedDoor
<1>3. out[p] \in Seq(Requests) /\ i \in Seq(Frames)
  BY <1>1 DEF Types
<1>4. \A m \in Methods :
        Alone(out[p], m) => /\ Alone(o, m) /\ r.method \in {"ACK", m}
                            /\ m # "ACK" /\ r.method = m => o = <<>>
                            /\ r.method # m => o # <<>>
  BY <1>1, <1>3, RequestTaken
<1>5. \A s \in Seq(Frames), f \in Frames :
        /\ s \o <<f>> \in Seq(Frames)
        /\ NoFinal(s) /\ ~Final(f) => NoFinal(s \o <<f>>)
        /\ NoFinal(s) => OneFinal(s \o <<f>>)
        /\ \A c \in Codes : NoCode(s, c) /\ f.code # c => NoCode(s \o <<f>>, c)
  BY FrameCame
<1>6. NotCancelled(p) /\ BeforeMessage(p)
  BY <1>1 DEF ThreadOK
<1>. HIDE DEF r, o
<1>7. CASE pc[p] = "REGISTER"
  <2>1. /\ Alone(o, "REGISTER") /\ NoFinal(i) /\ NoCode(i, 183) /\ OneFinal(i)
        /\ r.method = "REGISTER" => o = <<>>
        /\ r.method \in {"ACK", "REGISTER"} /\ NoMethod(o, "INVITE")
    <3>1. RegisterOK(p) /\ o \in Seq(Requests)
      BY <1>1, <1>2 DEF ThreadOK, Types
    <3>2. Alone(o, "REGISTER")
      BY <1>1, <1>4, <1>7, <3>1 DEF RegisterOK, Methods
    <3>3. NoMethod(o, "INVITE")
      BY <3>1, <3>2, AloneMeans DEF Methods
    <3>. QED
      BY <1>1, <1>4, <1>7, <3>1, <3>2, <3>3 DEF RegisterOK, Methods
  <2>2. CASE r.method = "ACK"
    <3>1. UNCHANGED <<in, call>>
      BY <1>1, <2>2 DEF Outcome, Refusal
    <3>2. Types'
      BY <1>1, <1>2, <3>1 DEF Types, Missing
    <3>3. ThreadOK(p)'
      BY <1>1, <1>2, <1>7, <2>1, <2>2, <3>1 DEF ThreadOK, BeforeCall, BeforeMessage, IdleOK,
         RegisterOK, InviteOK, MessageOK, ByeOK, CancelOK, NotCancelled, DoneOK, FastOK, Fast
    <3>. QED
      BY <3>1, <3>2, <3>3
  <2>3. CASE r.method = "REGISTER"
    <3>1. PICK f \in Frames : /\ f.method = "REGISTER" /\ f.code \in {200, 401, 486}
                              /\ Says(p, f) /\ UNCHANGED call
      BY <1>1, <2>3 DEF Outcome, Refusal
    <3>2. in' = [in EXCEPT ![p] = i \o <<f>>]
      BY <1>7, <3>1 DEF Says
    <3>3. /\ i \o <<f>> \in Seq(Frames) /\ OneFinal(i \o <<f>>) /\ NoCode(i \o <<f>>, 183)
          /\ NoCode(i \o <<f>>, 487)
      BY <1>3, <1>5, <1>6, <1>7, <2>1, <3>1 DEF Codes, NotCancelled
    <3>4. Types' /\ in'[p] = i \o <<f>>
      BY <1>1, <1>2, <3>1, <3>2, <3>3 DEF Types, Missing
    <3>5. ThreadOK(p)'
      BY <1>1, <1>2, <1>7, <2>1, <2>3, <3>1, <3>3, <3>4 DEF ThreadOK, BeforeCall, BeforeMessage,
         IdleOK, RegisterOK, InviteOK, MessageOK, ByeOK, CancelOK, NotCancelled, DoneOK, FastOK,
         Fast
    <3>. QED
      BY <3>1, <3>2, <3>4, <3>5
  <2>. QED
    BY <2>1, <2>2, <2>3
<1>8. CASE pc[p] = "INVITE"
  <2>1. /\ Alone(o, "INVITE") /\ NoFinal(i) /\ OneFinal(i) /\ call[p] = "none" /\ ~cut[p]
        /\ NoCode(i, 183) /\ NoCode(i, 200) /\ ~Fast(door[p])
        /\ r.method = "INVITE" => o = <<>>
        /\ r.method \in {"ACK", "INVITE"}
    <3>1. InviteOK(p) /\ FastOK(p)
      BY <1>1 DEF ThreadOK
    <3>. QED
      BY <1>1, <1>4, <1>8, <3>1 DEF InviteOK, FastOK, Methods
  <2>2. CASE r.method = "ACK"
    <3>1. UNCHANGED <<in, call>>
      BY <1>1, <2>2 DEF Outcome, Refusal
    <3>2. Types'
      BY <1>1, <1>2, <3>1 DEF Types, Missing
    <3>3. ThreadOK(p)'
      BY <1>1, <1>2, <1>8, <2>1, <2>2, <3>1 DEF ThreadOK, BeforeCall, BeforeMessage, IdleOK,
         RegisterOK, InviteOK, MessageOK, ByeOK, CancelOK, NotCancelled, DoneOK, FastOK, Fast
    <3>. QED
      BY <3>1, <3>2, <3>3
  <2>3. CASE r.method = "INVITE"
    <3>1. NoCode(i, 487)
      BY <1>6, <1>8 DEF NotCancelled
    <3>2. UNCHANGED call => call' = [call EXCEPT ![p] = "none"]
      BY <1>1, <2>1 DEF Types
    <3>3. ASSUME \E f \in Frames : Refusal("INVITE", r, f) /\ Says(p, f) /\ UNCHANGED call
          PROVE  \E n, state : Answered(p, n, state)
      <4>1. PICK f \in Frames : Refusal("INVITE", r, f) /\ Says(p, f) /\ UNCHANGED call
        BY <3>3
      <4>2. f.method = "INVITE" /\ f.code \in {401, 486} /\ in' = [in EXCEPT ![p] = i \o <<f>>]
        BY <1>8, <4>1 DEF Says, Refusal
      <4>3. /\ i \o <<f>> \in Seq(Frames) /\ OneFinal(i \o <<f>>)
            /\ NoCode(i \o <<f>>, 487)
            /\ NoCode(i \o <<f>>, 183) /\ NoCode(i \o <<f>>, 200)
        BY <1>3, <1>5, <2>1, <3>1, <4>2 DEF Codes
      <4>4. Answered(p, i \o <<f>>, "none")
        BY <3>2, <4>1, <4>2, <4>3 DEF Answered
      <4>. QED
        BY <4>4
    <3>4. ASSUME \E f, g \in Frames :
                   /\ f.method = "INVITE" /\ f.code = 100 /\ Refusal("INVITE", r, g)
                   /\ SaysTwo(p, f, g) /\ UNCHANGED call
          PROVE  \E n, state : Answered(p, n, state)
      <4>1. PICK f \in Frames, g \in Frames :
              /\ f.method = "INVITE" /\ f.code = 100 /\ Refusal("INVITE", r, g)
              /\ SaysTwo(p, f, g) /\ UNCHANGED call
        BY <3>4
      <4>. DEFINE j == i \o <<f>>
      <4>2. /\ g.method = "INVITE" /\ g.code \in {401, 486}
            /\ in' = [in EXCEPT ![p] = j \o <<g>>]
        BY <1>8, <4>1 DEF SaysTwo, Refusal
      <4>3. ~Final(f)
        BY <4>1 DEF Final
      <4>4. /\ j \in Seq(Frames) /\ NoFinal(j) /\ NoCode(j, 183) /\ NoCode(j, 200)
            /\ NoCode(j, 487)
        BY <1>3, <1>5, <2>1, <3>1, <4>1, <4>3 DEF Codes
      <4>. HIDE DEF j
      <4>5. /\ j \o <<g>> \in Seq(Frames) /\ OneFinal(j \o <<g>>)
            /\ NoCode(j \o <<g>>, 487)
            /\ NoCode(j \o <<g>>, 183) /\ NoCode(j \o <<g>>, 200)
        BY <1>5, <4>2, <4>4 DEF Codes
      <4>6. Answered(p, j \o <<g>>, "none")
        BY <3>2, <4>1, <4>2, <4>5 DEF Answered
      <4>. QED
        BY <4>6
    <3>5. ASSUME \E f \in Frames : /\ f.method = "INVITE" /\ f.code = 100 /\ Says(p, f)
                                   /\ Calls(p, "rings")
          PROVE  \E n, state : Answered(p, n, state)
      <4>1. PICK f \in Frames : /\ f.method = "INVITE" /\ f.code = 100 /\ Says(p, f)
                                /\ Calls(p, "rings")
        BY <3>5
      <4>2. in' = [in EXCEPT ![p] = i \o <<f>>] /\ call' = [call EXCEPT ![p] = "rings"]
        BY <1>8, <4>1 DEF Says, Calls
      <4>3. ~Final(f)
        BY <4>1 DEF Final
      <4>4. /\ i \o <<f>> \in Seq(Frames) /\ OneFinal(i \o <<f>>)
            /\ NoCode(i \o <<f>>, 487)
            /\ NoFinal(i \o <<f>>)
        BY <1>3, <1>5, <2>1, <3>1, <4>1, <4>3 DEF Codes
      <4>5. Answered(p, i \o <<f>>, "rings")
        BY <4>2, <4>4 DEF Answered
      <4>. QED
        BY <4>5
    <3>6. \E n, state : Answered(p, n, state)
      BY <1>1, <2>3, <3>3, <3>4, <3>5 DEF Outcome
    <3>7. PICK n, state : Answered(p, n, state)
      BY <3>6
    <3>8. Types'
      BY <1>1, <1>2, <3>7 DEF Types, Missing, Answered
    <3>9. in'[p] = n /\ call'[p] = state
      BY <1>1, <3>7 DEF Types, Answered
    <3>10. ThreadOK(p)'
      BY <1>1, <1>2, <1>8, <2>1, <2>3, <3>7, <3>9 DEF Answered, ThreadOK, BeforeCall,
         BeforeMessage, IdleOK, RegisterOK, InviteOK, MessageOK, ByeOK, CancelOK, NotCancelled,
         DoneOK, FastOK, Fast
    <3>. QED
      BY <3>7, <3>8, <3>10 DEF Answered
  <2>. QED
    BY <2>1, <2>2, <2>3
<1>. QED
  BY <1>7, <1>8

\* The gateway takes a request while the thread waits for the answer to its
\* MESSAGE.
LEMMA ServeMessage ==
  ASSUME UnlockInv, NEW p \in Presses, Serve(p), pc[p] = "MESSAGE"
  PROVE  Types' /\ ThreadOK(p)' /\ \A q \in Presses \ {p} : call'[q] = call[q] /\ in'[q] = in[q]
<1>. DEFINE r == Head(out[p])
            o == Tail(out[p])
            i == in[p]
<1>1. /\ Types /\ ThreadOK(p) /\ out[p] # <<>>
      /\ UNCHANGED <<strategy, pc, door, retried, early, result, cut, taken, rings>>
      /\ Missing(p) /\ Outcome(p, r)
  BY ServedHow DEF UnlockInv
<1>2. /\ opened' \in [Presses -> Seq(Stations)] /\ OpensOK(p)' /\ LateMessage(p)'
      /\ opened'[p] # opened[p] => r.method = "MESSAGE"
      /\ opened[p] # <<>> => opened'[p] # <<>>
      /\ out' \in [Presses -> Seq(Requests)] /\ out'[p] = o
  BY ServedDoor
<1>3. out[p] \in Seq(Requests) /\ i \in Seq(Frames)
  BY <1>1 DEF Types
<1>4. \A m \in Methods :
        Alone(out[p], m) => /\ Alone(o, m) /\ r.method \in {"ACK", m}
                            /\ m # "ACK" /\ r.method = m => o = <<>>
                            /\ r.method # m => o # <<>>
  BY <1>1, <1>3, RequestTaken
<1>5. \A s \in Seq(Frames), f \in Frames :
        /\ s \o <<f>> \in Seq(Frames)
        /\ NoFinal(s) => OneFinal(s \o <<f>>)
        /\ \A c \in Codes : NoCode(s, c) /\ f.code # c => NoCode(s \o <<f>>, c)
  BY FrameCame
<1>6. MessageOK(p) /\ NotCancelled(p) /\ FastOK(p) /\ o \in Seq(Requests)
  BY <1>1, <1>2 DEF ThreadOK, Types
<1>. HIDE DEF r, o
<1>7. /\ Alone(o, "MESSAGE") /\ opened[p] = <<>> /\ ~cut[p]
      /\ r.method = "MESSAGE" => o = <<>>
      /\ r.method \in {"ACK", "MESSAGE"} /\ NoMethod(o, "INVITE")
      /\ NoCode(i, 401) \/ retried[p]
      /\ ~early[p] => call[p] # "rings" /\ NoFinal(i) /\ OneFinal(i) /\ NoCode(i, 200)
  <2>1. Alone(o, "MESSAGE")
    BY <1>1, <1>4, <1>6 DEF MessageOK, Methods
  <2>2. NoMethod(o, "INVITE")
    BY <1>6, <2>1, AloneMeans DEF Methods
  <2>. QED
    BY <1>1, <1>4, <1>6, <2>1, <2>2 DEF MessageOK, Methods
<1>8. CASE r.method = "ACK"
  <2>1. UNCHANGED <<in, call, opened>>
    BY <1>1, <1>8 DEF Outcome, Refusal
  <2>2. Types'
    BY <1>1, <1>2, <2>1 DEF Types, Missing
  <2>3. MessageOK(p)'
    BY <1>1, <1>2, <1>7, <2>1 DEF MessageOK
  <2>4. ThreadOK(p)'
    BY <1>1, <1>2, <1>7, <2>1, <2>3 DEF ThreadOK, BeforeCall, BeforeMessage, IdleOK,
       RegisterOK, InviteOK, ByeOK, CancelOK, NotCancelled, DoneOK, FastOK, Fast
  <2>. QED
    BY <2>1, <2>2, <2>4
<1>9. CASE r.method = "MESSAGE"
  <2>1. PICK f \in Frames :
          /\ f.method = "MESSAGE" /\ Says(p, f) /\ UNCHANGED call
          /\ \/ f.code \in {401, 486} /\ UNCHANGED opened
             \/ f.code = 200 /\ opened' = [opened EXCEPT ![p] = Append(opened[p], door[p])]
    BY <1>1, <1>9 DEF Outcome, Refusal
  <2>2. in' = [in EXCEPT ![p] = i \o <<f>>]
    BY <1>6, <2>1 DEF Says
  <2>3. /\ i \o <<f>> \in Seq(Frames)
        /\ NoCode(i \o <<f>>, 487)
        /\ NoCode(i, 401) /\ f.code # 401 => NoCode(i \o <<f>>, 401)
        /\ ~early[p] => OneFinal(i \o <<f>>)
        /\ ~early[p] /\ f.code # 200 => NoCode(i \o <<f>>, 200)
    BY <1>3, <1>5, <1>6, <1>7, <2>1 DEF Codes, NotCancelled
  <2>4. Types' /\ in'[p] = i \o <<f>>
    BY <1>1, <1>2, <2>1, <2>2, <2>3 DEF Types, Missing
  <2>5. f.code = 200 => opened'[p] # <<>>
    <3>1. f.code = 200 => opened'[p] = Append(opened[p], door[p])
      BY <1>1, <2>1 DEF Types
    <3>2. opened[p] \in Seq(Stations) /\ door[p] \in Stations
      BY <1>1 DEF Types
    <3>. QED
      BY <3>1, <3>2
  <2>6. f.code # 200 => opened'[p] = <<>>
    BY <1>7, <2>1
  <2>7. MessageOK(p)'
    BY <1>1, <1>2, <1>7, <1>9, <2>1, <2>3, <2>4, <2>5, <2>6 DEF MessageOK
  <2>8. ThreadOK(p)'
    BY <1>1, <1>2, <1>7, <1>9, <2>1, <2>3, <2>4, <2>7 DEF ThreadOK, BeforeCall, BeforeMessage,
       IdleOK, RegisterOK, InviteOK, ByeOK, CancelOK, NotCancelled, DoneOK, FastOK, Fast
  <2>. QED
    BY <2>1, <2>2, <2>4, <2>8
<1>. QED
  BY <1>7, <1>8, <1>9

\* The gateway takes a request while the thread waits for the answer to its
\* BYE.
LEMMA ServeBye ==
  ASSUME UnlockInv, NEW p \in Presses, Serve(p), pc[p] = "BYE"
  PROVE  Types' /\ ThreadOK(p)' /\ \A q \in Presses \ {p} : call'[q] = call[q] /\ in'[q] = in[q]
<1>. DEFINE r == Head(out[p])
            o == Tail(out[p])
            i == in[p]
<1>1. /\ Types /\ ThreadOK(p) /\ out[p] # <<>>
      /\ UNCHANGED <<strategy, pc, door, retried, early, result, cut, taken, rings>>
      /\ Missing(p) /\ Outcome(p, r)
  BY ServedHow DEF UnlockInv
<1>2. /\ opened' \in [Presses -> Seq(Stations)] /\ OpensOK(p)' /\ LateMessage(p)'
      /\ out' \in [Presses -> Seq(Requests)] /\ out'[p] = o
  BY ServedDoor
<1>3. out[p] \in Seq(Requests) /\ i \in Seq(Frames)
  BY <1>1 DEF Types
<1>4. /\ r \in Requests
      /\ \A m \in Methods : NoMethod(out[p], m) => NoMethod(o, m) /\ r.method # m
      /\ \A d : Has(out[p], d) /\ r # d => Has(o, d)
  <2>1. r \in Requests /\ \A m \in Methods : NoMethod(out[p], m) => NoMethod(o, m) /\ r.method # m
    BY <1>1, <1>3, RequestTaken
  <2>. QED
    BY <1>1, <1>3, <2>1, HasFacts
<1>5. \A s \in Seq(Frames), f \in Frames :
        /\ s \o <<f>> \in Seq(Frames)
        /\ \A c \in Codes : NoCode(s, c) /\ f.code # c => NoCode(s \o <<f>>, c)
        /\ Has(s \o <<f>>, f) /\ \A d : Has(s, d) => Has(s \o <<f>>, d)
  BY FrameCame, HasFacts
<1>6. ByeOK(p) /\ NotCancelled(p) /\ FastOK(p)
  BY <1>1 DEF ThreadOK
<1>7. /\ NotYet \in Frames /\ LeavesAgain.auth
      /\ r.method = "BYE" /\ ~r.auth => r = Leaves
      /\ \A f \in Frames : f.method = "BYE" /\ f.code = 401 => f = NotYet
      /\ Leaves.method = "BYE" /\ LeavesAgain.method = "BYE"
  <2>1. NotYet = [method |-> "BYE", code |-> 401] /\ {"BYE"} \subseteq Methods /\ 401 \in Codes
    BY DEF NotYet, Frame, Methods, Codes
  <2>2. \A f \in Frames : f.method = "BYE" /\ f.code = 401 => f = NotYet
    BY <2>1 DEF Frames
  <2>3. r.method = "BYE" /\ ~r.auth => r = Leaves
    BY <1>4 DEF Leaves, Request, Requests
  <2>. QED
    BY <2>1, <2>2, <2>3 DEF Frames, Leaves, LeavesAgain, Request
<1>. HIDE DEF r, o
<1>8. /\ ~early[p] /\ call[p] # "rings" /\ ~Fast(door[p])
      /\ NoMethod(o, "INVITE") /\ NoMethod(o, "CANCEL")
      /\ call[p] # "none" => ByeEnds(p)
      /\ r.method \in Methods \ {"INVITE", "CANCEL"}
      /\ NoCode(i, 487)
  BY <1>1, <1>4, <1>6, pc[p] = "BYE" DEF ByeOK, FastOK, NotCancelled, Methods, Requests
<1>9. CASE r.method = "ACK"
  <2>1. UNCHANGED <<in, call>>
    BY <1>1, <1>9 DEF Outcome, Refusal
  <2>2. Types'
    BY <1>1, <1>2, <2>1 DEF Types, Missing
  <2>3. ByeOK(p)'
    BY <1>1, <1>2, <1>4, <1>7, <1>8, <1>9, <2>1 DEF ByeOK, ByeEnds
  <2>4. ThreadOK(p)'
    BY <1>1, <1>2, <1>6, <1>8, <2>1, <2>3 DEF ThreadOK, BeforeCall, BeforeMessage, IdleOK,
       RegisterOK, InviteOK, MessageOK, CancelOK, NotCancelled, DoneOK, FastOK, Fast
  <2>. QED
    BY <2>1, <2>2, <2>4
<1>10. CASE r.method # "ACK"
  <2>1. PICK f \in Frames :
          /\ f.method = r.method /\ f.code \in {200, 401, 486} /\ Says(p, f)
          /\ UNCHANGED call \/ call' = [call EXCEPT ![p] = "none"]
          /\ r.method = "BYE" =>
               \/ f.code = 401 /\ ~r.auth
               \/ f.code = 200 /\ call' = [call EXCEPT ![p] = "none"]
    BY <1>1, <1>8, <1>10 DEF Outcome, Refusal, Calls
  <2>2. in' = [in EXCEPT ![p] = i \o <<f>>]
    BY <2>1, pc[p] = "BYE" DEF Says
  <2>3. /\ i \o <<f>> \in Seq(Frames) /\ NoCode(i \o <<f>>, 487)
        /\ Has(i \o <<f>>, f) /\ (Has(i, NotYet) => Has(i \o <<f>>, NotYet))
    BY <1>3, <1>5, <1>8, <2>1 DEF Codes
  <2>4. /\ call' \in [Presses -> {"none", "rings", "up"}]
        /\ call'[p] = call[p] \/ call'[p] = "none"
        /\ \A q \in Presses \ {p} : call'[q] = call[q]
    <3>1. CASE UNCHANGED call
      BY <1>1, <3>1 DEF Types
    <3>2. CASE call' = [call EXCEPT ![p] = "none"]
      BY <1>1, <3>2 DEF Types
    <3>. QED
      BY <2>1, <3>1, <3>2
  <2>5. Types' /\ in'[p] = i \o <<f>>
    BY <1>1, <1>2, <2>2, <2>3, <2>4 DEF Types, Missing
  <2>6. ASSUME call'[p] # "none" PROVE ByeEnds(p)'
    <3>1. ByeEnds(p)
      BY <1>8, <2>4, <2>6
    <3>2. r.method = "BYE" => f = NotYet /\ r = Leaves
      <4>1. call' = [call EXCEPT ![p] = "none"] => call'[p] = "none"
        BY <1>1 DEF Types
      <4>. QED
        BY <1>7, <2>1, <2>6, <4>1
    <3>3. r # LeavesAgain
      <4>1. r.method = "BYE" => ~r.auth
        BY <1>1, <1>7, <2>1, <2>6 DEF Types
      <4>. QED
        BY <1>7, <4>1
    <3>4. CASE Has(out[p], LeavesAgain)
      BY <1>2, <1>4, <3>3, <3>4 DEF ByeEnds
    <3>5. CASE ~retried[p] /\ Has(in[p], NotYet)
      BY <1>1, <2>3, <2>5, <3>5 DEF ByeEnds
    <3>6. CASE ~retried[p] /\ Has(out[p], Leaves) /\ r.method # "BYE"
      <4>1. Has(o, Leaves)
        BY <1>4, <1>7, <3>6
      <4>. QED
        BY <1>1, <1>2, <3>6, <4>1 DEF ByeEnds
    <3>7. CASE ~retried[p] /\ r.method = "BYE"
      BY <1>1, <2>3, <2>5, <3>2, <3>7 DEF ByeEnds
    <3>. QED
      BY <3>1, <3>4, <3>5, <3>6, <3>7 DEF ByeEnds
  <2>7. ByeOK(p)'
    BY <1>1, <1>2, <1>8, <2>4, <2>6 DEF ByeOK
  <2>8. ThreadOK(p)'
    BY <1>1, <1>2, <1>6, <1>8, <2>3, <2>4, <2>5, <2>7 DEF ThreadOK, BeforeCall,
       BeforeMessage, IdleOK, RegisterOK, InviteOK, MessageOK, CancelOK, NotCancelled, DoneOK,
       FastOK, Fast
  <2>. QED
    BY <2>2, <2>4, <2>5, <2>8
<1>. QED
  BY <1>9, <1>10

\* The gateway takes a request while the thread waits for its CANCEL.
LEMMA ServeCancel ==
  ASSUME UnlockInv, NEW p \in Presses, Serve(p), pc[p] = "CANCEL"
  PROVE  Types' /\ ThreadOK(p)' /\ \A q \in Presses \ {p} : call'[q] = call[q] /\ in'[q] = in[q]
<1>. DEFINE r == Head(out[p])
            o == Tail(out[p])
            i == in[p]
<1>1. /\ Types /\ ThreadOK(p) /\ out[p] # <<>>
      /\ UNCHANGED <<strategy, pc, door, retried, early, result, cut, taken, rings>>
      /\ Missing(p) /\ Outcome(p, r)
  BY ServedHow DEF UnlockInv
<1>2. /\ opened' \in [Presses -> Seq(Stations)] /\ OpensOK(p)' /\ LateMessage(p)'
      /\ out' \in [Presses -> Seq(Requests)] /\ out'[p] = o
  BY ServedDoor
<1>3. out[p] \in Seq(Requests) /\ i \in Seq(Frames)
  BY <1>1 DEF Types
<1>4. /\ r \in Requests
      /\ NoMethod(out[p], "INVITE") => NoMethod(o, "INVITE") /\ r.method # "INVITE"
      /\ Has(out[p], Cancels) /\ r # Cancels => Has(o, Cancels)
  <2>1. /\ r \in Requests
        /\ NoMethod(out[p], "INVITE") => NoMethod(o, "INVITE") /\ r.method # "INVITE"
    BY <1>1, <1>3, RequestTaken DEF Methods
  <2>. QED
    BY <1>1, <1>3, <2>1, HasFacts
<1>5. \A s \in Seq(Frames), f \in Frames :
        /\ s \o <<f>> \in Seq(Frames)
        /\ \A k \in Codes : NoCode(s, k) /\ f.code # k => NoCode(s \o <<f>>, k)
  BY FrameCame
<1>6. CancelOK(p) /\ FastOK(p) /\ ~Fast(door[p])
  BY <1>1, pc[p] = "CANCEL" DEF ThreadOK, FastOK
<1>7. Cancels.method = "CANCEL"
  BY DEF Request, Cancels
<1>. HIDE DEF r, o
<1>8. /\ early[p] /\ NoMethod(o, "INVITE") /\ r.method \in Methods \ {"INVITE"}
      /\ call[p] = "none" \/ NoCode(i, 487)
      /\ call[p] = "rings" /\ r.method # "CANCEL" => Has(o, Cancels)
  <2>1. call[p] = "rings" => Has(out[p], Cancels)
    BY <1>6, pc[p] = "CANCEL" DEF CancelOK
  <2>. QED
    BY <1>1, <1>4, <1>6, <1>7, <2>1, pc[p] = "CANCEL" DEF CancelOK, Methods, Requests
<1>9. CASE r.method = "ACK"
  <2>1. UNCHANGED <<in, call>>
    BY <1>1, <1>9 DEF Outcome, Refusal
  <2>2. Types'
    BY <1>1, <1>2, <2>1 DEF Types, Missing
  <2>3. CancelOK(p)'
    BY <1>1, <1>2, <1>8, <1>9, <2>1 DEF CancelOK
  <2>4. ThreadOK(p)'
    BY <1>1, <1>2, <1>6, <2>1, <2>3 DEF ThreadOK, BeforeCall, BeforeMessage, IdleOK,
       RegisterOK, InviteOK, MessageOK, ByeOK, NotCancelled, DoneOK, FastOK, Fast
  <2>. QED
    BY <2>1, <2>2, <2>4
<1>10. CASE r.method = "CANCEL" /\ call[p] = "rings"
  <2>1. PICK f \in Frames, g \in Frames :
          SaysTwo(p, f, g) /\ call' = [call EXCEPT ![p] = "none"]
    BY <1>1, <1>10 DEF Outcome, Refusal, Calls
  <2>. DEFINE j == i \o <<f>>
  <2>2. in' = [in EXCEPT ![p] = j \o <<g>>]
    BY <2>1, pc[p] = "CANCEL" DEF SaysTwo
  <2>3. j \in Seq(Frames)
    BY <1>3, <1>5, <2>1
  <2>. HIDE DEF j
  <2>4. j \o <<g>> \in Seq(Frames)
    BY <1>5, <2>1, <2>3
  <2>5. Types' /\ call'[p] = "none" /\ \A q \in Presses \ {p} : in'[q] = in[q] /\ call'[q] = call[q]
    BY <1>1, <1>2, <2>1, <2>2, <2>4 DEF Types, Missing
  <2>6. CancelOK(p)'
    BY <1>1, <1>2, <1>8, <2>5 DEF CancelOK
  <2>7. ThreadOK(p)'
    BY <1>1, <1>2, <1>6, <2>5, <2>6 DEF ThreadOK, BeforeCall, BeforeMessage, IdleOK,
       RegisterOK, InviteOK, MessageOK, ByeOK, NotCancelled, DoneOK, FastOK, Fast
  <2>. QED
    BY <2>5, <2>7
<1>11. CASE r.method # "ACK" /\ ~(r.method = "CANCEL" /\ call[p] = "rings")
  <2>1. PICK f \in Frames :
          /\ f.method = r.method /\ f.code \in {200, 401, 486} /\ Says(p, f)
          /\ UNCHANGED call \/ call' = [call EXCEPT ![p] = "none"]
    BY <1>1, <1>8, <1>11 DEF Outcome, Refusal, Calls
  <2>2. in' = [in EXCEPT ![p] = i \o <<f>>]
    BY <2>1, pc[p] = "CANCEL" DEF Says
  <2>3. i \o <<f>> \in Seq(Frames) /\ (NoCode(i, 487) => NoCode(i \o <<f>>, 487))
    BY <1>3, <1>5, <2>1 DEF Codes
  <2>4. /\ call' \in [Presses -> {"none", "rings", "up"}]
        /\ call'[p] = call[p] \/ call'[p] = "none"
        /\ \A q \in Presses \ {p} : call'[q] = call[q]
    <3>1. CASE UNCHANGED call
      BY <1>1, <3>1 DEF Types
    <3>2. CASE call' = [call EXCEPT ![p] = "none"]
      BY <1>1, <3>2 DEF Types
    <3>. QED
      BY <2>1, <3>1, <3>2
  <2>5. Types' /\ in'[p] = i \o <<f>>
    BY <1>1, <1>2, <2>2, <2>3, <2>4 DEF Types, Missing
  <2>6. CancelOK(p)'
    BY <1>1, <1>2, <1>8, <1>11, <2>3, <2>4, <2>5 DEF CancelOK
  <2>7. ThreadOK(p)'
    BY <1>1, <1>2, <1>6, <2>4, <2>5, <2>6 DEF ThreadOK, BeforeCall, BeforeMessage, IdleOK,
       RegisterOK, InviteOK, MessageOK, ByeOK, NotCancelled, DoneOK, FastOK, Fast
  <2>. QED
    BY <2>2, <2>4, <2>5, <2>7
<1>. QED
  BY <1>9, <1>10, <1>11

\* The gateway takes what a thread that has finished has left on its way; it is
\* answered to nobody.
LEMMA ServeDone ==
  ASSUME UnlockInv, NEW p \in Presses, Serve(p), pc[p] = "done"
  PROVE  Types' /\ ThreadOK(p)' /\ \A q \in Presses \ {p} : call'[q] = call[q] /\ in'[q] = in[q]
<1>. DEFINE r == Head(out[p])
            o == Tail(out[p])
<1>1. /\ Types /\ ThreadOK(p) /\ out[p] # <<>>
      /\ UNCHANGED <<strategy, pc, door, retried, early, result, cut, taken, rings>>
      /\ Missing(p) /\ Outcome(p, r)
  BY ServedHow DEF UnlockInv
<1>2. /\ opened' \in [Presses -> Seq(Stations)] /\ OpensOK(p)' /\ LateMessage(p)'
      /\ out' \in [Presses -> Seq(Requests)] /\ out'[p] = o
  BY ServedDoor
<1>3. out[p] \in Seq(Requests) /\ in \in [Presses -> Seq(Frames)]
  BY <1>1 DEF Types
<1>4. /\ r \in Requests
      /\ NoMethod(out[p], "INVITE") => NoMethod(o, "INVITE") /\ r.method # "INVITE"
      /\ \A d : Has(out[p], d) /\ r # d => Has(o, d)
  <2>1. /\ r \in Requests
        /\ NoMethod(out[p], "INVITE") => NoMethod(o, "INVITE") /\ r.method # "INVITE"
    BY <1>1, <1>3, RequestTaken DEF Methods
  <2>. QED
    BY <1>1, <1>3, <2>1, HasFacts
<1>. HIDE DEF r, o
<1>5. /\ UNCHANGED in
      /\ \/ UNCHANGED call \/ call' = [call EXCEPT ![p] = "none"]
         \/ r.method = "INVITE" /\ call' = [call EXCEPT ![p] = "rings"]
      /\ r.method = "BYE" => missed'[p] \/ call' = [call EXCEPT ![p] = "none"]
      /\ r.method = "CANCEL" => call[p] # "rings" \/ call' = [call EXCEPT ![p] = "none"]
  <2>1. \A f \in Frames : Says(p, f) => UNCHANGED in
    BY <1>3, pc[p] = "done" DEF Says
  <2>2. \A f, g \in Frames : SaysTwo(p, f, g) => UNCHANGED in
    BY <1>3, pc[p] = "done" DEF SaysTwo
  <2>. QED
    BY <1>1, <2>1, <2>2, pc[p] = "done" DEF Outcome, Calls, Refusal
<1>6. Types' /\ \A q \in Presses \ {p} : call'[q] = call[q] /\ in'[q] = in[q]
  BY <1>1, <1>2, <1>5 DEF Types, Missing
<1>7. /\ call'[p] \in {call[p], "none"} \/ r.method = "INVITE"
      /\ r.method = "BYE" /\ call'[p] # "none" => missed'[p]
      /\ r.method = "CANCEL" /\ call[p] = "rings" => call'[p] = "none"
      /\ call[p] \in {"none", "rings", "up"}
  BY <1>1, <1>5 DEF Types
<1>8. ASSUME Left(p), call[p] # "none", call'[p] = call[p] PROVE Left(p)'
  <2>1. Cancels.method = "CANCEL" /\ Leaves.method = "BYE" /\ LeavesAgain.method = "BYE"
    BY DEF Request, Cancels, Leaves, LeavesAgain
  <2>2. CASE early[p] /\ call[p] = "up"
    BY <1>1, <1>8, <2>2 DEF Left
  <2>3. CASE early[p] /\ call[p] = "rings" /\ Has(out[p], Cancels)
    <3>1. Has(o, Cancels)
      BY <1>4, <1>7, <1>8, <2>1, <2>3
    <3>. QED
      BY <1>1, <1>2, <2>3, <3>1 DEF Left
  <2>4. ASSUME NEW e \in {Leaves, LeavesAgain}, Has(out[p], e) PROVE Left(p)'
    <3>1. CASE r.method = "BYE"
      BY <1>7, <1>8, <3>1 DEF Left
    <3>2. CASE r.method # "BYE"
      <4>1. Has(o, e)
        BY <1>4, <2>1, <2>4, <3>2
      <4>. QED
        BY <1>2, <4>1 DEF Left
    <3>. QED
      BY <3>1, <3>2
  <2>5. CASE missed[p] \/ Has(in[p], NotYet)
    BY <1>1, <1>5, <2>5 DEF Left, Missing
  <2>. QED
    BY <1>7, <1>8, <2>2, <2>3, <2>4, <2>5 DEF Left
<1>9. DoneOK(p)' /\ FastOK(p)'
  BY <1>1, <1>2, <1>4, <1>7, <1>8, pc[p] = "done" DEF ThreadOK, DoneOK, FastOK, Fast
<1>10. ThreadOK(p)'
  BY <1>1, <1>2, <1>5, <1>9, pc[p] = "done" DEF ThreadOK, BeforeCall, BeforeMessage, IdleOK,
     RegisterOK, InviteOK, MessageOK, ByeOK, CancelOK, NotCancelled
<1>. QED
  BY <1>6, <1>10

\* Whatever the gateway does with a request.
LEMMA ServeStep ==
  ASSUME UnlockInv, NEW p \in Presses, Serve(p)
  PROVE  UnlockInv'
<1>1. /\ Types /\ ThreadOK(p) /\ out[p] # <<>>
      /\ out' = [out EXCEPT ![p] = Tail(out[p])]
      /\ UNCHANGED <<strategy, pc, door, retried, early, result, cut, taken, rings>>
      /\ \A q \in Presses \ {p} : missed'[q] = missed[q]
  BY ServedHow DEF UnlockInv, Missing
<1>2. \A q \in Presses \ {p} : opened'[q] = opened[q]
  BY ServedDoor
<1>3. pc[p] \in {"REGISTER", "INVITE", "MESSAGE", "BYE", "CANCEL", "done"}
  BY <1>1 DEF Types, Phases, ThreadOK, IdleOK
<1>4. Types' /\ ThreadOK(p)' /\ \A q \in Presses \ {p} : call'[q] = call[q] /\ in'[q] = in[q]
  BY <1>3, ServeEarly, ServeMessage, ServeBye, ServeCancel, ServeDone
<1>. QED
  BY <1>1, <1>2, <1>4, Elsewhere DEF Types

----------------------------------------------------------------------------
(* The theorems.                                                           *)

\* Before the first press.
LEMMA UnlockInit == Init => UnlockInv
<1>. SUFFICES ASSUME Init PROVE UnlockInv
  OBVIOUS
<1>1. /\ \A p \in Presses : /\ out[p] = <<>> /\ in[p] = <<>> /\ opened[p] = <<>>
                             /\ pc[p] = "idle" /\ call[p] = "none" /\ ~early[p] /\ ~cut[p]
                             /\ ~result[p]
      /\ out = [p \in Presses |-> <<>>] /\ in = out /\ opened = out /\ rings = 0
  BY DEF Init
<1>2. \A S : <<>> \in Seq(S)
  OBVIOUS
<1>3. Types
  BY <1>1, <1>2, UnlockAssumption DEF Init, Types, Phases
<1>4. ASSUME NEW p \in Presses PROVE ThreadOK(p)
  <2>1. NoCode(in[p], 487)
    BY <1>1 DEF NoCode, NoMethod
  <2>2. NoMethod(out[p], "INVITE")
    BY <1>1 DEF NoMethod
  <2>. QED
    BY <1>1, <2>1, <2>2 DEF ThreadOK, BeforeCall, BeforeMessage, IdleOK, RegisterOK, InviteOK,
       MessageOK, LateMessage, ByeOK, CancelOK, NotCancelled, DoneOK, FastOK, OpensOK
<1>. QED
  BY <1>3, <1>4 DEF UnlockInv

\* The conversation of every unlock_door thread is in a state the code of its
\* phase expects, in every state: what is still to be read, asked and answered.
THEOREM UnlockSound == Spec => []UnlockInv
<1>1. ASSUME UnlockInv, [Next]_vars PROVE UnlockInv'
  <2>1. CASE UNCHANGED vars
    BY <1>1, <2>1 DEF UnlockInv, Types, vars, client, gateway, ThreadOK, BeforeCall,
       BeforeMessage, IdleOK, RegisterOK, InviteOK, MessageOK, LateMessage, ByeOK, CancelOK,
       NotCancelled, DoneOK, ByeEnds, Left, FastOK, Fast, OpensOK
  <2>2. CASE Next
    BY <1>1, <2>2, PressStep, RegisterStep, InviteStep, MessageStep, ByeStep, CancelStep,
       CutStep, StationStep, ServeStep DEF Next, Thread
  <2>. QED
    BY <1>1, <2>1, <2>2
<1>. QED
  BY <1>1, UnlockInit, PTL DEF Spec

\* unlock_door: one press of a button opens its door at most once and no other,
\* however often its MESSAGE was challenged or given up.
THEOREM PressOpensOnce == Spec => []OpensOnce
<1>1. UnlockInv => OpensOnce
  <2>. SUFFICES ASSUME UnlockInv, NEW p \in Presses
                PROVE  Len(opened[p]) <= 1 /\ ToSet(opened[p]) \subseteq {door[p]}
    BY DEF OpensOnce
  <2>1. OpensOK(p)
    BY DEF UnlockInv, ThreadOK
  <2>2. DOMAIN opened[p] = 1..Len(opened[p])
    BY DEF UnlockInv, Types
  <2>. QED
    BY <2>1, <2>2 DEF OpensOK, ToSet
<1>. QED
  BY <1>1, UnlockSound, PTL

\* _send_plain_message returning True outside an early session means that the
\* station has opened: no other frame of the connection is taken for its 200.
THEOREM SuccessAlwaysOpened == Spec => []SuccessMeansOpened
<1>1. UnlockInv => SuccessMeansOpened
  BY DEF UnlockInv, ThreadOK, OpensOK, SuccessMeansOpened
<1>. QED
  BY <1>1, UnlockSound, PTL

\* The finally of _unlock_via_invite: a thread that had a session, and a
\* connection that lasted, leaves no call behind but one that was taken before
\* its CANCEL came, or whose BYE was challenged with nobody listening; time-outs
\* and rings make no difference.
THEOREM UnlockedCallEnds == Spec => []CallIsEnded
<1>1. UnlockInv => CallIsEnded
  <2>. SUFFICES ASSUME UnlockInv, NEW p \in Presses,
                       pc[p] = "done", out[p] = <<>>, ~cut[p], call[p] # "none"
                PROVE  (early[p] /\ call[p] = "up") \/ Unheard(p)
    BY DEF CallIsEnded
  <2>1. Left(p) /\ in[p] \in Seq(Frames)
    BY DEF UnlockInv, ThreadOK, DoneOK, Types
  <2>2. \A d : ~Has(out[p], d)
    BY DEF Has
  <2>3. Has(in[p], NotYet) => NotYet \in ToSet(in[p])
    BY <2>1 DEF Has, ToSet
  <2>. QED
    BY <2>1, <2>2, <2>3 DEF Left, Unheard, NotYet
<1>. QED
  BY <1>1, UnlockSound, PTL

----------------------------------------------------------------------------
(* How many requests and frames of a press are on their way.               *)

NoPicture(s) == \A i \in 1..Len(s) : s[i] # Frame("INVITE", 183)
EndOnce(s) == \A i, j \in 1..Len(s) : s[i].code = 487 /\ s[j].code = 487 => i = j

\* Besides what has rung, at most n are under way; one less while the station
\* still owes an answer to the INVITE.
Room(p, n) ==
  /\ Len(in[p]) + Len(out[p]) <= n + rings
  /\ call[p] = "rings" => Len(in[p]) + Len(out[p]) + 1 <= n + rings

RegisterRoom(p) == Len(out[p]) <= 1 /\ Room(p, 1)

\* An INVITE brings a 100, then a challenge, or a 183 and a 200; only a
\* challenge that comes first and alone is answered.
InviteRoom(p) ==
  /\ Len(out[p]) <= 1
  /\ out[p] # <<>> => Len(in[p]) <= rings
  /\ in[p] # <<>> /\ Head(in[p]).code = 401 /\ ~retried[p] => Len(in[p]) <= 1 + rings
  /\ call[p] \in {"none", "rings"} => Len(in[p]) <= 2 + rings
  /\ call[p] = "rings" /\ NoPicture(in[p]) => Len(in[p]) <= 1 + rings
  /\ call[p] = "up" => Len(in[p]) <= 3 + rings

MessageRoom(p) == Len(out[p]) <= 2 /\ Room(p, 4)

\* Only a challenge makes the thread send once more.
ByeRoom(p) == Room(p, 4) /\ (retried[p] \/ NoCode(in[p], 401) \/ Len(out[p]) <= 2)

\* Only the 487 does, which comes once.
CancelRoom(p) ==
  Room(p, 4) /\ EndOnce(in[p]) /\ (NoCode(in[p], 487) \/ Len(out[p]) <= 2)

RoomOK(p) ==
  /\ Len(out[p]) <= 3 /\ Len(in[p]) <= 4 + rings
  /\ pc[p] = "REGISTER" => RegisterRoom(p)
  /\ pc[p] = "INVITE" => InviteRoom(p)
  /\ pc[p] = "MESSAGE" => MessageRoom(p)
  /\ pc[p] = "BYE" => ByeRoom(p)
  /\ pc[p] = "CANCEL" => CancelRoom(p)

RoomInv == \A p \in Presses : RoomOK(p)

\* What is counted are numbers.
LEMMA RoomCounts ==
  ASSUME Types, NEW p \in Presses
  PROVE  /\ Len(in[p]) \in Nat /\ Len(out[p]) \in Nat /\ rings \in Nat
         /\ in[p] \in Seq(Frames) /\ out[p] \in Seq(Requests)
         /\ out[p] = <<>> <=> Len(out[p]) = 0
         /\ call[p] \in {"none", "rings", "up"}
BY UnlockAssumption DEF Types

\* A step of one press takes no room from another; a ring may give it some.
LEMMA RoomElsewhere ==
  ASSUME Types, RoomInv, NEW p \in Presses, RoomOK(p)', rings' \in {rings, rings + 1},
         \A q \in Presses \ {p} : /\ pc'[q] = pc[q] /\ retried'[q] = retried[q]
                                  /\ call'[q] = call[q] /\ out'[q] = out[q] /\ in'[q] = in[q]
  PROVE  RoomInv'
<1>1. ASSUME NEW q \in Presses \ {p} PROVE RoomOK(q)'
  <2>1. RoomOK(q)
    BY DEF RoomInv
  <2>2. Len(in[q]) \in Nat /\ Len(out[q]) \in Nat /\ rings \in Nat
    BY RoomCounts
  <2>3. UNCHANGED <<pc[q], retried[q], call[q], out[q], in[q]>>
    OBVIOUS
  <2>4. rings' \in Nat /\ rings <= rings'
    BY <2>2
  <2>5. ASSUME NEW n \in Nat, Room(q, n) PROVE Room(q, n)'
    <3>1. PICK i \in Nat : Len(in[q]) = i
      BY <2>2
    <3>2. PICK o \in Nat : Len(out[q]) = o
      BY <2>2
    <3>3. PICK r \in Nat : rings = r
      BY <2>2
    <3>4. PICK t \in Nat : rings' = t
      BY <2>4
    <3>5. /\ Len(in'[q]) = i /\ Len(out'[q]) = o /\ r <= t
          /\ i + o <= n + r /\ (call'[q] = "rings" => i + o + 1 <= n + r)
      BY <2>3, <2>4, <2>5, <3>1, <3>2, <3>3, <3>4 DEF Room
    <3>. QED
      BY <3>4, <3>5 DEF Room
  <2>6. pc[q] = "REGISTER" => RegisterRoom(q)'
    BY <2>1, <2>2, <2>3, <2>4, <2>5 DEF RoomOK, RegisterRoom
  <2>7. pc[q] = "INVITE" => InviteRoom(q)'
    BY <2>1, <2>2, <2>3, <2>4, <2>5 DEF RoomOK, InviteRoom
  <2>8. pc[q] = "MESSAGE" => MessageRoom(q)'
    BY <2>1, <2>2, <2>3, <2>4, <2>5 DEF RoomOK, MessageRoom
  <2>9. pc[q] = "BYE" => ByeRoom(q)'
    BY <2>1, <2>2, <2>3, <2>4, <2>5 DEF RoomOK, ByeRoom
  <2>10. pc[q] = "CANCEL" => CancelRoom(q)'
    BY <2>1, <2>2, <2>3, <2>4, <2>5 DEF RoomOK, CancelRoom
  <2>. QED
    BY <2>1, <2>2, <2>3, <2>4, <2>6, <2>7, <2>8, <2>9, <2>10 DEF RoomOK
<1>. QED
  BY <1>1 DEF RoomInv

\* A thread that is done asks for no more room.
LEMMA RoomDone ==
  ASSUME RoomInv, NEW p \in Presses, pc'[p] = "done", Types,
         Len(out'[p]) <= 3, Len(in'[p]) <= Len(in[p]), rings' = rings, Len(in'[p]) \in Nat
  PROVE  RoomOK(p)'
<1>1. RoomOK(p) /\ Len(in[p]) \in Nat /\ rings \in Nat
  BY RoomCounts DEF RoomInv
<1>. QED
  BY <1>1 DEF RoomOK

\* The 487 among frames that are read, and among those that come.
LEMMA EndRead ==
  ASSUME NEW s \in Seq(Frames), s # <<>>
  PROVE  /\ EndOnce(s) => EndOnce(Tail(s))
         /\ EndOnce(s) /\ Head(s).code = 487 => NoCode(Tail(s), 487)
<1>. DEFINE t == Tail(s)
<1>1. /\ Len(s) \in Nat \ {0} /\ Len(t) = Len(s) - 1 /\ Head(s) = s[1]
      /\ \A i \in 1..Len(t) : t[i] = s[i + 1] /\ i + 1 \in 2..Len(s)
  BY TailFacts
<1>2. 1 \in 1..Len(s) /\ \A i \in 2..Len(s) : i \in 1..Len(s) /\ i # 1
  BY <1>1
<1>3. t = Tail(s)
  OBVIOUS
<1>. HIDE DEF t
<1>4. EndOnce(s) => EndOnce(t)
  BY <1>1, <1>2 DEF EndOnce
<1>5. EndOnce(s) /\ Head(s).code = 487 => NoCode(t, 487)
  BY <1>1, <1>2 DEF EndOnce, NoCode
<1>. QED
  BY <1>3, <1>4, <1>5

\* The same when one has come, with the picture of the station.
LEMMA EndCame ==
  ASSUME NEW s \in Seq(Frames), NEW f \in Frames
  PROVE  /\ s \o <<f>> \in Seq(Frames) /\ Len(s) \in Nat /\ Len(s \o <<f>>) = Len(s) + 1
         /\ s \o <<f>> # <<>> /\ Head(s \o <<f>>) = IF s = <<>> THEN f ELSE Head(s)
         /\ EndOnce(s) /\ (NoCode(s, 487) \/ f.code # 487) => EndOnce(s \o <<f>>)
         /\ NoPicture(s \o <<f>>) => NoPicture(s) /\ f # Frame("INVITE", 183)
<1>. DEFINE t == s \o <<f>>
<1>1. /\ t \in Seq(Frames) /\ Len(s) \in Nat /\ Len(t) = Len(s) + 1 /\ t # <<>>
      /\ t[Len(s) + 1] = f /\ \A i \in 1..Len(s) : t[i] = s[i]
  BY PushFacts
<1>2. \A i \in 1..Len(t) : i \in 1..Len(s) \/ i = Len(s) + 1
  BY <1>1
<1>3. Head(t) = IF s = <<>> THEN f ELSE Head(s)
  <2>1. CASE s = <<>>
    <3>1. Len(s) = 0 /\ t[1] = f
      BY <1>1, <2>1
    <3>. QED
      BY <1>1, <2>1, <3>1
  <2>2. CASE s # <<>>
    <3>1. 1 \in 1..Len(s) /\ Head(s) = s[1]
      BY <2>2
    <3>2. t[1] = s[1]
      BY <1>1, <3>1
    <3>. QED
      BY <1>1, <2>2, <3>1, <3>2
  <2>. QED
    BY <2>1, <2>2
<1>4. t = s \o <<f>>
  OBVIOUS
<1>. HIDE DEF t
<1>5. EndOnce(s) /\ (NoCode(s, 487) \/ f.code # 487) => EndOnce(t)
  BY <1>1, <1>2 DEF EndOnce, NoCode
<1>6. NoPicture(t) => NoPicture(s) /\ f # Frame("INVITE", 183)
  <2>1. Len(s) + 1 \in 1..Len(t) /\ \A i \in 1..Len(s) : i \in 1..Len(t)
    BY <1>1
  <2>. QED
    BY <1>1, <2>1 DEF NoPicture
<1>. QED
  BY <1>1, <1>3, <1>5, <1>6, <1>4

\* A frame that is read leaves room for one.
LEMMA RoomRead ==
  ASSUME UnlockInv, RoomInv, NEW p \in Presses, NEW phase, Reads(p, phase)
  PROVE  /\ Types /\ ThreadOK(p) /\ RoomOK(p) /\ pc[p] = phase /\ in[p] # <<>>
         /\ Len(in[p]) \in Nat \ {0} /\ Len(in'[p]) = Len(in[p]) - 1
         /\ UNCHANGED <<door, call, rings>> /\ \A q \in Presses \ {p} : in'[q] = in[q]
         /\ \A c \in Codes : NoCode(in[p], c) => NoCode(in'[p], c) /\ Head(in[p]).code # c
         /\ EndOnce(in[p]) => EndOnce(in'[p])
         /\ EndOnce(in[p]) /\ Head(in[p]).code = 487 => NoCode(in'[p], 487)
<1>1. /\ Types /\ ThreadOK(p) /\ pc[p] = phase /\ in' = [in EXCEPT ![p] = Tail(in[p])]
      /\ UNCHANGED <<door, call, rings>> /\ in'[p] = Tail(in[p])
      /\ \A c \in Codes : NoCode(in[p], c) => NoCode(in'[p], c) /\ Head(in[p]).code # c
  BY FrameTaken
<1>2. RoomOK(p) /\ in[p] # <<>> /\ in[p] \in Seq(Frames)
  BY <1>1 DEF RoomInv, Reads, Types
<1>3. /\ Len(in[p]) \in Nat \ {0} /\ Len(Tail(in[p])) = Len(in[p]) - 1
      /\ EndOnce(in[p]) => EndOnce(Tail(in[p]))
      /\ EndOnce(in[p]) /\ Head(in[p]).code = 487 => NoCode(Tail(in[p]), 487)
  BY <1>2, TailFacts, EndRead
<1>4. \A q \in Presses \ {p} : in'[q] = in[q]
  BY <1>1 DEF Types
<1>5. in'[p] = Tail(in[p])
  BY <1>1
<1>6. Len(in'[p]) = Len(in[p]) - 1
  BY <1>3, <1>5
<1>7. /\ EndOnce(in[p]) => EndOnce(in'[p])
      /\ EndOnce(in[p]) /\ Head(in[p]).code = 487 => NoCode(in'[p], 487)
  BY <1>3, <1>5, Zenon
<1>. QED
  BY <1>1, <1>2, <1>3, <1>4, <1>6, <1>7

\* One more request.
LEMMA RoomSent ==
  ASSUME Types, NEW p \in Presses, NEW r \in Requests, NEW o \in Nat, Len(out[p]) = o,
         out' = [out EXCEPT ![p] = out[p] \o <<r>>]
  PROVE  /\ Len(out'[p]) = o + 1 /\ out'[p] # <<>>
         /\ \A q \in Presses \ {p} : out'[q] = out[q]
<1>1. out[p] \in Seq(Requests) /\ out'[p] = out[p] \o <<r>>
  BY DEF Types
<1>2. Len(out'[p]) = o + 1 /\ out'[p] # <<>>
  BY <1>1, PushFacts
<1>. QED
  BY <1>2 DEF Types

\* The bounds in numbers.
LEMMA RoomNumbers ==
  ASSUME Types, RoomInv, NEW p \in Presses, NEW i \in Nat, NEW o \in Nat, NEW r \in Nat,
         Len(in[p]) = i, Len(out[p]) = o, rings = r
  PROVE  /\ pc[p] = "REGISTER" => o <= 1 /\ i + o <= 1 + r
         /\ pc[p] = "INVITE" =>
              /\ o <= 1 /\ (o # 0 => i <= r)
              /\ (i # 0 /\ Head(in[p]).code = 401 /\ ~retried[p] => i <= 1 + r)
              /\ (call[p] \in {"none", "rings"} => i <= 2 + r)
              /\ (call[p] = "rings" /\ NoPicture(in[p]) => i <= 1 + r)
              /\ (call[p] = "up" => i <= 3 + r)
         /\ pc[p] = "MESSAGE" => o <= 2
         /\ pc[p] \in {"MESSAGE", "BYE", "CANCEL"} =>
              i + o <= 4 + r /\ (call[p] = "rings" => i + o + 1 <= 4 + r)
         /\ pc[p] = "BYE" => retried[p] \/ NoCode(in[p], 401) \/ o <= 2
         /\ pc[p] = "CANCEL" => EndOnce(in[p]) /\ (NoCode(in[p], 487) \/ o <= 2)
         /\ o <= 3 /\ i <= 4 + r /\ (out[p] = <<>> <=> o = 0) /\ (in[p] = <<>> <=> i = 0)
<1>1. RoomOK(p) /\ in[p] \in Seq(Frames) /\ out[p] \in Seq(Requests)
  BY RoomCounts DEF RoomInv
<1>2. (out[p] = <<>> <=> o = 0) /\ (in[p] = <<>> <=> i = 0)
  BY <1>1
<1>. QED
  BY <1>1, <1>2 DEF RoomOK, RegisterRoom, InviteRoom, MessageRoom, ByeRoom, CancelRoom, Room

\* The numbers that keep a press within its bounds.
LEMMA RoomHolds ==
  ASSUME NEW p \in Presses, NEW i \in Nat, NEW o \in Nat, NEW r \in Nat,
         Len(in'[p]) = i, Len(out'[p]) = o, rings' = r, o <= 3, i <= 4 + r,
         pc'[p] = "REGISTER" => o <= 1 /\ i + o <= 1 + r /\ call'[p] # "rings",
         pc'[p] = "INVITE" =>
           /\ o <= 1 /\ (out'[p] # <<>> => i <= r)
           /\ (in'[p] # <<>> /\ Head(in'[p]).code = 401 /\ ~retried'[p] => i <= 1 + r)
           /\ (call'[p] \in {"none", "rings"} => i <= 2 + r)
           /\ (call'[p] = "rings" /\ NoPicture(in'[p]) => i <= 1 + r)
           /\ (call'[p] = "up" => i <= 3 + r),
         pc'[p] = "MESSAGE" => o <= 2,
         pc'[p] \in {"MESSAGE", "BYE", "CANCEL"} =>
           i + o <= 4 + r /\ (call'[p] = "rings" => i + o + 1 <= 4 + r),
         pc'[p] = "BYE" => retried'[p] \/ NoCode(in'[p], 401) \/ o <= 2,
         pc'[p] = "CANCEL" => EndOnce(in'[p]) /\ (NoCode(in'[p], 487) \/ o <= 2)
  PROVE  RoomOK(p)'
<1>1. pc'[p] = "REGISTER" => RegisterRoom(p)'
  BY DEF RegisterRoom, Room
<1>2. pc'[p] = "INVITE" => InviteRoom(p)'
  BY DEF InviteRoom
<1>3. pc'[p] = "MESSAGE" => MessageRoom(p)'
  BY DEF MessageRoom, Room
<1>4. pc'[p] = "BYE" => ByeRoom(p)'
  BY DEF ByeRoom, Room
<1>5. pc'[p] = "CANCEL" => CancelRoom(p)'
  BY DEF CancelRoom, Room
<1>. QED
  BY <1>1, <1>2, <1>3, <1>4, <1>5 DEF RoomOK

\* The first request of a press has all the room (unlock_door).
LEMMA RoomPress ==
  ASSUME UnlockInv, RoomInv, NEW p \in Presses, Press(p) \/ NoConnection(p)
  PROVE  RoomInv'
<1>1. /\ Types /\ Len(in[p]) = 0 /\ Len(out[p]) = 0 /\ rings \in Nat /\ call[p] = "none"
      /\ UNCHANGED <<in, call, rings>>
  <2>1. Types /\ IdleOK(p) /\ BeforeCall(p) /\ pc[p] = "idle"
    BY DEF UnlockInv, ThreadOK, Press, NoConnection
  <2>. QED
    BY <2>1, RoomCounts DEF IdleOK, BeforeCall, Press, NoConnection, gateway
<1>2. CASE NoConnection(p)
  <2>1. pc' = [pc EXCEPT ![p] = "done"] /\ UNCHANGED <<out, retried>>
    BY <1>2 DEF NoConnection, Finish, Goto
  <2>2. /\ pc'[p] = "done" /\ Len(out'[p]) <= 3 /\ Len(in'[p]) <= Len(in[p]) /\ rings' = rings
        /\ Len(in'[p]) \in Nat
    BY <1>1, <2>1 DEF Types
  <2>3. RoomOK(p)'
    BY <1>1, <2>2, RoomDone
  <2>4. rings' \in {rings, rings + 1}
    BY <2>2
  <2>5. \A q \in Presses \ {p} : /\ pc'[q] = pc[q] /\ retried'[q] = retried[q]
                                  /\ call'[q] = call[q] /\ out'[q] = out[q] /\ in'[q] = in[q]
    BY <1>1, <2>1 DEF Types
  <2>. QED
    BY <1>1, <2>3, <2>4, <2>5, RoomElsewhere
<1>3. CASE Press(p)
  <2>1. /\ out' = [out EXCEPT ![p] = out[p] \o <<Request("REGISTER", FALSE)>>]
        /\ retried' = [retried EXCEPT ![p] = FALSE] /\ pc' = [pc EXCEPT ![p] = "REGISTER"]
        /\ Request("REGISTER", FALSE) \in Requests
    BY <1>3, AskedOne DEF Press, Methods
  <2>2. Len(out'[p]) = 0 + 1 /\ \A q \in Presses \ {p} : out'[q] = out[q]
    BY <1>1, <2>1, RoomSent
  <2>3. Len(out'[p]) = 1 /\ Len(in'[p]) = 0 /\ call'[p] = "none" /\ rings' = rings
    BY <1>1, <2>2
  <2>4. pc'[p] = "REGISTER"
    BY <1>1, <2>1 DEF Types
  <2>5. RoomOK(p)'
    BY <1>1, <2>3, <2>4 DEF RoomOK, RegisterRoom, Room
  <2>. QED
    BY <1>1, <2>1, <2>2, <2>5, RoomElsewhere DEF Types
<1>. QED
  BY <1>2, <1>3

\* The answer to the REGISTER leaves its room to the next request
\* (_register_client).
LEMMA RoomRegister ==
  ASSUME UnlockInv, RoomInv, NEW p \in Presses, ReadRegister(p)
  PROVE  RoomInv'
<1>. DEFINE f == Head(in[p])
<1>1. Reads(p, "REGISTER") /\ UNCHANGED taken
  BY DEF ReadRegister
<1>2. /\ Types /\ ThreadOK(p) /\ RoomOK(p) /\ pc[p] = "REGISTER"
      /\ Len(in[p]) \in Nat \ {0} /\ Len(in'[p]) = Len(in[p]) - 1
      /\ UNCHANGED <<call, rings>> /\ \A q \in Presses \ {p} : in'[q] = in[q]
  BY <1>1, RoomRead
<1>3. PICK i \in Nat, j \in Nat : i = Len(in'[p]) /\ j = Len(in[p]) /\ j = i + 1
  BY <1>2
<1>4. PICK o \in Nat : o = Len(out[p])
  BY <1>2, RoomCounts
<1>5. PICK r \in Nat : r = rings /\ r = rings'
  BY <1>2, RoomCounts
<1>6. /\ call[p] = "none" /\ call'[p] = "none" /\ o <= 1 /\ i + o <= r
      /\ out[p] = <<>> <=> o = 0
  <2>1. o <= 1 /\ j + o <= 1 + r /\ (out[p] = <<>> <=> o = 0)
    BY <1>2, <1>3, <1>4, <1>5, RoomNumbers
  <2>. QED
    BY <1>2, <1>3, <2>1 DEF ThreadOK, BeforeCall
<1>7. Final(f) => o = 0
  BY <1>1, <1>2, <1>6, FrameTaken DEF ThreadOK, RegisterOK
<1>. HIDE DEF f
<1>8. CASE Skips
  <2>1. Len(out'[p]) = o /\ pc'[p] = "REGISTER" /\ UNCHANGED <<pc, retried, out>>
    BY <1>2, <1>4, <1>8 DEF Skips
  <2>2. RoomOK(p)'
    BY <1>3, <1>5, <1>6, <2>1, RoomHolds
  <2>3. \A q \in Presses \ {p} : /\ pc'[q] = pc[q] /\ retried'[q] = retried[q]
                                  /\ call'[q] = call[q] /\ out'[q] = out[q] /\ in'[q] = in[q]
    BY <1>2, <2>1
  <2>. QED
    BY <1>2, <1>5, <2>2, <2>3, RoomElsewhere
<1>9. ASSUME NEW m \in {"REGISTER", "INVITE", "MESSAGE"}, NEW e \in Requests, Final(f),
             out' = [out EXCEPT ![p] = out[p] \o <<e>>], pc' = [pc EXCEPT ![p] = m],
             NEW b \in BOOLEAN, retried' = [retried EXCEPT ![p] = b]
      PROVE  RoomInv'
  <2>1. Len(out'[p]) = o + 1 /\ \A q \in Presses \ {p} : out'[q] = out[q]
    BY <1>2, <1>4, <1>9, RoomSent
  <2>2. Len(out'[p]) = 1
    BY <1>7, <1>9, <2>1
  <2>3. pc'[p] = m
    BY <1>2, <1>9 DEF Types
  <2>4. o = 0
    BY <1>7, <1>9
  <2>5. PICK k \in Nat : k = 1 /\ Len(out'[p]) = k
    BY <2>2
  <2>6. /\ i <= r /\ i <= 1 + r /\ i <= 2 + r /\ i <= 3 + r /\ i <= 4 + r
        /\ i + k <= 1 + r /\ i + k <= 4 + r /\ k <= 3 /\ k <= 2 /\ k <= 1
    BY <1>6, <2>4, <2>5
  <2>7. RoomOK(p)'
    BY <1>3, <1>5, <1>6, <2>6, <2>3, <2>5, RoomHolds
  <2>8. \A q \in Presses \ {p} : /\ pc'[q] = pc[q] /\ retried'[q] = retried[q]
                                  /\ call'[q] = call[q] /\ out'[q] = out[q] /\ in'[q] = in[q]
    BY <1>2, <1>9, <2>1 DEF Types
  <2>. QED
    BY <1>2, <1>5, <2>7, <2>8, RoomElsewhere
<1>10. CASE f.code = 200 /\ Ask(p, <<IF Fast(door[p]) THEN "MESSAGE" ELSE "INVITE">>)
  <2>1. PICK m \in {"INVITE", "MESSAGE"} : Ask(p, <<m>>)
    BY <1>10
  <2>2. Final(f)
    BY <1>10 DEF Final
  <2>3. /\ out' = [out EXCEPT ![p] = out[p] \o <<Request(m, FALSE)>>]
        /\ retried' = [retried EXCEPT ![p] = FALSE] /\ pc' = [pc EXCEPT ![p] = m]
        /\ Request(m, FALSE) \in Requests
    BY <2>1, AskedOne DEF Methods
  <2>. QED
    BY <1>9, <2>2, <2>3
<1>11. CASE Challenged(p, f) /\ Again(p)
  <2>1. Final(f) /\ Request("REGISTER", TRUE) \in Requests
    BY <1>11 DEF Challenged, Final, Request, Requests, Methods
  <2>2. /\ out' = [out EXCEPT ![p] = out[p] \o <<Request("REGISTER", TRUE)>>]
        /\ retried' = [retried EXCEPT ![p] = TRUE] /\ pc' = [pc EXCEPT ![p] = "REGISTER"]
    BY <1>2, <1>11 DEF Again, Send, Types
  <2>. QED
    BY <1>9, <2>1, <2>2
<1>12. CASE Finish(p)
  <2>1. pc' = [pc EXCEPT ![p] = "done"] /\ UNCHANGED <<out, retried>>
    BY <1>12 DEF Finish, Goto
  <2>2. pc'[p] = "done" /\ Len(out'[p]) <= 3 /\ Len(in'[p]) <= Len(in[p]) /\ Len(in'[p]) \in Nat
    BY <1>2, <1>3, <1>4, <1>6, <2>1 DEF Types
  <2>3. RoomOK(p)'
    BY <1>2, <1>5, <2>2, RoomDone
  <2>4. \A q \in Presses \ {p} : /\ pc'[q] = pc[q] /\ retried'[q] = retried[q]
                                  /\ call'[q] = call[q] /\ out'[q] = out[q] /\ in'[q] = in[q]
    BY <1>2, <2>1 DEF Types
  <2>. QED
    BY <1>2, <1>5, <2>3, <2>4, RoomElsewhere
<1>. QED
  BY <1>8, <1>10, <1>11, <1>12 DEF ReadRegister, f

\* What comes of an INVITE has its room, and what is left of it is enough for
\* the MESSAGE (_start_invite_call).
LEMMA RoomInvite ==
  ASSUME UnlockInv, RoomInv, NEW p \in Presses, ReadInvite(p)
  PROVE  RoomInv'
<1>. DEFINE f == Head(in[p])
<1>1. Reads(p, "INVITE")
  BY DEF ReadInvite
<1>2. /\ Types /\ ThreadOK(p) /\ pc[p] = "INVITE" /\ in[p] # <<>>
      /\ Len(in[p]) \in Nat \ {0} /\ Len(in'[p]) = Len(in[p]) - 1
      /\ UNCHANGED <<call, rings>> /\ \A q \in Presses \ {p} : in'[q] = in[q]
  BY <1>1, RoomRead
<1>3. PICK i \in Nat, j \in Nat : i = Len(in'[p]) /\ j = Len(in[p]) /\ j = i + 1
  BY <1>2
<1>4. PICK o \in Nat : o = Len(out[p])
  BY <1>2, RoomCounts
<1>5. PICK r \in Nat : r = rings /\ r = rings'
  BY <1>2, RoomCounts
<1>6. /\ o <= 1 /\ (o # 0 => j <= r) /\ (f.code = 401 /\ ~retried[p] => j <= 1 + r)
      /\ (call[p] \in {"none", "rings"} => j <= 2 + r) /\ (call[p] = "up" => j <= 3 + r)
      /\ (out[p] = <<>> <=> o = 0) /\ call[p] \in {"none", "rings", "up"}
  BY <1>2, <1>3, <1>4, <1>5, RoomNumbers, RoomCounts
<1>7. /\ Final(f) => o = 0
      /\ f.code = 183 => o = 0
      /\ f.code = 200 => call[p] = "up"
  <2>1. /\ InviteOK(p) /\ {183, 200} \subseteq Codes
        /\ NoFinal(in[p]) => ~Final(f)
        /\ \A c \in Codes : NoCode(in[p], c) => f.code # c
    BY <1>1, <1>2, FrameTaken DEF ThreadOK, Codes
  <2>. HIDE DEF f
  <2>2. f.code = 200 => Final(f)
    BY DEF Final
  <2>. QED
    BY <1>2, <1>6, <2>1, <2>2 DEF InviteOK
<1>. HIDE DEF f
<1>8. CASE f.code \in {0, 100} /\ retried' = [retried EXCEPT ![p] = TRUE]
           /\ UNCHANGED <<pc, early, out>>
  <2>1. Len(out'[p]) = o /\ pc'[p] = "INVITE" /\ retried'[p] /\ call'[p] = call[p]
        /\ out'[p] = out[p]
    BY <1>2, <1>4, <1>8 DEF Types
  <2>2. /\ o <= 1 /\ o <= 3 /\ i <= 4 + r /\ (o # 0 => i <= r)
        /\ (call[p] \in {"none", "rings"} => i <= 1 + r /\ i <= 2 + r)
        /\ (call[p] = "up" => i <= 3 + r)
    BY <1>3, <1>6
  <2>3. RoomOK(p)'
    BY <1>3, <1>5, <1>6, <2>1, <2>2, RoomHolds
  <2>4. \A q \in Presses \ {p} : /\ pc'[q] = pc[q] /\ retried'[q] = retried[q]
                                  /\ call'[q] = call[q] /\ out'[q] = out[q] /\ in'[q] = in[q]
    BY <1>2, <1>8 DEF Types
  <2>. QED
    BY <1>2, <1>5, <2>3, <2>4, RoomElsewhere
<1>9. CASE Challenged(p, f) /\ Again(p)
  <2>. DEFINE e == Request("INVITE", TRUE)
  <2>1. Final(f) /\ f.code = 401 /\ ~retried[p] /\ e \in Requests
    BY <1>9 DEF Challenged, Final, Request, Requests, Methods
  <2>2. /\ out' = [out EXCEPT ![p] = out[p] \o <<e>>]
        /\ retried' = [retried EXCEPT ![p] = TRUE] /\ UNCHANGED pc
    BY <1>2, <1>9 DEF Again, Send
  <2>. HIDE DEF e
  <2>3. Len(out'[p]) = o + 1 /\ \A q \in Presses \ {p} : out'[q] = out[q]
    <3>1. Types /\ Len(out[p]) = o
      BY <1>2, <1>4
    <3>2. e \in Requests /\ out' = [out EXCEPT ![p] = out[p] \o <<e>>]
      BY <2>1, <2>2
    <3>. QED
      BY <3>1, <3>2, RoomSent
  <2>4. o = 0
    BY <1>7, <2>1
  <2>5. PICK k \in Nat : k = 1 /\ k = Len(out'[p])
    BY <2>3, <2>4
  <2>6. pc'[p] = "INVITE" /\ retried'[p]
    BY <1>2, <2>2 DEF Types
  <2>7. i <= r /\ i <= 1 + r /\ i <= 2 + r /\ i <= 3 + r /\ i <= 4 + r /\ k <= 1 /\ k <= 3
    BY <1>3, <1>6, <2>1, <2>5
  <2>8. RoomOK(p)'
    BY <1>3, <1>5, <2>5, <2>6, <2>7, RoomHolds
  <2>9. \A q \in Presses \ {p} : /\ pc'[q] = pc[q] /\ retried'[q] = retried[q]
                                  /\ call'[q] = call[q] /\ out'[q] = out[q] /\ in'[q] = in[q]
    BY <1>2, <2>2, <2>3 DEF Types
  <2>. QED
    BY <1>2, <1>5, <2>8, <2>9, RoomElsewhere
<1>10. ASSUME NEW k \in Nat, Len(out'[p]) = k, k \in {1, 2}, k = 2 => f.code = 200,
              pc' = [pc EXCEPT ![p] = "MESSAGE"], retried' = [retried EXCEPT ![p] = FALSE],
              \A q \in Presses \ {p} : out'[q] = out[q]
       PROVE  RoomInv'
  <2>1. pc'[p] = "MESSAGE" /\ call'[p] = call[p] /\ Len(out'[p]) = k
    BY <1>2, <1>10 DEF Types
  <2>2. /\ k <= 2 /\ k <= 3 /\ i <= 4 + r
        /\ i + k <= 4 + r /\ (call[p] = "rings" => i + k + 1 <= 4 + r)
    <3>1. (k = 1 \/ k = 2) /\ (k = 2 => call[p] = "up")
      BY <1>7, <1>10
    <3>. QED
      BY <1>3, <1>6, <3>1
  <2>3. RoomOK(p)'
    BY <1>3, <1>5, <2>1, <2>2, RoomHolds
  <2>4. \A q \in Presses \ {p} : /\ pc'[q] = pc[q] /\ retried'[q] = retried[q]
                                  /\ call'[q] = call[q] /\ out'[q] = out[q] /\ in'[q] = in[q]
    BY <1>2, <1>10 DEF Types
  <2>. QED
    BY <1>2, <1>5, <2>3, <2>4, RoomElsewhere
<1>11. CASE f.code = 183 /\ Ask(p, <<"MESSAGE">>)
  <2>1. /\ out' = [out EXCEPT ![p] = out[p] \o <<Request("MESSAGE", FALSE)>>]
        /\ retried' = [retried EXCEPT ![p] = FALSE] /\ pc' = [pc EXCEPT ![p] = "MESSAGE"]
        /\ Request("MESSAGE", FALSE) \in Requests
    BY <1>11, AskedOne DEF Methods
  <2>2. Len(out'[p]) = o + 1 /\ \A q \in Presses \ {p} : out'[q] = out[q]
    <3>1. Types /\ Len(out[p]) = o
      BY <1>2, <1>4
    <3>. QED
      BY <2>1, <3>1, RoomSent
  <2>3. o = 0
    BY <1>7, <1>11
  <2>4. PICK k \in Nat : k = 1 /\ k = Len(out'[p])
    BY <2>2, <2>3
  <2>5. Len(out'[p]) = k /\ k \in {1, 2} /\ (k = 2 => f.code = 200)
    BY <2>4
  <2>. QED
    BY <1>10, <2>1, <2>2, <2>5
<1>12. CASE f.code = 200 /\ Ask(p, <<"ACK", "MESSAGE">>)
  <2>. DEFINE a == Request("ACK", FALSE)
              e == Request("MESSAGE", FALSE)
  <2>1. /\ out' = [out EXCEPT ![p] = out[p] \o <<a, e>>]
        /\ retried' = [retried EXCEPT ![p] = FALSE] /\ pc' = [pc EXCEPT ![p] = "MESSAGE"]
        /\ a \in Requests /\ a.method = "ACK" /\ e \in Requests
    <3>1. Ask(p, <<"ACK", "MESSAGE">>)
      BY <1>12
    <3>. QED
      BY <3>1, AskedWithAck, Zenon
  <2>. HIDE DEF a, e
  <2>2. Final(f)
    BY <1>12 DEF Final
  <2>3. out[p] = <<>>
    BY <1>6, <1>7, <2>2
  <2>4. out[p] \o <<a, e>> = <<a, e>>
    BY <2>3
  <2>5. out'[p] = <<a, e>> /\ \A q \in Presses \ {p} : out'[q] = out[q]
    BY <1>2, <2>1, <2>4 DEF Types
  <2>6. PICK k \in Nat : k = 2 /\ k = Len(out'[p])
    BY <2>5
  <2>7. Len(out'[p]) = k /\ k \in {1, 2} /\ (k = 2 => f.code = 200)
    BY <1>12, <2>6
  <2>. QED
    BY <1>10, <2>1, <2>5, <2>7
<1>13. CASE Finish(p)
  <2>1. pc' = [pc EXCEPT ![p] = "done"] /\ UNCHANGED <<out, retried>>
    BY <1>13 DEF Finish, Goto
  <2>2. pc'[p] = "done" /\ Len(out'[p]) = o /\ o <= 3 /\ i <= 4 + r
    <3>1. o <= 3 /\ i <= 4 + r
      BY <1>3, <1>6
    <3>. QED
      BY <1>2, <1>4, <2>1, <3>1 DEF Types
  <2>3. RoomOK(p)'
    BY <1>3, <1>5, <2>2, RoomHolds
  <2>4. \A q \in Presses \ {p} : /\ pc'[q] = pc[q] /\ retried'[q] = retried[q]
                                  /\ call'[q] = call[q] /\ out'[q] = out[q] /\ in'[q] = in[q]
    BY <1>2, <2>1 DEF Types
  <2>. QED
    BY <1>2, <1>5, <2>3, <2>4, RoomElsewhere
<1>. QED
  BY <1>8, <1>9, <1>11, <1>12, <1>13 DEF ReadInvite, f

\* What the finally of a route sends has its room: two frames or requests less
\* than there may be (_unlock_via_invite).
LEMMA RoomTeardown ==
  ASSUME UnlockInv, RoomInv, NEW p \in Presses, pc[p] = "MESSAGE", Teardown(p),
         UNCHANGED <<call, rings>>, \A q \in Presses \ {p} : in'[q] = in[q],
         NEW i \in Nat, NEW o \in Nat, NEW r \in Nat,
         Len(in'[p]) = i, Len(out[p]) = o, rings = r, o <= 2, i <= 4 + r,
         i + o + 1 <= 4 + r, call[p] = "rings" => i + o + 2 <= 4 + r,
         NoCode(in'[p], 487), ~early[p] => NoCode(in'[p], 401) \/ o = 0
  PROVE  RoomInv'
<1>1. Types /\ (~early[p] => call[p] # "rings") /\ rings' = r /\ call'[p] = call[p]
  BY DEF UnlockInv, ThreadOK, MessageOK
<1>2. CASE Finish(p)
  <2>1. pc' = [pc EXCEPT ![p] = "done"] /\ UNCHANGED <<out, retried>>
    BY <1>2 DEF Finish, Goto
  <2>2. pc'[p] = "done" /\ Len(out'[p]) = o /\ o <= 3
    BY <1>1, <2>1 DEF Types
  <2>3. RoomOK(p)'
    BY <1>1, <2>2, RoomHolds
  <2>4. \A q \in Presses \ {p} : /\ pc'[q] = pc[q] /\ retried'[q] = retried[q]
                                  /\ call'[q] = call[q] /\ out'[q] = out[q] /\ in'[q] = in[q]
    BY <1>1, <2>1 DEF Types
  <2>. QED
    BY <1>1, <2>3, <2>4, RoomElsewhere
<1>3. ASSUME NEW m \in {"CANCEL", "BYE"}, Ask(p, <<m>>), m = "BYE" <=> ~early[p]
      PROVE  RoomInv'
  <2>1. PICK e \in Requests :
          /\ out' = [out EXCEPT ![p] = out[p] \o <<e>>]
          /\ retried' = [retried EXCEPT ![p] = FALSE] /\ pc' = [pc EXCEPT ![p] = m]
    BY <1>3, AskedOne DEF Methods
  <2>2. Len(out'[p]) = o + 1 /\ \A q \in Presses \ {p} : out'[q] = out[q]
    BY <1>1, <2>1, RoomSent
  <2>3. PICK k \in Nat : k = o + 1 /\ Len(out'[p]) = k
    BY <2>2
  <2>4. pc'[p] = m
    BY <1>1, <2>1 DEF Types
  <2>5. k <= 3 /\ i + k <= 4 + r /\ (call[p] = "rings" => i + k + 1 <= 4 + r)
    BY <2>3
  <2>6. m = "BYE" => NoCode(in'[p], 401) \/ k <= 2
    BY <1>3, <2>3
  <2>7. EndOnce(in'[p])
    BY DEF NoCode, EndOnce
  <2>8. RoomOK(p)'
    BY <1>1, <1>3, <2>3, <2>4, <2>5, <2>6, <2>7, RoomHolds
  <2>9. \A q \in Presses \ {p} : /\ pc'[q] = pc[q] /\ retried'[q] = retried[q]
                                  /\ call'[q] = call[q] /\ out'[q] = out[q] /\ in'[q] = in[q]
    BY <1>1, <2>1, <2>2 DEF Types
  <2>. QED
    BY <1>1, <2>8, <2>9, RoomElsewhere
<1>4. early[p] \in BOOLEAN
  BY <1>1 DEF Types
<1>. QED
  BY <1>2, <1>3, <1>4 DEF Teardown

\* A MESSAGE that is answered is followed by what ends the call, or sent once
\* more when nothing else is on its way (_send_plain_message).
LEMMA RoomMessage ==
  ASSUME UnlockInv, RoomInv, NEW p \in Presses, ReadMessage(p)
  PROVE  RoomInv'
<1>. DEFINE f == Head(in[p])
<1>1. Reads(p, "MESSAGE")
  BY DEF ReadMessage
<1>2. /\ Types /\ ThreadOK(p) /\ pc[p] = "MESSAGE" /\ in[p] # <<>>
      /\ Len(in[p]) \in Nat \ {0} /\ Len(in'[p]) = Len(in[p]) - 1
      /\ UNCHANGED <<call, rings>> /\ \A q \in Presses \ {p} : in'[q] = in[q]
      /\ \A c \in Codes : NoCode(in[p], c) => NoCode(in'[p], c) /\ f.code # c
  BY <1>1, RoomRead
<1>3. PICK i \in Nat, j \in Nat : i = Len(in'[p]) /\ j = Len(in[p]) /\ j = i + 1
  BY <1>2
<1>4. PICK o \in Nat : o = Len(out[p])
  BY <1>2, RoomCounts
<1>5. PICK r \in Nat : r = rings /\ r = rings'
  BY <1>2, RoomCounts
<1>6. /\ o <= 2 /\ j + o <= 4 + r /\ (call[p] = "rings" => j + o + 1 <= 4 + r)
      /\ (out[p] = <<>> <=> o = 0)
  BY <1>2, <1>3, <1>4, <1>5, RoomNumbers
<1>7. /\ NoCode(in'[p], 487)
      /\ f.code = 401 /\ ~retried[p] => o = 0
      /\ ~early[p] => NoCode(in'[p], 401) \/ o = 0
  <2>1. /\ MessageOK(p) /\ NotCancelled(p) /\ {401, 487} \subseteq Codes
        /\ NoFinal(in[p]) => NoFinal(in'[p])
    BY <1>1, <1>2, FrameTaken DEF ThreadOK, Codes
  <2>2. NoFinal(in'[p]) => NoCode(in'[p], 401)
    BY DEF NoFinal, NoCode, Final
  <2>. HIDE DEF f
  <2>3. NoCode(in'[p], 487)
    BY <1>2, <2>1 DEF NotCancelled
  <2>4. f.code = 401 /\ ~retried[p] => o = 0
    BY <1>2, <1>6, <2>1 DEF MessageOK
  <2>5. ~early[p] => NoCode(in'[p], 401) \/ o = 0
    BY <1>2, <1>6, <2>1, <2>2 DEF MessageOK
  <2>. QED
    BY <2>3, <2>4, <2>5
<1>. HIDE DEF f
<1>8. CASE UNCHANGED <<pc, retried, out>>
  <2>1. Len(out'[p]) = o /\ pc'[p] = "MESSAGE" /\ call'[p] = call[p]
    BY <1>2, <1>4, <1>8
  <2>2. /\ o <= 2 /\ o <= 3 /\ i <= 4 + r /\ i + o <= 4 + r
        /\ (call[p] = "rings" => i + o + 1 <= 4 + r)
    BY <1>3, <1>6
  <2>3. RoomOK(p)'
    BY <1>3, <1>5, <2>1, <2>2, RoomHolds
  <2>4. \A q \in Presses \ {p} : /\ pc'[q] = pc[q] /\ retried'[q] = retried[q]
                                  /\ call'[q] = call[q] /\ out'[q] = out[q] /\ in'[q] = in[q]
    BY <1>2, <1>8 DEF Types
  <2>. QED
    BY <1>2, <1>5, <2>3, <2>4, RoomElsewhere
<1>9. CASE Challenged(p, f) /\ Again(p)
  <2>. DEFINE e == Request("MESSAGE", TRUE)
  <2>1. f.code = 401 /\ ~retried[p] /\ e \in Requests
    BY <1>9 DEF Challenged, Request, Requests, Methods
  <2>2. /\ out' = [out EXCEPT ![p] = out[p] \o <<e>>]
        /\ retried' = [retried EXCEPT ![p] = TRUE] /\ UNCHANGED pc
    BY <1>2, <1>9 DEF Again, Send
  <2>. HIDE DEF e
  <2>3. Len(out'[p]) = o + 1 /\ \A q \in Presses \ {p} : out'[q] = out[q]
    <3>1. Types /\ Len(out[p]) = o
      BY <1>2, <1>4
    <3>2. e \in Requests /\ out' = [out EXCEPT ![p] = out[p] \o <<e>>]
      BY <2>1, <2>2
    <3>. QED
      BY <3>1, <3>2, RoomSent
  <2>4. o = 0
    BY <1>7, <2>1
  <2>5. PICK k \in Nat : k = 1 /\ k = Len(out'[p])
    BY <2>3, <2>4
  <2>6. pc'[p] = "MESSAGE" /\ call'[p] = call[p]
    BY <1>2, <2>2
  <2>7. /\ k <= 2 /\ k <= 3 /\ i <= 4 + r /\ i + k <= 4 + r
        /\ (call[p] = "rings" => i + k + 1 <= 4 + r)
    BY <1>3, <1>6, <2>4, <2>5
  <2>8. RoomOK(p)'
    BY <1>3, <1>5, <2>5, <2>6, <2>7, RoomHolds
  <2>9. \A q \in Presses \ {p} : /\ pc'[q] = pc[q] /\ retried'[q] = retried[q]
                                  /\ call'[q] = call[q] /\ out'[q] = out[q] /\ in'[q] = in[q]
    BY <1>2, <2>2, <2>3 DEF Types
  <2>. QED
    BY <1>2, <1>5, <2>8, <2>9, RoomElsewhere
<1>10. CASE Teardown(p)
  <2>1. i <= 4 + r /\ i + o + 1 <= 4 + r /\ (call[p] = "rings" => i + o + 2 <= 4 + r)
    BY <1>3, <1>6
  <2>. QED
    BY <1>2, <1>3, <1>4, <1>5, <1>6, <1>7, <1>10, <2>1, RoomTeardown
<1>. QED
  BY <1>8, <1>9, <1>10 DEF ReadMessage, Repeats, f

\* A BYE that is challenged is sent once more (_send_bye).
LEMMA RoomBye ==
  ASSUME UnlockInv, RoomInv, NEW p \in Presses, ReadBye(p)
  PROVE  RoomInv'
<1>. DEFINE f == Head(in[p])
<1>1. Reads(p, "BYE")
  BY DEF ReadBye
<1>2. /\ Types /\ ThreadOK(p) /\ pc[p] = "BYE" /\ in[p] # <<>>
      /\ Len(in[p]) \in Nat \ {0} /\ Len(in'[p]) = Len(in[p]) - 1
      /\ UNCHANGED <<call, rings>> /\ \A q \in Presses \ {p} : in'[q] = in[q]
      /\ \A c \in Codes : NoCode(in[p], c) => NoCode(in'[p], c) /\ f.code # c
  BY <1>1, RoomRead
<1>3. PICK i \in Nat, j \in Nat : i = Len(in'[p]) /\ j = Len(in[p]) /\ j = i + 1
  BY <1>2
<1>4. PICK o \in Nat : o = Len(out[p])
  BY <1>2, RoomCounts
<1>5. PICK r \in Nat : r = rings /\ r = rings'
  BY <1>2, RoomCounts
<1>6. o <= 3 /\ j + o <= 4 + r /\ (retried[p] \/ NoCode(in[p], 401) \/ o <= 2)
  <2>1. Types /\ pc[p] = "BYE" /\ Len(in[p]) = j /\ Len(out[p]) = o /\ rings = r
    BY <1>2, <1>3, <1>4, <1>5
  <2>. QED
    BY <2>1, RoomNumbers
<1>7. /\ call'[p] # "rings" /\ 401 \in Codes
      /\ NoCode(in[p], 401) => NoCode(in'[p], 401) /\ f.code # 401
  BY <1>2 DEF ThreadOK, ByeOK, Codes
<1>. HIDE DEF f
<1>8. CASE UNCHANGED <<pc, retried, out>>
  <2>1. Len(out'[p]) = o /\ pc'[p] = "BYE" /\ retried'[p] = retried[p]
    BY <1>2, <1>4, <1>8
  <2>2. i <= 4 + r /\ i + o <= 4 + r /\ (retried[p] \/ NoCode(in'[p], 401) \/ o <= 2)
    BY <1>3, <1>6, <1>7
  <2>3. RoomOK(p)'
    BY <1>3, <1>5, <1>6, <1>7, <2>1, <2>2, RoomHolds
  <2>4. \A q \in Presses \ {p} : /\ pc'[q] = pc[q] /\ retried'[q] = retried[q]
                                  /\ call'[q] = call[q] /\ out'[q] = out[q] /\ in'[q] = in[q]
    BY <1>2, <1>8 DEF Types
  <2>. QED
    BY <1>2, <1>5, <2>3, <2>4, RoomElsewhere
<1>9. CASE Challenged(p, f) /\ Again(p)
  <2>. DEFINE e == Request("BYE", TRUE)
  <2>1. f.code = 401 /\ ~retried[p] /\ e \in Requests
    BY <1>9 DEF Challenged, Request, Requests, Methods
  <2>2. /\ out' = [out EXCEPT ![p] = out[p] \o <<e>>]
        /\ retried' = [retried EXCEPT ![p] = TRUE] /\ UNCHANGED pc
    BY <1>2, <1>9 DEF Again, Send
  <2>. HIDE DEF e
  <2>3. Len(out'[p]) = o + 1 /\ \A q \in Presses \ {p} : out'[q] = out[q]
    <3>1. Types /\ Len(out[p]) = o
      BY <1>2, <1>4
    <3>2. e \in Requests /\ out' = [out EXCEPT ![p] = out[p] \o <<e>>]
      BY <2>1, <2>2
    <3>. QED
      BY <3>1, <3>2, RoomSent
  <2>4. o <= 2
    BY <1>6, <1>7, <2>1
  <2>5. PICK k \in Nat : k = o + 1 /\ k = Len(out'[p])
    BY <2>3
  <2>6. pc'[p] = "BYE" /\ retried'[p]
    BY <1>2, <2>2 DEF Types
  <2>7. k <= 3 /\ i <= 4 + r /\ i + k <= 4 + r
    <3>1. j = i + 1 /\ k = o + 1 /\ j + o <= 4 + r
      BY <1>3, <1>6, <2>5
    <3>. QED
      BY <2>4, <3>1
  <2>8. RoomOK(p)'
    BY <1>3, <1>5, <1>7, <2>5, <2>6, <2>7, RoomHolds
  <2>9. \A q \in Presses \ {p} : /\ pc'[q] = pc[q] /\ retried'[q] = retried[q]
                                  /\ call'[q] = call[q] /\ out'[q] = out[q] /\ in'[q] = in[q]
    BY <1>2, <2>2, <2>3 DEF Types
  <2>. QED
    BY <1>2, <1>5, <2>8, <2>9, RoomElsewhere
<1>10. CASE Finish(p)
  <2>1. pc' = [pc EXCEPT ![p] = "done"] /\ UNCHANGED <<out, retried>>
    BY <1>10 DEF Finish, Goto
  <2>2. pc'[p] = "done" /\ Len(out'[p]) = o
    BY <1>2, <1>4, <2>1 DEF Types
  <2>3. i <= 4 + r
    BY <1>3, <1>6
  <2>4. RoomOK(p)'
    BY <1>3, <1>5, <1>6, <2>2, <2>3, RoomHolds
  <2>5. \A q \in Presses \ {p} : /\ pc'[q] = pc[q] /\ retried'[q] = retried[q]
                                  /\ call'[q] = call[q] /\ out'[q] = out[q] /\ in'[q] = in[q]
    BY <1>2, <2>1 DEF Types
  <2>. QED
    BY <1>2, <1>5, <2>4, <2>5, RoomElsewhere
<1>. QED
  BY <1>8, <1>9, <1>10 DEF ReadBye, f

\* The 487 is acknowledged, and comes once (_cancel_invite).
LEMMA RoomCancel ==
  ASSUME UnlockInv, RoomInv, NEW p \in Presses, ReadCancel(p)
  PROVE  RoomInv'
<1>. DEFINE f == Head(in[p])
<1>1. Reads(p, "CANCEL")
  BY DEF ReadCancel
<1>2. /\ Types /\ pc[p] = "CANCEL" /\ in[p] # <<>>
      /\ Len(in[p]) \in Nat \ {0} /\ Len(in'[p]) = Len(in[p]) - 1
      /\ UNCHANGED <<call, rings>> /\ \A q \in Presses \ {p} : in'[q] = in[q]
      /\ \A c \in Codes : NoCode(in[p], c) => NoCode(in'[p], c) /\ f.code # c
      /\ EndOnce(in[p]) => EndOnce(in'[p])
      /\ EndOnce(in[p]) /\ f.code = 487 => NoCode(in'[p], 487)
  BY <1>1, RoomRead
<1>3. PICK i \in Nat, j \in Nat : i = Len(in'[p]) /\ j = Len(in[p]) /\ j = i + 1
  BY <1>2
<1>4. PICK o \in Nat : o = Len(out[p])
  BY <1>2, RoomCounts
<1>5. PICK r \in Nat : r = rings /\ r = rings'
  BY <1>2, RoomCounts
<1>6. /\ o <= 3 /\ j + o <= 4 + r /\ (call[p] = "rings" => j + o + 1 <= 4 + r)
      /\ EndOnce(in[p]) /\ (NoCode(in[p], 487) \/ o <= 2)
  BY <1>2, <1>3, <1>4, <1>5, RoomNumbers
<1>7. /\ EndOnce(in'[p]) /\ (NoCode(in[p], 487) => NoCode(in'[p], 487) /\ f.code # 487)
      /\ f.code = 487 => NoCode(in'[p], 487) /\ o <= 2
  <2>. HIDE DEF f
  <2>1. 487 \in Codes
    BY DEF Codes
  <2>. QED
    BY <1>2, <1>6, <2>1
<1>. HIDE DEF f
<1>8. PICK k \in Nat :
        /\ Len(out'[p]) = k /\ \A q \in Presses \ {p} : out'[q] = out[q]
        /\ (k = o /\ f.code # 487) \/ (k = o + 1 /\ f.code = 487)
  <2>1. CASE f.code = 487
    <3>. DEFINE e == Request("ACK", FALSE)
    <3>1. e \in Requests
      BY DEF Request, Requests, Methods
    <3>2. out' = [out EXCEPT ![p] = out[p] \o <<e>>]
      BY <2>1 DEF ReadCancel, f
    <3>. HIDE DEF e
    <3>3. Types /\ Len(out[p]) = o
      BY <1>2, <1>4
    <3>4. Len(out'[p]) = o + 1 /\ \A q \in Presses \ {p} : out'[q] = out[q]
      BY <3>1, <3>2, <3>3, RoomSent
    <3>. QED
      BY <2>1, <3>4
  <2>2. CASE f.code # 487
    <3>1. out' = [out EXCEPT ![p] = out[p] \o <<>>]
      BY <2>2 DEF ReadCancel, f
    <3>2. out[p] \o <<>> = out[p]
      <4>1. out[p] \in Seq(Requests)
        BY <1>2 DEF Types
      <4>. QED
        BY <4>1
    <3>3. out' = out
      BY <1>2, <3>1, <3>2 DEF Types
    <3>. QED
      BY <1>4, <2>2, <3>3
  <2>. QED
    BY <2>1, <2>2
<1>9. pc'[p] \in {"CANCEL", "done"} /\ \A q \in Presses \ {p} : pc'[q] = pc[q]
  BY <1>2 DEF ReadCancel, Goto, Types
<1>10. /\ k <= 3 /\ i <= 4 + r /\ i + k <= 4 + r /\ (call[p] = "rings" => i + k + 1 <= 4 + r)
       /\ NoCode(in'[p], 487) \/ k <= 2
  <2>1. j = i + 1 /\ o <= 3 /\ j + o <= 4 + r /\ (call[p] = "rings" => j + o + 1 <= 4 + r)
    BY <1>3, <1>6
  <2>2. CASE k = o /\ f.code # 487
    BY <1>6, <1>7, <2>2, <2>1
  <2>3. CASE k = o + 1 /\ f.code = 487
    BY <1>7, <2>3, <2>1
  <2>. QED
    BY <1>8, <2>2, <2>3
<1>11. RoomOK(p)'
  <2>1. call'[p] = call[p] /\ Len(out'[p]) = k
    BY <1>2, <1>8
  <2>. QED
    BY <1>3, <1>5, <1>7, <1>9, <1>10, <2>1, RoomHolds
<1>12. \A q \in Presses \ {p} : retried'[q] = retried[q]
  BY <1>2 DEF ReadCancel, Types
<1>. QED
  BY <1>2, <1>5, <1>8, <1>9, <1>11, <1>12, RoomElsewhere

\* Nothing comes any more (TimeoutError, OSError).
LEMMA RoomCut ==
  ASSUME UnlockInv, RoomInv, NEW p \in Presses, TimesOut(p) \/ Breaks(p)
  PROVE  RoomInv'
<1>1. Types /\ in[p] = <<>> /\ UNCHANGED <<in, call, rings>> /\ Len(in'[p]) = 0
  BY DEF UnlockInv, TimesOut, Breaks, gateway
<1>2. PICK o \in Nat : o = Len(out[p])
  BY <1>1, RoomCounts
<1>3. PICK r \in Nat : r = rings
  BY <1>1, RoomCounts
<1>4. o <= 3 /\ (pc[p] = "MESSAGE" => o <= 2)
  <2>1. PICK i \in Nat : i = Len(in[p])
    BY <1>1
  <2>. QED
    BY <1>1, <1>2, <1>3, <2>1, RoomNumbers
<1>5. CASE Finish(p)
  <2>1. pc' = [pc EXCEPT ![p] = "done"] /\ UNCHANGED <<out, retried>>
    BY <1>5 DEF Finish, Goto
  <2>2. pc'[p] = "done" /\ Len(out'[p]) = o /\ rings' = r
    BY <1>1, <1>2, <1>3, <2>1 DEF Types
  <2>3. PICK i \in Nat : i = 0 /\ Len(in'[p]) = i /\ i <= 4 + r
    BY <1>1
  <2>4. RoomOK(p)'
    BY <1>4, <2>2, <2>3, RoomHolds
  <2>5. \A q \in Presses \ {p} : /\ pc'[q] = pc[q] /\ retried'[q] = retried[q]
                                  /\ call'[q] = call[q] /\ out'[q] = out[q] /\ in'[q] = in[q]
    BY <1>1, <2>1 DEF Types
  <2>. QED
    BY <1>1, <2>4, <2>5, RoomElsewhere
<1>6. CASE pc[p] = "MESSAGE" /\ Teardown(p)
  <2>1. PICK i \in Nat : i = 0 /\ Len(in'[p]) = i
    BY <1>1
  <2>2. NoCode(in'[p], 487) /\ NoCode(in'[p], 401)
    BY <2>1 DEF NoCode
  <2>3. o <= 2 /\ i <= 4 + r /\ i + o + 1 <= 4 + r /\ i + o + 2 <= 4 + r
    BY <1>4, <1>6, <2>1
  <2>. QED
    BY <1>1, <1>2, <1>3, <1>6, <2>1, <2>2, <2>3, RoomTeardown
<1>. QED
  BY <1>5, <1>6 DEF TimesOut, Breaks

\* How many frames there are when one more has come, or two.
LEMMA RoomSaid ==
  ASSUME Types, NEW p \in Presses, NEW j \in Nat, Len(in[p]) = j, pc[p] # "done"
  PROVE  /\ \A f \in Frames : Says(p, f) =>
              /\ in'[p] = in[p] \o <<f>> /\ Len(in'[p]) = j + 1
              /\ \A q \in Presses \ {p} : in'[q] = in[q]
         /\ \A f, g \in Frames : SaysTwo(p, f, g) =>
              /\ in'[p] = (in[p] \o <<f>>) \o <<g>> /\ Len(in'[p]) = j + 2
              /\ \A q \in Presses \ {p} : in'[q] = in[q]
<1>1. in[p] \in Seq(Frames) /\ in \in [Presses -> Seq(Frames)]
  BY DEF Types
<1>2. ASSUME NEW f \in Frames, Says(p, f)
      PROVE  /\ in'[p] = in[p] \o <<f>> /\ Len(in'[p]) = j + 1
             /\ \A q \in Presses \ {p} : in'[q] = in[q]
  <2>1. in' = [in EXCEPT ![p] = in[p] \o <<f>>]
    BY <1>2 DEF Says
  <2>2. Len(in[p] \o <<f>>) = j + 1
    BY <1>1, EndCame
  <2>. QED
    BY <1>1, <2>1, <2>2
<1>3. ASSUME NEW f \in Frames, NEW g \in Frames, SaysTwo(p, f, g)
      PROVE  /\ in'[p] = (in[p] \o <<f>>) \o <<g>> /\ Len(in'[p]) = j + 2
             /\ \A q \in Presses \ {p} : in'[q] = in[q]
  <2>1. in' = [in EXCEPT ![p] = (in[p] \o <<f>>) \o <<g>>]
    BY <1>3 DEF SaysTwo
  <2>2. in[p] \o <<f>> \in Seq(Frames) /\ Len(in[p] \o <<f>>) = j + 1
    BY <1>1, EndCame
  <2>3. PICK s \in Seq(Frames) : s = in[p] \o <<f>> /\ Len(s) = j + 1
    BY <2>2
  <2>4. Len(s \o <<g>>) = j + 1 + 1
    BY <2>3, EndCame
  <2>5. Len((in[p] \o <<f>>) \o <<g>>) = j + 2
    BY <2>3, <2>4
  <2>. QED
    BY <1>1, <2>1, <2>5
<1>. QED
  BY <1>2, <1>3

\* The station's picture and its answer are the two frames that come of an
\* INVITE besides the 100; a visitor's ring makes the room it takes.
LEMMA RoomStation ==
  ASSUME UnlockInv, RoomInv, NEW p \in Presses, Progress(p) \/ Answer(p) \/ Ring(p)
  PROVE  RoomInv'
<1>1. /\ Types /\ ThreadOK(p) /\ UNCHANGED <<pc, retried, out>>
      /\ in[p] \in Seq(Frames) /\ in \in [Presses -> Seq(Frames)]
  BY DEF UnlockInv, Types, Progress, Answer, Ring, client
<1>2. PICK j \in Nat : j = Len(in[p])
  BY <1>1, RoomCounts
<1>3. PICK o \in Nat : o = Len(out[p])
  BY <1>1, RoomCounts
<1>4. PICK r \in Nat : r = rings
  BY <1>1, RoomCounts
<1>5. /\ pc[p] = "REGISTER" => o <= 1 /\ j + o <= 1 + r
      /\ pc[p] = "INVITE" =>
           /\ o <= 1 /\ (o # 0 => j <= r)
           /\ (j # 0 /\ Head(in[p]).code = 401 /\ ~retried[p] => j <= 1 + r)
           /\ (call[p] \in {"none", "rings"} => j <= 2 + r)
           /\ (call[p] = "rings" /\ NoPicture(in[p]) => j <= 1 + r)
           /\ (call[p] = "up" => j <= 3 + r)
      /\ pc[p] = "MESSAGE" => o <= 2
      /\ pc[p] \in {"MESSAGE", "BYE", "CANCEL"} =>
           j + o <= 4 + r /\ (call[p] = "rings" => j + o + 1 <= 4 + r)
      /\ pc[p] = "BYE" => retried[p] \/ NoCode(in[p], 401) \/ o <= 2
      /\ pc[p] = "CANCEL" => EndOnce(in[p]) /\ (NoCode(in[p], 487) \/ o <= 2)
      /\ o <= 3 /\ j <= 4 + r /\ (out[p] = <<>> <=> o = 0) /\ (in[p] = <<>> <=> j = 0)
  BY <1>1, <1>2, <1>3, <1>4, RoomNumbers
<1>6. /\ pc[p] = "REGISTER" => call[p] = "none"
      /\ pc[p] = "INVITE" /\ call[p] = "rings" => out[p] = <<>> /\ NoFinal(in[p])
      /\ pc[p] = "BYE" => call[p] # "rings"
      /\ pc[p] \in Phases /\ call[p] \in {"none", "rings", "up"}
  BY <1>1 DEF ThreadOK, BeforeCall, InviteOK, ByeOK, Types
<1>7. pc[p] = "idle" => call[p] = "none"
  BY <1>1 DEF ThreadOK, BeforeCall
<1>8. in[p] # <<>> /\ NoFinal(in[p]) => Head(in[p]).code # 401
  BY <1>1, FrameRead DEF Final
<1>9. \A c \in {0, 183, 200} : Frame("INVITE", c) \in Frames /\ Frame("INVITE", c).code = c
  BY DEF Frame, Frames, Methods, Codes
<1>10. ASSUME NEW f \in Frames, pc[p] # "done", Replies(p, <<f>>)
       PROVE  /\ Len(in'[p]) = j + 1 /\ in'[p] # <<>>
              /\ Head(in'[p]) = IF in[p] = <<>> THEN f ELSE Head(in[p])
              /\ f.code # 487 /\ EndOnce(in[p]) => EndOnce(in'[p])
              /\ f.code # 487 /\ NoCode(in[p], 487) => NoCode(in'[p], 487)
              /\ f.code # 401 /\ NoCode(in[p], 401) => NoCode(in'[p], 401)
              /\ NoPicture(in'[p]) => NoPicture(in[p]) /\ f # Frame("INVITE", 183)
              /\ \A q \in Presses \ {p} : in'[q] = in[q]
  <2>1. in'[p] = in[p] \o <<f>> /\ \A q \in Presses \ {p} : in'[q] = in[q]
    <3>1. in' = [in EXCEPT ![p] = in[p] \o <<f>>]
      BY <1>10 DEF Replies
    <3>. QED
      BY <1>1, <3>1
  <2>. DEFINE s == in[p] \o <<f>>
  <2>2. /\ Len(s) = j + 1 /\ s # <<>> /\ Head(s) = IF in[p] = <<>> THEN f ELSE Head(in[p])
        /\ f.code # 487 /\ EndOnce(in[p]) => EndOnce(s)
        /\ NoPicture(s) => NoPicture(in[p]) /\ f # Frame("INVITE", 183)
    BY <1>1, <1>2, EndCame
  <2>3. /\ f.code # 487 /\ NoCode(in[p], 487) => NoCode(s, 487)
        /\ f.code # 401 /\ NoCode(in[p], 401) => NoCode(s, 401)
    BY <1>1, FrameCame DEF Codes
  <2>4. in'[p] = s
    BY <2>1
  <2>. HIDE DEF s
  <2>5. /\ Len(in'[p]) = j + 1 /\ in'[p] # <<>>
        /\ Head(in'[p]) = IF in[p] = <<>> THEN f ELSE Head(in[p])
    BY <2>2, <2>4, Zenon
  <2>6. /\ f.code # 487 /\ EndOnce(in[p]) => EndOnce(in'[p])
        /\ NoPicture(in'[p]) => NoPicture(in[p]) /\ f # Frame("INVITE", 183)
    <3>1. /\ f.code # 487 /\ EndOnce(in[p]) => EndOnce(s)
          /\ NoPicture(s) => NoPicture(in[p]) /\ f # Frame("INVITE", 183)
      BY <2>2
    <3>. QED
      BY <2>4, <3>1
  <2>7. /\ f.code # 487 /\ NoCode(in[p], 487) => NoCode(in'[p], 487)
        /\ f.code # 401 /\ NoCode(in[p], 401) => NoCode(in'[p], 401)
    BY <2>3, <2>4
  <2>. QED
    BY <2>1, <2>5, <2>6, <2>7, Zenon
<1>11. PICK i \in Nat : i = j + 1
  OBVIOUS
<1>12. CASE Progress(p)
  <2>. DEFINE f == Frame("INVITE", 183)
  <2>1. /\ pc[p] = "INVITE" /\ call[p] = "rings" /\ UNCHANGED <<call, rings>>
        /\ Replies(p, <<f>>) /\ f \notin ToSet(in[p]) /\ f \in Frames /\ f.code = 183
    BY <1>9, <1>12 DEF Progress, gateway
  <2>2. NoPicture(in[p])
    <3>1. DOMAIN in[p] = 1..Len(in[p])
      BY <1>1
    <3>. QED
      BY <2>1, <3>1 DEF NoPicture, ToSet
  <2>3. o = 0 /\ j <= 1 + r /\ NoFinal(in[p])
    BY <1>5, <1>6, <2>1, <2>2
  <2>4. /\ Len(in'[p]) = i /\ Head(in'[p]).code # 401 /\ ~NoPicture(in'[p])
        /\ \A q \in Presses \ {p} : in'[q] = in[q]
    <3>1. /\ Len(in'[p]) = j + 1 /\ Head(in'[p]) = IF in[p] = <<>> THEN f ELSE Head(in[p])
          /\ NoPicture(in'[p]) => f # Frame("INVITE", 183)
          /\ \A q \in Presses \ {p} : in'[q] = in[q]
      BY <1>10, <2>1
    <3>2. ~NoPicture(in'[p])
      BY <3>1
    <3>. HIDE DEF f
    <3>. QED
      BY <1>8, <1>11, <2>1, <2>3, <3>1, <3>2
  <2>5. /\ pc'[p] = "INVITE" /\ call'[p] = "rings" /\ rings' = r
        /\ Len(out'[p]) = o /\ out'[p] = <<>> /\ o <= 1 /\ o <= 3
    BY <1>1, <1>3, <1>4, <1>5, <2>1, <2>3
  <2>6. i <= 2 + r /\ i <= 4 + r
    BY <1>11, <2>3
  <2>7. RoomOK(p)'
    BY <2>4, <2>5, <2>6, RoomHolds
  <2>. QED
    BY <1>1, <2>1, <2>4, <2>7, RoomElsewhere
<1>13. CASE Answer(p)
  <2>. DEFINE f == Frame("INVITE", 200)
  <2>1. /\ call[p] = "rings" /\ call' = [call EXCEPT ![p] = "up"] /\ UNCHANGED rings
        /\ Replies(p, <<f>>) /\ f \in Frames /\ f.code = 200
    BY <1>9, <1>13 DEF Answer
  <2>. HIDE DEF f
  <2>2. /\ call'[p] = "up" /\ \A q \in Presses \ {p} : call'[q] = call[q]
    BY <1>1, <2>1 DEF Types
  <2>3. pc[p] \in {"INVITE", "MESSAGE", "CANCEL", "done"}
    <3>1. call[p] = "rings"
      BY <2>1
    <3>2. pc[p] \notin {"idle", "REGISTER", "BYE"} /\ pc[p] \in Phases
      BY <1>6, <1>7, <3>1
    <3>. QED
      BY <3>2 DEF Phases
  <2>4. /\ pc'[p] = pc[p] /\ retried'[p] = retried[p] /\ out'[p] = out[p]
        /\ Len(out'[p]) = o /\ rings' = r
    BY <1>1, <1>3, <1>4, <2>1
  <2>5. CASE pc[p] = "done"
    <3>1. in' = in
      BY <1>1, <2>1, <2>5 DEF Replies
    <3>2. Len(in'[p]) = j /\ \A q \in Presses \ {p} : in'[q] = in[q]
      BY <1>2, <3>1
    <3>3. RoomOK(p)'
      BY <1>5, <2>4, <2>5, <3>2, RoomHolds
    <3>. QED
      BY <1>1, <2>1, <2>2, <3>2, <3>3, RoomElsewhere
  <2>6. CASE pc[p] \in {"INVITE", "MESSAGE", "CANCEL"}
    <3>1. /\ Len(in'[p]) = i /\ Head(in'[p]) = IF in[p] = <<>> THEN f ELSE Head(in[p])
          /\ EndOnce(in[p]) => EndOnce(in'[p])
          /\ NoCode(in[p], 487) => NoCode(in'[p], 487)
          /\ \A q \in Presses \ {p} : in'[q] = in[q]
      BY <1>10, <1>11, <2>1, <2>6
    <3>2. pc[p] = "INVITE" => out'[p] = <<>> /\ Head(in'[p]).code # 401 /\ o <= 1
      BY <1>5, <1>6, <1>8, <2>1, <2>4, <3>1
    <3>3. /\ pc[p] = "INVITE" => i <= 3 + r
          /\ pc[p] \in {"MESSAGE", "CANCEL"} => i + o <= 4 + r
          /\ i <= 4 + r
      BY <1>5, <1>11, <2>1, <2>6
    <3>4. pc[p] = "CANCEL" => EndOnce(in'[p]) /\ (NoCode(in'[p], 487) \/ o <= 2)
      BY <1>5, <3>1
    <3>5. (pc[p] = "MESSAGE" => o <= 2) /\ o <= 3
      BY <1>5
    <3>6. RoomOK(p)'
      BY <2>2, <2>4, <2>6, <3>1, <3>2, <3>3, <3>4, <3>5, RoomHolds
    <3>. QED
      BY <1>1, <2>1, <2>2, <3>1, <3>6, RoomElsewhere
  <2>. QED
    BY <2>3, <2>5, <2>6
<1>14. CASE Ring(p)
  <2>. DEFINE f == Frame("INVITE", 0)
  <2>1. /\ pc[p] \notin {"idle", "done"} /\ rings' = rings + 1 /\ UNCHANGED call
        /\ Replies(p, <<f>>) /\ f \in Frames /\ f.code = 0
    BY <1>9, <1>14 DEF Ring, Waiting
  <2>. HIDE DEF f
  <2>2. /\ Len(in'[p]) = i /\ Head(in'[p]) = IF in[p] = <<>> THEN f ELSE Head(in[p])
        /\ EndOnce(in[p]) => EndOnce(in'[p])
        /\ NoCode(in[p], 487) => NoCode(in'[p], 487)
        /\ NoCode(in[p], 401) => NoCode(in'[p], 401)
        /\ NoPicture(in'[p]) => NoPicture(in[p])
        /\ \A q \in Presses \ {p} : in'[q] = in[q]
    BY <1>10, <1>11, <2>1
  <2>3. PICK t \in Nat : t = r + 1 /\ rings' = t
    BY <1>4, <2>1
  <2>4. /\ pc'[p] = pc[p] /\ retried'[p] = retried[p] /\ out'[p] = out[p]
        /\ Len(out'[p]) = o /\ call'[p] = call[p]
    BY <1>1, <1>3, <2>1
  <2>5. pc[p] = "INVITE" =>
          /\ o <= 1 /\ (out'[p] # <<>> => i <= t)
          /\ (Head(in'[p]).code = 401 /\ ~retried'[p] => i <= 1 + t)
          /\ (call'[p] \in {"none", "rings"} => i <= 2 + t)
          /\ (call'[p] = "rings" /\ NoPicture(in'[p]) => i <= 1 + t)
          /\ (call'[p] = "up" => i <= 3 + t)
    <3>1. Head(in'[p]).code = 401 => j # 0 /\ Head(in[p]).code = 401
      BY <1>5, <2>1, <2>2
    <3>. QED
      BY <1>5, <1>11, <2>2, <2>3, <2>4, <3>1
  <2>6. /\ pc[p] = "REGISTER" => o <= 1 /\ i + o <= 1 + t /\ call'[p] # "rings"
        /\ pc[p] = "MESSAGE" => o <= 2
        /\ pc[p] \in {"MESSAGE", "BYE", "CANCEL"} =>
             i + o <= 4 + t /\ (call'[p] = "rings" => i + o + 1 <= 4 + t)
        /\ o <= 3 /\ i <= 4 + t
    BY <1>5, <1>6, <1>11, <2>3, <2>4
  <2>7. /\ pc[p] = "BYE" => retried'[p] \/ NoCode(in'[p], 401) \/ o <= 2
        /\ pc[p] = "CANCEL" => EndOnce(in'[p]) /\ (NoCode(in'[p], 487) \/ o <= 2)
    BY <1>5, <2>2, <2>4
  <2>8. RoomOK(p)'
    BY <2>2, <2>3, <2>4, <2>5, <2>6, <2>7, RoomHolds
  <2>. QED
    BY <1>1, <2>1, <2>2, <2>8, RoomElsewhere
<1>. QED
  BY <1>12, <1>13, <1>14

\* The gateway answers a request with one frame, which takes its room; the
\* answers that are two, to an INVITE and to a CANCEL, have room for both.
LEMMA RoomServe ==
  ASSUME UnlockInv, RoomInv, NEW p \in Presses, Serve(p)
  PROVE  RoomInv'
<1>. DEFINE e == Head(out[p])
<1>1. /\ Types /\ ThreadOK(p) /\ out[p] # <<>> /\ out' = [out EXCEPT ![p] = Tail(out[p])]
      /\ UNCHANGED <<pc, retried, rings>> /\ Outcome(p, e)
      /\ out[p] \in Seq(Requests) /\ in[p] \in Seq(Frames)
  BY ServedHow DEF UnlockInv, Types
<1>2. PICK j \in Nat : j = Len(in[p])
  BY <1>1, RoomCounts
<1>3. PICK o \in Nat, k \in Nat : o = k + 1 /\ o = Len(out[p]) /\ k = Len(out'[p])
  <2>1. Len(out[p]) \in Nat \ {0} /\ Len(Tail(out[p])) = Len(out[p]) - 1
    BY <1>1, TailFacts
  <2>2. out'[p] = Tail(out[p])
    BY <1>1 DEF Types
  <2>3. PICK o \in Nat \ {0} : o = Len(out[p])
    BY <2>1
  <2>4. PICK k \in Nat : k = o - 1
    OBVIOUS
  <2>5. o = k + 1 /\ k = Len(out'[p])
    BY <2>1, <2>2, <2>3, <2>4
  <2>. QED
    BY <2>3, <2>5
<1>4. PICK r \in Nat : r = rings /\ r = rings'
  BY <1>1, RoomCounts
<1>5. /\ pc[p] = "REGISTER" => o <= 1 /\ j + o <= 1 + r
      /\ pc[p] = "INVITE" => o <= 1 /\ j <= r
      /\ pc[p] = "MESSAGE" => o <= 2
      /\ pc[p] \in {"MESSAGE", "BYE", "CANCEL"} =>
           j + o <= 4 + r /\ (call[p] = "rings" => j + o + 1 <= 4 + r)
      /\ pc[p] = "BYE" => retried[p] \/ NoCode(in[p], 401) \/ o <= 2
      /\ pc[p] = "CANCEL" => EndOnce(in[p])
      /\ o <= 3 /\ j <= 4 + r
  <2>1. /\ pc[p] = "INVITE" => o <= 1 /\ (o # 0 => j <= r)
        /\ pc[p] = "REGISTER" => o <= 1 /\ j + o <= 1 + r
        /\ pc[p] = "MESSAGE" => o <= 2
        /\ pc[p] \in {"MESSAGE", "BYE", "CANCEL"} =>
             j + o <= 4 + r /\ (call[p] = "rings" => j + o + 1 <= 4 + r)
        /\ pc[p] = "BYE" => retried[p] \/ NoCode(in[p], 401) \/ o <= 2
        /\ pc[p] = "CANCEL" => EndOnce(in[p])
        /\ o <= 3 /\ j <= 4 + r
    BY <1>1, <1>2, <1>3, <1>4, RoomNumbers
  <2>2. o # 0
    BY <1>3
  <2>. QED
    BY <2>1, <2>2
<1>6. /\ pc'[p] = pc[p] /\ retried'[p] = retried[p]
      /\ \A q \in Presses \ {p} : out'[q] = out[q] /\ pc'[q] = pc[q] /\ retried'[q] = retried[q]
      /\ e \in Requests /\ e.method \in Methods
  <2>1. e \in Requests
    BY <1>1, RequestTaken
  <2>. QED
    BY <1>1, <2>1 DEF Types, Requests
<1>7. /\ pc[p] \in Phases \ {"idle"} /\ call[p] \in {"none", "rings", "up"}
      /\ pc[p] = "REGISTER" => e.method \in {"ACK", "REGISTER"} /\ call[p] = "none"
      /\ pc[p] = "INVITE" =>
           e.method \in {"ACK", "INVITE"} /\ call[p] = "none" /\ NoFinal(in[p])
      /\ pc[p] = "MESSAGE" => e.method \in {"ACK", "MESSAGE"}
      /\ pc[p] = "BYE" => e.method \notin {"INVITE", "CANCEL"} /\ call[p] # "rings"
      /\ pc[p] = "CANCEL" => e.method # "INVITE" /\ (call[p] = "none" \/ NoCode(in[p], 487))
  <2>1. /\ \A m \in Methods : Alone(out[p], m) => e.method \in {"ACK", m}
        /\ \A m \in Methods : NoMethod(out[p], m) => e.method # m
    BY <1>1, RequestTaken
  <2>. HIDE DEF e
  <2>2. pc[p] \in Phases \ {"idle"} /\ call[p] \in {"none", "rings", "up"}
    BY <1>1 DEF ThreadOK, IdleOK, Types
  <2>3. pc[p] = "REGISTER" => e.method \in {"ACK", "REGISTER"} /\ call[p] = "none"
    BY <1>1, <2>1 DEF ThreadOK, RegisterOK, BeforeCall, Methods
  <2>4. pc[p] = "INVITE" =>
          e.method \in {"ACK", "INVITE"} /\ call[p] = "none" /\ NoFinal(in[p])
    BY <1>1, <2>1 DEF ThreadOK, InviteOK, Methods
  <2>5. pc[p] = "MESSAGE" => e.method \in {"ACK", "MESSAGE"}
    BY <1>1, <2>1 DEF ThreadOK, MessageOK, Methods
  <2>6. pc[p] = "BYE" => e.method \notin {"INVITE", "CANCEL"} /\ call[p] # "rings"
    BY <1>1, <2>1 DEF ThreadOK, ByeOK, Methods
  <2>7. pc[p] = "CANCEL" => e.method # "INVITE" /\ (call[p] = "none" \/ NoCode(in[p], 487))
    BY <1>1, <2>1 DEF ThreadOK, CancelOK, Methods
  <2>. QED
    BY <2>2, <2>3, <2>4, <2>5, <2>6, <2>7
<1>8. in[p] # <<>> /\ NoFinal(in[p]) => Head(in[p]).code # 401
  BY <1>1, FrameRead DEF Final
<1>. HIDE DEF e
<1>9. ASSUME pc[p] # "done"
      PROVE  /\ \A f \in Frames : Says(p, f) =>
                  /\ in'[p] = in[p] \o <<f>> /\ Len(in'[p]) = j + 1
                  /\ \A q \in Presses \ {p} : in'[q] = in[q]
             /\ \A f, g \in Frames : SaysTwo(p, f, g) =>
                  /\ in'[p] = (in[p] \o <<f>>) \o <<g>> /\ Len(in'[p]) = j + 2
                  /\ \A q \in Presses \ {p} : in'[q] = in[q]
  <2>1. Types /\ Len(in[p]) = j
    BY <1>1, <1>2
  <2>. QED
    BY <1>9, <2>1, RoomSaid
<1>10. ASSUME NEW i \in Nat, Len(in'[p]) = i, pc[p] # "INVITE", i <= 4 + r,
              pc[p] = "REGISTER" => i + k <= 1 + r,
              pc[p] \in {"MESSAGE", "BYE", "CANCEL"} =>
                i + k <= 4 + r /\ (call'[p] = "rings" => i + k + 1 <= 4 + r),
              pc[p] = "REGISTER" => call'[p] = "none", pc[p] = "CANCEL" => EndOnce(in'[p]),
              \A q \in Presses \ {p} : in'[q] = in[q] /\ call'[q] = call[q]
       PROVE  RoomInv'
  <2>1. k <= 2 /\ k <= 3 /\ (pc[p] = "REGISTER" => k <= 1)
    BY <1>3, <1>5
  <2>2. Len(out'[p]) = k /\ rings' = r /\ pc'[p] = pc[p]
    BY <1>3, <1>4, <1>6
  <2>3. RoomOK(p)'
    BY <1>10, <2>1, <2>2, RoomHolds
  <2>. QED
    BY <1>1, <1>6, <1>10, <2>3, RoomElsewhere
<1>11. ASSUME NEW i \in Nat, Len(in'[p]) = i, pc[p] = "INVITE", i <= 2 + r,
              Head(in'[p]).code = 401 => i <= 1 + r, call'[p] \in {"none", "rings"},
              call'[p] = "rings" => i <= 1 + r,
              \A q \in Presses \ {p} : in'[q] = in[q] /\ call'[q] = call[q]
       PROVE  RoomInv'
  <2>1. k = 0
    BY <1>3, <1>5, <1>11
  <2>2. out'[p] = <<>>
    <3>1. PICK s \in Seq(Requests) : s = out'[p]
      BY ServedDoor
    <3>2. Len(s) = 0
      BY <1>3, <2>1, <3>1
    <3>. QED
      BY <3>1, <3>2
  <2>3. Len(out'[p]) = k /\ rings' = r /\ pc'[p] = pc[p] /\ k <= 1 /\ k <= 3 /\ i <= 4 + r
    BY <1>3, <1>4, <1>6, <1>11, <2>1
  <2>4. RoomOK(p)'
    BY <1>11, <2>2, <2>3, RoomHolds
  <2>. QED
    BY <1>1, <1>6, <1>11, <2>4, RoomElsewhere
<1>12. CASE pc[p] = "done"
  <2>1. UNCHANGED in /\ \A q \in Presses \ {p} : call'[q] = call[q]
    <3>1. in \in [Presses -> Seq(Frames)] /\ call \in [Presses -> {"none", "rings", "up"}]
      BY <1>1 DEF Types
    <3>2. \A f \in Frames : Says(p, f) => UNCHANGED in
      BY <1>12, <3>1 DEF Says
    <3>3. \A f, g \in Frames : SaysTwo(p, f, g) => UNCHANGED in
      BY <1>12, <3>1 DEF SaysTwo
    <3>. QED
      BY <1>1, <3>1, <3>2, <3>3 DEF Outcome, Calls
  <2>2. Len(in'[p]) = j /\ j <= 4 + r /\ \A q \in Presses \ {p} : in'[q] = in[q]
    BY <1>2, <1>5, <2>1
  <2>. QED
    BY <1>10, <1>12, <2>1, <2>2
<1>13. CASE e.method = "ACK" /\ pc[p] # "done"
  <2>1. UNCHANGED <<in, call>>
    BY <1>1, <1>13 DEF Outcome, Refusal
  <2>2. /\ Len(in'[p]) = j /\ in'[p] = in[p] /\ call'[p] = call[p]
        /\ \A q \in Presses \ {p} : in'[q] = in[q] /\ call'[q] = call[q]
    BY <1>2, <2>1
  <2>3. CASE pc[p] = "INVITE"
    <3>1. /\ j <= 2 + r /\ (Head(in'[p]).code = 401 => j <= 1 + r)
          /\ call'[p] \in {"none", "rings"} /\ (call'[p] = "rings" => j <= 1 + r)
      BY <1>5, <1>7, <2>2, <2>3
    <3>. QED
      BY <1>11, <2>2, <2>3, <3>1
  <2>4. CASE pc[p] # "INVITE"
    <3>1. /\ pc[p] = "REGISTER" => j + k <= 1 + r
          /\ pc[p] \in {"MESSAGE", "BYE", "CANCEL"} =>
               j + k <= 4 + r /\ (call'[p] = "rings" => j + k + 1 <= 4 + r)
          /\ j <= 4 + r
      BY <1>3, <1>5, <2>2
    <3>2. /\ pc[p] = "REGISTER" => call'[p] = "none"
          /\ pc[p] = "CANCEL" => EndOnce(in'[p])
      BY <1>5, <1>7, <2>2
    <3>. QED
      BY <1>10, <2>2, <2>4, <3>1, <3>2
  <2>. QED
    BY <2>3, <2>4
<1>14. CASE e.method = "INVITE" /\ pc[p] = "INVITE"
  <2>1. /\ j <= r /\ NoFinal(in[p]) /\ call[p] = "none"
        /\ call \in [Presses -> {"none", "rings", "up"}]
    BY <1>1, <1>5, <1>7, <1>14 DEF Types
  <2>2. \A s \in Seq(Frames), f \in Frames :
          /\ s \o <<f>> \in Seq(Frames) /\ s \o <<f>> # <<>>
          /\ Head(s \o <<f>>) = IF s = <<>> THEN f ELSE Head(s)
    BY EndCame
  <2>3. CASE \E f \in Frames : Says(p, f) /\ (UNCHANGED call \/ Calls(p, "rings"))
    <3>1. PICK f \in Frames : Says(p, f) /\ (UNCHANGED call \/ Calls(p, "rings"))
      BY <2>3
    <3>2. Len(in'[p]) = j + 1 /\ \A q \in Presses \ {p} : in'[q] = in[q]
      BY <1>9, <1>14, <3>1
    <3>3. call'[p] \in {"none", "rings"} /\ \A q \in Presses \ {p} : call'[q] = call[q]
      BY <2>1, <3>1 DEF Calls
    <3>4. PICK i \in Nat : i = j + 1 /\ Len(in'[p]) = i
      BY <3>2
    <3>5. i <= 2 + r /\ i <= 1 + r
      BY <2>1, <3>4
    <3>. QED
      BY <1>11, <1>14, <3>2, <3>3, <3>4, <3>5
  <2>4. CASE \E f, g \in Frames : f.code = 100 /\ SaysTwo(p, f, g) /\ UNCHANGED call
    <3>1. PICK f \in Frames, g \in Frames : f.code = 100 /\ SaysTwo(p, f, g) /\ UNCHANGED call
      BY <2>4
    <3>2. /\ in'[p] = (in[p] \o <<f>>) \o <<g>> /\ Len(in'[p]) = j + 2
          /\ \A q \in Presses \ {p} : in'[q] = in[q]
      BY <1>9, <1>14, <3>1
    <3>3. call'[p] = "none" /\ \A q \in Presses \ {p} : call'[q] = call[q]
      BY <2>1, <3>1
    <3>4. PICK i \in Nat : i = j + 2 /\ Len(in'[p]) = i
      BY <3>2
    <3>5. i <= 2 + r
      BY <2>1, <3>4
    <3>6. Head(in'[p]).code # 401
      <4>. DEFINE s == in[p] \o <<f>>
      <4>1. /\ s \in Seq(Frames) /\ s # <<>> /\ Head(s) = IF in[p] = <<>> THEN f ELSE Head(in[p])
        BY <1>1, <2>2
      <4>2. Head(s).code # 401
        BY <1>8, <2>1, <3>1, <4>1
      <4>3. in'[p] = s \o <<g>>
        BY <3>2
      <4>. HIDE DEF s
      <4>4. Head(in'[p]) = Head(s)
        BY <2>2, <4>1, <4>3
      <4>. QED
        BY <4>2, <4>4
    <3>7. /\ Head(in'[p]).code = 401 => i <= 1 + r
          /\ call'[p] \in {"none", "rings"} /\ (call'[p] = "rings" => i <= 1 + r)
      BY <3>3, <3>6
    <3>8. Len(in'[p]) = i
      BY <3>4
    <3>. QED
      BY <1>11, <1>14, <3>2, <3>3, <3>5, <3>7, <3>8
  <2>. QED
    BY <1>1, <1>14, <2>3, <2>4 DEF Outcome
<1>15. CASE e.method = "CANCEL" /\ call[p] = "rings" /\ pc[p] \notin {"INVITE", "done"}
  <2>1. PICK f \in Frames, g \in Frames :
          f.code = 200 /\ g.code = 487 /\ SaysTwo(p, f, g) /\ call' = [call EXCEPT ![p] = "none"]
    BY <1>1, <1>15 DEF Outcome, Refusal, Calls
  <2>2. pc[p] = "CANCEL" /\ NoCode(in[p], 487) /\ EndOnce(in[p]) /\ j + o + 1 <= 4 + r
    BY <1>5, <1>7, <1>15 DEF Phases
  <2>3. /\ in'[p] = (in[p] \o <<f>>) \o <<g>> /\ Len(in'[p]) = j + 2
        /\ \A q \in Presses \ {p} : in'[q] = in[q]
    BY <1>9, <1>15, <2>1
  <2>4. call'[p] = "none" /\ \A q \in Presses \ {p} : call'[q] = call[q]
    BY <1>1, <2>1 DEF Types
  <2>5. PICK i \in Nat : i = j + 2 /\ Len(in'[p]) = i
    BY <2>3
  <2>6. i <= 4 + r /\ i + k <= 4 + r
    <3>1. i = j + 2 /\ o = k + 1 /\ j + o + 1 <= 4 + r
      BY <1>3, <2>2, <2>5
    <3>. QED
      BY <3>1
  <2>7. EndOnce(in'[p])
    <3>. DEFINE s == in[p] \o <<f>>
    <3>1. s \in Seq(Frames) /\ EndOnce(s)
      BY <1>1, <2>1, <2>2, EndCame
    <3>2. NoCode(s, 487)
      BY <1>1, <2>1, <2>2, FrameCame DEF Codes
    <3>3. in'[p] = s \o <<g>>
      BY <2>3
    <3>. HIDE DEF s
    <3>. QED
      BY <3>1, <3>2, <3>3, EndCame
  <2>. QED
    BY <1>10, <1>15, <2>2, <2>3, <2>4, <2>5, <2>6, <2>7
<1>16. CASE /\ e.method \notin {"ACK", "INVITE"} /\ pc[p] \notin {"INVITE", "done"}
            /\ ~(e.method = "CANCEL" /\ call[p] = "rings")
  <2>1. PICK f \in Frames : /\ f.code \in {200, 401, 486} /\ Says(p, f)
                            /\ UNCHANGED call \/ call' = [call EXCEPT ![p] = "none"]
    BY <1>1, <1>16 DEF Outcome, Refusal, Calls
  <2>2. /\ in'[p] = in[p] \o <<f>> /\ Len(in'[p]) = j + 1
        /\ \A q \in Presses \ {p} : in'[q] = in[q]
    BY <1>9, <1>16, <2>1
  <2>3. /\ call'[p] = call[p] \/ call'[p] = "none"
        /\ \A q \in Presses \ {p} : call'[q] = call[q]
    <3>1. CASE UNCHANGED call
      BY <3>1
    <3>2. CASE call' = [call EXCEPT ![p] = "none"]
      BY <1>1, <3>2 DEF Types
    <3>. QED
      BY <2>1, <3>1, <3>2
  <2>4. PICK i \in Nat : i = j + 1 /\ Len(in'[p]) = i
    BY <2>2
  <2>5. pc[p] \in {"REGISTER", "MESSAGE", "BYE", "CANCEL"}
    BY <1>7, <1>16 DEF Phases
  <2>6. /\ pc[p] = "REGISTER" => i + k <= 1 + r
        /\ pc[p] \in {"MESSAGE", "BYE", "CANCEL"} =>
             i + k <= 4 + r /\ (call'[p] = "rings" => i + k + 1 <= 4 + r)
    <3>1. /\ i = j + 1 /\ o = k + 1 /\ (pc[p] = "REGISTER" => j + o <= 1 + r)
          /\ pc[p] \in {"MESSAGE", "BYE", "CANCEL"} =>
               j + o <= 4 + r /\ (call[p] = "rings" => j + o + 1 <= 4 + r)
      BY <1>3, <1>5, <2>4
    <3>2. call'[p] = "rings" => call[p] = "rings"
      BY <2>3
    <3>. QED
      BY <3>1, <3>2
  <2>7. i <= 4 + r
    BY <2>5, <2>6
  <2>8. pc[p] = "REGISTER" => call'[p] = "none"
    BY <1>7, <2>3
  <2>9. pc[p] = "CANCEL" => EndOnce(in'[p])
    <3>1. EndOnce(in[p]) => EndOnce(in[p] \o <<f>>)
      BY <1>1, <2>1, EndCame
    <3>. QED
      BY <1>5, <2>2, <3>1
  <2>. QED
    BY <1>10, <1>16, <2>2, <2>3, <2>4, <2>6, <2>7, <2>8, <2>9
<1>17. /\ pc[p] = "INVITE" => e.method \in {"ACK", "INVITE"}
       /\ pc[p] \notin {"INVITE", "done"} => e.method # "INVITE"
  BY <1>7 DEF Phases
<1>. QED
  BY <1>12, <1>13, <1>14, <1>15, <1>16, <1>17

\* Before the first press nothing is on its way.
LEMMA RoomInit == Init => RoomInv
<1>. SUFFICES ASSUME Init, NEW p \in Presses PROVE RoomOK(p)
  BY DEF RoomInv
<1>1. /\ pc[p] = "idle" /\ out[p] = <<>> /\ in[p] = <<>> /\ rings = 0
  BY DEF Init
<1>. QED
  BY <1>1 DEF RoomOK

\* Whatever answers come in which order, a press never has more than three
\* requests under way, nor more frames to read than the answers to those of one
\* phase and what has rung; and strategy, pc, door, call and opened have their
\* types.
THEOREM UnlockTyped == Spec => []TypeOK
<1>1. ASSUME UnlockInv, RoomInv, [Next]_vars PROVE RoomInv'
  <2>1. CASE UNCHANGED vars
    <3>1. UNCHANGED <<pc, retried, call, out, in, rings>>
      BY <2>1 DEF vars, client, gateway
    <3>2. ASSUME NEW p \in Presses PROVE RoomOK(p)'
      <4>1. RoomOK(p)
        BY <1>1 DEF RoomInv
      <4>2. /\ RegisterRoom(p) => RegisterRoom(p)'
            /\ MessageRoom(p) => MessageRoom(p)'
            /\ ByeRoom(p) => ByeRoom(p)'
            /\ CancelRoom(p) => CancelRoom(p)'
        BY <3>1 DEF RegisterRoom, MessageRoom, ByeRoom, CancelRoom, Room
      <4>3. InviteRoom(p) => InviteRoom(p)'
        BY <3>1 DEF InviteRoom
      <4>. QED
        BY <3>1, <4>1, <4>2, <4>3 DEF RoomOK
    <3>. QED
      BY <3>2 DEF RoomInv
  <2>2. CASE Next
    BY <1>1, <2>2, RoomPress, RoomRegister, RoomInvite, RoomMessage, RoomBye, RoomCancel,
       RoomCut, RoomStation, RoomServe DEF Next, Thread
  <2>. QED
    BY <1>1, <2>1, <2>2
<1>2. UnlockInv /\ RoomInv => TypeOK
  <2>. SUFFICES ASSUME UnlockInv, RoomInv PROVE TypeOK
    OBVIOUS
  <2>1. Types
    BY DEF UnlockInv
  <2>2. \A p \in Presses : Len(out[p]) <= 3 /\ Len(in[p]) <= 4 + rings
    BY DEF RoomInv, RoomOK
  <2>. QED
    BY <2>1, <2>2 DEF Types, TypeOK
<1>. QED
  BY <1>1, <1>2, RoomInit, UnlockSound, PTL DEF Spec
=============================================================================
