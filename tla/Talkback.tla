------------------------------ MODULE Talkback -------------------------------
(***************************************************************************)
(* The microphone of one station: StationCallCoordinator's talkback calls  *)
(* (camera.py), the RTP sender of the call they reach (_PCMATalkSender of  *)
(* media_pipeline.py) and the test tone, a task that talks to the sender   *)
(* for as long as it lasts.                                                *)
(*                                                                         *)
(* A frame is named by its place among the frames a sender has taken.      *)
(* Everything runs on the event loop: an action is what happens between    *)
(* two awaits.                                                             *)
(***************************************************************************)
EXTENDS Naturals, Sequences

CONSTANTS Clients,      \* talkback_session_ids
          Anonymous,    \* the empty one, and no owner
          MaxQueue,     \* max_queue_frames, 25
          ToneFrames,   \* frames of a tone
          MaxChunk,     \* bound: half frames of a service call
          MaxFrames,    \* bound: frames fed
          MaxSenders    \* bound: calls with media

Callers == Clients \cup {Anonymous}

\* A session speaks through its feeds and through its tone.
Speakers == [who : Callers, tone : BOOLEAN]
Voice(c) == [who |-> c, tone |-> FALSE]
ToneOf(c) == [who |-> c, tone |-> TRUE]

ASSUME TalkbackAssumption ==
  /\ Anonymous \notin Clients
  /\ {MaxQueue, ToneFrames} \subseteq Nat \ {0} /\ {MaxChunk, MaxFrames, MaxSenders} \subseteq Nat

VARIABLES
  sender,    \* _talk_sender: 0 is None, else the number of the call's sender
  senders,   \* senders made so far
  loop,      \* its task: "none", "runs", "cancelled" or "done"
  owner,     \* _talkback_owner
  talking, marker,   \* of the sender
  rest,      \* _pcm_buffer, in half frames
  queue,     \* _queued_pcma
  tones,     \* send_talkback_tone calls: [sender, left] or NoTone
  by,        \* the speaker of each frame
  \* what the promises speak of
  sent,      \* the last frame on the wire
  fence,     \* the last frame before the sender last stopped talking
  quiet,     \* no voice has been sent since then
  holder,    \* the session that last started its microphone on this sender
  began,     \* the last frame before it did
  ringing    \* the sessions whose tone this sender was playing then

talk == <<talking, marker, rest, queue>>
ghosts == <<sent, fence, quiet, holder, began, ringing>>
vars == <<sender, senders, loop, owner, talk, tones, by, ghosts>>

NoTone == [sender |-> 0, left |-> 0]
Taken == Len(by)
Active == loop \in {"runs", "cancelled"}

----------------------------------------------------------------------------
(* The sender.                                                             *)

StartTalk == talking' = TRUE /\ marker' = TRUE /\ UNCHANGED <<rest, queue>>

Cleared(queued) == <<>>

StopTalk ==
  /\ talking' = FALSE /\ marker' = FALSE /\ rest' = 0
  /\ queue' = Cleared(queue)
  /\ fence' = Taken /\ quiet' = TRUE
  /\ UNCHANGED sent

\* Faulty variants: the queue without limit, the newest frame dropped.
Unlimited(queued) == queued
DropNewest(queued) == IF Len(queued) > MaxQueue THEN SubSeq(queued, 1, MaxQueue) ELSE queued
Limited(queued) ==
  IF Len(queued) > MaxQueue THEN SubSeq(queued, Len(queued) - MaxQueue + 1, Len(queued))
                            ELSE queued

\* feed_pcm16le of that many half frames.
FeedSender(speaker, halves) ==
  LET frames == (rest + halves) \div 2
  IN  /\ Taken + frames <= MaxFrames
      /\ rest' = (rest + halves) % 2
      /\ queue' = Limited(queue \o [j \in 1..frames |-> Taken + j])
      /\ by' = by \o [j \in 1..frames |-> speaker]

\* A turn of _loop.  The packet is silence when there is no voice to send.
\* Faulty variant: silence uses the marker up.
MarkerAfterAny(voice) == FALSE
MarkerAfter(voice) == marker /\ ~voice

Send ==
  LET voice == talking /\ queue # <<>>
  IN  /\ loop = "runs"
      /\ IF voice THEN queue' = Tail(queue) /\ sent' = Head(queue) /\ quiet' = FALSE
                  ELSE UNCHANGED <<queue, sent, quiet>>
      /\ marker' = (talking /\ MarkerAfter(voice))
      /\ UNCHANGED <<sender, senders, loop, owner, talking, rest, tones, by, fence, holder, began,
                     ringing>>

----------------------------------------------------------------------------
(* The call the sender belongs to.                                         *)

\* start_stream, once the audio socket and its endpoint are there.
Open ==
  /\ loop = "none" /\ senders < MaxSenders
  /\ senders' = senders + 1
  /\ sender' = senders'
  /\ loop' = "runs"
  /\ UNCHANGED <<owner, talk, tones, by, ghosts>>

\* close awaits stop(), which awaits the cancelled task: meanwhile the sender
\* is still there and, until the task is done, active.
Close ==
  /\ loop = "runs"
  /\ loop' = "cancelled"
  /\ StopTalk
  /\ holder' = Anonymous
  /\ UNCHANGED <<sender, senders, owner, tones, by, began, ringing>>

LoopEnds ==
  /\ loop = "cancelled"
  /\ loop' = "done"
  /\ holder' = Anonymous
  /\ UNCHANGED <<sender, senders, owner, talk, tones, by, sent, fence, quiet, began, ringing>>

Gone ==
  /\ loop = "done"
  /\ sender' = 0 /\ loop' = "none"
  /\ StopTalk
  /\ UNCHANGED <<senders, owner, tones, by, holder, began, ringing>>

\* The end of _delayed_close and of force_close.  When the gateway has ended
\* the call nobody gives the microphone up before the next one.
Release ==
  /\ loop = "none"
  /\ owner' = Anonymous
  /\ UNCHANGED <<sender, senders, loop, talk, tones, by, ghosts>>

----------------------------------------------------------------------------
(* The services.  A call from another session than the owner's is ignored; *)
(* one without a session never is.                                         *)

\* Faulty variant: no owner check.
MayAny(c) == TRUE
MayStop(c) == Anonymous \in {c, owner} \/ c = owner
MayFeed(c) == Anonymous \in {c, owner} \/ c = owner
Claimed(c) == IF owner = Anonymous THEN c ELSE owner

\* A session switches its own microphone off; so may a call without a session.
HolderAfter(c) == IF c \in {holder, Anonymous} THEN Anonymous ELSE holder

Sounding == {c \in Callers : tones[c].sender = sender /\ tones[c].left > 0}

\* start_talkback stores the owner before it finds that no sender is active.
Start(c) ==
  /\ owner' = c
  /\ IF Active
       THEN /\ StartTalk
            /\ holder' = c /\ began' = Taken /\ ringing' = Sounding
            /\ UNCHANGED <<sent, fence, quiet>>
       ELSE UNCHANGED <<talk, ghosts>>
  /\ UNCHANGED <<sender, senders, loop, tones, by>>

Stop(c) ==
  /\ MayStop(c)
  /\ owner' = Anonymous
  /\ holder' = HolderAfter(c)
  /\ IF sender = 0 THEN UNCHANGED <<talk, sent, fence, quiet>> ELSE StopTalk
  /\ UNCHANGED <<sender, senders, loop, tones, by, began, ringing>>

\* The owner is claimed before it turns out that nobody talks.
Feed(c, halves) ==
  /\ MayFeed(c)
  /\ owner' = Claimed(c)
  /\ IF Active /\ talking
       THEN FeedSender(Voice(c), halves) /\ UNCHANGED <<talking, marker>>
       ELSE UNCHANGED <<talk, by>>
  /\ UNCHANGED <<sender, senders, loop, tones, ghosts>>

----------------------------------------------------------------------------
(* The tone.  It keeps the sender it has begun with and asks no more who   *)
(* owns the microphone.                                                    *)

ToneBegins(c) ==
  /\ tones[c] = NoTone
  /\ MayFeed(c)
  /\ owner' = Claimed(c)
  /\ IF Active
       THEN /\ talking' = TRUE /\ marker' = TRUE
            /\ FeedSender(ToneOf(c), 2)
            /\ tones' = [tones EXCEPT ![c] = [sender |-> sender, left |-> ToneFrames - 1]]
       ELSE UNCHANGED <<talk, by, tones>>
  /\ UNCHANGED <<sender, senders, loop, ghosts>>

\* The next frame, 20 ms later.
ToneFrame(c) ==
  /\ tones[c].left > 0
  /\ tones' = [tones EXCEPT ![c].left = @ - 1]
  /\ IF tones[c].sender = sender /\ talking
       THEN FeedSender(ToneOf(c), 2) /\ UNCHANGED <<talking, marker>>
       ELSE UNCHANGED <<talk, by>>
  /\ UNCHANGED <<sender, senders, loop, owner, ghosts>>

\* The queue is empty, or has been waited for for a second; or the call was
\* cancelled.
ToneEnds(c) ==
  /\ tones[c] # NoTone
  /\ tones' = [tones EXCEPT ![c] = NoTone]
  /\ IF tones[c].sender = sender THEN StopTalk ELSE UNCHANGED <<talk, sent, fence, quiet>>
  /\ holder' = HolderAfter(c)
  /\ UNCHANGED <<sender, senders, loop, owner, by, began, ringing>>

----------------------------------------------------------------------------

Init ==
  /\ sender = 0 /\ senders = 0 /\ loop = "none"
  /\ owner = Anonymous
  /\ talking = FALSE /\ marker = FALSE /\ rest = 0 /\ queue = <<>>
  /\ tones = [c \in Callers |-> NoTone]
  /\ by = <<>>
  /\ sent = 0 /\ fence = 0 /\ quiet = TRUE /\ holder = Anonymous /\ began = 0
  /\ ringing = {}

Next ==
  \/ Open \/ Close \/ LoopEnds \/ Gone \/ Release \/ Send
  \/ \E c \in Callers :
       \/ Start(c) \/ Stop(c)
       \/ \E halves \in 1..MaxChunk : Feed(c, halves)
       \/ ToneBegins(c) \/ ToneFrame(c) \/ ToneEnds(c)

Spec == Init /\ [][Next]_vars

----------------------------------------------------------------------------
(* Properties.                                                             *)

TypeOK ==
  /\ sender \in {0, senders} /\ (sender = 0 <=> loop = "none")
  /\ loop \in {"none", "runs", "cancelled", "done"}
  /\ senders \in 0..MaxSenders
  /\ owner \in Callers /\ holder \in Callers
  /\ talking \in BOOLEAN /\ marker \in BOOLEAN /\ quiet \in BOOLEAN
  /\ rest \in 0..1
  /\ queue \in Seq(1..MaxFrames) /\ Len(queue) <= MaxQueue
  /\ tones \in [Callers -> [sender : 0..MaxSenders, left : 0..ToneFrames]]
  /\ by \in Seq(Speakers) /\ ringing \subseteq Callers
  /\ {sent, fence, began} \subseteq 0..Taken

\* What waits is the end of what was taken, in its order, at the limit of the
\* queue as well; nothing of it has been sent before or was said before a
\* microphone was last switched off, and nothing waits for one that is off.
QueueIsTheTail ==
  /\ \A j \in 1..Len(queue) :
       /\ queue[j] = Taken - Len(queue) + j
       /\ queue[j] > sent /\ queue[j] > fence
  /\ queue # <<>> => talking

\* The first voice of a talk goes out with the RTP marker, however much
\* silence was sent before it and whoever starts meanwhile.
FirstVoiceIsMarked == queue # <<>> /\ quiet => marker

\* README.md:216: while the session that last started its microphone has not
\* stopped it, no stop, feed or tone of an older one takes the ownership away.
NewestHoldsTalkback == holder # Anonymous => owner = holder

\* README.md:216: from the start of the newer session on, what an older one
\* feeds is not mixed into what it says, and no older one starts a tone: all
\* that can still come in is the rest of a tone that was sounding at the start.
\* What was fed before the start is sent still, its last half frame as well.
NoStaleVoice ==
  holder # Anonymous =>
    \A j \in 1..Len(queue) :
      LET speaker == by[queue[j]]
      IN  queue[j] > began =>
            speaker.who \in {holder, Anonymous} \/ (speaker.tone /\ speaker.who \in ringing)

\* Claims that the code does not keep (README, sections 6 and 7).
\* README.md:216-217: "stale clients cannot [...] overwrite a newer microphone
\* session".  The rest of an older session's tone is mixed in.
NoStaleSound ==
  holder # Anonymous =>
    \A j \in 1..Len(queue) : queue[j] > began => by[queue[j]].who \in {holder, Anonymous}

\* README.md:216: "so stale clients cannot stop or overwrite a newer
\* microphone session".  The end of an older session's tone switches it off.
NewestTalks == holder # Anonymous => talking
=============================================================================
