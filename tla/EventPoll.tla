------------------------------ MODULE EventPoll ------------------------------
(***************************************************************************)
(* The portal's event history as Home Assistant shows it: the poll of      *)
(* coordinator.py, which runs in an executor thread, and the entities that *)
(* read what it keeps - the event entity, the screenshot image, the last   *)
(* event sensor and the still image of each camera.                        *)
(*                                                                         *)
(* The thread writes ABBWelcomeData attribute by attribute while entities  *)
(* on the event loop may read it; hence one action per attribute an entity *)
(* reads, and one per attribute that the image entity reads while it is    *)
(* added.  An event is named by its place in the portal's history.         *)
(***************************************************************************)
EXTENDS Naturals, Sequences, FiniteSets, SequencesExt, FiniteSetsExt

CONSTANTS Stations,
          NoStation,   \* station_id = ""
          Reports,     \* what the portal may tell of an event; "at" is its
                       \* timestamp, 0 for one that cannot be parsed
          Window,      \* 120 s between a screenshot and its event
          Page,        \* pagination_limit, 20
          Cap,         \* events kept, 200
          MaxEvents,   \* bound: events of the portal
          MaxLoads     \* bound: set-ups of the entry

ASSUME PollAssumption ==
  /\ NoStation \notin Stations
  /\ Reports \subseteq [kind : {"ring", "door-open", "screenshot"},
                         station : Stations \cup {NoStation}, belongs : Nat, at : Nat]
  /\ \A r \in Reports : r.kind = "screenshot" => r.station = NoStation
  /\ {Window, Page, Cap, MaxEvents, MaxLoads} \subseteq Nat
  /\ 0 < Page /\ Page <= Cap

VARIABLES
  history,    \* the portal: every event so far, oldest first
  life, loads,
  \* the coordinator of the current set-up
  poll,       \* where the poll stands
  page,       \* the events of the response, newest first
  cursor,     \* _newest_id
  events,     \* _data.events, newest first
  station,    \* the station_id each event object has been given
  shot, shotId,   \* latest_screenshot, latest_screenshot_event_id
  byStation,  \* latest_screenshots_by_station
  last,       \* last_event
  polled,     \* coordinator.data is set
  \* the entities
  subs,       \* those added to Home Assistant
  seen,       \* event entity: _last_seen_id
  fired,      \* event entity: how often it has triggered each event
  image, imageId, \* image entity: _image, _last_event_id
  reading,    \* what the image entity, being added, is about to read
  torn        \* the identifier it has taken the picture of another event under

data == <<cursor, events, station, shot, shotId, byStation, last, polled>>
entities == <<subs, seen, fired, image, imageId, reading, torn>>
pollVars == <<history, life, loads, poll, page, data, entities>>

Ids == 1..MaxEvents
None == 0
Known == 1..Len(history)
IsShot(e) == history[e].kind = "screenshot"
Shots(set) == {e \in set : IsShot(e)}
Rest(set) == set \ Shots(set)
Newest(set) == IF set = {} THEN None ELSE Max(set)

\* HISTORY_TYPES: what the portal can tell of an event.  A screenshot has no
\* station of its own.  Any event may name another it belongs to, also one that
\* the portal has not told of.
Report(r) ==
  /\ Len(history) < MaxEvents
  /\ history' = Append(history, r)
  /\ UNCHANGED <<life, loads, poll, page, data, entities>>

----------------------------------------------------------------------------
(* _station_event_for_screenshot: the event a screenshot was taken for.    *)

Distance(e, i) ==
  LET t == IF history[e].at = 0 THEN history[i].at ELSE history[e].at
  IN  IF t > history[i].at THEN t - history[i].at ELSE history[i].at - t

\* The order of min() over (delta, event_priority): closer in time, then rings
\* first, then the place in the list, which is newest first.
Closer(e, f, i) ==
  \/ Distance(e, i) < Distance(f, i)
  \/ /\ Distance(e, i) = Distance(f, i)
     /\ \/ history[e].kind = "ring" /\ history[f].kind # "ring"
        \/ (history[e].kind = "ring") = (history[f].kind = "ring") /\ e >= f

Linked(i, candidates) ==
  {e \in candidates : /\ history[i].belongs # None
                      /\ \/ e = history[i].belongs
                         \/ history[e].belongs = history[i].belongs}

StationEvent(i, candidates) ==
  LET linked == Linked(i, candidates)
      best == CHOOSE e \in candidates : \A f \in candidates : Closer(e, f, i)
  IN  IF candidates = {} THEN None
      ELSE IF linked # {} THEN Max(linked)
      ELSE IF history[i].at = 0 THEN Max(candidates)
      ELSE IF history[best].at # 0 /\ Distance(best, i) > Window THEN None
      ELSE best

\* The station of every event after a page: as the portal says it, and for a
\* screenshot that of its event, among the page and the events kept.  The loop
\* goes through the page from its first event on.
Told(new) == [e \in Ids |-> IF e \in ToSet(new) THEN history[e].station ELSE station[e]]

Assign(known, i, new) ==
  LET candidates == {e \in (ToSet(new) \cup ToSet(events)) \ {i} : known[e] # NoStation}
      from == StationEvent(i, candidates)
  IN  IF IsShot(i) /\ from # None THEN [known EXCEPT ![i] = known[from]] ELSE known

Assigned(new) ==
  LET after[j \in 0..Len(new)] ==
        IF j = 0 THEN Told(new) ELSE Assign(after[j - 1], new[j], new)
  IN  after[Len(new)]

----------------------------------------------------------------------------
(* The portal and the life of the entry.                                   *)

Fresh ==
  /\ cursor' = None /\ events' = <<>> /\ station' = [e \in Ids |-> NoStation]
  /\ shot' = None /\ shotId' = None /\ byStation' = [s \in Stations |-> None]
  /\ last' = None /\ polled' = FALSE
  /\ subs' = {} /\ seen' = None /\ fired' = [e \in Ids |-> 0]
  /\ image' = None /\ imageId' = None /\ reading' = "none" /\ torn' = None

\* async_setup_entry: a new coordinator and, before the platforms, its first
\* poll.  Nothing of the previous set-up is left.
Setup ==
  /\ life = "none"
  /\ loads < MaxLoads
  /\ life' = "loaded"
  /\ loads' = loads + 1
  /\ poll' = "ask"
  /\ page' = <<>>
  /\ Fresh
  /\ UNCHANGED history

\* The event loop is not in the middle of adding the image entity.
LoopIsFree == reading = "none"

\* A poll still in its thread goes on with the old coordinator, which nobody
\* reads any more.
Unload ==
  /\ life = "loaded" /\ LoopIsFree
  /\ polled
  /\ life' = "none"
  /\ poll' = "idle"
  /\ page' = <<>>
  /\ Fresh
  /\ UNCHANGED <<history, loads>>

----------------------------------------------------------------------------
(* poll_events.  The coordinator's debouncer never runs two at once.       *)

\* The interval, or the Refresh Events button.
Poll ==
  /\ life = "loaded" /\ LoopIsFree
  /\ poll = "idle"
  /\ poll' = "ask"
  /\ UNCHANGED <<history, life, loads, page, data, entities>>

\* Faulty variant: the oldest event of the page.
Hindmost(new) == Last(new)
Foremost(new) == Head(new)

\* Faulty variant: no cap.
Uncapped(seq) == seq
Capped(seq) == SubSeq(seq, 1, Min({Cap, Len(seq)}))

\* The response: the newest events after the cursor, at most a page of them.
PageArrives ==
  LET count == Min({Page, Len(history) - cursor})
      new == [j \in 1..count |-> Len(history) + 1 - j]
  IN  /\ poll = "ask"
      /\ IF new = <<>>
           THEN poll' = "done" /\ UNCHANGED <<page, cursor, events, station>>
           ELSE /\ poll' = "image"
                /\ page' = new
                /\ station' = Assigned(new)
                /\ cursor' = Foremost(new)
                /\ events' = Capped(new \o events)
      /\ UNCHANGED <<history, life, loads, shot, shotId, byStation, last, polled, entities>>

\* requests.RequestException: the old data stay.
PollFails ==
  /\ poll = "ask"
  /\ poll' = "done"
  /\ UNCHANGED <<history, life, loads, page, data, entities>>

\* Faulty variant: each screenshot of the page replaces the one before.
OldestShot == IF Shots(ToSet(page)) = {} THEN None ELSE Min(Shots(ToSet(page)))
NewestShot == Newest(Shots(ToSet(page)))

KeepImage ==
  /\ poll = "image"
  /\ poll' = "id"
  /\ shot' = IF NewestShot = None THEN shot ELSE NewestShot
  /\ UNCHANGED <<history, life, loads, page, cursor, events, station, shotId, byStation, last,
                 polled, entities>>

KeepImageId ==
  /\ poll = "id"
  /\ poll' = "rest"
  /\ shotId' = IF NewestShot = None THEN shotId ELSE NewestShot
  /\ UNCHANGED <<history, life, loads, page, cursor, events, station, shot, byStation, last,
                 polled, entities>>

\* latest_screenshots_by_station goes through the page from the newest event
\* to the oldest, so that of several screenshots the oldest stays.
KeepRest ==
  LET of(s) == {e \in Shots(ToSet(page)) : station[e] = s}
      told == Newest(Rest(ToSet(page)))
  IN  /\ poll = "rest"
      /\ poll' = "done"
      /\ byStation' = [s \in Stations |-> IF of(s) = {} THEN byStation[s] ELSE Min(of(s))]
      /\ last' = IF told = None THEN last ELSE told
      /\ UNCHANGED <<history, life, loads, page, cursor, events, station, shot, shotId, polled,
                     entities>>

----------------------------------------------------------------------------
(* The entities.                                                           *)

\* Faulty variant: does not stop at the event it has seen.
AllUnseen == ToSet(events)
\* The loop of ABBWelcomeEventEntity._handle_update.
Unseen ==
  IF \E j \in 1..Len(events) : events[j] = seen
    THEN ToSet(SubSeq(events, 1, SelectInSeq(events, LAMBDA e : e = seen) - 1))
    ELSE ToSet(events)

EventUpdateIf(wanted) ==
  IF wanted
    THEN /\ fired' = [e \in Ids |-> IF e \in Rest(Unseen) THEN fired[e] + 1 ELSE fired[e]]
         /\ seen' = Head(events)
    ELSE UNCHANGED <<fired, seen>>

\* Faulty variant: returns when the newest event is a screenshot.
EventUpdateUnlessShot ==
  EventUpdateIf("event" \in subs /\ events # <<>> /\ ~IsShot(events[1]))
EventUpdate == EventUpdateIf("event" \in subs /\ events # <<>>)

\* _sync_from_coordinator between two polls, when no thread writes.
ImageSync ==
  IF shot # None /\ shotId # imageId
    THEN image' = shot /\ imageId' = shotId
    ELSE UNCHANGED <<image, imageId>>

\* async_added_to_hass.  The platforms are set up after the first poll, but a
\* later one may be in its thread by then.
AddEventEntity ==
  /\ life = "loaded" /\ polled /\ LoopIsFree
  /\ subs' = subs \cup {"event"}
  /\ "event" \notin subs
  /\ UNCHANGED <<history, life, loads, poll, page, data, seen, fired, image, imageId, reading,
                 torn>>

\* _sync_from_coordinator while the entity is added: it compares the
\* identifier, takes the picture and takes the identifier, each with whatever
\* the thread has written by then.
AddImage ==
  /\ life = "loaded" /\ polled /\ LoopIsFree
  /\ "image" \notin subs
  /\ IF shot # None /\ shotId # imageId
       THEN reading' = "picture" /\ UNCHANGED subs
       ELSE subs' = subs \cup {"image"} /\ UNCHANGED reading
  /\ UNCHANGED <<history, life, loads, poll, page, data, seen, fired, image, imageId, torn>>

ReadPicture ==
  /\ reading = "picture"
  /\ reading' = "id"
  /\ image' = shot
  /\ UNCHANGED <<history, life, loads, poll, page, data, subs, seen, fired, imageId, torn>>

ReadId ==
  /\ reading = "id"
  /\ reading' = "none"
  /\ imageId' = shotId
  /\ torn' = IF image # shotId THEN shotId ELSE torn
  /\ subs' = subs \cup {"image"}
  /\ UNCHANGED <<history, life, loads, poll, page, data, seen, fired, image>>

\* The thread has returned: back on the event loop, coordinator.data is set
\* and the listeners are called.
Deliver ==
  /\ poll = "done" /\ LoopIsFree
  /\ poll' = "idle"
  /\ polled' = TRUE
  /\ EventUpdate
  /\ IF "image" \in subs THEN ImageSync ELSE UNCHANGED <<image, imageId>>
  /\ UNCHANGED <<history, life, loads, page, cursor, events, station, shot, shotId, byStation,
                 last, subs, reading, torn>>

----------------------------------------------------------------------------

PollInit ==
  /\ history = <<>> /\ life = "none" /\ loads = 0 /\ poll = "idle" /\ page = <<>>
  /\ cursor = None /\ events = <<>> /\ station = [e \in Ids |-> NoStation]
  /\ shot = None /\ shotId = None /\ byStation = [s \in Stations |-> None]
  /\ last = None /\ polled = FALSE
  /\ subs = {} /\ seen = None /\ fired = [e \in Ids |-> 0] /\ image = None /\ imageId = None
  /\ reading = "none" /\ torn = None

Thread == PageArrives \/ PollFails \/ KeepImage \/ KeepImageId \/ KeepRest
PollNext ==
  \/ \E r \in Reports : Report(r)
  \/ Setup \/ Unload \/ Poll \/ Thread \/ Deliver
  \/ AddEventEntity \/ AddImage \/ ReadPicture \/ ReadId

PollSpec == PollInit /\ [][PollNext]_pollVars

\* The interval goes on, the thread and the event loop run, and the portal
\* does not fail for ever.  Nobody has to ring or to load the entry.
Fairness ==
  /\ WF_pollVars(Poll) /\ SF_pollVars(PageArrives)
  /\ WF_pollVars(KeepImage \/ KeepImageId \/ KeepRest) /\ WF_pollVars(Deliver)
  /\ WF_pollVars(ReadPicture \/ ReadId)

FairSpec == PollSpec /\ Fairness

----------------------------------------------------------------------------
(* Properties.                                                             *)

PollTypeOK ==
  /\ history \in Seq(Reports)
  /\ Len(history) <= MaxEvents
  /\ life \in {"none", "loaded"} /\ loads \in 0..MaxLoads
  /\ poll \in {"idle", "ask", "image", "id", "rest", "done"}
  /\ {page, events} \subseteq Seq(Ids)
  /\ Len(page) <= Page /\ Len(events) <= Cap
  /\ {cursor, shot, shotId, last, seen, image, imageId, torn} \subseteq 0..Len(history)
  /\ station \in [Ids -> Stations \cup {NoStation}]
  /\ byStation \in [Stations -> 0..Len(history)]
  /\ polled \in BOOLEAN
  /\ subs \subseteq {"event", "image"}
  /\ fired \in [Ids -> Nat]
  /\ reading \in {"none", "picture", "id"}

\* The cache is the recent history: newest first, nothing twice, and nothing
\* missing but where a full page could not reach back to the last poll.
CacheIsRecentHistory ==
  \A j \in 1..(Len(events) - 1) :
    /\ events[j] > events[j + 1]
    /\ events[j] > events[j + 1] + 1 =>
         j >= Page /\ \A k \in 1..(Page - 1) : events[j - k] = events[j] + k

\* The event entity triggers each event once in the life of the entity, and
\* has triggered every event of the cache up to the one it has seen, however
\* its start, the polls and the cap fall.
EachEventFiredOnce ==
  /\ \A e \in Ids : fired[e] <= 1
  /\ \A e \in Rest(ToSet(events)) : e <= seen => fired[e] = 1

\* A screenshot names an event before it that has a station, among the events.
Names(i, set, known) ==
  LET e == history[i].belongs IN e \in Rest(set) /\ e < i /\ known[e] # NoStation

\* It has the station of an event it is linked to, of that one or a later one.
Given(i, set, known) ==
  \E f \in Linked(i, set \ {i}) :
    f >= history[i].belongs /\ known[f] # NoStation /\ known[i] = known[f]

\* Between two polls everything on show is of the newest events and agrees.
\* Adding the image entity in the middle of a poll can go wrong in one way
\* only, which stays: the picture of one event under the identifier of the
\* next (torn).  A screenshot that names its event is given the station of an
\* event it is linked to and not that of a neighbour in time, as long as the
\* event is known.
ShownTogether ==
  /\ poll = "idle" /\ LoopIsFree =>
       /\ shot = shotId
       /\ "image" \in subs /\ shot # None => imageId = shot /\ (image = shot \/ torn = shot)
       /\ Shots(ToSet(events)) # {} => shot = Max(Shots(ToSet(events)))
       /\ Rest(ToSet(events)) # {} => last = Max(Rest(ToSet(events)))
  /\ \A i \in Shots(ToSet(events)) :
       Names(i, ToSet(events), station) => Given(i, ToSet(events), station)

\* Polling catches up: what the portal has told reaches the event entity.
EventsReachEntity ==
  ("event" \in subs /\ seen < Len(history)) ~> (seen = Len(history) \/ "event" \notin subs)

\* Claims that the code does not keep (README, section 7).
\* image.py:62-66: the capture time shown is that of the picture shown.
PictureOfItsEvent == poll = "idle" /\ "image" \in subs => image = imageId

\* coordinator.py:60, 65: "latest events + latest screenshot", by station.
LatestByStation ==
  poll = "idle" =>
    \A s \in Stations :
      LET of == {e \in Shots(ToSet(events)) : station[e] = s}
      IN  of # {} => byStation[s] = Max(of)
=============================================================================
