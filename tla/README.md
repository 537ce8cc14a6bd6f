# ABB Welcome / SmartTouch for Home Assistant: a TLA+ verification project

The repository is a Home Assistant integration for a door intercom. A gateway
(or a SmartTouch panel) connects the outdoor stations of a building; the
integration registers with it over SIP, shows the stations' cameras through an
RTSP server per camera, lets a user talk, opens doors, and polls a cloud portal
for the history of rings and screenshots. Nearly all of it is one asyncio event
loop; the poll and the door unlock run in executor threads. The code is under
`src/custom_components/abb_welcome`, and file names below are relative to that
directory.

The modules here are translated from that code. TLC checks them on small
instances; TLAPS proves the theorems for every value of the constants.

## 1. Inventory

| component | state it keeps | operations | what is hard |
|---|---|---|---|
| **Streaming gate** `streaming_state.py`, `switch.py`, ring handling and service in `__init__.py` | per entry: pickup permission, armed flag, reason, target station, the auto-disarm timer task | arm, disarm, set pickup, ring, service, options update, set-up, unload | a timer that has woken but not run while another arm takes over; three writers of the pickup option, one of them a task of its own |
| **Camera and RTSP serve** `camera.py`, `rtsp_server.py` | server, RTSP sessions, attached clients, packet handlers, the close task, the stream lock | connect, SETUP, PLAY, leave, delayed close, forced teardown, removal | tasks that wait for the lock with an old answer in hand; cancellation of a task inside `close()`; teardowns that overlap |
| **Media session** `media_pipeline.py` | the call, its sockets, transports, loops, the watcher of its end; one slot per entry | open, close, bump by another camera, watcher | the call ends during `open()`; close while closing |
| **Intercom dialer** `intercom_dialer.py` | TLS connection, one lock, at most one call, memory of ended calls, waiters | dial, hangup, switch camera, wait for the end, lose connection, close | a conversation in several awaits over a shared stream; time-outs and late answers; the lock given up and taken again between two halves of a dial |
| **SIP listener** `sip_listener.py` | registration, open INVITEs, accepted dialogs, ended dialogs, state | register, refresh, ring, CANCEL, BYE, answer, reconnect, stop | a ring, a CANCEL, two cameras and a loss of the connection at once; frames that arrive where only one response is expected |
| **Event poll** `coordinator.py`, `event.py`, `image.py`, `button.py` | cursor, cached events, stations, newest screenshot and last event; what each entity has seen | poll (thread), deliver, start of entities, reload | a thread writes attribute by attribute what the event loop reads; pages and caps |
| **Talkback** `camera.py`, `_PCMATalkSender` in `media_pipeline.py` | owner, talking flag, marker, rest of a frame, bounded queue, tone task | start, stop, feed, tone, the sender's loop, end of the call | several sessions and a tone task over one sender; queue at its limit |
| **Door unlock** `sip_client.py` | per press a connection, an INVITE session, one retry | REGISTER, MESSAGE, or INVITE, MESSAGE, BYE/CANCEL | answers taken for another request's; partial failure with a call up; time-outs |
| **Entry set-up and LAN proxy** `__init__.py`, `rtsp_proxy.py`, options flow | the entry's doors and options, what was taken from them by client, entities, proxy; the proxy's port and connections | set up, refresh doors, save options, reload, choose a port, stop the proxy | a set-up reads the entry bit by bit while users and refreshes save; a reload asked for inside a set-up; a list that is old when it is stored; a LAN client that does not leave |
| **Pairing** `config_flow.py`, `portal.py` | per flow: the device chosen, the key, the certificate and the UUID of the attempt, the ACL update; at the portal and the devices: clients sent, waiting, paired | choose, log in, make an identity, find the device, post, approve at the admin pages or by hand, poll, confirm | every call is made in a thread, may fail after it has worked, and leaves the fields of one attempt to the next; two flows for one device; dialogs closed over a running thread |
| Display `sensor.py`, `binary_sensor.py`, `diagnostics.py`, `text.py`, `const.py` | values shown | update | none |

How they meet: the listener calls `_on_ring` (gate, event entity, ringing
sensor). The gate tells cameras by a dispatcher signal. A PLAY asks the gate,
then opens the media session, which first tries to answer a pending ring
(listener) and otherwise dials (dialer). The dialer and the listener wake a
watcher in the session when the call ends. All media sessions share one slot
and the dialer one call, since the gateway has one line. Talkback goes to the
sender of the open media session. Doors are opened over connections of their own.
Pairing creates the entry; set-up hands its doors and options to the client, the
platforms and the proxy, and a change of either leads to a reload.

What makes each component correct is stated with its module in section 3.

## 2. Plan

Most important first; composed along the calls above.

1. `ArmedState`: who may stream, and that it ends by itself. *Done, proved.*
2. `CameraStream`: RTSP server + camera coordinator + media session of one
   camera; dialer and listener reduced to what the session sees. *Done, proved.*
3. `IntercomLine` (abstract) and `IntercomDialer` (detailed), with the media
   sessions as clients. *Done, proved with its refinement.*
4. `SipListener`, with media sessions answering. *Done, proved.*
5. `EventPoll`, with the entities. *Done, proved.*
6. `Talkback`. *Done, proved.*
7. `SipUnlock`. *Done, proved.*
8. `EntryReload`: set-up and reload around the rest, doors, options, LAN proxy.
   *Done, proved.*
9. `Pairing`: how the entry comes about. *Done, proved.*
10. To come: write backpressure and the frame parser of `RtspServer`; RTP
    sequence numbers and G.711 as operators checked against a reference
    definition.

## 3. Modules

Everything between two awaits on the event loop is one action, since nothing
else can run there. Threads are cut at the accesses others can see. Ghost
variables are named as such where they are declared. "Faulty variant" in a
comment marks an operator that is not part of the model: it is what a plausible
bug would make of the definition after it, and is there to show that the
properties notice.

**`ArmedState`** (`ArmedState_proof`). Variables are the bucket of the entry
(`present`, `allow`, `armed`, `reason`, `target`, `timer`), every timer task
(`timers`), the entry's life and the option. `Arm`, `Disarm`, `SetPickup` are
the three helpers of `streaming_state.py`; `Ring`, `SwitchOn`, `SwitchOff`,
`ServiceArm`, `PickupSwitch`, `OptionsFlow`, `OptionsUpdated` their callers. A
timer is `sleeping`, then `woken` (scheduled, may still be overtaken), then runs
or is cancelled. `view` is what each camera last saw.

**`CameraStream`** (`CameraStream_proof`). A task is at an await named by `pc`: clients in `read`,
`lock`, `dial`, `switch`, `video`, `audio`; closers in `sleep`, `lock` or
`close()`; teardowns and the remover in stop/start; the watcher. `lock` is
`_stream_lock` with its FIFO of waiters, `closing` the tasks inside `close()` in
order. `AwaitsPeers` is whether `asyncio.Server.wait_closed` waits for the
connections, as it does from Python 3.12.1 on, which the Home Assistant releases
that have the imports of `camera.py:33-51` require; the runs set it, the proofs
hold for both. A teardown that waits there for a peer that stays is `HeldUp`.

**`IntercomLine`** says what the cameras rely on: one line, taken only when
free, given back by its holder, by a bump or by a cut. **`IntercomDialer`**
(`IntercomDialer_proof`) is the code: connection, lock with waiters, `call`, `queue`, `ended`, and the
gateway (`gw`, `wire`) as an environment that challenges, answers, refuses,
hangs up or keeps silent. `Line == INSTANCE IntercomLine WITH ...` maps the line
to the session that owns the active call.

**`SipListener`** (`SipListener_proof`). `loop` is where the main loop stands, `invites`, `dialogs`,
`ended` its tables, `wire` the frames not yet read, `ring` the gateway's view
of each ring. A session answers in one step (`drain()` of a small message does
not suspend, so the dialog lock is never seen held), waits for the ACK, then for
the end.

**`EventPoll`** (`EventPoll_Talkback_proof`). An event is its place in the portal's history. `PageArrives`,
`KeepImage`, `KeepImageId`, `KeepRest` are the poll thread's writes in their
order; `Deliver` is the return to the event loop; `AddImage`, `AddEventEntity`
are `async_added_to_hass`, possible while a later poll is in its thread. The image
entity then compares the identifier (`AddImage`), takes the picture (`ReadPicture`)
and takes the identifier (`ReadId`), and the thread may write between any two of
these; `torn` is the identifier it has so taken the picture of another event under.
Between two polls no thread writes, and `ImageSync` is one step.
`StationEvent` is `_station_event_for_screenshot`, and `Assigned` the loop that
calls it for each screenshot of a page: a recursive function along the page.
One proof module holds the theorems of this module and of the next, which share
no state and no name; the specification here is therefore `PollSpec`, of
`PollInit`, `PollNext` and `pollVars`, and its type invariant `PollTypeOK`.

**`Talkback`** (`EventPoll_Talkback_proof`). A frame is its place among the frames taken.
`owner`, `talking`, `marker`, `rest`, `queue` are the code's; `sent`, `fence`,
`quiet`, `holder`, `began`, `ringing`, `by` are ghosts that say what was promised:
`by` names the speaker of each frame, a session by its feeds or by its tone, and
`ringing` the sessions whose tone was playing when the holder began.

**`SipUnlock`** (`SipUnlock_proof`). Each press is a thread with a connection (`out`, `in`) and
waits in one of `REGISTER`, `INVITE`, `MESSAGE`, `BYE`, `CANCEL`. The gateway
may challenge, refuse, answer late, say nothing, break, or ring on the same
connection. A ring that is read while the thread waits for the answer to its BYE
is answered 200, as the code does for any request: `taken`. `missed` are BYEs
challenged when the thread had gone, `cut` the threads that ended without a
session or on a dead connection.

**`EntryReload`** (`EntryReload_proof`). `stage` is how far the set-up or unload that holds the entry's
lock has come, one action per wait of `async_setup_entry`: `SetupFetch` and
`SetupClient` (device list, client), `SetupPorts` and `SetupBind` (candidates of
the proxy's port), `SetupListener` (update listener), `SetupPlatform`, then
`loaded`. `data` is what the set-up took from the entry, `entities` what each
platform did. `refresh` are calls of `refresh_doors`, `tasks` those of
`_async_options_updated`, `reloads` the calls of `async_reload` that wait for the
lock. `missed` remembers options saved after the running set-up had used the ones
before. `peer` is a connection to a camera's RTSP server that has no session there:
`Unload` waits for it, without a time-out, as `RtspServer.stop` does.

**`Pairing`** (`Pairing_proof`). `flow[f]` holds the fields of a config flow and
in `pc` the form it shows or the call its thread waits for. `Certify` to `Connect`
are `_do_pairing_setup`, `FindApp` to `EnterCode` are `gateway_authorize`,
`Receive` and `PollAgain` the poll, each with the failures the code tells apart.
An identity is the number of the attempt that made key and certificate; `app` is
what each device knows of each identity, `acls` what the portal holds. Fields that
will be written before they are read again are cleared, which the code does not
do; `Live` says which.

`MC*` modules hold only symmetry sets and the values of constants a .cfg cannot
write.

## 4. Runs

| run | what it asks | bounds, and why they are enough |
|---|---|---|
| `armed` | gate and timer agree (`GateHasItsTimer`), ring arms need pickup, cameras see the gate, only its own timer disarms | 2 stations, 3 arms, 2 set-ups: an arm, one that replaces it, and one after a reload, each with its timer awake or not |
| `camera` | no call lost, no dial during a close, attached clients are served; the gateway is freed after the last client, and after the gate closes once the peers have left | 2 clients, 2 closers, 1 teardown, camera switching, `AwaitsPeers`, 2 calls, 1 signal: each pair of paths at the lock, and a second session after the first. Removal of the entity and two teardowns that overlap are left to the proofs, for safety |
| `camera_gate` | *violation*: a closed gate frees the gateway | as above, with removal |
| `dialer` | exclusive but for calls given up without a BYE, waiters hear the end, implements `IntercomLine`, every request returns | 2 sessions (one with a camera switch), 2 INVITEs, 2 frames under way, 1 loss. A dial begins only when an INVITE is left for it and for the retry after the loss, so two dials meet once the loss has happened; a bump, two dials at the lock and the BYE of a bumped call behind the new call are all reached |
| `listener` | each ring is answered once, waiters hear the end or still wait for the ACK | 2 sessions of 2 stations, 2 rings, 2 frames, 2 connections, 1 refresh: two rings that overlap in every phase, over a loss of the connection; symmetric in the two stations with their sessions |
| `listener_refresh` | *violation*: every INVITE read is announced | 2 rings, 1 refresh |
| `events` | the cache is the recent history, each event fired once, what is shown agrees, polling catches up | 3 events, pages of 2, cap 2, 12 kinds of report (ring, door, screenshot with and without `belongsTo`, timestamps near, far and missing): a full page, a full cap, a poll that overtakes both and one that writes between two reads of the image entity are all reached |
| `talkback` | queue in order and new, first voice marked, newest session keeps ownership, no stale voice | 2 sessions and the anonymous caller, queue of 2, chunks of up to 1.5 frames, tones of 2, 3 frames, 2 calls: overflow, a rest that is carried, a talk after a talk |
| `talkback_stale` | *violation*: the newest session keeps talking | as above |
| `unlock` | success means opened, opens once, who had a session leaves no call | 2 presses, 2 stations (one of the fast route, one of the standard), 2 rings in between |
| `pairing` | an entry is of one identity, a gateway is configured once | 2 flows, a classic gateway and a panel, 2 identities, 2 ACL updates, a page of 1, 1 and 2 attempts at the poll, 2 seconds (so two clients may have one name or two): two flows for one device, a second attempt after a failed one, an update hidden behind another |
| `entry` | client, entities, entry and gateway have the same doors, options reach client and proxy, reloads come to an end unless a peer stays | 2 stations (one locked), 2 networks, 2 ports of which 1 is in the default range, 2 refreshes, `AwaitsPeers`, 4 changes by users, gateway and LAN: refreshes that overlap each other and a set-up, options saved in each stage, a port taken between two set-ups |

`CHECK_DEADLOCK FALSE` stands where the program may really come to rest: the
bounded environment has nothing more to do and no timer is left. `talkback` and
`talkback_stale` check for deadlock: a service call is always possible.

Distinct states, in round numbers: `armed` 53 000, `camera` 438 000, `dialer`
56 000, `listener` 2 470 000, `events` 738 000, `talkback` 1 221 000, `unlock`
809 000, `pairing` 602 000, `entry` 980 000; each takes between four seconds and
about three minutes on two workers. With a third
INVITE `dialer` has well over a million and a half, most of its time going into
liveness.

Every property of a passing run has a mutant in `PROJECT.json`, a small change
of one mapped definition under which the same run finds the property violated.

### Fairness

Only what the loop and the library owe: a task that can run is run (weak
fairness); a wait with a time-out ends; the poll interval goes on. `EntryReload`
has one weak fairness on everything the system does by itself: its requests have
time-outs, and the users run out of changes. Its unload has one (ten seconds, Home
Assistant's) only for what `async_on_unload` registered, the LAN proxy; for the
platforms there is none, so `Unload` is enabled only once the peer has left, which
it need not. `Settles` says so in its premise: a peer does not hold the unload up
for ever. `CameraStream`, `IntercomDialer` and `EventPoll` have one per task.
`EventPoll` has strong fairness for `PageArrives`: the portal does not fail for
ever. `GateClosedFreesCallAfterPeers` and `LastClientFreesCall` have the premise
that no peer holds a teardown up for ever, the latter also that connections stop
coming. `camera_gate` has no such premise and the same fairness; TLC refutes its
property as well when packets are assumed to flow (weak fairness of `Forward`).
Nobody has to ring, press, answer, hang up, connect or
leave, and the gateway owes no answer. `ArmedState`, `SipListener`, `Talkback`,
`SipUnlock` and `Pairing` are checked for safety only, and state no fairness.

## 5. What is proved

Each theorem is of the component's `Spec` (`PollSpec` for the poll), for every
value of its constants that its assumption admits. Every safety invariant and
every action property of the passing runs is the statement of one of them.

| module | theorem | says |
|---|---|---|
| `ArmedState_proof` | `TypesAlwaysOK` | the gate is well typed |
| | `GateCoherent` | the inductive invariant `GateInv` holds always |
| | `GateAlwaysHasItsTimer` | an armed gate has the newest timer, asleep or awake but not cancelled; a closed one none |
| | `RingArmAlwaysNeedsPickup` | no gate is open by a ring while pickup is withdrawn |
| | `CamerasAlwaysSeeGate` | each camera was told of the gate as it is |
| | `StaleTimersAreHarmless` | only the timer of the newest arm disarms |
| `CameraStream_proof` | `StreamSound` | the inductive invariant `StreamInv` holds always |
| | `StreamTyped` | server, clients, lock, call and media are well typed |
| | `NoCallLost` | every call the gateway holds for a camera is the one its session knows |
| | `DialsAlone` | a client dials only while the session has no call and nobody closes it |
| | `AttachedServed` | packet handlers are there just while clients are attached; an attached client outside PLAY has an active session |
| `IntercomDialer_proof` | `DialerSound` | the inductive invariant `DialerInv` holds always |
| | `DialerTyped` | session, lock and frames are well typed |
| | `OneOpenCall` | one call at most is open at the gateway, but for those given up without a BYE |
| | `EndIsHeard` | who waits does so for the active call; its end by the gateway is on the wire or known, or the connection is down |
| | `DialerKeepsLine` | the dialer implements `IntercomLine` |
| `SipListener_proof` | `ListenerSound` | the inductive invariant `ListenerInv` holds always |
| | `ListenerTyped` | tables, place of the loop and frames are well typed |
| | `OneAnswerPerRing` | a ring gets one final response at most, and no two sessions have the same call |
| | `AnsweredCallEnds` | who waits does so for a dialog in the table, or has been woken, or awaits the ACK; the end of a dialog is on the wire or the connection is lost |
| `SipUnlock_proof` | `UnlockSound` | the inductive invariant `UnlockInv` holds always |
| | `UnlockTyped` | everything is well typed, and no connection ever holds more requests or frames than its bound |
| | `PressOpensOnce` | a press opens its own door, at most once, and no other |
| | `SuccessAlwaysOpened` | a press that reports success has opened its door, unless the answer to its INVITE came early |
| | `UnlockedCallEnds` | a press that had a session, and its connection to the end, leaves no call, through time-outs and rings; but for one the station had taken before the CANCEL came, or whose BYE was challenged with nobody reading |
| `EntryReload_proof` | `EntrySound` | the inductive invariant `EntryInv` holds always |
| | `EntryTyped` | entry, what a set-up took from it, and ports are well typed; one proxy at most |
| | `DoorsStayInStep` | at rest client, entities and entry have the doors of the list last read, and marks of pairing outlast every refresh |
| | `OptionsStayInStep` | at rest client and proxy use the entry's options, but for those saved while the last set-up ran |
| `EventPoll_Talkback_proof` | `PollSound` | the inductive invariant `PollInv` holds always |
| | `PollTyped` | what coordinator and entities keep is well typed, and the cache within its cap |
| | `CacheAlwaysRecent` | the cache is the recent history, newest first, with a gap only behind a full page |
| | `EventsFiredOnce` | each event is fired at most once, and all of the cache up to the one seen last has been |
| | `AlwaysShownTogether` | between polls identifier and last event are of the newest events, and the picture too unless it was torn while the image entity was added; a screenshot that names an event has the station of an event linked with it |
| | `TalkbackTyped` | microphone and queue are well typed |
| | `NewestAlwaysHolds` | the newest session owns the microphone until it stops |
| | `QueueIsAlwaysTheTail` | what waits is the end of what was taken, newer than what was sent and than the last stop, and only while talking |
| | `FirstVoiceAlwaysMarked` | while the first voice of a talk waits, its RTP marker is still to be sent |
| | `NoStaleVoiceEver` | what waits and was taken since the newest session began is its own, the anonymous caller's, or the rest of a tone that was sounding then |
| `Pairing_proof` | `PairingSound` | the inductive invariant `PairingInv` of the wizard holds always |
| | `PairingTyped` | every field of every flow and every entry keeps its type |
| | `EntriesAreOneIdentity` | key, certificate and password of an entry are of one identity, which its gateway has paired |
| | `GatewaysAreConfiguredOnce` | no two entries have the same gateway UUID |

Assumptions, each stated as an `ASSUME` in its module and evaluated by TLC in the
runs. The bounds are natural numbers; `MaxNow`, a page, the attempts at the poll
and at a port, ports, queue limit and tone length are at least one. Names that
stand for nothing or for somebody else are apart: `AnyStation` is no station,
`Anonymous` is no session, `NoDevice` no device, `Unloader` no
session of the dialer, and the tasks of a camera (clients, closers, teardowns,
`Remover`, `Watcher`, `NoTask`) are all different. Classic gateways are devices,
locked stations and the first station are stations, `DefaultNet` is a network,
`Indexed` names sessions, each session of the listener has a station, the
strategies are the code's three, and the range of default ports lies within the
ports. A page of the poll holds no more than the cap; in what the portal tells, a
screenshot has no station of its own, any event may name one it belongs to, and
`NoStation` is no station. The sessions of the dialer are finitely many, since its bound on INVITEs
counts those that are dialling. All other sets are arbitrary, even infinite.

The inductive invariants of the camera, the dialer, the listener, the poll, the
unlock, the entry and the wizard were checked with TLC on the instances of their
runs before they were proved, that of the poll also with five events and a cap of
three.

*The gate.* `GateInv` is types, `GateHasItsTimer`, `RingArmNeedsPickup` and
`CamerasSeeGate` together. None is inductive alone: that a woken timer does no
harm needs that the slot of an armed gate is the newest task, which needs that
`disarm` finds in the slot the task it has to cancel; that the cameras are right
after a `disarm` that sends no signal needs that an idle gate has no target. Each
helper (`arm`, `disarm`, `set_pickup_allowed`) is analysed once, in `ArmStep`,
`DisarmStep`, `PickupStep`; each action then cites the one it calls.
`StaleTimersAreHarmless` follows from the invariant and the guard of the timer.

*The camera.* Nothing in the properties speaks of `_stream_lock`, and all of them
rest on it. `StreamInv` says that the lock's queue holds everybody who waits for
it or has it once, and that only its head opens the session or closes it
(`Queue`); beside it stands only the watcher, which does not take the lock and is
always the first inside `close()` (`Closing`). So a dial begins with no call and
no close (`CallKnown`), and the only call at the gateway is the one the session
knows. For the attached clients the hard case is a close decided on an old count:
`Attached` says that whoever shuts the session for good has every attached client
behind it in the queue, which will open it again. The operators have the tasks,
the lock and the tasks in `close()` as parameters, since a task that asks for a
free lock goes on at once and the invariant holds in the state between.

*The dialer.* `DialerInv` says where each task may be; that whoever waits for the
lock or has it is once in its queue, the holder first (`LockInv`); that what is
on the wire or in the queue fits the gateway's view of its call, with one
unanswered challenge at most (`FrameInv`); what a session's place means for the
call (`CallInv`); that a call open at the gateway is the active one, or being set
up, or was given up (`TrackInv`); and that the gateway's end of it is known or
under way (`EndInv`). Exclusiveness is not inductive without the lock: two
sessions could both be between INVITE and answer. `RoomInv` counts the INVITEs
that dialling sessions may still send, against the model's bound.

*The line.* For `LineKept`, `CallMoves` says how the active call comes and goes in
a step of the dialer, and `LineStep` maps each: an answered INVITE is a take of
the free line, a hang-up is its holder's release, a replace a bump, the gateway's
BYE or the loss of the connection a cut, and all else leaves the line alone. It
uses `CallInv`, by which the active call is one session's, and no other's.

*The listener.* An INVITE is on the wire, or in the table, or has had its final
response, and each of these once (`WireInv`, `RingInv`); so a drain by a session,
a CANCEL and a reconnect cannot answer it twice. `WatchInv` says the same of the
call of a session: the ACK, then a dialog in the table, then the wake-up. By
`EndInv` the gateway's BYE for a dialog is on its way while the connection stands,
and `SockInv` says that dialogs do not outlive their connection.

*The poll.* `PollInv` starts from `PageInv`: while the thread keeps what it has
found, its page is the head of the cache and a run of the history that ends at the
cursor. So merging is two questions, what a page adds (`PageTakes`: a run without
a gap, behind it a gap only if the page was full) and what the cap leaves
(`CacheTakes`, `CacheKeeps`). For `EachEventFiredOnce` the cap is the danger: if it
drops the event seen last, the entity's loop does not find its end and goes through
the whole cache. `SeenInv` says why nothing is fired twice: the event seen last is
in the cache, or older than all of it; `UnseenIsNewer` draws the conclusion for
the loop. For `ShownTogether` the poll must be described in mid-air: `ShotInv`
speaks of what picture, identifier and last event will be once the thread has
written them (`ComingShot`, `ComingId`, `ComingLast`), and `ImageInv` of the image
entity that has come between two of the writes (`Between`). With the new picture
under the old identifier it is safe: the identifier is sure to change, and the next
delivery syncs again. With the old picture under the new identifier it is not, since
every later sync finds the identifier it has; `torn` holds that identifier, and the
invariant says that there is no other way for the two to differ.

The stations (`StationInv`) need an induction along the page, since each
screenshot is assigned in the stations the ones before it have left. The library's
induction theorems take an operator as a parameter, which cannot be instantiated
here; `LeastNatural` (every set of natural numbers has a least element, from the
well-foundedness of `<`) replaces them: were there a place of the page after which
the loop's invariant fails, there would be a first one. `AssignedRuns` gives the
recursion along the page, `PassesOne` the step at a screenshot, `PassesNone` and
`PassesAll` start and end of the loop; `ClosestExists` says that the code's `min()`
has a value, `StationEventFound` that the event found is a candidate, and a linked
one where there is any. Other events may name the one they belong to as well, so
the linked one found need not be the one the screenshot names: it is that or a later
one of the same call (`Given`), and `StationInv` says this of the events kept.

*The unlock.* `UnlockInv` follows the conversation of one thread: for each
request it awaits the answer to, what may still be on its way to the gateway and
back. Before the MESSAGE a request is alone on its way (`Alone`) and one final
answer comes (`OneFinal`); after the thread has given up a MESSAGE it may still
arrive, but no second one (`LateMessage`). The code takes any frame for the
answer it awaits, so success follows from what the frame cannot be. That a call is
ended does not follow from the answers at all, but from what is on its way: while a
thread waits for the answer to its BYE, and after it has gone, the call is over, or
a BYE that will end it is still ahead, or its challenge is there to be read
(`ByeOK`, `ByeEnds`, `Left`). So time-outs, rings and wrong answers make no
difference to it; the two exceptions of `CallIsEnded` are a CANCEL that meets a call
already taken (`early`), and a challenge that comes when nobody reads (`Unheard`). Since the gateway appends and the
thread takes the head, most of the proof is about sequences; the lemmas say once
what appending, a head and a tail do to each predicate.

How many frames are under way is a second invariant, `RoomInv`, proved upon the
first. A request leaves the queue of requests when its answer enters that of
frames, so for most phases the sum of the two is bounded (`Room`), with one frame
more kept free while the station still owes the answer to an INVITE. An INVITE
brings up to three frames and needs its own bound, by what has become of the call
(`InviteRoom`). A thread sends more than it read only after a challenge or, once,
after a 487 (`ByeRoom`, `CancelRoom`). Rings are counted apart, since nothing
limits them but `MaxRings`.

*The entry.* A set-up reads the entry bit by bit, so no stage has all of it.
`EntryInv` says of each stage what has been taken by then (`DoorsBuilt`,
`DoorsShown`, `OptionsUsed`), and that it is what the entry has, unless a reload,
or a task that will ask for one, is still to come; at rest none is, and the
properties follow. `ProxyListens` ties the port the proxy holds to the stage,
`MarksKept` the marks to the stations that ever left the list. A peer that holds up
the unload changes none of this: it delays the steps and takes part in none.

*Ownership.* `HolderInv` adds `IdleIsUnheld`: nobody holds the microphone of a
sender whose task has ended. Without it `Release`, which forgets the owner at the
end of a call, would break the property.

*The queue.* "Every waiting frame is newer than what was sent" is not inductive:
after one is sent nothing says the next is newer than it. `VoiceInv` says
instead that the queue is a segment ending with the newest frame, and that its
length plus `sent`, and plus `fence`, does not exceed what was taken. The lemmas
`EndOfMore`, `EndOfLimited`, `EndOfTail` say what appending, the limit and
taking the head do to such a segment. That the first voice is marked follows
from `MarkInv`, which forgets the queue: a microphone that is on and has sent no
voice has its marker. `NoStaleVoice` is about what waits; what carries it,
`BeganInv`, says it of all frames taken since the owner began, sent or not, and adds
that a tone that still sounds on this sender is the holder's, the anonymous caller's
or one of `ringing`: a tone asks for the owner only when it begins.

*Pairing.* That an entry is of one identity is a statement about its end only;
what carries it through the wizard is `PairingInv`. No two flows have the same
certificate (`Apart`), since each attempt makes a new one, and an identity that is
not yet made is known nowhere (`Unborn`). So when a flow posts its connect event
no device knows the identity, and ever after one does (`OneDevice`), the one whose
UUID the flow has: an ACL update for the identity, which only a device that has
paired it sends (`AclsTrue`), is from that device, whichever approved it. This is
also why `FindApp` may pick another flow's app of the same name without harm: the
code of its own certificate is not accepted for it. `FlowOK` says which of this
each place of a flow relies on. For `OneEntryPerGateway` the check of
`_check_unique` is kept true until the confirmation: two flows at their end have
different UUIDs (`Claimed`) and none that an entry has (`NewToEntries`). `Moved`,
`WentOn`, `AppSet` and `AfterPost` say once what the many steps have in common.
The types are proved step by step from what each makes of the fields
(`StepFits`), with the identities bounded by `Unborn`.

### Only model-checked

- Liveness under fairness, and all of `ENABLED`: that of `camera`
  (`LastClientFreesCall`, `GateClosedFreesCallAfterPeers`), `dialer`
  (`EveryRequestReturns`), `events` (`EventsReachEntity`) and `entry` (`Settles`).
  Beyond the prover, which has no rule for fairness.
- The claims of sections 6 and 7, which the code does not keep.

## 6. Findings

Three claims of the repository that the code does not keep, each with a run:

- **A ring lost in a refresh** (`listener_refresh`). `_do_register`
  (`sip_listener.py:666`) takes the next frame for its response. An INVITE there
  fails the connection and no ring event is fired, against `__init__.py:178`.
- **A tone that switches off another's microphone** (`talkback_stale`).
  `send_talkback_tone` (`media_pipeline.py:1133`) ends with `stop_talk()`
  whoever owns the sender then, against README.md:216-217. The frames of that tone
  have gone into the newer session's queue before (`NoStaleSound` below).
- **A call behind a closed gate** (`camera_gate`). A forced teardown stops the RTSP
  server before it closes the session. `RtspServer.stop` (`rtsp_server.py:148-161`)
  closes the connections that have a session and then waits for all of them; a peer
  that has connected and not sent SETUP keeps `wait_closed()` waiting, and the call
  up, against README.md:178-179, "immediately disarms streaming and closes active
  stream sessions". `GateClosedFreesCallAfterPeers` says that nothing else does.

## 7. Other deviations met

Claims that are stated in the modules and that TLC refutes on the instances
above, with no run of their own:

| property | module | what happens |
|---|---|---|
| `ServiceNeedsEntry` | ArmedState | a late callback brings the bucket of an unloaded entry back (`streaming_state.py:70`) and `arm_streaming` accepts it |
| `DialOnlyWhenAllowed` | CameraStream | the gate is asked before the lock, the dial comes after (`camera.py:1026`) |
| `OneServer` | CameraStream | two overlapping teardowns each start a server (`camera.py:874`) |
| `NoMediaWithoutCall` | CameraStream | the watcher closes while `open()` is in its last await; transports stay (`media_pipeline.py:857`) |
| `AttachedHasMedia` | CameraStream | a close that was cancelled half way, and a client that returned meanwhile |
| `Exclusive` | IntercomDialer | an INVITE that times out is given up without CANCEL (`intercom_dialer.py:759`), and the next is sent while the gateway may still answer it, against line 695 (with three INVITEs) |
| `SwitchInOwnCall` | IntercomDialer | a bumped session's camera switch goes to its successor's call (`intercom_dialer.py:930`) |
| `WriterIsThere` | IntercomDialer | the connection is reset between the two halves of a dial (line 692); the assertion at 594 fails |
| `OwnStationAnswered` | SipListener | the only ring, of another station, is answered |
| `PendingRingAnswered` | SipListener | rings of a lost connection stay in the table |
| `StopDropsBinding` | SipListener | the closing REGISTER may be challenged; nobody reads the answer |
| `PictureOfItsEvent` | EventPoll | the image entity that is added while the thread writes may keep the old picture under the new identifier and capture time (`image.py:103-106`, against lines 62-66), until the next screenshot |
| `LatestByStation` | EventPoll | of several screenshots of a station in one page the oldest stays (`coordinator.py:280-282`) |
| `NoStaleSound` | Talkback | a tone asks who owns the microphone only when it begins; the rest of an older session's tone is mixed into what the newer one says (`media_pipeline.py:1116-1130`, against README.md:216-217) |
| `UnlockEndsCall` | SipUnlock | after a 183, the late 200 of the INVITE is taken for the MESSAGE's, and the call, which is up, is sent a CANCEL; the thread waits for a 487 that never comes (`sip_client.py:661-677`, against README.md:305). Or the answer to the MESSAGE, late after a ring or a time-out, is taken for the BYE's, and nobody reads that the BYE was challenged |
| `EverySuccessMeansOpened` | SipUnlock | after a 183 the 200 of the INVITE is taken for the answer to the MESSAGE |
| `RightDeviceIsPaired` | Pairing | the portal shows one device, another than the one chosen, and it is paired under the address of the chosen one (`portal.py:435`, against line 410) |
| `OneEntryPerAddress` | Pairing | two flows for one address with different UUIDs; the address is compared with entries only, before the user confirms (`config_flow.py:275-277`) |
| `OptionsAreUsed` | EntryReload | options saved while a set-up runs, after it has built its client, reload nothing (`__init__.py:1128`) |
| `SavedPortIsTried` | EntryReload | a port saved during the search is replaced by the one found, untried (README.md:237) |
| `SettlesWhoeverStays` | EntryReload | the cameras' unload awaits `RtspServer.stop` (`camera.py:823`) without a time-out; a peer without a session holds the reload and the set-up lock for as long as it stays |
| `StopClosesClients` | EntryReload | `stop()` waits for the server before it cancels the connections (`rtsp_proxy.py:93-98`); where that waits for peers, a client stays with the old proxy |

Smaller things seen while reading, kept by the models: only the last trigger of
a batch of events is a visible state, and that is the oldest; a reload fires up
to a page of history again; a full page loses what it cannot reach; a screenshot
polled before its ring is not matched later; a missing timestamp counts as
distance 0; only the first answer to an INVITE of the unlock is looked at for a
challenge; an INVITE of the unlock that times out is not cancelled, since there is
no session yet, and a dead connection ends nothing: `CallIsEnded` leaves these two
out (`cut`); a ring during an unlock is read as the answer, so a door that has
opened is reported as failed; a ring read while the answer to the BYE is awaited is
answered 200, which takes a visitor's call on a connection about to be closed; the
owner of the microphone is stored before the check
that somebody can talk, is kept when the gateway ends the call, and
`start_talk` leaves what the previous owner had queued; a pairing attempt that
fails after the device has approved it leaves a paired client behind; a gateway
that was slow to answer the scan is taken for a SmartTouch, its login form asks
for no password, and discovery then refuses it; clients made in the same second
have the same name, so the app a flow approves may be another's, and is refused.

## 8. Not modelled

RTP and RTSP bytes, SDP, G.711 tables and AES: data of each packet, with no state
beyond what the models have. Write backpressure and the frame parser of
`rtsp_server.py` (planned). The bytes the RTSP proxy forwards, the parsing of the
gateway's device list and the repair of door names. Certificates, keys and the
body formats of the gateway's admin pages in `portal.py`, which the wizard's model
reduces to whose they are. Camera discovery, go2rtc registration and WebRTC
forwarding (HTTP calls whose results nothing here depends on). The services that
only report or forward (`export_credentials`, the targets of talkback calls).
Sensors, diagnostics, text repair and constants (display). The gateway, the
stations, the portal, Home Assistant's entry and flow managers and asyncio are
not part of the repository; they are modelled as far as the code uses them and
marked external in `PROJECT.json`.
