---------------------------- MODULE EntryReload ----------------------------
(***************************************************************************)
(* The configuration entry around the rest: set-up and reload of           *)
(* __init__.py, the refresh of its doors from the gateway, the options     *)
(* that need a reload, and the LAN RTSP proxy with its choice of a port    *)
(* (rtsp_proxy.py).                                                        *)
(*                                                                         *)
(* A set-up takes the doors and the options from the entry bit by bit,     *)
(* with waits in between: the client takes them first, the proxy later,    *)
(* the entities last.  What is saved meanwhile, by the user or a refresh,  *)
(* has to reach all of them in the end, by another reload if need be.      *)
(* Reloads wait for each other at the entry's set-up lock.                 *)
(*                                                                         *)
(* External: Home Assistant's entry and its lock, which runs one set-up at *)
(* a time, the gateway's list, other users of the ports, LAN clients.      *)
(***************************************************************************)
EXTENDS Naturals, Sequences, SequencesExt, FiniteSets

CONSTANTS Stations,
          Locked,         \* the stations pairing has marked can_unlock = False
          Nets,           \* values of lan_rtsp_host and unlock_strategy
          DefaultNet,     \* what they are when there are no options yet
          Ports,
          DefaultPort,    \* DEFAULT_LAN_RTSP_PORT
          PickAttempts,   \* DEFAULT_LAN_RTSP_PORT_PICK_ATTEMPTS
          Refreshers,     \* calls of the refresh_doors service
          AwaitsPeers,    \* wait_closed waits for connections, Python >= 3.12.1
          MaxChanges      \* bound: what users, gateway and LAN do

ASSUME EntryAssumption ==
  /\ Locked \subseteq Stations
  /\ DefaultNet \in Nets
  /\ Ports \subseteq Nat \ {0}
  /\ {DefaultPort, PickAttempts} \subseteq Nat \ {0}
  /\ DefaultPort..(DefaultPort + PickAttempts - 1) \subseteq Ports
  /\ AwaitsPeers \in BOOLEAN
  /\ MaxChanges \in Nat

Platforms == {"button", "camera"}
NoPort == 0

VARIABLES
  doors,    \* entry.data["doors"]: the stations and their marks
  opts,     \* entry.options
  stage,    \* of the set-up or unload that holds the lock; "loaded": of none
  fetched,  \* the list that the set-up's executor thread has brought
  tries,    \* candidate ports not yet tried
  data,     \* hass.data[DOMAIN]: there is one, and what it holds
  entities, \* the doors each platform has built its entities from
  reloads,  \* async_reload calls that wait for the lock
  tasks,    \* _async_options_updated tasks not yet begun
  refresh,  \* where each service call is, and its list
  mine,     \* ports a proxy of this entry listens on
  lan,      \* a LAN client, and whether its proxy is being stopped
  peer,     \* somebody is connected to a camera's RTSP server, without a session
  \* the gateway, the other programs of the host
  listed,   \* the stations of the device list
  taken,    \* ports in use by others
  changes,
  \* history
  latest,   \* the list the last set-up has read, or none
  missed,   \* options were saved after the set-up had used them
  gone      \* the stations that have been missing from doors

entry == <<doors, opts>>
world == <<listed, taken, changes>>
clients == <<lan, peer>>
setup == <<stage, fetched, tries, data, entities, reloads, mine, clients, latest>>
history == <<missed, gone>>
vars == <<entry, setup, tasks, refresh, world, history>>

NoList == {}
NoDoors == <<>>
NoOpts == [net |-> "none", port |-> NoPort]
NoData ==
  [set |-> FALSE, doors |-> NoDoors, net |-> "none", port |-> NoPort, reload_options |-> NoOpts]

----------------------------------------------------------------------------
(* What has changed in the entry is told to its update listener, which is  *)
(* registered from the last part of a set-up to the unload.                *)

HasListener == stage \in {"platforms", "loaded", "unload"}
Notify == tasks' = IF HasListener THEN tasks + 1 ELSE tasks

\* The list of the gateway with the metadata of the doors that are known.
\* _async_refresh_doors_for_entry reads them when the list has come.
Merged(list) == [s \in list |-> s \in DOMAIN doors /\ doors[s]]

Gone == gone \cup (Stations \ DOMAIN doors')

----------------------------------------------------------------------------
(* async_setup_entry.                                                      *)

\* A thread reads the device list: over http, over https, or not at all.  An
\* empty list is none.
Fetched == {NoList, listed}

SetupFetch ==
  /\ stage = "fetch"
  /\ fetched' \in Fetched
  /\ stage' = "fetched"
  /\ UNCHANGED <<entry, tries, data, entities, reloads, mine, clients, latest, tasks, refresh,
                 world, history>>

\* Faulty variant: with reload_on_change, the reload waits for the lock that
\* the set-up holds.
SetupClientReloads ==
  /\ stage = "fetched"
  /\ fetched = NoList \/ Merged(fetched) = doors
  /\ latest' = fetched /\ fetched' = NoList
  /\ data' = [NoData EXCEPT !.set = TRUE, !.doors = doors, !.net = opts.net]
  /\ stage' = "host"
  /\ missed' = FALSE
  /\ UNCHANGED <<entry, tries, entities, reloads, mine, clients, tasks, refresh, world, gone>>

\* The list is stored, without another reload, and the client is built.  The
\* host is read here; unless it is configured a thread looks for it.
SetupClient ==
  /\ stage = "fetched"
  /\ doors' = IF fetched = NoList THEN doors ELSE Merged(fetched)
  /\ latest' = fetched /\ fetched' = NoList
  /\ data' = [NoData EXCEPT !.set = TRUE, !.doors = doors', !.net = opts.net]
  /\ stage' = "host"
  /\ missed' = FALSE /\ gone' = Gone
  /\ UNCHANGED <<opts, tries, entities, reloads, mine, clients, tasks, refresh, world>>

\* _candidate_lan_rtsp_ports: the configured one, then the default range.
Candidates ==
  LET range == [i \in 1..PickAttempts |-> DefaultPort + i - 1]
  IN  IF opts.port = NoPort THEN range
      ELSE <<opts.port>> \o RemoveFirst(range, opts.port)

\* _async_start_rtsp_proxy begins; "bind" waits for the start of the first
\* candidate, which is the configured port if there is one.
SetupPorts ==
  /\ stage = "host"
  /\ tries' = Candidates
  /\ data' = [data EXCEPT !.port = opts.port]
  /\ stage' = "bind"
  /\ UNCHANGED <<entry, fetched, entities, reloads, mine, clients, latest, tasks, refresh, world,
                 history>>

\* Faulty variant: the new port is not persisted.
BoundUnsaved(port) ==
  /\ mine' = mine \cup {port}
  /\ data' = [data EXCEPT !.port = port]
  /\ tries' = <<>>
  /\ stage' = "poll"
  /\ UNCHANGED opts

\* RtspTcpProxy.start succeeds.  A port that is not the one configured when
\* the search began is persisted among the options there are now.
Bound(port) ==
  /\ mine' = mine \cup {port}
  /\ opts' = IF port = data.port THEN opts ELSE [opts EXCEPT !.port = port]
  /\ data' = [data EXCEPT !.port = port]
  /\ tries' = <<>>
  /\ stage' = "poll"

\* One candidate is tried; when none is left the entry does without a proxy.
SetupBind ==
  /\ stage = "bind"
  /\ IF Head(tries) \in taken \cup mine
     THEN /\ tries' = Tail(tries)
          /\ IF tries' = <<>>
             THEN stage' = "poll" /\ data' = [data EXCEPT !.port = NoPort]
             ELSE UNCHANGED <<stage, data>>
          /\ UNCHANGED <<opts, mine>>
     ELSE Bound(Head(tries))
  /\ UNCHANGED <<doors, fetched, entities, reloads, clients, latest, tasks, refresh, world,
                 history>>

\* After the initial poll the update listener is registered, with the options
\* as they are now, and the platforms are set up.
SetupListener ==
  /\ stage = "poll"
  /\ data' = [data EXCEPT !.reload_options = opts]
  /\ stage' = "platforms"
  /\ UNCHANGED <<entry, fetched, tries, entities, reloads, mine, clients, latest, tasks, refresh,
                 world, history>>

\* A platform builds its entities from the doors of the entry.
SetupPlatform(p) ==
  /\ stage = "platforms" /\ entities[p] = NoDoors
  /\ entities' = [entities EXCEPT ![p] = doors]
  /\ stage' = IF \A q \in Platforms : entities'[q] # NoDoors THEN "loaded" ELSE stage
  /\ UNCHANGED <<entry, fetched, tries, data, reloads, mine, clients, latest, tasks, refresh, world,
                 history>>

----------------------------------------------------------------------------
(* Reload: a call that waits for the lock gets it.                         *)

BeginReload ==
  /\ stage = "loaded" /\ reloads > 0
  /\ reloads' = reloads - 1
  /\ stage' = "unload"
  /\ UNCHANGED <<entry, fetched, tries, data, entities, mine, clients, latest, tasks, refresh,
                 world, history>>

\* Faulty variant: the proxy is not stopped.
StillListening == mine

\* async_unload_entry: each camera stops its RtspServer, which closes the sessions
\* it knows and waits, without a time-out, for every other peer to leave.  Then
\* what was registered with async_on_unload: RtspTcpProxy.stop closes the socket,
\* waits for it, and only then cancels its connections.
StopListening == mine \ {data.port}
Unload ==
  /\ stage = "unload"
  /\ AwaitsPeers => ~peer
  /\ entities' = [p \in Platforms |-> NoDoors]
  /\ data' = NoData
  /\ mine' = StopListening
  /\ peer' = FALSE
  /\ CASE lan = "live" /\ AwaitsPeers -> stage' = "stopping" /\ lan' = "old"
       [] lan = "live" /\ ~AwaitsPeers -> stage' = "fetch" /\ lan' = "none"
       [] OTHER -> stage' = "fetch" /\ UNCHANGED lan
  /\ UNCHANGED <<entry, fetched, tries, reloads, latest, tasks, refresh, world, history>>

\* Home Assistant waits ten seconds for what was registered with async_on_unload,
\* not for the platforms; a LAN client that is connected for longer stays with the
\* proxy that is stopping.
UnloadTimesOut ==
  /\ stage = "stopping"
  /\ stage' = "fetch"
  /\ UNCHANGED <<entry, fetched, tries, data, entities, reloads, mine, clients, latest, tasks,
                 refresh, world, history>>

----------------------------------------------------------------------------
(* _async_options_updated, a task for each change of the entry.            *)

OptionsUpdated ==
  /\ tasks > 0
  /\ tasks' = tasks - 1
  /\ reloads' = IF data.set /\ data.reload_options = opts THEN reloads ELSE reloads + 1
  /\ data' = IF data.set THEN [data EXCEPT !.reload_options = opts] ELSE data
  /\ UNCHANGED <<entry, stage, fetched, tries, entities, mine, clients, latest, refresh, world,
                 history>>

----------------------------------------------------------------------------
(* The refresh_doors service.                                              *)

Idle == [pc |-> "idle", list |-> NoList]

RefreshFetch(r) ==
  /\ refresh[r].pc = "fetch"
  /\ \E list \in Fetched : refresh' = [refresh EXCEPT ![r] = [pc |-> "fetched", list |-> list]]
  /\ UNCHANGED <<entry, setup, tasks, world, history>>

\* Faulty variant: the entry is not reloaded.
StoreOnly(list) ==
  /\ doors' = Merged(list)
  /\ Notify
  /\ UNCHANGED reloads

\* The doors that differ are stored, the listener is told, and the entry is
\* reloaded.
Store(list) ==
  /\ doors' = Merged(list)
  /\ Notify
  /\ reloads' = reloads + 1

RefreshStore(r) ==
  /\ refresh[r].pc = "fetched"
  /\ refresh' = [refresh EXCEPT ![r] = Idle]
  /\ IF refresh[r].list # NoList /\ Merged(refresh[r].list) # doors
     THEN Store(refresh[r].list)
     ELSE UNCHANGED <<doors, tasks, reloads>>
  /\ gone' = Gone
  /\ UNCHANGED <<opts, stage, fetched, tries, data, entities, mine, clients, latest, world, missed>>

----------------------------------------------------------------------------
(* The users, the gateway and the LAN.                                     *)

Change == changes < MaxChanges /\ changes' = changes + 1

\* The options form is submitted.
SaveOptions ==
  /\ Change
  /\ \E o \in [net : Nets, port : Ports] :
       /\ o # opts
       /\ opts' = o
       /\ missed' = \/ missed
                    \/ stage \in {"host", "bind", "poll"} /\ o.net # opts.net
                    \/ stage \in {"bind", "poll"} /\ o.port # opts.port
  /\ Notify
  /\ UNCHANGED <<doors, setup, refresh, listed, taken, gone>>

CallRefresh(r) ==
  /\ Change
  /\ data.set /\ refresh[r] = Idle
  /\ refresh' = [refresh EXCEPT ![r].pc = "fetch"]
  /\ UNCHANGED <<entry, setup, tasks, listed, taken, history>>

GatewayChanges ==
  /\ Change
  /\ \E list \in (SUBSET Stations) \ {NoList, listed} : listed' = list
  /\ UNCHANGED <<entry, setup, tasks, refresh, taken, history>>

PortChanges ==
  /\ Change
  /\ \E p \in Ports \ mine : taken' = (taken \cup {p}) \ (taken \cap {p})
  /\ UNCHANGED <<entry, setup, tasks, refresh, listed, history>>

\* _handle_connection, if go2rtc accepts the connection.
ClientConnects ==
  /\ Change
  /\ mine # {} /\ lan = "none"
  /\ lan' = "live"
  /\ UNCHANGED <<entry, stage, fetched, tries, data, entities, reloads, mine, peer, latest,
                 tasks, refresh, listed, taken, history>>

\* Either side closes: both pipes end, and a stop() that waits goes on.
ClientLeaves ==
  /\ lan # "none" /\ lan' = "none"
  /\ stage' = IF stage = "stopping" THEN "fetch" ELSE stage
  /\ UNCHANGED <<entry, fetched, tries, data, entities, reloads, mine, peer, latest, tasks,
                 refresh, world, history>>

\* RtspServer._handle_connection: a peer that has not sent SETUP, or has sent
\* TEARDOWN, is in no list.  The servers are there with the camera platform, and
\* closed when its unload begins.
PeerConnects ==
  /\ Change
  /\ stage \in {"platforms", "loaded"} /\ entities["camera"] # NoDoors /\ ~peer
  /\ peer' = TRUE
  /\ UNCHANGED <<entry, stage, fetched, tries, data, entities, reloads, mine, lan, latest, tasks,
                 refresh, listed, taken, history>>

PeerLeaves ==
  /\ peer /\ peer' = FALSE
  /\ UNCHANGED <<entry, stage, fetched, tries, data, entities, reloads, mine, lan, latest, tasks,
                 refresh, world, history>>

\* Home Assistant restarts: the entry is on disk, everything else begins again.
Restart ==
  /\ Change
  /\ stage' = "fetch" /\ fetched' = NoList /\ tries' = <<>>
  /\ data' = NoData
  /\ entities' = [p \in Platforms |-> NoDoors]
  /\ reloads' = 0 /\ tasks' = 0
  /\ refresh' = [r \in Refreshers |-> Idle]
  /\ mine' = {} /\ lan' = "none" /\ peer' = FALSE
  /\ UNCHANGED <<entry, listed, taken, latest, history>>

----------------------------------------------------------------------------
Init ==
  /\ listed \in (SUBSET Stations) \ {NoList}
  /\ doors = [s \in listed |-> s \in Locked]
  /\ opts = [net |-> DefaultNet, port |-> NoPort]
  /\ stage = "fetch" /\ fetched = NoList /\ tries = <<>>
  /\ data = NoData
  /\ entities = [p \in Platforms |-> NoDoors]
  /\ reloads = 0 /\ tasks = 0
  /\ refresh = [r \in Refreshers |-> Idle]
  /\ mine = {} /\ lan = "none" /\ peer = FALSE
  /\ taken = {}
  /\ changes = 0
  /\ latest = NoList
  /\ missed = FALSE
  /\ gone = Stations \ listed

System ==
  \/ SetupFetch \/ SetupClient \/ SetupPorts \/ SetupBind \/ SetupListener
  \/ \E p \in Platforms : SetupPlatform(p)
  \/ BeginReload \/ Unload \/ UnloadTimesOut
  \/ OptionsUpdated
  \/ \E r \in Refreshers : RefreshFetch(r) \/ RefreshStore(r)

Environment ==
  \/ SaveOptions \/ GatewayChanges \/ PortChanges
  \/ \E r \in Refreshers : CallRefresh(r)
  \/ ClientConnects \/ ClientLeaves \/ PeerConnects \/ PeerLeaves \/ Restart

Next == System \/ Environment

Spec == Init /\ [][Next]_vars

\* The event loop runs what is ready, and the threads' requests have time-outs.
\* The LAN client and the peer may stay for ever.
FairSpec == Spec /\ WF_vars(System)

----------------------------------------------------------------------------
(* Properties.                                                             *)

Quiet ==
  /\ stage = "loaded"
  /\ reloads = 0 /\ tasks = 0
  /\ \A r \in Refreshers : refresh[r] = Idle

IsDoors(d) == DOMAIN d \subseteq Stations /\ \A s \in DOMAIN d : d[s] \in BOOLEAN
Options == [net : Nets, port : Ports \cup {NoPort}]

TypeOK ==
  /\ IsDoors(doors) /\ DOMAIN doors # {}
  /\ opts \in Options
  /\ stage \in {"fetch", "fetched", "host", "bind", "poll", "platforms", "loaded", "unload",
                "stopping"}
  /\ {fetched, listed, latest} \subseteq SUBSET Stations
  /\ tries \in Seq(Ports) /\ (stage = "bind" <=> tries # <<>>)
  /\ DOMAIN data = DOMAIN NoData
  /\ data.set \in BOOLEAN /\ IsDoors(data.doors)
  /\ data.port \in Ports \cup {NoPort}
  /\ data.reload_options \in Options \cup {NoOpts}
  /\ \A p \in Platforms : IsDoors(entities[p])
  /\ reloads \in Nat /\ tasks \in Nat
  /\ \A r \in Refreshers : refresh[r].pc \in {"idle", "fetch", "fetched"}
  /\ mine \cup taken \subseteq Ports /\ Cardinality(mine) <= 1
  /\ changes \in 0..MaxChanges /\ gone \subseteq Stations
  /\ lan \in {"none", "live", "old"} /\ missed \in BOOLEAN /\ peer \in BOOLEAN

\* When nothing is under way, the client that opens doors, the entities of every
\* platform and the entry have the same doors, and those are the list that the
\* last set-up read: two refreshes that overlap, the older list stored last,
\* or a refresh in the middle of a set-up do not leave an old one anywhere
\* (__init__.py:755-766).  A station keeps its mark while it is in every list
\* (__init__.py:727-739).
DoorsInStep ==
  /\ Quiet =>
       /\ data.doors = doors
       /\ \A p \in Platforms : entities[p] = doors
       /\ latest # NoList => DOMAIN doors = latest
  /\ \A s \in DOMAIN doors \ gone : doors[s] = (s \in Locked)

\* When nothing is under way, the client and the proxy use the options of the
\* entry, and the proxy listens on no other port; except for options saved
\* while the last set-up ran, after it had used the ones before
\* (__init__.py:1136-1141, 530).
OptionsInStep ==
  Quiet =>
    /\ data.net = opts.net \/ missed
    /\ data.port \in {opts.port, NoPort} \/ missed
    /\ mine = {data.port} \ {NoPort}

\* Once users, gateway and LAN do nothing more, the entry gets loaded and stays
\* so: no reload asks for another one for ever, none waits for the lock it
\* holds, and a LAN client does not hold up the stop of its proxy (__init__.py:764,
\* 1139).  The premise is that no peer of a camera's server stays for ever while
\* the platforms unload.
HeldUp == stage = "unload" /\ peer
Settles == []<>~HeldUp => <>[]Quiet

----------------------------------------------------------------------------
(* Claims the code does not keep.                                          *)

\* "Reload only for options that affect connection topology"
\* (__init__.py:1128): those that are saved while a set-up runs, after it has
\* built its client, reload nothing and are not used.
OptionsAreUsed == Quiet => data.net = opts.net

\* "The integration tries the saved preferred port first" (README.md:237) and
\* replaces it if it is occupied.  A port saved during the search is replaced
\* untried.
SavedPortIsTried ==
  [][opts'.port # opts.port /\ stage = "bind" /\ stage' = "poll"
       => opts.port \in taken \cup {NoPort}]_vars

\* camera.py:823, "await self._rtsp.stop()", as part of every unload: a peer that
\* stays keeps the reload, and the set-up lock, for ever.
SettlesWhoeverStays == <>[]Quiet

\* The proxy that is stopped closes its connections (rtsp_proxy.py:93-98).  A
\* client that does not leave by itself keeps using it.
StopClosesClients == Quiet => lan # "old"
=============================================================================
