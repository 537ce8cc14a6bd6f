------------------------- MODULE EntryReload_proof -------------------------
(***************************************************************************)
(* The configuration entry, for any stations, networks, ports, number of   *)
(* refreshes and changes: when nothing is under way, the client, the       *)
(* entities and the entry have the same doors, and client and proxy use    *)
(* the options of the entry.                                               *)
(*                                                                         *)
(* Each stage of a set-up fixes some of what it has taken from the entry;  *)
(* the invariant says of each stage what is fixed by then, and that        *)
(* whatever changed the entry since has a reload, or a task that will ask  *)
(* for one, still to come.                                                 *)
(***************************************************************************)
EXTENDS EntryReload, FiniteSetTheorems, TLAPS

\* Stages in which the client is built, in which all of the entry has been
\* read, and in which the proxy is as the set-up has found it.
HasClient == {"host", "bind", "poll", "platforms", "loaded"}
IsRead == {"platforms", "loaded"}
HasProxy == {"poll", "platforms", "loaded", "unload"}

Lists ==
  /\ {fetched, listed, latest} \subseteq SUBSET Stations /\ listed # {}
  /\ \A r \in Refreshers :
       /\ refresh[r].pc \in {"idle", "fetch", "fetched"}
       /\ refresh[r].list \in SUBSET Stations
  /\ DOMAIN refresh = Refreshers

Types ==
  /\ IsDoors(doors) /\ DOMAIN doors # {}
  /\ opts \in Options
  /\ stage \in {"fetch", "fetched", "stopping", "unload"} \cup HasClient
  /\ Lists
  /\ tries \in Seq(Ports) /\ (stage = "bind" <=> tries # <<>>)
  /\ DOMAIN data = DOMAIN NoData
  /\ data.set \in BOOLEAN /\ IsDoors(data.doors)
  /\ data.port \in Ports \cup {NoPort}
  /\ data.reload_options \in Options \cup {NoOpts}
  /\ DOMAIN entities = Platforms /\ \A p \in Platforms : IsDoors(entities[p])
  /\ reloads \in Nat /\ tasks \in Nat
  /\ taken \subseteq Ports
  /\ changes \in 0..MaxChanges /\ gone \subseteq Stations
  /\ lan \in {"none", "live", "old"} /\ peer \in BOOLEAN /\ missed \in BOOLEAN

\* A station that is in the entry and never was not has the mark of pairing.
MarksKept ==
  /\ Stations \ DOMAIN doors \subseteq gone
  /\ \A s \in DOMAIN doors \ gone : doors[s] = (s \in Locked)

\* The client has the doors of the entry, and the entry those of the list that
\* was read, unless another reload is asked for.
DoorsBuilt ==
  stage \in HasClient =>
    /\ data.set
    /\ reloads = 0 => data.doors = doors /\ (latest # NoList => DOMAIN doors = latest)

\* So have the entities that are built, and those of a loaded entry are.
DoorsShown ==
  /\ stage \notin IsRead \cup {"unload"} => \A p \in Platforms : entities[p] = NoDoors
  /\ stage \in IsRead /\ reloads = 0 =>
       \A p \in Platforms : entities[p] \in {NoDoors, doors}
  /\ stage = "loaded" => \A p \in Platforms : entities[p] # NoDoors

\* What client and proxy use are the options o, or what was saved after they
\* had used others.
NetUsed(o) == data.net = o.net \/ missed
PortUsed(o, ps) == data.port \in {o.port} \cup ps \/ missed
OptionsUsed ==
  /\ stage \in {"host", "bind", "poll"} => NetUsed(opts)
  /\ stage = "bind" => PortUsed(opts, {})
  /\ stage = "poll" => PortUsed(opts, {NoPort})
  /\ stage \in IsRead =>
       /\ reloads = 0 => NetUsed(data.reload_options) /\ PortUsed(data.reload_options, {NoPort})
       /\ tasks = 0 => data.reload_options = opts

\* A proxy listens from the time its port is found until the unload.
ProxyListens == mine = IF stage \in HasProxy THEN {data.port} \ {NoPort} ELSE {}

EntryInv ==
  Types /\ MarksKept /\ DoorsBuilt /\ DoorsShown /\ OptionsUsed /\ ProxyListens
----------------------------------------------------------------------------
(* Doors, and ports to try.                                                *)

\* The ports to try are ports, and there is one.
LEMMA PortsToTry ==
  ASSUME opts \in Options
  PROVE  Candidates \in Seq(Ports) /\ Candidates # <<>>
<1>. DEFINE s == [i \in 1..PickAttempts |-> DefaultPort + i - 1]
            e == opts.port
<1>1. PickAttempts \in Nat \ {0} /\ DefaultPort \in Nat \ {0}
  BY EntryAssumption
<1>2. /\ s \in Seq(Ports) /\ Len(s) = PickAttempts
      /\ \A i \in 1..PickAttempts : s[i] = DefaultPort + i - 1
  <2>1. \A i \in 1..PickAttempts :
          DefaultPort + i - 1 \in DefaultPort..(DefaultPort + PickAttempts - 1)
    BY <1>1
  <2>2. \A i \in 1..PickAttempts : DefaultPort + i - 1 \in Ports
    BY <2>1, EntryAssumption
  <2>3. s \in [1..PickAttempts -> Ports]
    BY <2>2
  <2>. QED
    BY <1>1, <2>3
<1>. HIDE DEF s
<1>3. RemoveFirst(s, e) \in Seq(Ports)
  <2>1. CASE \A n \in 1..Len(s) : s[n] # e
    BY <1>2, <2>1 DEF RemoveFirst
  <2>2. CASE \E n \in 1..Len(s) : s[n] = e
    <3>1. PICK n \in 1..Len(s) : s[n] = e
      BY <2>2
    <3>2. \A i \in 1..Len(s) : s[i] = e => i = n
      BY <1>1, <1>2, <3>1
    <3>3. {i \in 1..Len(s) : s[i] = e} = {n}
      BY <3>1, <3>2
    <3>4. Min({n}) = n
      BY DEF Min
    <3>5. RemoveFirst(s, e) = RemoveAt(s, n)
      BY <2>2, <3>3, <3>4 DEF RemoveFirst, SelectInSeq
    <3>6. SubSeq(s, 1, n - 1) \in Seq(Ports) /\ SubSeq(s, n + 1, Len(s)) \in Seq(Ports)
      BY <1>2
    <3>7. \A u, v \in Seq(Ports) : u \o v \in Seq(Ports)
      OBVIOUS
    <3>. QED
      BY <3>5, <3>6, <3>7 DEF RemoveAt
  <2>. QED
    BY <2>1, <2>2
<1>4. CASE e = NoPort
  <2>1. Candidates = s
    BY <1>4 DEF Candidates, s
  <2>2. s # <<>>
    BY <1>1, <1>2
  <2>. QED
    BY <1>2, <2>1, <2>2
<1>5. CASE e # NoPort
  <2>1. Candidates = <<e>> \o RemoveFirst(s, e)
    BY <1>5 DEF Candidates, s
  <2>2. e \in Ports
    BY <1>5 DEF Options
  <2>3. <<e>> \in Seq(Ports) /\ Len(<<e>>) = 1
    BY <2>2
  <2>4. \A u, v \in Seq(Ports) :
          u \o v \in Seq(Ports) /\ Len(u \o v) = Len(u) + Len(v) /\ Len(v) \in Nat
    OBVIOUS
  <2>. DEFINE u == <<e>>
              v == RemoveFirst(s, e)
  <2>. HIDE DEF u, v
  <2>5. u \o v \in Seq(Ports) /\ Len(u \o v) = 1 + Len(v) /\ Len(v) \in Nat
    BY <1>3, <2>3, <2>4 DEF u, v
  <2>6. u \o v # <<>>
    BY <2>5
  <2>. QED
    BY <2>1, <2>5, <2>6 DEF u, v
<1>. QED
  BY <1>4, <1>5

\* A list that is stored is one of doors, with the marks of those known before.
LEMMA Merging ==
  ASSUME EntryInv, NEW list \in SUBSET Stations, doors' = Merged(list), gone' = Gone
  PROVE  /\ DOMAIN doors' = list /\ IsDoors(doors')
         /\ MarksKept' /\ gone' \subseteq Stations
<1>0. IsDoors(doors) /\ MarksKept /\ gone \subseteq Stations
  BY DEF EntryInv, Types
<1>1. /\ DOMAIN doors' = list
      /\ \A s \in list : doors'[s] = (s \in DOMAIN doors /\ doors[s])
  BY DEF Merged
<1>2. IsDoors(doors')
  <2>1. \A s \in list : doors'[s] \in BOOLEAN
    BY <1>1
  <2>. QED
    BY <1>1, <2>1 DEF IsDoors
<1>3. gone' = gone \cup (Stations \ list)
  BY <1>1 DEF Gone
<1>4. \A s \in list \ gone' : doors'[s] = (s \in Locked)
  <2>. SUFFICES ASSUME NEW s \in list, s \notin gone' PROVE doors'[s] = (s \in Locked)
    OBVIOUS
  <2>1. s \in DOMAIN doors \ gone
    BY <1>0, <1>3 DEF MarksKept
  <2>2. doors[s] = (s \in Locked)
    BY <1>0, <2>1 DEF MarksKept
  <2>3. doors'[s] = (s \in DOMAIN doors /\ doors[s]) /\ s \in DOMAIN doors
    BY <1>1, <2>1
  <2>4. doors'[s] = (s \in DOMAIN doors /\ (s \in Locked))
    BY <2>2, <2>3, Zenon
  <2>. QED
    BY <2>3, <2>4
<1>5. MarksKept'
  BY <1>1, <1>3, <1>4 DEF MarksKept
<1>. QED
  BY <1>0, <1>1, <1>2, <1>3, <1>5
\* The changes are counted up to their bound.
LEMMA Changed ==
  ASSUME EntryInv, Change
  PROVE  changes' \in 0..MaxChanges
<1>1. MaxChanges \in Nat
  BY EntryAssumption
<1>. QED
  BY <1>1 DEF EntryInv, Types, Change

----------------------------------------------------------------------------
(* The steps.                                                              *)

\* A set-up begins with nothing taken from the entry.
LEMMA SetupFetchKeeps ==
  ASSUME EntryInv, SetupFetch
  PROVE  EntryInv'
<1>. USE DEF EntryInv, SetupFetch, Fetched, NoList, entry, clients, world, history
<1>1. Types'
  BY DEF Types, Lists, HasClient
<1>2. MarksKept'
  BY DEF MarksKept
<1>3. DoorsBuilt'
  BY DEF DoorsBuilt, HasClient, Types
<1>4. DoorsShown'
  BY DEF DoorsShown, IsRead
<1>5. OptionsUsed'
  BY DEF OptionsUsed, IsRead, NetUsed, PortUsed
<1>6. ProxyListens'
  BY DEF ProxyListens, HasProxy
<1>. QED
  BY <1>1, <1>2, <1>3, <1>4, <1>5, <1>6

\* The port is read; the candidates begin with it.
LEMMA SetupPortsKeeps ==
  ASSUME EntryInv, SetupPorts
  PROVE  EntryInv'
<1>. USE DEF EntryInv, SetupPorts, entry, clients, world, history
<1>1. Types'
  <2>1. opts \in Options /\ opts.port \in Ports \cup {NoPort}
    BY DEF Types, Options
  <2>2. tries' \in Seq(Ports) /\ tries' # <<>>
    BY <2>1, PortsToTry
  <2>3. /\ DOMAIN data' = DOMAIN data /\ data'.set = data.set /\ data'.doors = data.doors
        /\ data'.port \in Ports \cup {NoPort} /\ data'.reload_options = data.reload_options
    BY <2>1 DEF Types, NoData
  <2>. QED
    BY <2>2, <2>3 DEF Types, Lists, HasClient
<1>2. MarksKept'
  BY DEF MarksKept
<1>3. DoorsBuilt'
  BY DEF DoorsBuilt, HasClient, Types
<1>4. DoorsShown'
  BY DEF DoorsShown, IsRead
<1>5. OptionsUsed'
  BY DEF OptionsUsed, IsRead, NetUsed, PortUsed
<1>6. ProxyListens'
  BY DEF ProxyListens, HasProxy
<1>. QED
  BY <1>1, <1>2, <1>3, <1>4, <1>5, <1>6

\* The update listener is there, and the options it compares with are read.
LEMMA SetupListenerKeeps ==
  ASSUME EntryInv, SetupListener
  PROVE  EntryInv'
<1>. USE DEF EntryInv, SetupListener, entry, clients, world, history
<1>1. Types'
  BY DEF Types, Lists, HasClient
<1>2. MarksKept'
  BY DEF MarksKept
<1>3. DoorsBuilt'
  BY DEF DoorsBuilt, HasClient, Types
<1>4. DoorsShown'
  BY DEF DoorsShown, IsRead
<1>5. OptionsUsed'
  BY DEF OptionsUsed, IsRead, NetUsed, PortUsed
<1>6. ProxyListens'
  BY DEF ProxyListens, HasProxy
<1>. QED
  BY <1>1, <1>2, <1>3, <1>4, <1>5, <1>6

\* A reload that gets the lock unloads what there is.
LEMMA BeginReloadKeeps ==
  ASSUME EntryInv, BeginReload
  PROVE  EntryInv'
<1>. USE DEF EntryInv, BeginReload, entry, clients, world, history
<1>1. Types'
  BY DEF Types, Lists, HasClient
<1>2. MarksKept'
  BY DEF MarksKept
<1>3. DoorsBuilt'
  BY DEF DoorsBuilt, HasClient, Types
<1>4. DoorsShown'
  BY DEF DoorsShown, IsRead
<1>5. OptionsUsed'
  BY DEF OptionsUsed, IsRead, NetUsed, PortUsed
<1>6. ProxyListens'
  BY DEF ProxyListens, HasProxy
<1>. QED
  BY <1>1, <1>2, <1>3, <1>4, <1>5, <1>6

\* The unload goes on without the proxy that does not stop in time.
LEMMA UnloadTimesOutKeeps ==
  ASSUME EntryInv, UnloadTimesOut
  PROVE  EntryInv'
<1>. USE DEF EntryInv, UnloadTimesOut, entry, clients, world, history
<1>1. Types'
  BY DEF Types, Lists, HasClient
<1>2. MarksKept'
  BY DEF MarksKept
<1>3. DoorsBuilt'
  BY DEF DoorsBuilt, HasClient, Types
<1>4. DoorsShown'
  BY DEF DoorsShown, IsRead
<1>5. OptionsUsed'
  BY DEF OptionsUsed, IsRead, NetUsed, PortUsed
<1>6. ProxyListens'
  BY DEF ProxyListens, HasProxy
<1>. QED
  BY <1>1, <1>2, <1>3, <1>4, <1>5, <1>6

\* The listener's task asks for a reload where the options differ.
LEMMA OptionsUpdatedKeeps ==
  ASSUME EntryInv, OptionsUpdated
  PROVE  EntryInv'
<1>0. /\ reloads \in Nat /\ tasks \in Nat /\ tasks > 0
      /\ DOMAIN data = {"set", "doors", "net", "port", "reload_options"}
  BY DEF EntryInv, Types, NoData, OptionsUpdated
<1>. USE DEF EntryInv, OptionsUpdated, entry, clients, world, history
<1>1. Types'
  BY DEF Types, Lists, HasClient
<1>2. MarksKept'
  BY DEF MarksKept
<1>3. DoorsBuilt'
  BY DEF DoorsBuilt, HasClient, Types
<1>4. DoorsShown'
  BY <1>0 DEF DoorsShown, IsRead
<1>5. OptionsUsed'
  <2>1. CASE data.set /\ data.reload_options = opts
    <3>1. /\ reloads' = reloads /\ data'.reload_options = opts
          /\ data'.net = data.net /\ data'.port = data.port
      BY <1>0, <2>1
    <3>. QED
      BY <2>1, <3>1 DEF OptionsUsed, NetUsed, PortUsed
  <2>2. CASE ~(data.set /\ data.reload_options = opts)
    <3>1. reloads' # 0
      BY <1>0, <2>2
    <3>2. stage \in IsRead => data.set
      BY DEF DoorsBuilt, IsRead, HasClient
    <3>3. data.set => data'.reload_options = opts
      BY <1>0
    <3>4. data'.net = data.net /\ data'.port = data.port
      BY <1>0
    <3>. QED
      BY <3>1, <3>2, <3>3, <3>4 DEF OptionsUsed, IsRead, NetUsed, PortUsed
  <2>. QED
    BY <2>1, <2>2
<1>6. ProxyListens'
  BY DEF ProxyListens, HasProxy
<1>. QED
  BY <1>1, <1>2, <1>3, <1>4, <1>5, <1>6

\* A refresh has its list and waits to store it.
LEMMA RefreshFetchKeeps ==
  ASSUME EntryInv, NEW r \in Refreshers, RefreshFetch(r)
  PROVE  EntryInv'
<1>. USE DEF EntryInv, RefreshFetch, Fetched, NoList, entry, setup, clients, world, history
<1>1. Types'
  BY DEF Types, Lists, HasClient
<1>2. MarksKept'
  BY DEF MarksKept
<1>3. DoorsBuilt'
  BY DEF DoorsBuilt, HasClient, Types
<1>4. DoorsShown'
  BY DEF DoorsShown, IsRead
<1>5. OptionsUsed'
  BY DEF OptionsUsed, IsRead, NetUsed, PortUsed
<1>6. ProxyListens'
  BY DEF ProxyListens, HasProxy
<1>. QED
  BY <1>1, <1>2, <1>3, <1>4, <1>5, <1>6

\* A refresh is called.
LEMMA CallRefreshKeeps ==
  ASSUME EntryInv, NEW r \in Refreshers, CallRefresh(r)
  PROVE  EntryInv'
<1>. USE DEF EntryInv, CallRefresh, entry, setup, clients, world, history
<1>0. changes' \in 0..MaxChanges
  BY Changed
<1>1. Types'
  <2>1. \A q \in Refreshers :
          /\ refresh'[q].pc \in {refresh[q].pc, "fetch"} /\ refresh'[q].list \in SUBSET Stations
    BY DEF Types, Lists, Idle, NoList
  <2>2. Lists'
    BY <2>1 DEF Types, Lists
  <2>. QED
    BY <1>0, <2>2 DEF Types, HasClient
<1>2. MarksKept'
  BY DEF MarksKept
<1>3. DoorsBuilt'
  BY DEF DoorsBuilt, HasClient, Types
<1>4. DoorsShown'
  BY DEF DoorsShown, IsRead
<1>5. OptionsUsed'
  BY DEF OptionsUsed, IsRead, NetUsed, PortUsed
<1>6. ProxyListens'
  BY DEF ProxyListens, HasProxy
<1>. QED
  BY <1>1, <1>2, <1>3, <1>4, <1>5, <1>6

\* The list of the gateway changes, and nothing of the entry.
LEMMA GatewayChangesKeeps ==
  ASSUME EntryInv, GatewayChanges
  PROVE  EntryInv'
<1>. USE DEF EntryInv, GatewayChanges, NoList, entry, setup, clients, world, history
<1>0. changes' \in 0..MaxChanges
  BY Changed
<1>1. Types'
  <2>1. listed' \in SUBSET Stations /\ listed' # {}
    OBVIOUS
  <2>2. Lists'
    BY <2>1 DEF Types, Lists
  <2>. QED
    BY <1>0, <2>2 DEF Types, HasClient
<1>2. MarksKept'
  BY DEF MarksKept
<1>3. DoorsBuilt'
  BY DEF DoorsBuilt, HasClient, Types
<1>4. DoorsShown'
  BY DEF DoorsShown, IsRead
<1>5. OptionsUsed'
  BY DEF OptionsUsed, IsRead, NetUsed, PortUsed
<1>6. ProxyListens'
  BY DEF ProxyListens, HasProxy
<1>. QED
  BY <1>1, <1>2, <1>3, <1>4, <1>5, <1>6

\* Others take and free ports, and nothing of the entry changes.
LEMMA PortChangesKeeps ==
  ASSUME EntryInv, PortChanges
  PROVE  EntryInv'
<1>. USE DEF EntryInv, PortChanges, entry, setup, clients, world, history
<1>0. changes' \in 0..MaxChanges
  BY Changed
<1>1. Types'
  BY <1>0 DEF Types, Lists, HasClient
<1>2. MarksKept'
  BY DEF MarksKept
<1>3. DoorsBuilt'
  BY DEF DoorsBuilt, HasClient, Types
<1>4. DoorsShown'
  BY DEF DoorsShown, IsRead
<1>5. OptionsUsed'
  BY DEF OptionsUsed, IsRead, NetUsed, PortUsed
<1>6. ProxyListens'
  BY DEF ProxyListens, HasProxy
<1>. QED
  BY <1>1, <1>2, <1>3, <1>4, <1>5, <1>6

\* A LAN client connects to a proxy that listens.
LEMMA ClientConnectsKeeps ==
  ASSUME EntryInv, ClientConnects
  PROVE  EntryInv'
<1>. USE DEF EntryInv, ClientConnects, entry, clients, world, history
<1>0. changes' \in 0..MaxChanges
  BY Changed
<1>1. Types'
  BY <1>0 DEF Types, Lists, HasClient
<1>2. MarksKept'
  BY DEF MarksKept
<1>3. DoorsBuilt'
  BY DEF DoorsBuilt, HasClient, Types
<1>4. DoorsShown'
  BY DEF DoorsShown, IsRead
<1>5. OptionsUsed'
  BY DEF OptionsUsed, IsRead, NetUsed, PortUsed
<1>6. ProxyListens'
  BY DEF ProxyListens, HasProxy
<1>. QED
  BY <1>1, <1>2, <1>3, <1>4, <1>5, <1>6

\* It leaves, and a proxy that waits for it is stopped.
LEMMA ClientLeavesKeeps ==
  ASSUME EntryInv, ClientLeaves
  PROVE  EntryInv'
<1>. USE DEF EntryInv, ClientLeaves, entry, clients, world, history
<1>1. Types'
  BY DEF Types, Lists, HasClient
<1>2. MarksKept'
  BY DEF MarksKept
<1>3. DoorsBuilt'
  BY DEF DoorsBuilt, HasClient, Types
<1>4. DoorsShown'
  BY DEF DoorsShown, IsRead
<1>5. OptionsUsed'
  BY DEF OptionsUsed, IsRead, NetUsed, PortUsed
<1>6. ProxyListens'
  BY DEF ProxyListens, HasProxy
<1>. QED
  BY <1>1, <1>2, <1>3, <1>4, <1>5, <1>6

\* A peer without a session connects to a camera's server.
LEMMA PeerConnectsKeeps ==
  ASSUME EntryInv, PeerConnects
  PROVE  EntryInv'
<1>. USE DEF EntryInv, PeerConnects, entry, world, history
<1>0. changes' \in 0..MaxChanges
  BY Changed
<1>1. Types'
  BY <1>0 DEF Types, Lists, HasClient
<1>2. MarksKept'
  BY DEF MarksKept
<1>3. DoorsBuilt'
  BY DEF DoorsBuilt, HasClient, Types
<1>4. DoorsShown'
  BY DEF DoorsShown, IsRead
<1>5. OptionsUsed'
  BY DEF OptionsUsed, IsRead, NetUsed, PortUsed
<1>6. ProxyListens'
  BY DEF ProxyListens, HasProxy
<1>. QED
  BY <1>1, <1>2, <1>3, <1>4, <1>5, <1>6

\* It leaves, and a platform that waits for it can be unloaded.
LEMMA PeerLeavesKeeps ==
  ASSUME EntryInv, PeerLeaves
  PROVE  EntryInv'
<1>. USE DEF EntryInv, PeerLeaves, entry, world, history
<1>1. Types'
  BY DEF Types, Lists, HasClient
<1>2. MarksKept'
  BY DEF MarksKept
<1>3. DoorsBuilt'
  BY DEF DoorsBuilt, HasClient, Types
<1>4. DoorsShown'
  BY DEF DoorsShown, IsRead
<1>5. OptionsUsed'
  BY DEF OptionsUsed, IsRead, NetUsed, PortUsed
<1>6. ProxyListens'
  BY DEF ProxyListens, HasProxy
<1>. QED
  BY <1>1, <1>2, <1>3, <1>4, <1>5, <1>6

\* The client is built with the doors and the network options of the entry.
LEMMA SetupClientKeeps ==
  ASSUME EntryInv, SetupClient
  PROVE  EntryInv'
<1>. USE DEF clients
<1>0. /\ Types /\ MarksKept /\ ProxyListens /\ stage = "fetched" /\ stage' = "host"
      /\ fetched' = {} /\ latest' = fetched /\ missed' = FALSE /\ gone' = Gone
      /\ doors' = (IF fetched = {} THEN doors ELSE Merged(fetched))
      /\ data' = [NoData EXCEPT !.set = TRUE, !.doors = doors', !.net = opts.net]
      /\ UNCHANGED <<opts, tries, entities, reloads, mine, clients, tasks, refresh, world>>
  BY DEF EntryInv, SetupClient, NoList
<1>1. /\ DOMAIN doors' # {} /\ IsDoors(doors') /\ MarksKept' /\ gone' \subseteq Stations
      /\ latest' # {} => DOMAIN doors' = latest'
  <2>1. CASE fetched = {}
    <3>1. doors' = doors /\ gone' = gone
      BY <1>0, <2>1 DEF Gone, MarksKept
    <3>. QED
      BY <1>0, <2>1, <3>1 DEF Types, MarksKept
  <2>2. CASE fetched # {}
    <3>1. doors' = Merged(fetched) /\ fetched \in SUBSET Stations
      BY <1>0, <2>2 DEF Types, Lists
    <3>. QED
      BY <1>0, <2>2, <3>1, Merging
  <2>. QED
    BY <2>1, <2>2
<1>2. /\ DOMAIN data' = DOMAIN NoData /\ data'.set = TRUE /\ data'.doors = doors'
      /\ data'.net = opts.net /\ data'.port = NoPort /\ data'.reload_options = NoOpts
  BY <1>0 DEF NoData
<1>3. Types'
  <2>1. Lists'
    BY <1>0 DEF Types, Lists, world
  <2>2. changes' \in 0..MaxChanges /\ taken' \subseteq Ports
    BY <1>0 DEF Types, world
  <2>. QED
    BY <1>0, <1>1, <1>2, <2>1, <2>2 DEF Types, HasClient
<1>4. DoorsBuilt'
  BY <1>0, <1>1, <1>2 DEF DoorsBuilt, NoList
<1>5. DoorsShown'
  BY <1>0 DEF EntryInv, DoorsShown, IsRead
<1>6. OptionsUsed'
  BY <1>0, <1>2 DEF OptionsUsed, IsRead, NetUsed
<1>7. ProxyListens'
  BY <1>0, <1>2 DEF ProxyListens, HasProxy
<1>. QED
  BY <1>1, <1>3, <1>4, <1>5, <1>6, <1>7 DEF EntryInv

\* A port is tried; the one that is found is saved and listened on.
LEMMA SetupBindKeeps ==
  ASSUME EntryInv, SetupBind
  PROVE  EntryInv'
<1>. USE DEF clients
<1>0. /\ Types /\ MarksKept /\ DoorsBuilt /\ DoorsShown /\ OptionsUsed /\ ProxyListens
      /\ stage = "bind" /\ mine = {} /\ tries # <<>> /\ opts \in Options
      /\ UNCHANGED <<doors, fetched, entities, reloads, clients, latest, tasks, refresh, world,
         history>>
  BY DEF EntryInv, SetupBind, Types, ProxyListens, HasProxy
<1>1. DOMAIN data = {"set", "doors", "net", "port", "reload_options"}
      /\ opts.port \in Ports \cup {0}
  BY <1>0 DEF Types, NoData, Options, NoPort
<1>2. tries \in Seq(Ports) /\ Head(tries) \in Ports /\ Tail(tries) \in Seq(Ports)
  BY <1>0 DEF Types
<1>3. 0 \notin Ports
  BY EntryAssumption
<1>4. /\ stage' \in {"bind", "poll"} /\ tries' \in Seq(Ports) /\ (stage' = "bind" <=> tries' # <<>>)
      /\ opts' \in Options /\ opts'.net = opts.net
      /\ DOMAIN data' = DOMAIN data /\ data'.set = data.set /\ data'.doors = data.doors
      /\ data'.net = data.net /\ data'.reload_options = data.reload_options
      /\ data'.port \in Ports \cup {0}
      /\ mine' = (IF stage' = "poll" THEN {data'.port} \ {0} ELSE {})
      /\ stage' = "bind" => data'.port = data.port /\ opts' = opts
      /\ stage' = "poll" => data'.port \in {opts'.port, 0} \/ missed
  <2>1. CASE Head(tries) \in taken \cup mine /\ Tail(tries) # <<>>
    <3>1. /\ tries' = Tail(tries) /\ UNCHANGED <<stage, data, opts, mine>>
      BY <2>1 DEF SetupBind
    <3>. QED
      BY <1>0, <1>2, <2>1, <3>1 DEF Types, NoPort
  <2>2. CASE Head(tries) \in taken \cup mine /\ Tail(tries) = <<>>
    <3>1. /\ tries' = <<>> /\ stage' = "poll" /\ data' = [data EXCEPT !.port = 0]
          /\ UNCHANGED <<opts, mine>>
      BY <2>2 DEF SetupBind, NoPort
    <3>2. tries' \in Seq(Ports)
      BY <1>2, <2>2, <3>1
    <3>. QED
      BY <1>0, <1>1, <3>1, <3>2
  <2>3. CASE ~(Head(tries) \in taken \cup mine)
    <3>. DEFINE port == Head(tries)
    <3>1. /\ mine' = mine \cup {port} /\ stage' = "poll" /\ tries' = <<>>
          /\ opts' = (IF port = data.port THEN opts ELSE [opts EXCEPT !.port = port])
          /\ data' = [data EXCEPT !.port = port]
      BY <2>3 DEF SetupBind, Bound
    <3>2. port \in Ports /\ port # 0 /\ <<>> \in Seq(Ports)
      BY <1>2, <1>3
    <3>. HIDE DEF port
    <3>3. opts' \in Options /\ opts'.net = opts.net
      BY <1>0, <3>1, <3>2 DEF Options
    <3>4. data'.port = port /\ mine' = {port}
      BY <1>0, <1>1, <3>1
    <3>5. port \in {opts'.port, 0} \/ missed
      <4>1. CASE port = data.port
        BY <1>0, <3>1, <4>1 DEF OptionsUsed, PortUsed
      <4>2. CASE port # data.port
        BY <1>0, <3>1, <4>2 DEF Options
      <4>. QED
        BY <4>1, <4>2
    <3>. QED
      BY <1>0, <1>1, <3>1, <3>2, <3>3, <3>4, <3>5
  <2>. QED
    BY <2>1, <2>2, <2>3
<1>5. Types'
  <2>1. Lists' /\ changes' \in 0..MaxChanges /\ taken' \subseteq Ports
    BY <1>0 DEF Types, Lists, world
  <2>2. UNCHANGED <<doors, entities, reloads, tasks, clients, gone, missed>>
    BY <1>0 DEF history
  <2>. QED
    BY <1>0, <1>4, <2>1, <2>2 DEF Types, HasClient, NoPort
<1>6. MarksKept'
  BY <1>0 DEF MarksKept, history
<1>7. DoorsBuilt'
  BY <1>0, <1>4 DEF DoorsBuilt, HasClient
<1>8. DoorsShown'
  BY <1>0, <1>4 DEF DoorsShown, IsRead
<1>9. OptionsUsed'
  BY <1>0, <1>4 DEF OptionsUsed, IsRead, NetUsed, PortUsed, history, NoPort
<1>10. ProxyListens'
  BY <1>0, <1>4 DEF ProxyListens, HasProxy, NoPort
<1>. QED
  BY <1>5, <1>6, <1>7, <1>8, <1>9, <1>10 DEF EntryInv

\* A platform has the doors that the entry has now.
LEMMA SetupPlatformKeeps ==
  ASSUME EntryInv, NEW p \in Platforms, SetupPlatform(p)
  PROVE  EntryInv'
<1>. USE DEF clients
<1>0. /\ Types /\ DoorsBuilt /\ DoorsShown /\ OptionsUsed /\ ProxyListens /\ MarksKept
      /\ stage = "platforms" /\ entities' = [entities EXCEPT ![p] = doors]
      /\ stage' = (IF \A q \in Platforms : entities'[q] # NoDoors THEN "loaded" ELSE stage)
      /\ UNCHANGED <<entry, fetched, tries, data, reloads, mine, clients, latest, tasks, refresh,
                     world, history>>
  BY DEF EntryInv, SetupPlatform
<1>1. stage' \in {"platforms", "loaded"}
  BY <1>0
<1>2. \A q \in Platforms : entities'[q] = IF q = p THEN doors ELSE entities[q]
  BY <1>0 DEF Types
<1>3. Types'
  <2>1. Lists' /\ changes' \in 0..MaxChanges /\ taken' \subseteq Ports
    BY <1>0 DEF Types, Lists, world
  <2>2. DOMAIN entities' = Platforms /\ \A q \in Platforms : IsDoors(entities'[q])
    BY <1>0, <1>2 DEF Types
  <2>. QED
    BY <1>0, <1>1, <2>1, <2>2 DEF Types, HasClient, entry, history
<1>4. DoorsShown'
  BY <1>0, <1>1, <1>2 DEF DoorsShown, IsRead, entry
<1>5. MarksKept' /\ DoorsBuilt'
  BY <1>0, <1>1 DEF MarksKept, DoorsBuilt, HasClient, entry, history
<1>6. OptionsUsed' /\ ProxyListens'
  BY <1>0, <1>1 DEF OptionsUsed, NetUsed, PortUsed, IsRead, ProxyListens, HasProxy, entry, history
<1>. QED
  BY <1>3, <1>4, <1>5, <1>6 DEF EntryInv

\* The unload takes client, entities and proxy away.
LEMMA UnloadKeeps ==
  ASSUME EntryInv, Unload
  PROVE  EntryInv'
<1>0. /\ Types /\ MarksKept /\ ProxyListens /\ stage = "unload"
      /\ entities' = [p \in Platforms |-> <<>>] /\ data' = NoData /\ mine' = mine \ {data.port}
      /\ UNCHANGED <<entry, fetched, tries, reloads, latest, tasks, refresh, world, history>>
  BY DEF EntryInv, Unload, NoDoors, StopListening
<1>1. stage' \in {"fetch", "stopping"} /\ lan' \in {"none", "live", "old"} /\ peer' = FALSE
  <2>1. CASE lan = "live" /\ AwaitsPeers
    BY <2>1 DEF Unload
  <2>2. CASE lan = "live" /\ ~AwaitsPeers
    BY <2>2 DEF Unload
  <2>3. CASE lan # "live"
    BY <1>0, <2>3 DEF Unload, Types
  <2>. QED
    BY <2>1, <2>2, <2>3
<1>2. mine' = {}
  BY <1>0 DEF ProxyListens, HasProxy
<1>3. IsDoors(<<>>)
  BY DEF IsDoors
<1>4. Types'
  <2>1. Lists' /\ changes' \in 0..MaxChanges /\ taken' \subseteq Ports
    BY <1>0 DEF Types, Lists, world
  <2>. QED
    BY <1>0, <1>1, <1>3, <2>1 DEF Types, HasClient, entry, history, NoData, NoDoors
<1>5. MarksKept' /\ DoorsBuilt' /\ DoorsShown' /\ OptionsUsed' /\ ProxyListens'
  BY <1>0, <1>1, <1>2 DEF MarksKept, DoorsBuilt, HasClient, DoorsShown, IsRead, OptionsUsed,
     ProxyListens, HasProxy, entry, history, NoDoors
<1>. QED
  BY <1>4, <1>5 DEF EntryInv
\* A list that differs is stored, and a reload is asked for.
LEMMA RefreshStoreKeeps ==
  ASSUME EntryInv, NEW r \in Refreshers, RefreshStore(r)
  PROVE  EntryInv'
<1>. USE DEF clients
<1>0. /\ Types /\ MarksKept /\ DoorsBuilt /\ DoorsShown /\ OptionsUsed /\ ProxyListens
      /\ refresh' = [refresh EXCEPT ![r] = Idle] /\ gone' = Gone
      /\ UNCHANGED <<opts, stage, fetched, tries, data, entities, mine, clients, latest, world,
                     missed>>
  BY DEF EntryInv, RefreshStore
<1>1. Lists' /\ changes' \in 0..MaxChanges /\ taken' \subseteq Ports
  <2>1. \A q \in Refreshers :
          refresh'[q].pc \in {"idle", "fetch", "fetched"} /\ refresh'[q].list \in SUBSET Stations
    BY <1>0 DEF Types, Lists, Idle, NoList
  <2>2. DOMAIN refresh' = Refreshers
    BY <1>0 DEF Types, Lists
  <2>. QED
    BY <1>0, <2>1, <2>2 DEF Types, Lists, world
<1>2. CASE UNCHANGED <<doors, tasks, reloads>>
  <2>1. gone' = gone
    BY <1>0, <1>2 DEF Gone, MarksKept
  <2>2. Types'
    BY <1>0, <1>1, <1>2, <2>1 DEF Types, HasClient
  <2>3. MarksKept' /\ DoorsBuilt' /\ DoorsShown' /\ OptionsUsed' /\ ProxyListens'
    BY <1>0, <1>2, <2>1 DEF MarksKept, DoorsBuilt, DoorsShown, OptionsUsed, NetUsed, PortUsed,
       ProxyListens
  <2>. QED
    BY <2>2, <2>3 DEF EntryInv
<1>3. ASSUME refresh[r].list # NoList, Store(refresh[r].list) PROVE EntryInv'
  <2>. DEFINE list == refresh[r].list
  <2>1. /\ list \in SUBSET Stations /\ list # {} /\ doors' = Merged(list)
        /\ reloads' = reloads + 1 /\ reloads \in Nat /\ tasks \in Nat
        /\ tasks' \in {tasks, tasks + 1}
    BY <1>0, <1>3 DEF Types, Lists, Store, Notify, NoList
  <2>. HIDE DEF list
  <2>2. DOMAIN doors' = list /\ IsDoors(doors') /\ MarksKept' /\ gone' \subseteq Stations
    BY <1>0, <2>1, Merging
  <2>3. reloads' \in Nat /\ reloads' # 0 /\ tasks' \in Nat /\ (tasks' = 0 => tasks = 0)
    BY <2>1
  <2>4. Types'
    BY <1>0, <1>1, <2>1, <2>2, <2>3 DEF Types, HasClient
  <2>5. DoorsBuilt' /\ DoorsShown' /\ OptionsUsed' /\ ProxyListens'
    BY <1>0, <2>3 DEF DoorsBuilt, DoorsShown, OptionsUsed, NetUsed, PortUsed, ProxyListens
  <2>. QED
    BY <2>2, <2>4, <2>5 DEF EntryInv
<1>. QED
  BY <1>2, <1>3 DEF RefreshStore

\* Options that are saved are told to the listener, if there is one; if the
\* set-up has used what they replace, they are missed.
LEMMA SaveOptionsKeeps ==
  ASSUME EntryInv, SaveOptions
  PROVE  EntryInv'
<1>0. /\ Types /\ MarksKept /\ DoorsBuilt /\ DoorsShown /\ OptionsUsed /\ ProxyListens
      /\ UNCHANGED <<doors, setup, refresh, listed, taken, gone>> /\ Notify
  BY DEF EntryInv, SaveOptions
<1>1. changes' \in 0..MaxChanges
  BY Changed DEF SaveOptions
<1>2. PICK o \in [net : Nets, port : Ports] :
        /\ opts' = o
        /\ missed' = \/ missed
                     \/ stage \in {"host", "bind", "poll"} /\ o.net # opts.net
                     \/ stage \in {"bind", "poll"} /\ o.port # opts.port
  BY DEF SaveOptions
<1>3. /\ opts' \in Options /\ missed' \in BOOLEAN /\ (missed => missed')
      /\ stage \in {"host", "bind", "poll"} => opts'.net = opts.net \/ missed'
      /\ stage \in {"bind", "poll"} => opts'.port = opts.port \/ missed'
  BY <1>0, <1>2 DEF Types, Options
<1>4. tasks \in Nat /\ tasks' \in Nat /\ (stage \in IsRead => tasks' # 0)
  BY <1>0 DEF Types, Notify, HasListener, IsRead
<1>5. Types'
  <2>1. Lists'
    BY <1>0 DEF Types, Lists, setup, clients
  <2>. QED
    BY <1>0, <1>1, <1>3, <1>4, <2>1 DEF Types, HasClient, setup, clients
<1>6. MarksKept' /\ DoorsBuilt' /\ DoorsShown' /\ ProxyListens'
  BY <1>0 DEF MarksKept, DoorsBuilt, DoorsShown, ProxyListens, setup, clients
<1>7. OptionsUsed'
  <2>1. UNCHANGED <<stage, data, reloads>>
    BY <1>0 DEF setup, clients
  <2>. QED
    BY <1>0, <1>3, <1>4, <2>1 DEF OptionsUsed, NetUsed, PortUsed, IsRead
<1>. QED
  BY <1>5, <1>6, <1>7 DEF EntryInv

\* After a restart the entry is what was saved, and the rest begins again.
LEMMA RestartKeeps ==
  ASSUME EntryInv, Restart
  PROVE  EntryInv'
<1>0. /\ Types /\ MarksKept
      /\ stage' = "fetch" /\ fetched' = {} /\ tries' = <<>> /\ data' = NoData
      /\ entities' = [p \in Platforms |-> <<>>] /\ reloads' = 0 /\ tasks' = 0
      /\ refresh' = [r \in Refreshers |-> Idle] /\ mine' = {} /\ lan' = "none"
      /\ peer' = FALSE
      /\ UNCHANGED <<entry, listed, taken, latest, history>>
  BY DEF EntryInv, Restart, NoDoors, NoList
<1>1. changes' \in 0..MaxChanges
  BY Changed DEF Restart
<1>2. Types'
  <2>1. Lists'
    BY <1>0 DEF Types, Lists, Idle, NoList
  <2>2. IsDoors(<<>>)
    BY DEF IsDoors
  <2>3. data'.set = FALSE /\ data'.doors = <<>> /\ data'.port = NoPort
        /\ data'.reload_options = NoOpts /\ DOMAIN data' = DOMAIN NoData
    BY <1>0 DEF NoData, NoDoors
  <2>4. /\ lan' \in {"none", "live", "old"} /\ missed' \in BOOLEAN
        /\ stage' \in {"fetch", "fetched", "stopping", "unload"} \cup HasClient
        /\ tries' \in Seq(Ports) /\ (stage' = "bind" <=> tries' # <<>>)
    BY <1>0 DEF Types, history
  <2>5. peer' \in BOOLEAN
    BY <1>0
  <2>6. DOMAIN entities' = Platforms /\ \A p \in Platforms : IsDoors(entities'[p])
    BY <1>0, <2>2
  <2>. QED
    BY <1>0, <1>1, <2>1, <2>2, <2>3, <2>4, <2>5, <2>6 DEF Types, IsDoors, entry, history
<1>3. MarksKept' /\ DoorsBuilt' /\ DoorsShown' /\ OptionsUsed' /\ ProxyListens'
  BY <1>0 DEF MarksKept, DoorsBuilt, HasClient, DoorsShown, IsRead, OptionsUsed, ProxyListens,
     HasProxy, entry, history, NoDoors
<1>. QED
  BY <1>2, <1>3 DEF EntryInv

\* An entry that pairing has just made, before its first set-up.
LEMMA InitHolds == Init => EntryInv
<1>. SUFFICES ASSUME Init PROVE EntryInv
  OBVIOUS
<1>0. /\ listed \in SUBSET Stations /\ listed # {} /\ doors = [s \in listed |-> s \in Locked]
      /\ opts = [net |-> DefaultNet, port |-> NoPort] /\ stage = "fetch"
      /\ fetched = {} /\ tries = <<>> /\ data = NoData /\ entities = [p \in Platforms |-> <<>>]
      /\ reloads = 0 /\ tasks = 0 /\ refresh = [r \in Refreshers |-> Idle]
      /\ mine = {} /\ lan = "none" /\ peer = FALSE /\ taken = {} /\ changes = 0 /\ latest = {}
      /\ missed = FALSE /\ gone = Stations \ listed
  BY DEF Init, NoList, NoDoors
<1>1. IsDoors(doors) /\ DOMAIN doors = listed /\ IsDoors(<<>>)
  BY <1>0 DEF IsDoors
<1>2. Types
  <2>1. Lists
    BY <1>0 DEF Lists, Idle, NoList
  <2>2. opts \in Options /\ 0 \in 0..MaxChanges
    BY <1>0, EntryAssumption DEF Options
  <2>3. tries \in Seq(Ports) /\ (stage = "bind" <=> tries # <<>>)
    BY <1>0
  <2>4. /\ data = NoData /\ data.set = FALSE /\ data.doors = <<>>
        /\ data.port = NoPort /\ data.reload_options = NoOpts
    BY <1>0 DEF NoData, NoDoors
  <2>5. DOMAIN entities = Platforms /\ \A p \in Platforms : IsDoors(entities[p])
    BY <1>0, <1>1
  <2>6. stage \in {"fetch", "fetched", "stopping", "unload"} \cup HasClient
    BY <1>0
  <2>7. reloads \in Nat /\ tasks \in Nat /\ taken \subseteq Ports /\ changes \in 0..MaxChanges
    BY <1>0, <2>2
  <2>8. /\ gone \subseteq Stations /\ lan \in {"none", "live", "old"}
        /\ peer \in BOOLEAN /\ missed \in BOOLEAN
    BY <1>0
  <2>9. DOMAIN doors # {}
    BY <1>0, <1>1
  <2>. QED
    BY <1>1, <2>1, <2>2, <2>3, <2>4, <2>5, <2>6, <2>7, <2>8, <2>9 DEF Types
<1>3. MarksKept
  BY <1>0, <1>1 DEF MarksKept
<1>4. DoorsBuilt /\ DoorsShown /\ OptionsUsed /\ ProxyListens
  BY <1>0 DEF DoorsBuilt, HasClient, DoorsShown, IsRead, OptionsUsed, ProxyListens, HasProxy,
     NoDoors
<1>. QED
  BY <1>2, <1>3, <1>4 DEF EntryInv

----------------------------------------------------------------------------
(* The theorems.                                                           *)

\* In every stage of a set-up what has been taken from the entry is what the
\* entry has, or a reload or the listener's task is still to come (__init__.py:
\* async_setup_entry, _async_options_updated, _async_refresh_doors_for_entry).
THEOREM EntrySound == Spec => []EntryInv
<1>1. EntryInv /\ [Next]_vars => EntryInv'
  <2>. SUFFICES ASSUME EntryInv, [Next]_vars PROVE EntryInv'
    OBVIOUS
  <2>1. CASE SetupFetch \/ SetupClient \/ SetupPorts \/ SetupBind \/ SetupListener
    BY <2>1, SetupFetchKeeps, SetupClientKeeps, SetupPortsKeeps, SetupBindKeeps,
       SetupListenerKeeps
  <2>2. ASSUME NEW p \in Platforms, SetupPlatform(p) PROVE EntryInv'
    BY <2>2, SetupPlatformKeeps
  <2>3. CASE BeginReload \/ Unload \/ UnloadTimesOut \/ OptionsUpdated
    BY <2>3, BeginReloadKeeps, UnloadKeeps, UnloadTimesOutKeeps, OptionsUpdatedKeeps
  <2>4. ASSUME NEW r \in Refreshers, RefreshFetch(r) \/ RefreshStore(r) \/ CallRefresh(r)
        PROVE  EntryInv'
    BY <2>4, RefreshFetchKeeps, RefreshStoreKeeps, CallRefreshKeeps
  <2>5. CASE SaveOptions \/ GatewayChanges \/ PortChanges
    BY <2>5, SaveOptionsKeeps, GatewayChangesKeeps, PortChangesKeeps
  <2>6. CASE ClientConnects \/ ClientLeaves \/ PeerConnects \/ PeerLeaves \/ Restart
    BY <2>6, ClientConnectsKeeps, ClientLeavesKeeps, PeerConnectsKeeps, PeerLeavesKeeps,
       RestartKeeps
  <2>7. CASE UNCHANGED vars
    BY <2>7 DEF EntryInv, Types, Lists, MarksKept, DoorsBuilt, DoorsShown, OptionsUsed, NetUsed,
       PortUsed, ProxyListens, vars, entry, setup, clients, world, history
  <2>. QED
    BY <2>1, <2>2, <2>3, <2>4, <2>5, <2>6, <2>7 DEF Next, System, Environment
<1>. QED
  BY InitHolds, <1>1, PTL DEF Spec

\* The variables of the entry, its set-up and its proxy have their types, and
\* there is one proxy at most.
THEOREM EntryTyped == Spec => []TypeOK
<1>1. EntryInv => TypeOK
  <2>. SUFFICES ASSUME EntryInv PROVE TypeOK
    OBVIOUS
  <2>1. Types /\ ProxyListens
    BY DEF EntryInv
  <2>2. mine \subseteq Ports /\ Cardinality(mine) <= 1
    <3>1. mine = {} \/ \E p \in Ports : mine = {p}
      BY <2>1 DEF Types, ProxyListens
    <3>2. Cardinality({}) = 0 /\ \A p \in Ports : Cardinality({p}) = 1
      BY FS_EmptySet, FS_Singleton
    <3>. QED
      BY <3>1, <3>2
  <2>3. stage \in {"fetch", "fetched", "host", "bind", "poll", "platforms", "loaded", "unload",
                   "stopping"}
    BY <2>1 DEF Types, HasClient
  <2>. QED
    BY <2>1, <2>2, <2>3 DEF TypeOK, Types, Lists
<1>. QED
  BY EntrySound, <1>1, PTL

\* When nothing is under way, client, entities and entry have the doors of the
\* list the last set-up read, and marks outlast every merge (__init__.py:
\* 727-739, 755-766).
THEOREM DoorsStayInStep == Spec => []DoorsInStep
<1>1. EntryInv => DoorsInStep
  BY DEF EntryInv, MarksKept, DoorsBuilt, DoorsShown, DoorsInStep, Quiet, HasClient, IsRead
<1>. QED
  BY EntrySound, <1>1, PTL

\* When nothing is under way, client and proxy use the options of the entry,
\* but for options saved while the last set-up ran (__init__.py:530, 1136-1141),
\* and the proxy listens on its one port.
THEOREM OptionsStayInStep == Spec => []OptionsInStep
<1>1. EntryInv => OptionsInStep
  BY DEF EntryInv, OptionsUsed, NetUsed, PortUsed, ProxyListens, OptionsInStep, Quiet, IsRead,
     HasProxy
<1>. QED
  BY EntrySound, <1>1, PTL
=============================================================================
