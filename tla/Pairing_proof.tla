--------------------------- MODULE Pairing_proof ---------------------------
(***************************************************************************)
(* Pairing, for every number of flows, devices, attempts and updates: an   *)
(* entry is of one identity and a gateway is configured once, whatever     *)
(* fails, is closed or restarts in between.                                *)
(***************************************************************************)
EXTENDS Pairing, TLAPS

\* Where a flow is once its connect event has been posted.
After == {"find", "permit", "code", "manual", "poll", "confirm"}

\* What the fields of a flow promise.  From a new certificate to the post no
\* device knows the identity; after it the device of the UUID does; an app that
\* is being approved is known at the address; and at its end a flow has the
\* update of its own identity and device.
FlowOK(r) ==
  /\ r.pc # "none" => r.ip \in Devices
  /\ r.override \in Devices \cup {NoDevice}
  /\ r.key \in 0..made /\ r.cert \in 0..made
  /\ r.pc \in {"identify", "connect"} =>
       r.cert \in Ids /\ r.key = r.cert /\ \A d \in Devices : app[r.cert][d] = "none"
  /\ r.pc = "connect" => r.uuid \in Devices
  /\ r.pc \in After =>
       /\ r.cert \in Ids /\ r.key = r.cert
       /\ r.uuid \in Devices /\ app[r.cert][r.uuid] # "none"
  /\ r.pc \in {"permit", "code"} => r.sid \in Ids /\ app[r.sid][r.ip] # "none"
  /\ r.pc = "confirm" =>
       r.open /\ Head(r.acl) = Acl(r.cert, r.uuid) /\ app[r.cert][r.uuid] = "paired"

AppStates == {"none", "sent", "unpaired", "paired"}

\* Two flows never have the same certificate.
Apart == \A f, g \in Flows : f # g /\ flow[f].cert = flow[g].cert => flow[f].cert = NoId

\* A flow at its end keeps its UUID from other flows, and from the entries.
Claimed ==
  \A f, g \in Flows :
    f # g /\ flow[f].pc = "confirm" /\ flow[g].pc = "confirm" => flow[f].uuid # flow[g].uuid
NewToEntries == \A f \in Flows, e \in entries : flow[f].pc = "confirm" => e.uuid # flow[f].uuid

\* An identity is known to one device only: each attempt makes a new one, and
\* posts it once.
OneDevice ==
  \A n \in Ids : \A d, o \in Devices : app[n][d] # "none" /\ app[n][o] # "none" => d = o
\* No device knows an identity that has not been made.
Unborn == \A n \in Ids : n > made => \A d \in Devices : app[n][d] = "none"
\* An update tells the truth about who is paired where.
AclsTrue ==
  \A i \in 1..Len(acls) :
    acls[i].to \in Ids => acls[i].from \in Devices /\ app[acls[i].to][acls[i].from] = "paired"
EntriesTrue == \A e \in entries : e.cert \in Ids /\ e.uuid \in Devices

\* The inductive invariant.
PairingInv ==
  /\ DOMAIN flow = Flows /\ made \in Nat /\ app \in [Ids -> [Devices -> AppStates]]
  /\ acls \in Seq([to : Ids \cup {NoId}, from : Devices \cup {NoDevice}])
  /\ \A f \in Flows : FlowOK(flow[f])
  /\ Apart /\ Claimed /\ NewToEntries
  /\ OneDevice /\ Unborn /\ AclsTrue /\ EntriesTrue
  /\ EntryIsOneIdentity /\ OneEntryPerGateway

USE DEF NoId, Ids

\* A step of a flow changes no other, and each field is new, kept or cleared.
LEMMA StepFields ==
  ASSUME NEW f \in Flows, NEW change, DOMAIN flow = Flows, Step(f, change),
         NEW pc, pc = IF "pc" \in DOMAIN change THEN change["pc"] ELSE flow[f]["pc"]
  PROVE  /\ flow' = [flow EXCEPT ![f] = flow'[f]]
         /\ \A k \in DOMAIN NoFlow :
              flow'[f][k] = IF k \notin Live(pc) THEN NoFlow[k]
                            ELSE IF k \in DOMAIN change THEN change[k] ELSE flow[f][k]
<1>. DEFINE new == [k \in DOMAIN NoFlow |-> IF k \in DOMAIN change THEN change[k] ELSE flow[f][k]]
            r == [k \in DOMAIN NoFlow |-> IF k \in Live(pc) THEN new[k] ELSE NoFlow[k]]
<1>1. "pc" \in DOMAIN NoFlow
  BY DEF NoFlow
<1>2. new["pc"] = pc
  BY <1>1
<1>. HIDE DEF new
<1>3. flow' = [flow EXCEPT ![f] = r]
  BY <1>2 DEF Step, new
<1>4. flow'[f] = r
  BY <1>3
<1>. QED
  BY <1>3, <1>4 DEF new

\* A flow that is not there promises nothing.
LEMMA NoFlowOK == made \in Nat => FlowOK(NoFlow)
<1> SUFFICES ASSUME made \in Nat PROVE FlowOK(NoFlow)
  OBVIOUS
<1>1. 0 \in 0..made
  OBVIOUS
<1>2. NoFlow.pc = "none" /\ NoFlow.override = NoDevice /\ NoFlow.key = 0 /\ NoFlow.cert = 0
  BY DEF NoFlow
<1>. QED
  BY <1>1, <1>2 DEF FlowOK, After

\* At the beginning there is neither flow nor entry nor update.
LEMMA InitInv == Init => PairingInv
<1> SUFFICES ASSUME Init PROVE PairingInv
  OBVIOUS
<1>. USE DEF Init
<1>1. \A f \in Flows : flow[f] = NoFlow
  OBVIOUS
<1>2. \A f \in Flows : FlowOK(flow[f])
  BY <1>1, NoFlowOK
<1>3. NoFlow.pc = "none" /\ NoFlow.cert = 0
  BY DEF NoFlow
<1>4. DOMAIN flow = Flows /\ made \in Nat /\ app \in [Ids -> [Devices -> AppStates]]
      /\ acls \in Seq([to : Ids \cup {NoId}, from : Devices \cup {NoDevice}])
  BY DEF AppStates
<1>5. Apart /\ Claimed /\ NewToEntries
  BY <1>1, <1>3 DEF Apart, Claimed, NewToEntries
<1>6. OneDevice /\ Unborn /\ AclsTrue /\ EntriesTrue /\ EntryIsOneIdentity /\ OneEntryPerGateway
  BY DEF OneDevice, Unborn, AclsTrue, EntriesTrue, EntryIsOneIdentity, OneEntryPerGateway
<1>. QED
  BY <1>2, <1>4, <1>5, <1>6 DEF PairingInv

\* One flow goes on, and is not at its end.
LEMMA Moved ==
  ASSUME PairingInv, NEW f \in Flows, flow' = [flow EXCEPT ![f] = flow'[f]],
         FlowOK(flow'[f]), flow'[f].pc # "confirm", flow'[f].cert \in {flow[f].cert, NoId},
         UNCHANGED <<entries, made, app, acls>>
  PROVE  PairingInv'
<1>. USE DEF PairingInv
<1>1. DOMAIN flow' = Flows /\ \A g \in Flows \ {f} : flow'[g] = flow[g]
  OBVIOUS
<1>2. ASSUME NEW g \in Flows PROVE FlowOK(flow[g])'
  BY <1>1 DEF FlowOK
<1>3. Apart' 
  BY <1>1 DEF Apart
<1>4. Claimed' /\ NewToEntries'
  BY <1>1 DEF Claimed, NewToEntries
<1>. QED
  BY <1>1, <1>2, <1>3, <1>4 DEF OneDevice, Unborn, AclsTrue, EntriesTrue, EntryIsOneIdentity,
     OneEntryPerGateway

\* What a step to another place changes, and what it keeps.
LEMMA StepTo ==
  ASSUME NEW f \in Flows, NEW change, DOMAIN flow = Flows, Step(f, change),
         "pc" \in DOMAIN change, change["pc"] \in Forms \cup Working
  PROVE  LET old == flow[f]
             r == flow'[f]
             pc == change["pc"]
             D == DOMAIN change
         IN  /\ flow' = [flow EXCEPT ![f] = r]
             /\ r.pc = pc
             /\ r.open = IF "open" \in D THEN change["open"] ELSE old.open
             /\ r.ip = IF "ip" \in D THEN change["ip"] ELSE old.ip
             /\ r.key = IF "key" \in D THEN change["key"] ELSE old.key
             /\ r.cert = IF "cert" \in D THEN change["cert"] ELSE old.cert
             /\ r.override = NoDevice
                  \/ r.override = IF "override" \in D THEN change["override"] ELSE old.override
             /\ pc \in After \cup {"connect"} =>
                  r.uuid = IF "uuid" \in D THEN change["uuid"] ELSE old.uuid
             /\ pc \in {"permit", "code"} =>
                  r.sid = IF "sid" \in D THEN change["sid"] ELSE old.sid
             /\ pc = "confirm" => r.acl = IF "acl" \in D THEN change["acl"] ELSE old.acl
<1>1. PICK pc : pc = change["pc"]
  OBVIOUS
<1>2. /\ flow' = [flow EXCEPT ![f] = flow'[f]]
      /\ \A k \in DOMAIN NoFlow :
           flow'[f][k] = IF k \notin Live(pc) THEN NoFlow[k]
                         ELSE IF k \in DOMAIN change THEN change[k] ELSE flow[f][k]
  BY <1>1, StepFields
<1>3. {"pc", "open", "ip", "key", "cert", "override", "uuid", "sid", "acl"} \subseteq DOMAIN NoFlow
  BY DEF NoFlow
<1>4. NoFlow["override"] = NoDevice
  BY DEF NoFlow
<1>5. {"pc", "open", "ip", "key", "cert"} \subseteq Live(pc)
  BY DEF Live
<1>6. /\ pc \in After \cup {"connect"} => "uuid" \in Live(pc)
      /\ pc \in {"permit", "code"} => "sid" \in Live(pc)
      /\ pc = "confirm" => "acl" \in Live(pc)
  BY DEF Live, After
<1>. QED
  BY <1>1, <1>2, <1>3, <1>4, <1>5, <1>6

\* A flow that ends leaves everything else as it was.
LEMMA Ended ==
  ASSUME PairingInv, NEW f \in Flows, End(f), UNCHANGED <<entries, made, app, acls>>
  PROVE  PairingInv'
<1>1. DOMAIN flow = Flows /\ made \in Nat
  BY DEF PairingInv
<1>2. flow'[f] = NoFlow /\ flow' = [flow EXCEPT ![f] = flow'[f]]
  BY <1>1 DEF End
<1>3. NoFlow.pc # "confirm" /\ NoFlow.cert = NoId
  BY DEF NoFlow
<1>. QED
  BY <1>1, <1>2, <1>3, NoFlowOK, Moved

\* A flow that goes on with the address, identity and UUID it has.
LEMMA WentOn ==
  ASSUME PairingInv, NEW f \in Flows, flow[f].pc # "none",
         NEW change, Step(f, change), "pc" \in DOMAIN change,
         change["pc"] \in {"login", "certify", "permit", "code", "manual", "poll"},
         DOMAIN change \cap {"ip", "key", "cert", "uuid"} = {},
         "override" \in DOMAIN change => change["override"] \in Devices \cup {NoDevice},
         change["pc"] \in After => flow[f].pc \in After,
         NEW sid, sid = IF "sid" \in DOMAIN change THEN change["sid"] ELSE flow[f].sid,
         change["pc"] \in {"permit", "code"} => sid \in Ids /\ app[sid][flow[f].ip] # "none",
         UNCHANGED <<entries, made, app, acls>>
  PROVE  PairingInv'
<1>1. DOMAIN flow = Flows /\ FlowOK(flow[f])
  BY DEF PairingInv
<1>2. change["pc"] \in Forms \cup Working /\ change["pc"] # "confirm" /\ change["pc"] # "none"
      /\ change["pc"] \notin {"identify", "connect"}
  BY DEF Forms, Working
<1>3. /\ flow' = [flow EXCEPT ![f] = flow'[f]]
      /\ flow'[f].pc = change["pc"]
      /\ flow'[f].ip = flow[f].ip /\ flow'[f].key = flow[f].key /\ flow'[f].cert = flow[f].cert
      /\ flow'[f].override \in Devices \cup {NoDevice}
      /\ change["pc"] \in After => flow'[f].uuid = flow[f].uuid
      /\ change["pc"] \in {"permit", "code"} => flow'[f].sid = sid
  BY <1>1, <1>2, StepTo DEF FlowOK
<1>4. FlowOK(flow'[f])
  BY <1>1, <1>2, <1>3 DEF FlowOK
<1>. QED
  BY <1>1, <1>2, <1>3, <1>4, Moved

\* A form is shown, or the flow is gone: manual approval after the post only.
LEMMA Shown ==
  ASSUME PairingInv, NEW f \in Flows, flow[f].pc # "none", NEW form \in {"login", "manual"},
         form = "manual" => flow[f].pc \in After,
         Show(f, form), UNCHANGED <<entries, made, app, acls>>
  PROVE  PairingInv'
<1>. DEFINE change == [pc |-> form]
<1>1. CASE flow[f].open
  <2>1. Step(f, change)
    BY <1>1 DEF Show, Goto
  <2>2. DOMAIN change = {"pc"} /\ change["pc"] = form
    OBVIOUS
  <2>3. form \notin {"permit", "code"} /\ (form \in After => flow[f].pc \in After)
    BY DEF After
  <2>. HIDE DEF change
  <2>. QED
    BY <2>1, <2>2, <2>3, WentOn
<1>2. CASE ~flow[f].open
  BY <1>2, Ended DEF Show
<1>. QED
  BY <1>1, <1>2

\* A flow begins without an identity.
LEMMA ChooseStep ==
  ASSUME PairingInv, NEW f \in Flows, NEW d \in Devices, ChooseDevice(f, d)
  PROVE  PairingInv'
<1>1. DOMAIN flow = Flows /\ FlowOK(flow[f])
  BY DEF PairingInv
<1>2. PICK web \in WebReachable(d) :
        Step(f, [pc |-> "login", open |-> TRUE, ip |-> d, device_type |-> DeviceType(web)])
  BY DEF ChooseDevice
<1>. DEFINE change == [pc |-> "login", open |-> TRUE, ip |-> d, device_type |-> DeviceType(web)]
<1>3. /\ DOMAIN change = {"pc", "open", "ip", "device_type"}
      /\ change["pc"] = "login" /\ change["ip"] = d /\ Step(f, change)
  BY <1>2
<1>. HIDE DEF change
<1>4. /\ flow' = [flow EXCEPT ![f] = flow'[f]]
      /\ flow'[f].pc = "login" /\ flow'[f].ip = d
      /\ flow'[f].key = flow[f].key /\ flow'[f].cert = flow[f].cert
      /\ flow'[f].override \in {NoDevice, flow[f].override}
  BY <1>1, <1>3, StepTo DEF Forms
<1>5. FlowOK(flow'[f])
  BY <1>1, <1>4 DEF FlowOK, After
<1>. QED
  BY <1>4, <1>5, Moved DEF ChooseDevice, world

\* A login keeps the identity of the attempt before, until the next is made.
LEMMA LoginStep ==
  ASSUME PairingInv, NEW f \in Flows, NEW pw, NEW d \in Devices \cup {NoDevice}, Login(f, pw, d)
  PROVE  PairingInv'
<1>. DEFINE change == [pc |-> "certify", pw |-> pw, override |-> d]
<1>1. /\ DOMAIN change = {"pc", "pw", "override"}
      /\ change["pc"] = "certify" /\ change["override"] = d /\ Step(f, change)
  BY DEF Login
<1>. HIDE DEF change
<1>. QED
  BY <1>1, WentOn DEF Login, world, After

\* A new identity is apart from those of all other flows, and unknown to every
\* device, also when the certificate fails and only the key is replaced.
LEMMA CertifyStep ==
  ASSUME PairingInv, NEW f \in Flows, Certify(f)
  PROVE  PairingInv'
<1>. USE DEF PairingInv
<1>1. DOMAIN flow = Flows /\ FlowOK(flow[f]) /\ made \in Nat
  OBVIOUS
<1>2. made' = made + 1 /\ made' \in Ids /\ UNCHANGED <<entries, app, acls>>
  BY <1>1, PairingAssumption DEF Certify
<1>3. \A d \in Devices : app[made'][d] = "none"
  BY <1>1, <1>2 DEF Unborn
<1>4. /\ flow' = [flow EXCEPT ![f] = flow'[f]]
      /\ FlowOK(flow[f])' /\ flow'[f].pc # "confirm"
      /\ flow'[f].cert \in {NoId, flow[f].cert, made'}
  <2>1. CASE Step(f, [pc |-> "identify", key |-> made', cert |-> made'])
    <3>. DEFINE change == [pc |-> "identify", key |-> made', cert |-> made']
    <3>1. /\ DOMAIN change = {"pc", "key", "cert"} /\ change["pc"] = "identify"
          /\ change["key"] = made' /\ change["cert"] = made' /\ Step(f, change)
      BY <2>1
    <3>. HIDE DEF change
    <3>2. /\ flow' = [flow EXCEPT ![f] = flow'[f]]
          /\ flow'[f].pc = "identify" /\ flow'[f].ip = flow[f].ip
          /\ flow'[f].key = made' /\ flow'[f].cert = made'
          /\ flow'[f].override \in {NoDevice, flow[f].override}
      BY <1>1, <3>1, StepTo DEF Working
    <3>. QED
      BY <1>1, <1>2, <1>3, <3>2 DEF FlowOK, After, Certify
  <2>2. CASE Step(f, [pc |-> "login", key |-> made'])
    <3>. DEFINE change == [pc |-> "login", key |-> made']
    <3>1. /\ DOMAIN change = {"pc", "key"} /\ change["pc"] = "login"
          /\ change["key"] = made' /\ Step(f, change)
      BY <2>2
    <3>. HIDE DEF change
    <3>2. /\ flow' = [flow EXCEPT ![f] = flow'[f]]
          /\ flow'[f].pc = "login" /\ flow'[f].ip = flow[f].ip
          /\ flow'[f].key = made' /\ flow'[f].cert = flow[f].cert
          /\ flow'[f].override \in {NoDevice, flow[f].override}
      BY <1>1, <3>1, StepTo DEF Forms
    <3>. QED
      BY <1>1, <1>2, <3>2 DEF FlowOK, After, Certify
  <2>3. CASE End(f)
    <3>1. flow'[f] = NoFlow /\ flow' = [flow EXCEPT ![f] = flow'[f]]
      BY <1>1, <2>3 DEF End
    <3>2. NoFlow.pc = "none" /\ NoFlow.cert = 0 /\ NoFlow.key = 0 /\ NoFlow.override = NoDevice
      BY DEF NoFlow
    <3>. QED
      BY <1>1, <1>2, <3>1, <3>2 DEF FlowOK, After
  <2>. QED
    BY <2>1, <2>2, <2>3 DEF Certify
<1>5. DOMAIN flow' = Flows /\ \A g \in Flows \ {f} : flow'[g] = flow[g]
  BY <1>4
<1>6. ASSUME NEW g \in Flows PROVE FlowOK(flow[g])'
  BY <1>1, <1>2, <1>4, <1>5 DEF FlowOK
<1>7. Apart'
  BY <1>1, <1>2, <1>4, <1>5 DEF Apart, FlowOK
<1>8. Claimed' /\ NewToEntries'
  BY <1>2, <1>4, <1>5 DEF Claimed, NewToEntries
<1>9. OneDevice' /\ Unborn' /\ AclsTrue'
  BY <1>1, <1>2 DEF OneDevice, Unborn, AclsTrue
<1>. QED
  BY <1>1, <1>2, <1>5, <1>6, <1>7, <1>8, <1>9
  DEF EntriesTrue, EntryIsOneIdentity, OneEntryPerGateway

\* Whichever way the device is found, the UUID is of a device.
LEMMA IdentifyStep ==
  ASSUME PairingInv, NEW f \in Flows, Identify(f)
  PROVE  PairingInv'
<1>1. DOMAIN flow = Flows /\ FlowOK(flow[f]) /\ flow[f].pc = "identify"
  BY DEF PairingInv, Identify
<1>2. ASSUME NEW type, NEW d \in Devices,
             Step(f, [pc |-> "connect", client_type |-> type, uuid |-> d])
      PROVE  PairingInv'
  <2>. DEFINE change == [pc |-> "connect", client_type |-> type, uuid |-> d]
  <2>1. /\ DOMAIN change = {"pc", "client_type", "uuid"}
        /\ change["pc"] = "connect" /\ change["uuid"] = d /\ Step(f, change)
    BY <1>2
  <2>. HIDE DEF change
  <2>2. /\ flow' = [flow EXCEPT ![f] = flow'[f]]
        /\ flow'[f].pc = "connect" /\ flow'[f].ip = flow[f].ip
        /\ flow'[f].key = flow[f].key /\ flow'[f].cert = flow[f].cert
        /\ flow'[f].uuid = d /\ flow'[f].override \in {NoDevice, flow[f].override}
    BY <1>1, <2>1, StepTo DEF Working
  <2>3. FlowOK(flow'[f])
    BY <1>1, <2>2 DEF FlowOK, After
  <2>. QED
    BY <2>2, <2>3, Moved DEF Identify, world
<1>3. CASE LocalDevice(f)
  <2>. DEFINE d == IF flow[f].override # NoDevice THEN flow[f].override ELSE flow[f].ip
  <2>1. d \in Devices
    BY <1>1 DEF FlowOK
  <2>2. Step(f, [pc |-> "connect", client_type |-> "gateway", uuid |-> d])
    BY <1>3 DEF LocalDevice
  <2>. HIDE DEF d
  <2>. QED
    BY <1>2, <2>1, <2>2
<1>4. ASSUME NEW seen \in SUBSET Devices, DiscoveredDevice(f, seen) PROVE PairingInv'
  BY <1>2, <1>4 DEF DiscoveredDevice
<1>5. CASE Show(f, "login")
  BY <1>1, <1>5, Shown DEF Identify, world
<1>. QED
  BY <1>3, <1>4, <1>5 DEF Identify

\* The app found is known at the address, though it may be another's.
LEMMA FindAppStep ==
  ASSUME PairingInv, NEW f \in Flows, FindApp(f)
  PROVE  PairingInv'
<1>1. flow[f].pc = "find" /\ UNCHANGED <<entries, made, app, acls>>
  BY DEF FindApp, world
<1>2. ASSUME NEW n \in Pending(f), Step(f, [pc |-> "permit", sid |-> n]) PROVE PairingInv'
  <2>. DEFINE change == [pc |-> "permit", sid |-> n]
  <2>1. /\ DOMAIN change = {"pc", "sid"}
        /\ change["pc"] = "permit" /\ change["sid"] = n /\ Step(f, change)
    BY <1>2
  <2>2. n \in Ids /\ app[n][flow[f].ip] # "none"
    BY DEF Pending
  <2>. HIDE DEF change
  <2>. QED
    BY <1>1, <2>1, <2>2, WentOn DEF After
<1>3. CASE Refused(f) \/ Broken(f)
  BY <1>1, <1>3, Shown DEF Refused, Broken, After
<1>. QED
  BY <1>2, <1>3 DEF FindApp

\* The permissions change neither the app nor the flow.
LEMMA PermitStep ==
  ASSUME PairingInv, NEW f \in Flows, Permit(f)
  PROVE  PairingInv'
<1>1. flow[f].pc = "permit" /\ UNCHANGED <<entries, made, app, acls>>
  BY DEF Permit, world
<1>2. CASE Goto(f, "code")
  <2>. DEFINE change == [pc |-> "code"]
  <2>1. DOMAIN change = {"pc"} /\ change["pc"] = "code" /\ Step(f, change)
    BY <1>2 DEF Goto
  <2>2. flow[f].sid \in Ids /\ app[flow[f].sid][flow[f].ip] # "none"
    BY <1>1 DEF PairingInv, FlowOK
  <2>. HIDE DEF change
  <2>. QED
    BY <1>1, <2>1, <2>2, WentOn DEF After
<1>3. CASE Refused(f) \/ Broken(f)
  BY <1>1, <1>3, Shown DEF Refused, Broken, After
<1>. QED
  BY <1>2, <1>3 DEF Permit

\* The poll begins.
LEMMA PollBegins ==
  ASSUME PairingInv, NEW f \in Flows, flow[f].pc \in {"code", "manual"}, NEW attempts,
         StartPoll(f, attempts), UNCHANGED <<entries, made, app, acls>>
  PROVE  PairingInv'
<1>. DEFINE change == [pc |-> "poll", left |-> attempts]
<1>1. DOMAIN change = {"pc", "left"} /\ change["pc"] = "poll" /\ Step(f, change)
  BY DEF StartPoll
<1>. HIDE DEF change
<1>. QED
  BY <1>1, WentOn DEF After

\* An attempt that finds nothing.
LEMMA PollStep ==
  ASSUME PairingInv, NEW f \in Flows, PollAgain(f)
  PROVE  PairingInv'
<1>1. flow[f].pc = "poll" /\ UNCHANGED <<entries, made, app, acls>>
  BY DEF PollAgain, world
<1>2. CASE Step(f, [left |-> flow[f].left - 1])
  <2>. DEFINE change == [left |-> flow[f].left - 1]
  <2>1. DOMAIN change = {"left"} /\ Step(f, change)
    BY <1>2
  <2>. HIDE DEF change
  <2>2. DOMAIN flow = Flows /\ FlowOK(flow[f])
    BY DEF PairingInv
  <2>3. /\ flow' = [flow EXCEPT ![f] = flow'[f]]
        /\ \A k \in DOMAIN NoFlow :
             flow'[f][k] = IF k \notin Live("poll") THEN NoFlow[k]
                           ELSE IF k \in DOMAIN change THEN change[k] ELSE flow[f][k]
    BY <1>1, <2>1, <2>2, StepFields
  <2>4. {"pc", "ip", "key", "cert", "uuid"} \subseteq Live("poll")
    BY DEF Live
  <2>5. {"pc", "ip", "key", "cert", "uuid", "override"} \subseteq DOMAIN NoFlow
        /\ NoFlow["override"] = NoDevice /\ "override" \notin Live("poll")
    BY DEF NoFlow, Live
  <2>6. /\ flow'[f].pc = "poll" /\ flow'[f].ip = flow[f].ip
        /\ flow'[f].key = flow[f].key /\ flow'[f].cert = flow[f].cert
        /\ flow'[f].uuid = flow[f].uuid /\ flow'[f].override = NoDevice
    BY <1>1, <2>1, <2>3, <2>4, <2>5
  <2>7. FlowOK(flow'[f])
    BY <1>1, <2>2, <2>6 DEF FlowOK, After
  <2>. QED
    BY <1>1, <2>3, <2>6, <2>7, Moved
<1>3. CASE End(f)
  BY <1>1, <1>3, Ended
<1>. QED
  BY <1>2, <1>3 DEF PollAgain, Attempt

\* One device learns of the identity of one flow, or pairs it: other flows have
\* other identities, and no other device knows this one.
LEMMA AppSet ==
  ASSUME PairingInv, NEW f \in Flows, NEW n \in Ids, n = flow[f].cert,
         NEW d \in Devices, NEW st \in {"sent", "paired"},
         app' = [app EXCEPT ![n][d] = st],
         \A o \in Devices : app[n][o] # "none" => o = d,
         app[n][d] = "paired" => st = "paired",
         flow' = [flow EXCEPT ![f] = flow'[f]], FlowOK(flow[f])',
         flow'[f].pc # "confirm", flow'[f].cert \in {n, NoId},
         UNCHANGED <<entries, made, acls>>
  PROVE  PairingInv'
<1>. USE DEF PairingInv
<1>1. DOMAIN flow' = Flows /\ \A g \in Flows \ {f} : flow'[g] = flow[g]
  OBVIOUS
<1>2. /\ app' \in [Ids -> [Devices -> AppStates]]
      /\ app'[n][d] = st
      /\ \A k \in Ids, o \in Devices : k # n \/ o # d => app'[k][o] = app[k][o]
  BY DEF AppStates
<1>3. \A k \in Ids, o \in Devices :
        /\ app[k][o] # "none" => app'[k][o] # "none"
        /\ app[k][o] = "paired" => app'[k][o] = "paired"
  BY <1>2
<1>4. ASSUME NEW g \in Flows \ {f} PROVE FlowOK(flow[g])'
  <2>1. flow'[g] = flow[g] /\ FlowOK(flow[g]) /\ flow[g].cert # n
    BY <1>1 DEF Apart
  <2>2. flow[g].pc \in {"permit", "code"} => flow[g].ip \in Devices
    BY <2>1 DEF FlowOK
  <2>. QED
    BY <1>2, <1>3, <2>1, <2>2 DEF FlowOK
<1>5. Apart'
  BY <1>1 DEF Apart
<1>6. Claimed' /\ NewToEntries'
  BY <1>1 DEF Claimed, NewToEntries
<1>7. OneDevice'
  BY <1>2 DEF OneDevice
<1>8. n <= made
  BY DEF FlowOK
<1>9. Unborn'
  BY <1>2, <1>8 DEF Unborn
<1>10. AclsTrue' /\ EntryIsOneIdentity'
  BY <1>3 DEF AclsTrue, EntriesTrue, EntryIsOneIdentity
<1>. QED
  BY <1>1, <1>2, <1>4, <1>5, <1>6, <1>7, <1>9, <1>10 DEF EntriesTrue, OneEntryPerGateway

\* Where a flow goes that has posted its connect event or entered its code.
LEMMA AfterPost ==
  ASSUME PairingInv, NEW f \in Flows, NEW n \in Ids, n = flow[f].cert, n = flow[f].key,
         NEW d \in Devices, NEW st \in {"sent", "paired"}, d = flow[f].uuid,
         flow[f].pc \in After \cup {"connect"},
         app' = [app EXCEPT ![n][d] = st],
         made' = made,
         \/ \E form \in {"login", "manual"} : Show(f, form)
         \/ Goto(f, "find")
         \/ \E attempts \in {Attempts, ManualAttempts} : StartPoll(f, attempts)
  PROVE  /\ flow' = [flow EXCEPT ![f] = flow'[f]] /\ FlowOK(flow[f])'
         /\ flow'[f].pc # "confirm" /\ flow'[f].cert \in {n, NoId}
<1>1. DOMAIN flow = Flows /\ FlowOK(flow[f]) /\ app'[n][d] = st /\ made \in Nat
  BY DEF PairingInv
<1>2. ASSUME NEW change, Step(f, change), "pc" \in DOMAIN change,
             change["pc"] \in {"login", "manual", "find", "poll"},
             DOMAIN change \subseteq {"pc", "left"}
      PROVE  /\ flow' = [flow EXCEPT ![f] = flow'[f]] /\ FlowOK(flow[f])'
             /\ flow'[f].pc # "confirm" /\ flow'[f].cert \in {n, NoId}
  <2>1. /\ flow' = [flow EXCEPT ![f] = flow'[f]]
        /\ flow'[f].pc = change["pc"] /\ flow'[f].ip = flow[f].ip
        /\ flow'[f].key = n /\ flow'[f].cert = n
        /\ flow'[f].override \in {NoDevice, flow[f].override}
        /\ change["pc"] \in After => flow'[f].uuid = d
    <3>1. /\ change["pc"] \in Forms \cup Working
          /\ DOMAIN change \cap {"ip", "key", "cert", "uuid", "override"} = {}
      BY <1>2 DEF Forms, Working
    <3>. QED
      BY <1>1, <1>2, <3>1, StepTo
  <2>. QED
    BY <1>1, <1>2, <2>1 DEF FlowOK, After
<1>3. CASE Goto(f, "find")
  <2>. DEFINE change == [pc |-> "find"]
  <2>1. DOMAIN change = {"pc"} /\ change["pc"] = "find" /\ Step(f, change)
    BY <1>3 DEF Goto
  <2>. HIDE DEF change
  <2>. QED
    BY <1>2, <2>1
<1>4. ASSUME NEW form \in {"login", "manual"}, Show(f, form), flow[f].open
      PROVE  /\ flow' = [flow EXCEPT ![f] = flow'[f]] /\ FlowOK(flow[f])'
             /\ flow'[f].pc # "confirm" /\ flow'[f].cert \in {n, NoId}
  <2>. DEFINE change == [pc |-> form]
  <2>1. DOMAIN change = {"pc"} /\ change["pc"] = form /\ Step(f, change)
    BY <1>4 DEF Show, Goto
  <2>. HIDE DEF change
  <2>. QED
    BY <1>2, <2>1
<1>5. ASSUME NEW attempts, StartPoll(f, attempts)
      PROVE  /\ flow' = [flow EXCEPT ![f] = flow'[f]] /\ FlowOK(flow[f])'
             /\ flow'[f].pc # "confirm" /\ flow'[f].cert \in {n, NoId}
  <2>. DEFINE change == [pc |-> "poll", left |-> attempts]
  <2>1. DOMAIN change = {"pc", "left"} /\ change["pc"] = "poll" /\ Step(f, change)
    BY <1>5 DEF StartPoll
  <2>. HIDE DEF change
  <2>. QED
    BY <1>2, <2>1
<1>6. CASE End(f)
  <2>1. flow'[f] = NoFlow /\ flow' = [flow EXCEPT ![f] = flow'[f]]
    BY <1>1, <1>6 DEF End
  <2>2. NoFlow.pc = "none" /\ NoFlow.cert = 0 /\ NoFlow.key = 0 /\ NoFlow.override = NoDevice
    BY DEF NoFlow
  <2>. QED
    BY <1>1, <2>1, <2>2 DEF FlowOK, After
<1>. QED
  BY <1>3, <1>4, <1>5, <1>6 DEF Show

\* The connect event is the first that a device hears of the identity.
LEMMA ConnectStep ==
  ASSUME PairingInv, NEW f \in Flows, Connect(f)
  PROVE  PairingInv'
<1>1. flow[f].pc = "connect" /\ FlowOK(flow[f]) /\ UNCHANGED <<entries, made, acls>>
  BY DEF Connect, PairingInv
<1>. DEFINE n == flow[f].cert
            d == flow[f].uuid
<1>2. n \in Ids /\ n = flow[f].key /\ d \in Devices /\ \A o \in Devices : app[n][o] = "none"
  BY <1>1 DEF FlowOK
<1>3. CASE UNCHANGED app /\ Show(f, "login")
  BY <1>1, <1>3, Shown
<1>4. CASE /\ app' = [app EXCEPT ![flow[f].cert][flow[f].uuid] = "sent"]
           /\ (\E form \in {"login", "manual"} : Show(f, form)) \/ Goto(f, "find")
  <2>1. /\ flow' = [flow EXCEPT ![f] = flow'[f]] /\ FlowOK(flow[f])'
        /\ flow'[f].pc # "confirm" /\ flow'[f].cert \in {n, NoId}
    BY <1>1, <1>2, <1>4, AfterPost
  <2>. QED
    BY <1>1, <1>2, <1>4, <2>1, AppSet
<1>. QED
  BY <1>3, <1>4 DEF Connect

\* The code is accepted for the app of the flow's own certificate only; the
\* device that knows it is the one of the UUID, so this is the address too.
LEMMA EnterCodeStep ==
  ASSUME PairingInv, NEW f \in Flows, EnterCode(f)
  PROVE  PairingInv'
<1>1. flow[f].pc = "code" /\ FlowOK(flow[f]) /\ UNCHANGED <<entries, made, acls>>
  BY DEF EnterCode, PairingInv
<1>2. CASE UNCHANGED app /\ (Refused(f) \/ Broken(f))
  BY <1>1, <1>2, Shown DEF Refused, Broken, After
<1>3. CASE /\ flow[f].sid = flow[f].cert
           /\ app' = [app EXCEPT ![flow[f].sid][flow[f].ip] = "paired"]
           /\ StartPoll(f, Attempts) \/ Broken(f)
  <2>. DEFINE n == flow[f].cert
              d == flow[f].uuid
  <2>1. n \in Ids /\ n = flow[f].key /\ d \in Devices /\ app[n][d] # "none"
        /\ flow[f].ip \in Devices /\ app[n][flow[f].ip] # "none"
    BY <1>1, <1>3 DEF FlowOK, After
  <2>2. flow[f].ip = d /\ \A o \in Devices : app[n][o] # "none" => o = d
    BY <2>1 DEF PairingInv, OneDevice
  <2>3. /\ flow' = [flow EXCEPT ![f] = flow'[f]] /\ FlowOK(flow[f])'
        /\ flow'[f].pc # "confirm" /\ flow'[f].cert \in {n, NoId}
    BY <1>1, <1>3, <2>1, <2>2, AfterPost DEF Broken, After
  <2>. QED
    BY <1>1, <1>3, <2>1, <2>2, <2>3, AppSet
<1>. QED
  BY <1>2, <1>3 DEF EnterCode

\* The update was sent to the identity of the flow by the one device that knows
\* it; the check of uniqueness keeps the UUID for this flow from here on.
LEMMA ReceiveStep ==
  ASSUME PairingInv, NEW f \in Flows, Receive(f)
  PROVE  PairingInv'
<1>. USE DEF PairingInv
<1>1. /\ DOMAIN flow = Flows /\ FlowOK(flow[f]) /\ flow[f].pc = "poll"
      /\ UNCHANGED <<entries, made, app, acls>>
  BY DEF Receive, world
<1>2. CASE End(f)
  BY <1>1, <1>2, Ended
<1>3. ASSUME NEW i \in Mine(f), Decrypts(f, acls[i]), Unique(f), flow[f].open,
             Step(f, [pc |-> "confirm", acl |-> <<acls[i]>>])
      PROVE  PairingInv'
  <2>. DEFINE change == [pc |-> "confirm", acl |-> <<acls[i]>>]
              n == flow[f].cert
              d == flow[f].uuid
  <2>1. /\ DOMAIN change = {"pc", "acl"} /\ change["pc"] = "confirm"
        /\ change["acl"] = <<acls[i]>> /\ Step(f, change)
    BY <1>3
  <2>. HIDE DEF change
  <2>2. /\ flow' = [flow EXCEPT ![f] = flow'[f]]
        /\ flow'[f].pc = "confirm" /\ flow'[f].ip = flow[f].ip /\ flow'[f].open
        /\ flow'[f].key = flow[f].key /\ flow'[f].cert = n /\ flow'[f].uuid = d
        /\ flow'[f].acl = <<acls[i]>> /\ flow'[f].override \in {NoDevice, flow[f].override}
    BY <1>1, <1>3, <2>1, StepTo DEF Forms, After
  <2>3. n \in Ids /\ flow[f].key = n /\ d \in Devices /\ app[n][d] # "none"
        /\ flow[f].ip \in Devices
    BY <1>1 DEF FlowOK, After
  <2>4. i \in 1..Len(acls) /\ acls[i].to = n
    BY PairingAssumption DEF Mine, Visible
  <2>5. acls[i].from \in Devices /\ app[n][acls[i].from] = "paired"
    BY <2>3, <2>4 DEF AclsTrue
  <2>6. acls[i].from = d
    BY <2>3, <2>5 DEF OneDevice
  <2>7. acls[i] = [to |-> n, from |-> d]
    <3>. DEFINE R == [to : Ids \cup {NoId}, from : Devices \cup {NoDevice}]
    <3>1. acls \in Seq(R) /\ i \in 1..Len(acls)
      BY <2>4
    <3>. HIDE DEF R
    <3>2. acls[i] \in R
      BY <3>1 DEF PairingInv
    <3>. HIDE DEF n, d
    <3>. QED
      BY <2>4, <2>6, <3>2 DEF R
  <2>8. FlowOK(flow'[f])
    BY <1>1, <2>2, <2>3, <2>5, <2>6, <2>7 DEF FlowOK, After, Acl
  <2>9. DOMAIN flow' = Flows /\ \A g \in Flows \ {f} : flow'[g] = flow[g]
    BY <2>2
  <2>10. ASSUME NEW g \in Flows PROVE FlowOK(flow[g])'
    BY <1>1, <2>8, <2>9 DEF FlowOK
  <2>11. Apart'
    BY <2>2, <2>9 DEF Apart
  <2>12. Claimed'
    <3>1. \A g \in Flows \ {f} : flow[g].pc = "confirm" => flow[g].uuid # d
      BY <1>3 DEF Unique, FlowOK
    <3>. QED
      BY <2>2, <2>9, <3>1 DEF Claimed
  <2>13. NewToEntries'
    BY <1>1, <1>3, <2>2, <2>9 DEF NewToEntries, Unique
  <2>. QED
    BY <1>1, <2>9, <2>10, <2>11, <2>12, <2>13 DEF OneDevice, Unborn, AclsTrue, EntriesTrue,
       EntryIsOneIdentity, OneEntryPerGateway
<1>. QED
  BY <1>2, <1>3 DEF Receive

\* The entry takes over what the flow promised; the UUID was new to the entries
\* all the time since the check.
LEMMA ConfirmStep ==
  ASSUME PairingInv, NEW f \in Flows, Confirm(f)
  PROVE  PairingInv'
<1>. USE DEF PairingInv
<1>. DEFINE e == EntryOf(f)
<1>1. /\ DOMAIN flow = Flows /\ made \in Nat /\ FlowOK(flow[f]) /\ flow[f].pc = "confirm"
      /\ End(f) /\ entries' = entries \cup {e} /\ UNCHANGED <<made, app, acls>>
  BY DEF Confirm, world
<1>2. flow'[f] = NoFlow /\ flow' = [flow EXCEPT ![f] = flow'[f]]
  BY <1>1 DEF End
<1>3. NoFlow.pc = "none" /\ NoFlow.cert = 0 /\ FlowOK(NoFlow)
  BY <1>1, NoFlowOK DEF NoFlow
<1>4. /\ e.cert = flow[f].cert /\ e.key = e.cert /\ e.uuid = flow[f].uuid
      /\ e.cert \in Ids /\ e.uuid \in Devices
      /\ e.acl = Acl(e.cert, e.uuid) /\ app[e.cert][e.uuid] = "paired"
  BY <1>1 DEF FlowOK, After, EntryOf
<1>. HIDE DEF e
<1>5. DOMAIN flow' = Flows /\ \A g \in Flows \ {f} : flow'[g] = flow[g]
  BY <1>2
<1>6. ASSUME NEW g \in Flows PROVE FlowOK(flow[g])'
  BY <1>1, <1>2, <1>3, <1>5 DEF FlowOK
<1>7. Apart' /\ Claimed'
  BY <1>2, <1>3, <1>5 DEF Apart, Claimed
<1>8. NewToEntries'
  BY <1>1, <1>2, <1>3, <1>4, <1>5 DEF NewToEntries, Claimed
<1>9. OneEntryPerGateway'
  BY <1>1, <1>4 DEF OneEntryPerGateway, NewToEntries
<1>10. EntriesTrue' /\ EntryIsOneIdentity'
  BY <1>1, <1>4 DEF EntriesTrue, EntryIsOneIdentity, Acl
<1>. QED
  BY <1>1, <1>5, <1>6, <1>7, <1>8, <1>9, <1>10 DEF OneDevice, Unborn, AclsTrue

\* A form that is closed ends its flow; a thread goes on with what it has.
LEMMA CloseStep ==
  ASSUME PairingInv, NEW f \in Flows, Close(f)
  PROVE  PairingInv'
<1>1. UNCHANGED <<entries, made, app, acls>> /\ DOMAIN flow = Flows /\ FlowOK(flow[f])
  BY DEF Close, world, PairingInv
<1>2. CASE End(f)
  BY <1>1, <1>2, Ended
<1>3. CASE flow[f].pc \notin Forms /\ Step(f, [open |-> FALSE])
  <2>. DEFINE change == [open |-> FALSE]
  <2>1. DOMAIN change = {"open"} /\ Step(f, change)
    BY <1>3
  <2>. HIDE DEF change
  <2>2. PICK pc : pc = flow[f].pc
    OBVIOUS
  <2>3. /\ flow' = [flow EXCEPT ![f] = flow'[f]]
        /\ \A k \in DOMAIN NoFlow :
             flow'[f][k] = IF k \notin Live(pc) THEN NoFlow[k]
                           ELSE IF k \in DOMAIN change THEN change[k] ELSE flow[f][k]
    BY <1>1, <2>1, <2>2, StepFields
  <2>4. /\ {"pc", "ip", "key", "cert"} \subseteq Live(pc)
        /\ pc \in {"connect", "find", "permit", "code", "poll"} => "uuid" \in Live(pc)
        /\ pc \in {"permit", "code"} => "sid" \in Live(pc)
    BY DEF Live
  <2>5. {"pc", "ip", "key", "cert", "uuid", "sid", "override"} \subseteq DOMAIN NoFlow
        /\ NoFlow["override"] = NoDevice
    BY DEF NoFlow
  <2>6. /\ flow'[f].pc = flow[f].pc /\ flow'[f].ip = flow[f].ip
        /\ flow'[f].key = flow[f].key /\ flow'[f].cert = flow[f].cert
        /\ flow'[f].override \in {NoDevice, flow[f].override}
        /\ pc \in {"connect", "find", "permit", "code", "poll"} => flow'[f].uuid = flow[f].uuid
        /\ pc \in {"permit", "code"} => flow'[f].sid = flow[f].sid
    BY <2>1, <2>2, <2>3, <2>4, <2>5
  <2>7. FlowOK(flow'[f])
    BY <1>1, <1>3, <2>2, <2>6 DEF FlowOK, After, Forms
  <2>. QED
    BY <1>1, <1>3, <2>3, <2>6, <2>7, Moved DEF Forms
<1>. QED
  BY <1>2, <1>3 DEF Close

\* Devices only learn more, updates come from who has paired the addressee, and
\* a restart forgets flows only.
LEMMA WorldStep ==
  ASSUME PairingInv, World
  PROVE  PairingInv'
<1>. USE DEF PairingInv
<1>1. CASE Restart
  <2>1. \A g \in Flows : flow'[g] = NoFlow
    BY <1>1 DEF Restart
  <2>2. FlowOK(NoFlow) /\ NoFlow.pc = "none" /\ NoFlow.cert = 0
    BY NoFlowOK DEF NoFlow
  <2>3. DOMAIN flow' = Flows /\ UNCHANGED <<entries, made, app, acls>>
    BY <1>1 DEF Restart, world
  <2>4. \A g \in Flows : FlowOK(flow[g])'
    BY <2>1, <2>2, <2>3 DEF FlowOK
  <2>5. Apart' /\ Claimed' /\ NewToEntries'
    BY <2>1, <2>2 DEF Apart, Claimed, NewToEntries
  <2>. QED
    BY <2>3, <2>4, <2>5 DEF OneDevice, Unborn, AclsTrue, EntriesTrue, EntryIsOneIdentity,
       OneEntryPerGateway
<1>2. CASE RemoveEntry
  <2>1. entries' \subseteq entries /\ UNCHANGED <<flow, made, app, acls>>
    BY <1>2 DEF RemoveEntry, world
  <2>2. \A g \in Flows : FlowOK(flow[g])'
    BY <2>1 DEF FlowOK
  <2>. QED
    BY <2>1, <2>2 DEF Apart, Claimed, NewToEntries, OneDevice, Unborn, AclsTrue, EntriesTrue,
       EntryIsOneIdentity, OneEntryPerGateway
<1>3. CASE Tick
  BY <1>3 DEF Tick, FlowOK, Apart, Claimed, NewToEntries, OneDevice, Unborn, AclsTrue,
     EntriesTrue, EntryIsOneIdentity, OneEntryPerGateway
<1>4. ASSUME NEW n \in Ids, NEW d \in Devices, NEW from \in {"sent", "unpaired"},
             NEW to \in {"unpaired", "paired"}, SetApp(n, d, from, to)
      PROVE  PairingInv'
  <2>1. UNCHANGED <<flow, entries, made, acls>> /\ app' \in [Ids -> [Devices -> AppStates]]
    BY <1>4 DEF SetApp, AppStates
  <2>2. \A k \in Ids, o \in Devices :
          /\ app'[k][o] = "none" <=> app[k][o] = "none"
          /\ app[k][o] = "paired" => app'[k][o] = "paired"
    BY <1>4 DEF SetApp
  <2>3. ASSUME NEW g \in Flows PROVE FlowOK(flow[g])'
    <3>. DEFINE r == flow[g]
    <3>1. r.pc \in After => app'[r.cert][r.uuid] # "none"
      BY <2>2 DEF FlowOK
    <3>2. r.pc \in {"permit", "code"} => app'[r.sid][r.ip] # "none"
      BY <2>2 DEF FlowOK
    <3>3. r.pc = "confirm" => app'[r.cert][r.uuid] = "paired"
      BY <2>2 DEF FlowOK, After
    <3>4. r.pc \in {"identify", "connect"} => \A o \in Devices : app'[r.cert][o] = "none"
      BY <2>2 DEF FlowOK
    <3>5. FlowOK(r) /\ flow'[g] = r
      BY <2>1
    <3>. HIDE DEF r
    <3>. QED
      BY <2>1, <3>1, <3>2, <3>3, <3>4, <3>5 DEF FlowOK
  <2>4. Apart' /\ Claimed' /\ NewToEntries'
    BY <2>1 DEF Apart, Claimed, NewToEntries
  <2>5. OneDevice' /\ Unborn' /\ AclsTrue'
    BY <2>1, <2>2 DEF OneDevice, Unborn, AclsTrue
  <2>6. EntriesTrue' /\ EntryIsOneIdentity' /\ OneEntryPerGateway'
    BY <2>1, <2>2 DEF EntriesTrue, EntryIsOneIdentity, OneEntryPerGateway
  <2>. QED
    BY <2>1, <2>3, <2>4, <2>5, <2>6
<1>5. ASSUME NEW n \in Ids \cup {NoId}, NEW d \in Devices \cup {NoDevice}, Publish(Acl(n, d)),
             n \in Ids => d \in Devices /\ app[n][d] = "paired"
      PROVE  PairingInv'
  <2>1. UNCHANGED <<flow, entries, made, app>> /\ acls' = <<Acl(n, d)>> \o acls
    BY <1>5 DEF Publish
  <2>2. acls' \in Seq([to : Ids \cup {NoId}, from : Devices \cup {NoDevice}])
    BY <2>1 DEF Acl
  <2>3. Len(acls') = Len(acls) + 1 /\ acls'[1] = Acl(n, d)
        /\ \A i \in 1..Len(acls) : acls'[i + 1] = acls[i]
    BY <2>1 DEF Acl
  <2>4. AclsTrue'
    <3>1. \A i \in 2..Len(acls') : i - 1 \in 1..Len(acls) /\ acls'[i] = acls[i - 1]
      BY <2>3
    <3>. QED
      BY <1>5, <2>1, <2>3, <3>1 DEF AclsTrue, Acl
  <2>5. \A g \in Flows : FlowOK(flow[g])'
    BY <2>1 DEF FlowOK
  <2>. QED
    BY <2>1, <2>2, <2>4, <2>5 DEF Apart, Claimed, NewToEntries, OneDevice, Unborn, EntriesTrue,
       EntryIsOneIdentity, OneEntryPerGateway
<1>6. CASE \E n \in Ids, d \in Devices : Arrive(n, d) \/ Approve(n, d)
  BY <1>4, <1>6 DEF Arrive, Approve
<1>7. CASE \E n \in Ids, d \in Devices : PublishAcl(n, d)
  BY <1>5, <1>7 DEF PublishAcl
<1>8. CASE PublishOther
  <2>1. NoId \notin Ids
    OBVIOUS
  <2>. QED
    BY <1>5, <1>8, <2>1 DEF PublishOther
<1>. QED
  BY <1>1, <1>2, <1>3, <1>6, <1>7, <1>8 DEF World

\* Throughout a pairing each flow has an identity of its own that one device
\* knows, and the flows at their end hold the UUIDs they will configure: from
\* the key that _do_pairing_setup makes to the entry of async_step_confirm
\* (config_flow.py:610-785).
THEOREM PairingSound == Spec => []PairingInv
<1>1. ASSUME PairingInv, [Next]_vars PROVE PairingInv'
  <2>1. ASSUME NEW f \in Flows, Work(f) PROVE PairingInv'
    BY <1>1, <2>1, CertifyStep, IdentifyStep, ConnectStep, FindAppStep, PermitStep,
       EnterCodeStep, ReceiveStep, PollStep DEF Work
  <2>2. ASSUME NEW f \in Flows, User(f) PROVE PairingInv'
    <3>1. CASE ManualDone(f)
      BY <1>1, <3>1, PollBegins DEF ManualDone, world
    <3>. QED
      BY <1>1, <2>2, <3>1, ChooseStep, LoginStep, ConfirmStep, CloseStep DEF User
  <2>3. CASE UNCHANGED vars
    BY <1>1, <2>3 DEF vars, world, PairingInv, FlowOK, Apart, Claimed, NewToEntries, OneDevice,
       Unborn, AclsTrue, EntriesTrue, EntryIsOneIdentity, OneEntryPerGateway
  <2>. QED
    BY <1>1, <2>1, <2>2, <2>3, WorldStep DEF Next
<1>. QED
  BY <1>1, InitInv, PTL DEF Spec

\* The key, the certificate and the password of an entry are of one identity,
\* which the gateway of the entry has paired, however many attempts failed
\* before (config_flow.py:767-782).
THEOREM EntriesAreOneIdentity == Spec => []EntryIsOneIdentity
<1>1. PairingInv => EntryIsOneIdentity
  BY DEF PairingInv
<1>. QED
  BY <1>1, PairingSound, PTL

\* No two entries have the UUID of one gateway, also when several flows pair it
\* at a time and finish in any order (config_flow.py:272-278).
THEOREM GatewaysAreConfiguredOnce == Spec => []OneEntryPerGateway
<1>1. PairingInv => OneEntryPerGateway
  BY DEF PairingInv
<1>. QED
  BY <1>1, PairingSound, PTL
----------------------------------------------------------------------------
(* Types.                                                                  *)

Kinds == {"", "gateway", "smarttouch"}

\* The fields of r named in D are typed, when m identities have been begun.  What
\* acl holds follows from PairingInv.
Fits(r, D, m) ==
  /\ "pc" \in D => r["pc"] \in {"none"} \cup Forms \cup Working
  /\ "open" \in D => r["open"] \in {TRUE, FALSE}
  /\ "pw" \in D => r["pw"] \in {TRUE, FALSE}
  /\ "ip" \in D => r["ip"] \in Devices \cup {NoDevice}
  /\ "uuid" \in D => r["uuid"] \in Devices \cup {NoDevice}
  /\ "override" \in D => r["override"] \in Devices \cup {NoDevice}
  /\ "device_type" \in D => r["device_type"] \in Kinds
  /\ "client_type" \in D => r["client_type"] \in Kinds
  /\ "key" \in D => r["key"] \in 0..m
  /\ "cert" \in D => r["cert"] \in 0..m
  /\ "sid" \in D => r["sid"] \in 0..m
  /\ "left" \in D => r["left"] \in Nat

FieldsOK(r, m) ==
  /\ DOMAIN r = DOMAIN NoFlow
  /\ Fits(r, DOMAIN NoFlow, m)
  /\ r["pc"] = "none" => r = NoFlow

PairingTypes ==
  /\ \A f \in Flows : FieldsOK(flow[f], made)
  /\ entries \subseteq [ip : Devices, uuid : Devices, key : Ids, cert : Ids,
                        acl : [to : Ids, from : Devices]]
  /\ made \in 0..MaxIds
  /\ now \in 1..MaxNow
  /\ name \in [Ids -> 0..MaxNow]

\* A flow that is not there is well typed.
LEMMA NoFlowTyped == ASSUME NEW m \in Nat PROVE FieldsOK(NoFlow, m)
<1>1. NoFlow["open"] \in {TRUE, FALSE} /\ NoFlow["pw"] \in {TRUE, FALSE}
  BY Zenon DEF NoFlow
<1>2. NoFlow["device_type"] \in Kinds /\ NoFlow["client_type"] \in Kinds
  BY Zenon DEF NoFlow, Kinds
<1>3. /\ NoFlow["pc"] = "none" /\ NoFlow["left"] = 0
      /\ NoFlow["ip"] = NoDevice /\ NoFlow["uuid"] = NoDevice /\ NoFlow["override"] = NoDevice
      /\ NoFlow["key"] = 0 /\ NoFlow["cert"] = 0 /\ NoFlow["sid"] = 0
  BY Zenon DEF NoFlow, NoId
<1>4. 0 \in 0..m /\ 0 \in Nat
  OBVIOUS
<1>5. Fits(NoFlow, DOMAIN NoFlow, m)
  BY <1>1, <1>2, <1>3, <1>4 DEF Fits
<1>. QED
  BY <1>5 DEF FieldsOK

\* More identities, more values.
LEMMA MoreIds ==
  ASSUME NEW m \in Nat, NEW n \in Nat, m <= n, NEW r, FieldsOK(r, m)
  PROVE  FieldsOK(r, n)
<1>1. 0..m \subseteq 0..n
  OBVIOUS
<1>. QED
  BY <1>1 DEF FieldsOK, Fits

\* Fields that are each taken from one of three typed records are typed.
LEMMA FitsMixed ==
  ASSUME NEW r, NEW a, NEW b, NEW c, NEW D, NEW E, NEW m,
         Fits(a, D, m), Fits(b, D, m), Fits(c, E, m),
         \A k \in D : r[k] \in {a[k], b[k]} \/ (k \in E /\ r[k] = c[k])
  PROVE  Fits(r, D, m)
<1>1. ASSUME NEW k \in D, NEW S, a[k] \in S, b[k] \in S, k \in E => c[k] \in S
      PROVE  r[k] \in S
  BY <1>1
<1>2. "pc" \in D => r["pc"] \in {"none"} \cup Forms \cup Working
  BY <1>1 DEF Fits
<1>3. "open" \in D => r["open"] \in {TRUE, FALSE}
  BY <1>1 DEF Fits
<1>4. "pw" \in D => r["pw"] \in {TRUE, FALSE}
  BY <1>1 DEF Fits
<1>5. "ip" \in D => r["ip"] \in Devices \cup {NoDevice}
  BY <1>1 DEF Fits
<1>6. "uuid" \in D => r["uuid"] \in Devices \cup {NoDevice}
  BY <1>1 DEF Fits
<1>7. "override" \in D => r["override"] \in Devices \cup {NoDevice}
  BY <1>1 DEF Fits
<1>8. "device_type" \in D => r["device_type"] \in Kinds
  BY <1>1 DEF Fits
<1>9. "client_type" \in D => r["client_type"] \in Kinds
  BY <1>1 DEF Fits
<1>10. "key" \in D => r["key"] \in 0..m
  BY <1>1 DEF Fits
<1>11. "cert" \in D => r["cert"] \in 0..m
  BY <1>1 DEF Fits
<1>12. "sid" \in D => r["sid"] \in 0..m
  BY <1>1 DEF Fits
<1>13. "left" \in D => r["left"] \in Nat
  BY <1>1 DEF Fits
<1>. QED
  BY <1>2, <1>3, <1>4, <1>5, <1>6, <1>7, <1>8, <1>9, <1>10, <1>11, <1>12, <1>13 DEF Fits

\* A step with typed changes leaves a typed flow, and all others as they were.
LEMMA StepFits ==
  ASSUME PairingInv, PairingTypes, NEW f \in Flows, NEW change, Step(f, change),
         made' \in 0..MaxIds, made <= made', Fits(change, DOMAIN change, made'),
         IF "pc" \in DOMAIN change THEN change["pc"] # "none" ELSE flow[f]["pc"] # "none"
  PROVE  \A g \in Flows : FieldsOK(flow'[g], made')
<1>1. DOMAIN flow = Flows /\ made \in Nat /\ made' \in Nat
  BY PairingAssumption DEF PairingInv
<1>2. \A g \in Flows : FieldsOK(flow[g], made')
  BY <1>1, MoreIds DEF PairingTypes
<1>. DEFINE pc == IF "pc" \in DOMAIN change THEN change["pc"] ELSE flow[f]["pc"]
<1>3. /\ flow' = [flow EXCEPT ![f] = flow'[f]]
      /\ \A k \in DOMAIN NoFlow :
           flow'[f][k] = IF k \notin Live(pc) THEN NoFlow[k]
                         ELSE IF k \in DOMAIN change THEN change[k] ELSE flow[f][k]
  BY <1>1, StepFields
<1>4. "pc" \in Live(pc)
  BY DEF Live
<1>5. pc # "none"
  OBVIOUS
<1>6. "pc" \in DOMAIN NoFlow
  BY DEF NoFlow
<1>7. flow'[f]["pc"] # "none"
  BY <1>3, <1>4, <1>5, <1>6
<1>8. Fits(NoFlow, DOMAIN NoFlow, made') /\ Fits(flow[f], DOMAIN NoFlow, made')
  BY <1>1, <1>2, NoFlowTyped DEF FieldsOK
<1>. HIDE DEF pc
<1>9. Fits(flow'[f], DOMAIN NoFlow, made')
  <2>1. PICK r, D : r = flow'[f] /\ D = DOMAIN NoFlow
    OBVIOUS
  <2>2. PICK m : m = made'
    OBVIOUS
  <2>3. \A k \in D :
          r[k] \in {NoFlow[k], flow[f][k]} \/ (k \in DOMAIN change /\ r[k] = change[k])
    BY <1>3, <2>1
  <2>. QED
    BY <1>8, <2>1, <2>2, <2>3, FitsMixed
<1>10. \A g \in Flows \ {f} : flow'[g] = flow[g]
  BY <1>1, <1>3
<1>11. DOMAIN flow'[f] = DOMAIN NoFlow
  BY <1>1 DEF Step
<1>. QED
  BY <1>2, <1>7, <1>9, <1>10, <1>11 DEF FieldsOK

\* A flow that ends is well typed, and so is one that shows a form.
LEMMA EndFits ==
  ASSUME PairingInv, PairingTypes, NEW f \in Flows, End(f), made' \in 0..MaxIds, made <= made'
  PROVE  \A g \in Flows : FieldsOK(flow'[g], made')
<1>1. DOMAIN flow = Flows /\ made \in Nat /\ made' \in Nat
  BY PairingAssumption DEF PairingInv
<1>2. \A g \in Flows : FieldsOK(flow[g], made')
  BY <1>1, MoreIds DEF PairingTypes
<1>3. \A g \in Flows : flow'[g] = IF g = f THEN NoFlow ELSE flow[g]
  BY <1>1 DEF End
<1>. QED
  BY <1>1, <1>2, <1>3, NoFlowTyped

LEMMA GotoFits ==
  ASSUME PairingInv, PairingTypes, NEW f \in Flows, NEW pc \in Forms \cup Working, Goto(f, pc),
         UNCHANGED made
  PROVE  \A g \in Flows : FieldsOK(flow'[g], made')
<1>. DEFINE change == [pc |-> pc]
<1>1. Step(f, change) /\ DOMAIN change = {"pc"} /\ change["pc"] = pc
  BY DEF Goto
<1>. HIDE DEF change
<1>2. Fits(change, DOMAIN change, made')
  BY <1>1 DEF Fits
<1>3. pc # "none" /\ made' \in 0..MaxIds /\ made <= made'
  BY PairingAssumption DEF PairingTypes, Forms, Working
<1>. QED
  BY <1>1, <1>2, <1>3, StepFits

LEMMA ShowFits ==
  ASSUME PairingInv, PairingTypes, NEW f \in Flows, NEW form \in {"login", "manual"},
         Show(f, form), UNCHANGED made
  PROVE  \A g \in Flows : FieldsOK(flow'[g], made')
<1>1. form \in Forms \cup Working /\ made' \in 0..MaxIds /\ made <= made'
  BY PairingAssumption DEF PairingTypes, Forms
<1>. QED
  BY <1>1, GotoFits, EndFits DEF Show

\* What a step of a flow leaves alone outside of it.
LEMMA FlowOnly ==
  ASSUME PairingTypes, UNCHANGED <<entries, made, now, name>>,
         \A g \in Flows : FieldsOK(flow'[g], made')
  PROVE  PairingTypes'
BY DEF PairingTypes

\* The choice of a device and the login.
LEMMA FormTypes ==
  ASSUME PairingInv, PairingTypes, NEW f \in Flows,
         \/ \E d \in Devices : ChooseDevice(f, d)
         \/ \E pw \in BOOLEAN, d \in Devices \cup {NoDevice} : Login(f, pw, d)
  PROVE  PairingTypes'
<1>0. UNCHANGED <<entries, made, now, name>> /\ made' \in 0..MaxIds /\ made <= made'
  <2>1. UNCHANGED <<entries, made, now, name>>
    BY DEF ChooseDevice, Login, world
  <2>2. made \in 0..MaxIds /\ made <= made
    BY PairingAssumption DEF PairingTypes
  <2>. QED
    BY <2>1, <2>2
<1>1. ASSUME NEW d \in Devices, ChooseDevice(f, d) PROVE PairingTypes'
  <2>1. PICK web \in WebReachable(d) :
          Step(f, [pc |-> "login", open |-> TRUE, ip |-> d, device_type |-> DeviceType(web)])
    BY <1>1 DEF ChooseDevice
  <2>. DEFINE change == [pc |-> "login", open |-> TRUE, ip |-> d, device_type |-> DeviceType(web)]
  <2>2. /\ Step(f, change) /\ DOMAIN change = {"pc", "open", "ip", "device_type"}
        /\ change["pc"] = "login" /\ change["ip"] = d
    BY <2>1
  <2>3. change["open"] \in {TRUE, FALSE} /\ change["device_type"] \in Kinds
    BY Zenon DEF Kinds, DeviceType
  <2>. HIDE DEF change
  <2>4. Fits(change, DOMAIN change, made') /\ change["pc"] # "none"
    BY <2>2, <2>3 DEF Fits, Forms
  <2>. QED
    BY <1>0, <2>2, <2>4, StepFits, FlowOnly
<1>2. ASSUME NEW pw \in BOOLEAN, NEW d \in Devices \cup {NoDevice}, Login(f, pw, d)
      PROVE  PairingTypes'
  <2>. DEFINE change == [pc |-> "certify", pw |-> pw, override |-> d]
  <2>1. /\ Step(f, change) /\ DOMAIN change = {"pc", "pw", "override"}
        /\ change["pc"] = "certify" /\ change["override"] = d
    BY <1>2 DEF Login
  <2>2. change["pw"] \in {TRUE, FALSE}
    BY Zenon
  <2>. HIDE DEF change
  <2>3. Fits(change, DOMAIN change, made') /\ change["pc"] # "none"
    BY <2>1, <2>2 DEF Fits, Working
  <2>. QED
    BY <1>0, <2>1, <2>3, StepFits, FlowOnly
<1>. QED
  BY <1>1, <1>2

\* The identity that is made is the newest.
LEMMA CertifyTypes ==
  ASSUME PairingInv, PairingTypes, NEW f \in Flows, Certify(f)
  PROVE  PairingTypes'
<1>1. made' = made + 1 /\ made' \in 0..MaxIds /\ made <= made' /\ made' \in Ids
  BY PairingAssumption DEF Certify, PairingTypes
<1>2. name' \in [Ids -> 0..MaxNow] /\ UNCHANGED <<entries, now>>
  <2>1. now \in 0..MaxNow
    BY PairingAssumption DEF PairingTypes
  <2>. QED
    BY <1>1, <2>1 DEF Certify, PairingTypes
<1>3. \A g \in Flows : FieldsOK(flow'[g], made')
  <2>1. CASE Step(f, [pc |-> "identify", key |-> made', cert |-> made'])
    <3>. DEFINE change == [pc |-> "identify", key |-> made', cert |-> made']
    <3>1. /\ Step(f, change) /\ DOMAIN change = {"pc", "key", "cert"}
          /\ change["pc"] = "identify" /\ change["key"] = made' /\ change["cert"] = made'
      BY <2>1
    <3>. HIDE DEF change
    <3>2. made' \in 0..made'
      BY <1>1
    <3>3. Fits(change, DOMAIN change, made') /\ change["pc"] # "none"
      BY <3>1, <3>2 DEF Fits, Working
    <3>. QED
      BY <1>1, <3>1, <3>3, StepFits
  <2>2. CASE Step(f, [pc |-> "login", key |-> made'])
    <3>. DEFINE change == [pc |-> "login", key |-> made']
    <3>1. /\ Step(f, change) /\ DOMAIN change = {"pc", "key"}
          /\ change["pc"] = "login" /\ change["key"] = made'
      BY <2>2
    <3>. HIDE DEF change
    <3>2. made' \in 0..made'
      BY <1>1
    <3>3. Fits(change, DOMAIN change, made') /\ change["pc"] # "none"
      BY <3>1, <3>2 DEF Fits, Forms
    <3>. QED
      BY <1>1, <3>1, <3>3, StepFits
  <2>3. CASE End(f)
    BY <1>1, <2>3, EndFits
  <2>. QED
    BY <2>1, <2>2, <2>3 DEF Certify
<1>. QED
  BY <1>1, <1>2, <1>3 DEF PairingTypes

\* An attempt at the device or the portal, until the poll begins.
LEMMA AttemptTypes ==
  ASSUME PairingInv, PairingTypes, NEW f \in Flows,
         Identify(f) \/ Connect(f) \/ FindApp(f) \/ Permit(f) \/ EnterCode(f) \/ ManualDone(f)
  PROVE  PairingTypes'
<1>0. UNCHANGED <<entries, made, now, name>>
  BY DEF Identify, Connect, FindApp, Permit, EnterCode, ManualDone, world
<1>1. made' \in 0..MaxIds /\ made <= made' /\ made \in Nat
  <2>1. made \in 0..MaxIds /\ made <= made /\ made \in Nat
    BY PairingAssumption DEF PairingTypes
  <2>. QED
    BY <1>0, <2>1
<1>2. ASSUME NEW form \in {"login", "manual"}, Show(f, form) PROVE PairingTypes'
  BY <1>0, <1>2, ShowFits, FlowOnly
<1>3. ASSUME NEW pc \in {"find", "code"}, Goto(f, pc) PROVE PairingTypes'
  BY <1>0, <1>3, GotoFits, FlowOnly DEF Working
<1>4. ASSUME NEW type \in Kinds, NEW d \in Devices,
             Step(f, [pc |-> "connect", client_type |-> type, uuid |-> d])
      PROVE  PairingTypes'
  <2>. DEFINE change == [pc |-> "connect", client_type |-> type, uuid |-> d]
  <2>1. /\ Step(f, change) /\ DOMAIN change = {"pc", "client_type", "uuid"}
        /\ change["pc"] = "connect" /\ change["client_type"] = type /\ change["uuid"] = d
    BY <1>4
  <2>. HIDE DEF change
  <2>2. Fits(change, DOMAIN change, made') /\ change["pc"] # "none"
    BY <2>1 DEF Fits, Working
  <2>. QED
    BY <1>0, <1>1, <2>1, <2>2, StepFits, FlowOnly
<1>5. ASSUME NEW attempts \in Nat, StartPoll(f, attempts) PROVE PairingTypes'
  <2>. DEFINE change == [pc |-> "poll", left |-> attempts]
  <2>1. /\ Step(f, change) /\ DOMAIN change = {"pc", "left"}
        /\ change["pc"] = "poll" /\ change["left"] = attempts
    BY <1>5 DEF StartPoll
  <2>. HIDE DEF change
  <2>2. Fits(change, DOMAIN change, made') /\ change["pc"] # "none"
    BY <2>1 DEF Fits, Working
  <2>. QED
    BY <1>0, <1>1, <2>1, <2>2, StepFits, FlowOnly
<1>6. CASE Identify(f)
  <2>1. FlowOK(flow[f]) /\ flow[f].pc = "identify"
    BY <1>6 DEF PairingInv, Identify
  <2>2. "gateway" \in Kinds /\ \A d \in Devices : ClientType(d) \in Kinds
    BY Zenon DEF Kinds, ClientType
  <2>3. CASE LocalDevice(f)
    <3>. DEFINE d == IF flow[f].override # NoDevice THEN flow[f].override ELSE flow[f].ip
    <3>1. d \in Devices
      BY <2>1 DEF FlowOK
    <3>2. Step(f, [pc |-> "connect", client_type |-> "gateway", uuid |-> d])
      BY <2>3 DEF LocalDevice
    <3>. HIDE DEF d
    <3>. QED
      BY <1>4, <2>2, <3>1, <3>2
  <2>4. ASSUME NEW seen \in SUBSET Devices, DiscoveredDevice(f, seen) PROVE PairingTypes'
    <3>1. PICK d \in seen :
            Step(f, [pc |-> "connect", client_type |-> ClientType(d), uuid |-> d])
      BY <2>4 DEF DiscoveredDevice
    <3>. QED
      BY <1>4, <2>2, <3>1
  <2>. QED
    BY <1>2, <1>6, <2>3, <2>4 DEF Identify
<1>7. CASE Connect(f)
  BY <1>2, <1>3, <1>7 DEF Connect
<1>8. CASE FindApp(f)
  <2>1. ASSUME NEW n \in Pending(f), Step(f, [pc |-> "permit", sid |-> n]) PROVE PairingTypes'
    <3>. DEFINE change == [pc |-> "permit", sid |-> n]
    <3>1. /\ Step(f, change) /\ DOMAIN change = {"pc", "sid"}
          /\ change["pc"] = "permit" /\ change["sid"] = n
      BY <2>1
    <3>. HIDE DEF change
    <3>2. n \in Ids /\ app[n][flow[f].ip] # "none" /\ flow[f].ip \in Devices
      BY <1>8 DEF Pending, FindApp, PairingInv, FlowOK
    <3>3. n \in 0..made'
      BY <1>0, <1>1, <3>2 DEF PairingInv, Unborn
    <3>4. Fits(change, DOMAIN change, made') /\ change["pc"] # "none"
      BY <3>1, <3>3 DEF Fits, Working
    <3>. QED
      BY <1>0, <1>1, <3>1, <3>4, StepFits, FlowOnly
  <2>. QED
    BY <1>2, <1>8, <2>1 DEF FindApp, Refused, Broken
<1>9. CASE Permit(f)
  BY <1>2, <1>3, <1>9 DEF Permit, Refused, Broken
<1>10. CASE EnterCode(f) \/ ManualDone(f)
  <2>1. Attempts \in Nat /\ ManualAttempts \in Nat
    BY PairingAssumption
  <2>. QED
    BY <1>2, <1>5, <1>10, <2>1 DEF EnterCode, ManualDone, Refused, Broken
<1>. QED
  BY <1>6, <1>7, <1>8, <1>9, <1>10

\* The poll, and the end of a flow: what the entry is made of is typed by what
\* the flow at its end promises.
LEMMA EndTypes ==
  ASSUME PairingInv, PairingTypes, NEW f \in Flows,
         Receive(f) \/ PollAgain(f) \/ Confirm(f) \/ Close(f)
  PROVE  PairingTypes'
<1>0. UNCHANGED <<made, now, name>>
  BY DEF Receive, PollAgain, Confirm, Close, world
<1>1. made' \in 0..MaxIds /\ made <= made' /\ made \in Nat
  <2>1. made \in 0..MaxIds /\ made <= made /\ made \in Nat
    BY PairingAssumption DEF PairingTypes
  <2>. QED
    BY <1>0, <2>1
<1>2. CASE UNCHANGED entries /\ End(f)
  BY <1>0, <1>1, <1>2, EndFits, FlowOnly
<1>3. CASE Receive(f)
  <2>1. ASSUME NEW i, Step(f, [pc |-> "confirm", acl |-> <<acls[i]>>]) PROVE PairingTypes'
    <3>. DEFINE change == [pc |-> "confirm", acl |-> <<acls[i]>>]
    <3>1. Step(f, change) /\ DOMAIN change = {"pc", "acl"} /\ change["pc"] = "confirm"
      BY <2>1
    <3>. HIDE DEF change
    <3>2. Fits(change, DOMAIN change, made') /\ change["pc"] # "none"
      BY <3>1 DEF Fits, Forms
    <3>3. UNCHANGED entries
      BY <1>3 DEF Receive
    <3>. QED
      BY <1>0, <1>1, <3>1, <3>2, <3>3, StepFits, FlowOnly
  <2>. QED
    BY <1>2, <1>3, <2>1 DEF Receive
<1>4. CASE PollAgain(f)
  <2>1. CASE flow[f].left > 1 /\ Step(f, [left |-> flow[f].left - 1])
    <3>. DEFINE change == [left |-> flow[f].left - 1]
    <3>1. Step(f, change) /\ DOMAIN change = {"left"} /\ change["left"] = flow[f].left - 1
      BY <2>1
    <3>. HIDE DEF change
    <3>2. "left" \in DOMAIN NoFlow
      BY DEF NoFlow
    <3>3. flow[f].left \in Nat
      BY <3>2 DEF PairingTypes, FieldsOK, Fits
    <3>4. Fits(change, DOMAIN change, made')
      BY <2>1, <3>1, <3>3 DEF Fits
    <3>5. flow[f].pc # "none" /\ UNCHANGED entries
      BY <1>4 DEF PollAgain
    <3>. QED
      BY <1>0, <1>1, <3>1, <3>4, <3>5, StepFits, FlowOnly
  <2>. QED
    BY <1>2, <1>4, <2>1 DEF PollAgain, Attempt
<1>5. CASE Confirm(f)
  <2>. DEFINE e == EntryOf(f)
  <2>1. /\ FlowOK(flow[f]) /\ flow[f].pc = "confirm" /\ End(f) /\ entries' = entries \cup {e}
    BY <1>5 DEF PairingInv, Confirm
  <2>2. e \in [ip : Devices, uuid : Devices, key : Ids, cert : Ids,
               acl : [to : Ids, from : Devices]]
    BY <2>1 DEF FlowOK, After, EntryOf, Acl
  <2>. HIDE DEF e
  <2>. QED
    BY <1>0, <1>1, <2>1, <2>2, EndFits DEF PairingTypes
<1>6. CASE Close(f)
  <2>1. CASE Step(f, [open |-> FALSE])
    <3>. DEFINE change == [open |-> FALSE]
    <3>1. Step(f, change) /\ DOMAIN change = {"open"}
      BY <2>1
    <3>2. change["open"] \in {TRUE, FALSE}
      BY Zenon
    <3>. HIDE DEF change
    <3>3. Fits(change, DOMAIN change, made')
      BY <3>1, <3>2 DEF Fits
    <3>4. flow[f].pc # "none"
      <4>1. flow[f].open /\ ~NoFlow.open
        BY <1>6 DEF Close, NoFlow
      <4>2. flow[f].pc = "none" => flow[f] = NoFlow
        BY DEF PairingTypes, FieldsOK
      <4>. QED
        BY <4>1, <4>2
    <3>5. UNCHANGED entries
      BY <1>6 DEF Close
    <3>. QED
      BY <1>0, <1>1, <3>1, <3>3, <3>4, <3>5, StepFits, FlowOnly
  <2>. QED
    BY <1>2, <1>6, <2>1 DEF Close
<1>. QED
  BY <1>3, <1>4, <1>5, <1>6

\* A restart forgets the flows; nobody else changes what a flow or an entry has.
LEMMA WorldTypes ==
  ASSUME PairingTypes, World
  PROVE  PairingTypes'
<1>0. made \in Nat
  BY PairingAssumption DEF PairingTypes
<1>1. UNCHANGED <<made, name>>
  BY DEF World, Restart, RemoveEntry, Tick, PublishOther, Publish, Arrive, Approve, SetApp,
     PublishAcl, world
<1>2. entries' \subseteq entries
  BY DEF World, Restart, RemoveEntry, Tick, PublishOther, Publish, Arrive, Approve, SetApp,
     PublishAcl, world
<1>3. now' \in 1..MaxNow
  <2>1. CASE Tick
    BY <2>1, PairingAssumption DEF Tick, PairingTypes
  <2>2. CASE ~Tick
    BY <2>2 DEF PairingTypes, World, Restart, RemoveEntry, PublishOther, Publish, Arrive,
       Approve, SetApp, PublishAcl, world
  <2>. QED
    BY <2>1, <2>2
<1>4. \A g \in Flows : flow'[g] \in {flow[g], NoFlow}
  BY DEF World, Restart, RemoveEntry, Tick, PublishOther, Publish, Arrive, Approve, SetApp,
     PublishAcl, world
<1>5. \A g \in Flows : FieldsOK(flow'[g], made')
  BY <1>0, <1>1, <1>4, NoFlowTyped DEF PairingTypes
<1>6. made' \in 0..MaxIds /\ name' \in [Ids -> 0..MaxNow]
  BY <1>1 DEF PairingTypes
<1>7. entries' \subseteq [ip : Devices, uuid : Devices, key : Ids, cert : Ids,
                          acl : [to : Ids, from : Devices]]
  BY <1>2 DEF PairingTypes
<1>. QED
  BY <1>3, <1>5, <1>6, <1>7 DEF PairingTypes

\* Before the first flow everything is typed.
LEMMA InitTypes == Init => PairingTypes
<1>. SUFFICES ASSUME Init PROVE PairingTypes
  OBVIOUS
<1>1. made = 0 /\ 0 \in Nat /\ 0 \in 0..MaxIds /\ now \in 1..MaxNow /\ 0 \in 0..MaxNow
  BY PairingAssumption DEF Init
<1>2. \A f \in Flows : FieldsOK(flow[f], made)
  BY <1>1, NoFlowTyped DEF Init
<1>3. entries = {} /\ name \in [Ids -> 0..MaxNow]
  BY <1>1 DEF Init
<1>. QED
  BY <1>1, <1>2, <1>3 DEF PairingTypes

\* The fields of every flow keep their types while a flow steps from form to
\* thread and back, is closed or forgotten (ABBWelcomeConfigFlow,
\* config_flow.py); those of an entry need what PairingInv says of the flow that
\* made it, and an app that is found is one of an identity that has been made.
THEOREM PairingTyped == Spec => []TypeOK
<1>1. PairingInv /\ PairingTypes /\ [Next]_vars => PairingTypes'
  <2>. SUFFICES ASSUME PairingInv, PairingTypes, [Next]_vars PROVE PairingTypes'
    OBVIOUS
  <2>1. ASSUME NEW f \in Flows, Work(f) \/ User(f) PROVE PairingTypes'
    BY <2>1, FormTypes, CertifyTypes, AttemptTypes, EndTypes DEF Work, User
  <2>2. CASE UNCHANGED vars
    BY <2>2 DEF PairingTypes, vars, world
  <2>. QED
    BY <2>1, <2>2, WorldTypes DEF Next
<1>2. PairingInv /\ PairingTypes => TypeOK
  <2>. SUFFICES ASSUME PairingInv, PairingTypes PROVE TypeOK
    OBVIOUS
  <2>1. ASSUME NEW f \in Flows
        PROVE  /\ DOMAIN flow[f] = DOMAIN NoFlow
               /\ flow[f].pc \in {"none"} \cup Forms \cup Working
               /\ flow[f].open \in {TRUE, FALSE} /\ flow[f].pw \in {TRUE, FALSE}
               /\ flow[f].pc = "none" => flow[f] = NoFlow
               /\ {flow[f].ip, flow[f].uuid, flow[f].override} \subseteq Devices \cup {NoDevice}
               /\ flow[f].device_type \in Kinds /\ flow[f].client_type \in Kinds
               /\ {flow[f].key, flow[f].cert, flow[f].sid} \subseteq 0..made
               /\ flow[f].left \in Nat
    <3>1. {"pc", "open", "ip", "device_type", "pw", "override", "key", "cert", "uuid",
           "client_type", "sid", "left"} \subseteq DOMAIN NoFlow
      BY DEF NoFlow
    <3>. QED
      BY <3>1 DEF PairingTypes, FieldsOK, Fits
  <2>. QED
    BY <2>1, Zenon DEF TypeOK, Kinds, PairingTypes, PairingInv, AppStates
<1>. QED
  BY <1>1, <1>2, InitTypes, PairingSound, PTL DEF Spec
=============================================================================
