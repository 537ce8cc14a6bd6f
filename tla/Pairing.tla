------------------------------ MODULE Pairing -------------------------------
(***************************************************************************)
(* Pairing Home Assistant with a gateway or panel: the wizard of           *)
(* config_flow.py over the portal and gateway calls of portal.py.          *)
(*                                                                         *)
(* A flow picks a device of the network, then makes an identity (a key, a  *)
(* certificate the portal issues for it, and the client name), finds the   *)
(* portal UUID of the device, posts a connect event, has the client        *)
(* approved, by itself at the admin pages of a classic gateway or by the   *)
(* user, and polls the portal for the ACL update that carries the SIP      *)
(* password.  Every one of these is a call of an executor thread: another  *)
(* flow, the portal, the device and its user run in between, and each call *)
(* may fail.  A failed attempt shows the form again, and the next one      *)
(* makes another identity.                                                 *)
(*                                                                         *)
(* External: the portal, the devices, their users, and Home Assistant's    *)
(* flow manager.  An identity is the number of the attempt that made it; a *)
(* device is its own address and its own portal UUID.                      *)
(***************************************************************************)
EXTENDS Naturals, Sequences, FiniteSets

CONSTANTS Flows,
          Devices,
          Classic,         \* the devices with admin pages; the others are panels
          NoDevice,
          Page,            \* pagination_limit of poll_acl_update
          Attempts,        \* POLL_ATTEMPTS
          ManualAttempts,  \* POLL_ATTEMPTS_MANUAL
          MaxIds,          \* bound: attempts, those that have not begun included
          MaxNow,          \* bound: seconds in which they fall
          MaxAcls          \* bound: ACL updates

ASSUME PairingAssumption ==
  /\ Classic \subseteq Devices
  /\ NoDevice \notin Devices
  /\ {Page, Attempts, ManualAttempts} \subseteq Nat \ {0}
  /\ {MaxIds, MaxAcls} \subseteq Nat /\ MaxNow \in Nat \ {0}

Ids == 1..MaxIds
NoId == 0

VARIABLES
  flow,     \* the fields of each flow and where it is
  entries,  \* the configuration entries, as far as pairing fills them in
  \* the portal, the devices and the clock
  made,     \* identities begun
  now,      \* time.time(), in seconds
  name,     \* client name of each identity
  app,      \* each identity at each device, from the connect event on
  acls      \* ACL updates at the portal, newest first: for whom, from where

world == <<now, name, app, acls>>
vars == <<flow, entries, made, world>>

\* Where a flow is: at a form of the user's, or in an executor thread.
Forms == {"login", "manual", "confirm"}
Working == {"certify", "identify", "connect", "find", "permit", "code", "poll"}

\* "open": the flow manager knows the flow; when the user closes the dialog
\* the thread goes on.  "pw": an admin password was given, right or wrong: a
\* login may fail.  "sid" stands for the identity of the app found.
NoFlow ==
  [pc |-> "none", open |-> FALSE, ip |-> NoDevice, device_type |-> "", pw |-> FALSE,
   override |-> NoDevice, key |-> NoId, cert |-> NoId, uuid |-> NoDevice,
   client_type |-> "", sid |-> NoId, left |-> 0, acl |-> <<>>]

\* The fields that are read before they are written again; the others are
\* cleared, where the code leaves them behind.
Live(pc) ==
  {"pc", "open", "ip", "key", "cert"} \cup
  CASE pc = "login" -> {"device_type"}
    [] pc \in {"certify", "identify"} -> {"device_type", "pw", "override"}
    [] pc = "connect" -> {"device_type", "pw", "uuid", "client_type"}
    [] pc = "find" -> {"device_type", "uuid"}
    [] pc \in {"permit", "code"} -> {"device_type", "uuid", "sid"}
    [] pc = "manual" -> {"uuid"}
    [] pc = "poll" -> {"uuid", "left"}
    [] pc = "confirm" -> {"uuid", "acl"}

Step(f, change) ==
  LET new == [k \in DOMAIN NoFlow |-> IF k \in DOMAIN change THEN change[k] ELSE flow[f][k]]
  IN  flow' = [flow EXCEPT ![f] =
                 [k \in DOMAIN NoFlow |-> IF k \in Live(new.pc) THEN new[k] ELSE NoFlow[k]]]
Goto(f, pc) == Step(f, [pc |-> pc])
End(f) == flow' = [flow EXCEPT ![f] = NoFlow]

\* async_show_form: of a flow that has been removed, nobody sees it.
Show(f, form) == IF flow[f].open THEN Goto(f, form) ELSE End(f)

----------------------------------------------------------------------------
(* Choosing a device.                                                      *)

\* _gateway_web_reachable, in the scan and later: the admin pages of a
\* classic gateway may fail to answer in time.
WebReachable(d) == IF d \in Classic THEN BOOLEAN ELSE {FALSE}

\* A device that answers is taken for a gateway if its admin pages do.
DeviceType(web) == IF web THEN "gateway" ELSE "smarttouch"

\* async_step_user, _scan, _select_device and _manual up to the login form.
ChooseDevice(f, d) ==
  /\ flow[f].pc = "none"
  /\ \E web \in WebReachable(d) :
       Step(f, [pc |-> "login", open |-> TRUE, ip |-> d,
                device_type |-> DeviceType(web)])
  /\ UNCHANGED <<entries, made, world>>

\* async_step_login with valid input and a device that answers (otherwise the
\* form comes again and nothing is kept but the input).  Only a gateway is
\* asked for its password.
Begun == made + Cardinality({f \in Flows : flow[f].pc = "certify"})
Login(f, pw, override) ==
  /\ flow[f].pc = "login"
  /\ pw => flow[f].device_type = "gateway"
  /\ Begun < MaxIds
  /\ Step(f, [pc |-> "certify", pw |-> pw, override |-> override])
  /\ UNCHANGED <<entries, made, world>>

----------------------------------------------------------------------------
(* _do_pairing_setup, in an executor thread: one action per call it waits  *)
(* for.                                                                    *)

\* Faulty variant: an identity the flow already has is used again.
CertifyOnce(f) ==
  /\ flow[f].pc = "certify" /\ made < MaxIds
  /\ IF flow[f].cert # NoId
     THEN Goto(f, "identify") /\ UNCHANGED <<made, name>>
     ELSE /\ made' = made + 1
          /\ name' = [name EXCEPT ![made'] = now]
          /\ Step(f, [pc |-> "identify", key |-> made', cert |-> made'])
  /\ UNCHANGED <<entries, now, app, acls>>

\* default_client_name, generate_keypair_and_csr, then request_certificate and
\* derive_identity: the key is replaced before the certificate is.
Certify(f) ==
  /\ flow[f].pc = "certify" /\ made < MaxIds
  /\ made' = made + 1
  /\ name' = [name EXCEPT ![made'] = now]
  /\ \/ Step(f, [pc |-> "identify", key |-> made', cert |-> made'])
     \/ IF flow[f].open THEN Step(f, [pc |-> "login", key |-> made']) ELSE End(f)
  /\ UNCHANGED <<entries, now, app, acls>>

\* gateway_local_info asks the device itself, unless the user gave the UUID;
\* either is taken for a classic gateway.
LocalDevice(f) ==
  /\ flow[f].pw
  /\ TRUE \in WebReachable(flow[f].ip)
  /\ Step(f, [pc |-> "connect", client_type |-> "gateway",
              uuid |-> IF flow[f].override # NoDevice THEN flow[f].override ELSE flow[f].ip])

\* discover_welcome_device among those the portal shows at the moment: the one
\* the user named, or the only one; a classic gateway needs the password.
ClientType(d) == IF d \in Classic THEN "gateway" ELSE "smarttouch"
DiscoveredDevice(f, seen) ==
  \E d \in seen :
    /\ IF flow[f].override # NoDevice THEN d = flow[f].override ELSE seen = {d}
    /\ d \in Classic => flow[f].pw
    /\ Step(f, [pc |-> "connect", client_type |-> ClientType(d), uuid |-> d])

\* Both may fail: the admin login, the portal, no device or several.
Identify(f) ==
  /\ flow[f].pc = "identify"
  /\ \/ LocalDevice(f)
     \/ /\ ~flow[f].pw \/ FALSE \in WebReachable(flow[f].ip)
        /\ \E seen \in SUBSET Devices : DiscoveredDevice(f, seen)
     \/ Show(f, "login")
  /\ UNCHANGED <<entries, made, world>>

\* compute_integrity_code and send_connect_event; the answer to a post that
\* has arrived may be lost.  A SmartTouch has no admin pages to approve at.
Connect(f) ==
  /\ flow[f].pc = "connect"
  /\ \/ /\ app' = [app EXCEPT ![flow[f].cert][flow[f].uuid] = "sent"]
        /\ \/ IF flow[f].client_type = "smarttouch" THEN Show(f, "manual") ELSE Goto(f, "find")
           \/ Show(f, "login")
     \/ Show(f, "login") /\ UNCHANGED app
  /\ UNCHANGED <<entries, made, now, name, acls>>

----------------------------------------------------------------------------
(* gateway_authorize, in an executor thread.  A GatewayAdminError offers   *)
(* manual approval, but for a failed login; anything else shows the form.  *)

Refused(f) == Show(f, "manual")
Broken(f) == Show(f, "login")

\* op=10: the first app with our name that waits at the device whose address
\* the flow has.  The gateway lists them in an order of its own.
Pending(f) ==
  {n \in Ids : name[n] = name[flow[f].cert] /\ app[n][flow[f].ip] = "unpaired"}
FindApp(f) ==
  /\ flow[f].pc = "find"
  /\ \/ /\ flow[f].ip \in Classic
        /\ \/ \E n \in Pending(f) : Step(f, [pc |-> "permit", sid |-> n])
           \/ Refused(f)
     \/ Broken(f)
  /\ UNCHANGED <<entries, made, world>>

\* op=2: the permissions of the app.
Permit(f) ==
  /\ flow[f].pc = "permit"
  /\ Goto(f, "code") \/ Refused(f) \/ Broken(f)
  /\ UNCHANGED <<entries, made, world>>

\* async_step_poll_acl begins.
StartPoll(f, attempts) == Step(f, [pc |-> "poll", left |-> attempts])

\* op=3: the gateway accepts the code of the app's own certificate only.  The
\* answer may be lost.
EnterCode(f) ==
  /\ flow[f].pc = "code"
  /\ \/ /\ flow[f].sid = flow[f].cert
        /\ app' = [app EXCEPT ![flow[f].sid][flow[f].ip] = "paired"]
        /\ StartPoll(f, Attempts) \/ Broken(f)
     \/ (Refused(f) \/ Broken(f)) /\ UNCHANGED app
  /\ UNCHANGED <<entries, made, now, name, acls>>

\* async_step_manual_authorize is submitted.
ManualDone(f) ==
  /\ flow[f].pc = "manual"
  /\ StartPoll(f, ManualAttempts)
  /\ UNCHANGED <<entries, made, world>>

----------------------------------------------------------------------------
(* async_step_poll_acl and the end of the wizard.                          *)

Acl(n, d) == [to |-> n, from |-> d]

\* poll_acl_update: the updates addressed to us, by their places in a page of
\* the newest of all.
Visible == {i \in 1..Page : i <= Len(acls)}
Mine(f) == {i \in Visible : acls[i].to = flow[f].cert}

\* Faulty variant: other flows are not looked at.
UniqueAmongEntries(f) == \A e \in entries : e.uuid # flow[f].uuid /\ e.ip # flow[f].ip

\* _check_unique: neither another flow at its end nor an entry has the UUID,
\* and no entry has the address.
Unique(f) ==
  /\ \A g \in Flows \ {f} :
       flow[g].open /\ flow[g].pc = "confirm" => flow[g].uuid # flow[f].uuid
  /\ \A e \in entries : e.uuid # flow[f].uuid /\ e.ip # flow[f].ip

\* parse_acl_update: the password is encrypted for the key of the addressee.
Decrypts(f, e) == e.to = flow[f].key

\* The poll has found an update, the newest: it is parsed, and the flow goes on unless it
\* is malformed or the device is already configured.
Receive(f) ==
  /\ flow[f].pc = "poll"
  /\ \E i \in Mine(f) :
       /\ \A j \in Mine(f) : i <= j
       /\ IF Decrypts(f, acls[i]) /\ Unique(f) /\ flow[f].open
          THEN Step(f, [pc |-> "confirm", acl |-> <<acls[i]>>]) \/ End(f)
          ELSE End(f)
  /\ UNCHANGED <<entries, made, world>>

\* Faulty variant: the count of attempts is not compared with their limit.
AttemptPastLast(f) == Step(f, [left |-> flow[f].left - 1])

\* An attempt that finds nothing, or fails; after the last one the flow is
\* aborted.
Attempt(f) == IF flow[f].left > 1 THEN Step(f, [left |-> flow[f].left - 1]) ELSE End(f)
PollAgain(f) ==
  /\ flow[f].pc = "poll"
  /\ Attempt(f)
  /\ UNCHANGED <<entries, made, world>>

\* async_step_confirm is submitted: the entry is created.
EntryOf(f) ==
  [ip |-> flow[f].ip, uuid |-> flow[f].uuid, key |-> flow[f].key, cert |-> flow[f].cert,
   acl |-> Head(flow[f].acl)]
Confirm(f) ==
  /\ flow[f].pc = "confirm"
  /\ entries' = entries \cup {EntryOf(f)}
  /\ End(f)
  /\ UNCHANGED <<made, world>>

----------------------------------------------------------------------------
(* The user, the clock, the portal and the devices.                        *)

\* The dialog is closed: a thread is not stopped by it.
Close(f) ==
  /\ flow[f].open
  /\ IF flow[f].pc \in Forms THEN End(f) ELSE Step(f, [open |-> FALSE])
  /\ UNCHANGED <<entries, made, world>>

\* Home Assistant restarts: flows are kept in memory only.
Restart ==
  /\ flow' = [f \in Flows |-> NoFlow]
  /\ UNCHANGED <<entries, made, world>>

RemoveEntry ==
  /\ \E e \in entries : entries' = entries \ {e}
  /\ UNCHANGED <<flow, made, world>>

Tick ==
  /\ now < MaxNow
  /\ now' = now + 1
  /\ UNCHANGED <<flow, entries, made, name, app, acls>>

SetApp(n, d, from, to) ==
  /\ app[n][d] = from
  /\ app' = [app EXCEPT ![n][d] = to]
  /\ UNCHANGED <<flow, entries, made, now, name, acls>>

\* The connect event reaches the device.
Arrive(n, d) == SetApp(n, d, "sent", "unpaired")

\* The user of the device, or a panel by itself, approves a waiting client.
Approve(n, d) == SetApp(n, d, "unpaired", "paired")

\* A device tells a paired client its ACL, after the approval and again
\* whenever its stations change; and tells other clients of the account.
Publish(e) ==
  /\ Len(acls) < MaxAcls
  /\ acls' = <<e>> \o acls
  /\ UNCHANGED <<flow, entries, made, now, name, app>>
PublishAcl(n, d) == app[n][d] = "paired" /\ Publish(Acl(n, d))
PublishOther == Publish(Acl(NoId, NoDevice))

----------------------------------------------------------------------------
Init ==
  /\ flow = [f \in Flows |-> NoFlow]
  /\ entries = {}
  /\ made = 0 /\ now = 1
  /\ name = [n \in Ids |-> 0]
  /\ app = [n \in Ids |-> [d \in Devices |-> "none"]]
  /\ acls = <<>>

\* What a thread of the wizard does by itself.
Work(f) ==
  \/ Certify(f) \/ Identify(f) \/ Connect(f)
  \/ FindApp(f) \/ Permit(f) \/ EnterCode(f)
  \/ Receive(f) \/ PollAgain(f)

User(f) ==
  \/ \E d \in Devices : ChooseDevice(f, d)
  \/ \E pw \in BOOLEAN, d \in Devices \cup {NoDevice} : Login(f, pw, d)
  \/ ManualDone(f) \/ Confirm(f) \/ Close(f)

World ==
  \/ Restart \/ RemoveEntry \/ Tick \/ PublishOther
  \/ \E n \in Ids, d \in Devices : Arrive(n, d) \/ Approve(n, d) \/ PublishAcl(n, d)

Next == (\E f \in Flows : Work(f) \/ User(f)) \/ World

Spec == Init /\ [][Next]_vars

----------------------------------------------------------------------------
(* Properties.                                                             *)

TypeOK ==
  /\ \A f \in Flows :
       /\ DOMAIN flow[f] = DOMAIN NoFlow
       /\ flow[f].pc \in {"none"} \cup Forms \cup Working
       /\ flow[f].open \in BOOLEAN
       /\ flow[f].pc = "none" => flow[f] = NoFlow
       /\ {flow[f].ip, flow[f].uuid, flow[f].override} \subseteq Devices \cup {NoDevice}
       /\ flow[f].device_type \in {"", "gateway", "smarttouch"}
       /\ flow[f].client_type \in {"", "gateway", "smarttouch"}
       /\ flow[f].pw \in BOOLEAN
       /\ {flow[f].key, flow[f].cert, flow[f].sid} \subseteq 0..made
       /\ flow[f].left \in Nat
  /\ entries \subseteq [ip : Devices, uuid : Devices, key : Ids, cert : Ids,
                        acl : [to : Ids, from : Devices]]
  /\ made \in 0..MaxIds
  /\ now \in 1..MaxNow
  /\ name \in [Ids -> 0..MaxNow]
  /\ app \in [Ids -> [Devices -> {"none", "sent", "unpaired", "paired"}]]
  /\ acls \in Seq([to : Ids \cup {NoId}, from : Devices \cup {NoDevice}])

\* An entry is of one identity: its key belongs to its certificate, its SIP
\* password was sent to that identity by the gateway whose UUID it has, and
\* that gateway has the identity paired, however many attempts failed before
\* and wherever they did (config_flow.py:767-782).
EntryIsOneIdentity ==
  \A e \in entries :
    /\ e.key = e.cert
    /\ e.acl = Acl(e.cert, e.uuid)
    /\ app[e.cert][e.uuid] = "paired"

\* A gateway is configured once, also when several flows pair it at a time:
\* the check is made before the user confirms (config_flow.py:272-278).
OneEntryPerGateway == \A e, g \in entries : e.uuid = g.uuid => e = g

----------------------------------------------------------------------------
(* Claims the code does not keep.                                          *)

\* The device that is paired is the one the user chose: discovery "never
\* silently pairs Home Assistant with the wrong building" (portal.py:410).  It
\* does when the portal shows only another device: nothing compares the two.
RightDeviceIsPaired ==
  \A f \in Flows : flow[f].pc = "connect" /\ flow[f].client_type = "smarttouch"
                    => flow[f].uuid = flow[f].ip

\* No two entries have the same address (config_flow.py:275-277).  They do when
\* one flow for it ends between the other's check and its confirmation.
OneEntryPerAddress == \A e, g \in entries : e.ip = g.ip => e = g
=============================================================================
