----------------------------- MODULE ArmedState -----------------------------
(***************************************************************************)
(* The streaming gate of one config entry: streaming_state.py together     *)
(* with everything that writes it - the two switches, the ring handler and *)
(* the arm_streaming service of __init__.py, the options listener - and    *)
(* the life cycle of the entry, which creates and removes the bucket of    *)
(* hass.data the state lives in.                                           *)
(*                                                                         *)
(* Every write is a synchronous callback on the event loop, hence one      *)
(* action.  What interleaves are the auto-disarm timer tasks, the options  *)
(* listener (a task of its own) and the awaits of set-up and unload.       *)
(***************************************************************************)
EXTENDS Naturals

CONSTANTS Stations,     \* station ids of the outdoor stations
          AnyStation,   \* target_station_id = "": the arm is for every station
          Unset,        \* bucket.get("allow_pickup") of a fresh bucket
          MaxArms,      \* bound: calls of arm(), one timer task each
          MaxLoads      \* bound: set-ups of the entry

ASSUME ArmedAssumption ==
  /\ MaxArms \in Nat
  /\ MaxLoads \in Nat
  /\ AnyStation \notin Stations

ASSUME UnsetAssumption == Unset \notin BOOLEAN

VARIABLES
  life,       \* where async_setup_entry / async_unload_entry stand
  loads,      \* number of set-ups so far
  listening,  \* the SIP listener delivers rings to _on_ring
  option,     \* entry.options[CONF_ALLOW_PICKUP]
  notified,   \* an _async_options_updated task has still to run
  present,    \* hass.data[DOMAIN] has a bucket for the entry
  allow,      \* bucket["allow_pickup"], or Unset
  armed, reason, target, timer,   \* bucket["armed_state"]
  timers,     \* every timer task ever created and where it stands
  arms,       \* number of timer tasks created
  view        \* is_stream_allowed as the camera of each station last saw it

gate == <<present, allow, armed, reason, target, timer, timers, arms, view>>
entry == <<life, loads, listening, option, notified>>
vars == <<entry, gate>>

TimerIds == 1..MaxArms
NoTimer == 0
TimerStates == {"none", "sleeping", "woken", "cancelled", "ended"}

\* Entities of the entry exist: their callbacks are connected.
EntitiesUp == life = "loaded"

\* is_pickup_allowed: the default when the bucket says nothing.
PickupAllowed == allow # FALSE

\* is_stream_allowed(station).
StreamAllowed(s) == armed /\ target \in {AnyStation, s}

----------------------------------------------------------------------------
(* The helpers of streaming_state.py.  get_state and _entry_bucket create *)
(* the bucket when it is missing, so each of them makes "present" true.   *)

\* The slot holds a task that is not done() ...
TimerPending == timer # NoTimer /\ timers[timer] # "ended"

\* ... and arm and disarm both cancel such a task.
CancelTimer ==
  IF TimerPending THEN [timers EXCEPT ![timer] = "cancelled"] ELSE timers

\* Faulty variants: the cameras are never told; they note the station.
LookAway(sent) == view' = view
LookAtStation(sent) == view' = IF sent THEN [s \in Stations |-> target'] ELSE view

\* The cameras look at the gate when signal_armed_changed is sent, and when
\* they are added.
Look(sent) ==
  view' = IF (IF EntitiesUp THEN sent ELSE EntitiesUp')
          THEN [s \in Stations |-> StreamAllowed(s)'] ELSE view

\* arm(): take over from the running timer, if there is one.
Arm(r, s) ==
  /\ arms < MaxArms
  /\ arms' = arms + 1
  /\ timers' = [CancelTimer EXCEPT ![arms + 1] = "sleeping"]
  /\ timer' = arms + 1
  /\ armed' = TRUE
  /\ reason' = r
  /\ target' = s
  /\ present' = TRUE
  /\ Look(TRUE)

\* disarm(): the timer goes first, the rest only if the state was armed.
Disarm ==
  /\ timers' = CancelTimer
  /\ timer' = IF TimerPending THEN NoTimer ELSE timer
  /\ armed' = FALSE
  /\ reason' = IF armed THEN "" ELSE reason
  /\ target' = IF armed THEN AnyStation ELSE target
  /\ present' = TRUE
  /\ Look(armed)
  /\ arms' = arms

\* Closing the gate ends a ring arm, and no manual one.
EndsArm(allowed) == ~allowed /\ armed /\ reason = "ring"

\* set_pickup_allowed(allowed): closing the gate ends a ring arm, no other.
SetPickup(allowed) ==
  /\ allow' = allowed
  /\ IF EndsArm(allowed)
       THEN Disarm
       ELSE /\ present' = TRUE
            /\ UNCHANGED <<armed, reason, target, timer, timers, arms>>
            /\ Look(FALSE)

----------------------------------------------------------------------------
(* Writers.                                                                *)

\* Faulty variant: every ring arms.
RingArms(s) ==
  /\ listening
  /\ UNCHANGED <<entry, allow>>
  /\ Arm("ring", s)

\* _on_ring: an INVITE of station s reached the listener.
Ring(s) ==
  /\ listening
  /\ UNCHANGED <<entry, allow>>
  /\ IF PickupAllowed THEN Arm("ring", s) ELSE Disarm

\* The streaming switch: turn on (every station) and turn off.
SwitchOn ==
  /\ EntitiesUp
  /\ UNCHANGED <<entry, allow>>
  /\ Arm("manual", AnyStation)

SwitchOff ==
  /\ EntitiesUp
  /\ UNCHANGED <<entry, allow>>
  /\ Disarm

\* Service arm_streaming, registered for good at the first set-up.  With no
\* bucket there it raises ValueError and changes nothing.
ServiceArm(s) ==
  /\ loads > 0
  /\ present
  /\ UNCHANGED <<entry, allow>>
  /\ Arm("manual", s)

\* The pickup switch: the gate at once, the option with it, whose listener
\* Home Assistant starts as a task when the option really changed.
PickupSwitch(allowed) ==
  /\ EntitiesUp
  /\ option' = allowed
  /\ notified' = (notified \/ option # allowed)
  /\ UNCHANGED <<life, loads, listening>>
  /\ SetPickup(allowed)

\* The options flow stores the option only; its listener, registered shortly
\* before the platforms are forwarded, applies it later.
OptionsFlow(allowed) ==
  /\ option # allowed
  /\ option' = allowed
  /\ notified' = (notified \/ life \in {"forwarding", "loaded", "unloading"})
  /\ UNCHANGED <<life, loads, listening, gate>>

\* _async_options_updated reads the option when it runs.  Without a bucket
\* it reloads the entry, which is Setup below.
OptionsUpdated ==
  /\ notified
  /\ notified' = FALSE
  /\ UNCHANGED <<life, loads, listening, option>>
  /\ IF present THEN SetPickup(option) ELSE UNCHANGED gate

----------------------------------------------------------------------------
(* The timer task _auto_off.                                               *)

\* asyncio.sleep is over: the task is scheduled to run again.
TimerWakes(i) ==
  /\ timers[i] = "sleeping"
  /\ timers' = [timers EXCEPT ![i] = "woken"]
  /\ UNCHANGED <<entry, present, allow, armed, reason, target, timer, arms, view>>

\* The slot still holds this task; faulty variants do not ask, or compare
\* with something else.
Always(i) == TRUE
Never(i) == FALSE
IsCurrent(i) == timer = i

\* It runs: unless another timer has taken over, the stream is disarmed.
TimerRuns(i) ==
  /\ timers[i] = "woken"
  /\ timers' = [timers EXCEPT ![i] = "ended"]
  /\ present' = TRUE
  /\ UNCHANGED <<entry, allow, arms>>
  /\ IF IsCurrent(i)
       THEN /\ armed' = FALSE
            /\ reason' = ""
            /\ target' = AnyStation
            /\ timer' = NoTimer
            /\ Look(TRUE)
       ELSE UNCHANGED <<armed, reason, target, timer, view>>

\* A cancelled task leaves through CancelledError, whether it was asleep or
\* already scheduled.
TimerCancelled(i) ==
  /\ timers[i] = "cancelled"
  /\ timers' = [timers EXCEPT ![i] = "ended"]
  /\ UNCHANGED <<entry, present, allow, armed, reason, target, timer, arms, view>>

----------------------------------------------------------------------------
(* Life cycle of the entry.                                                *)

\* A fresh bucket replaces whatever was there; the gate follows the option.
Setup ==
  /\ life = "unloaded"
  /\ loads < MaxLoads
  /\ life' = "starting"
  /\ loads' = loads + 1
  /\ present' = TRUE
  /\ allow' = option
  /\ armed' = FALSE
  /\ reason' = ""
  /\ target' = AnyStation
  /\ timer' = NoTimer
  /\ UNCHANGED <<listening, option, notified, timers, arms, view>>

\* The proxy and the first poll awaited, the listener is started and the
\* options listener registered; then the platforms are forwarded.
StartListener ==
  /\ life = "starting"
  /\ life' = "forwarding"
  /\ listening' = TRUE
  /\ UNCHANGED <<loads, option, notified, gate>>

\* The entities are added; the pickup switch applies the option once more.
AddEntities ==
  /\ life = "forwarding"
  /\ life' = "loaded"
  /\ UNCHANGED <<loads, listening, option, notified>>
  /\ SetPickup(option)

\* async_unload_platforms removes the entities and is awaited ...
UnloadPlatforms ==
  /\ life = "loaded"
  /\ life' = "unloading"
  /\ UNCHANGED <<loads, listening, option, notified, gate>>

\* ... then the bucket is dropped, if every platform could be unloaded ...
PopBucket ==
  /\ life = "unloading"
  /\ life' = "stopping"
  /\ present' = FALSE
  /\ allow' = Unset
  /\ armed' = FALSE
  /\ reason' = ""
  /\ target' = AnyStation
  /\ timer' = NoTimer
  /\ UNCHANGED <<loads, listening, option, notified, timers, arms, view>>

UnloadFails ==
  /\ life = "unloading"
  /\ life' = "failed"
  /\ UNCHANGED <<loads, listening, option, notified, gate>>

\* ... and the on-unload callbacks run, SipListener.stop among them.
StopListener ==
  /\ life = "stopping"
  /\ life' = "unloaded"
  /\ listening' = FALSE
  /\ UNCHANGED <<loads, option, notified, gate>>

----------------------------------------------------------------------------
Init ==
  /\ life = "unloaded"
  /\ loads = 0
  /\ listening = FALSE
  /\ option \in BOOLEAN
  /\ notified = FALSE
  /\ present = FALSE
  /\ allow = Unset
  /\ armed = FALSE
  /\ reason = ""
  /\ target = AnyStation
  /\ timer = NoTimer
  /\ timers = [i \in TimerIds |-> "none"]
  /\ arms = 0
  /\ view = [s \in Stations |-> FALSE]

Writers ==
  \/ \E s \in Stations : Ring(s)
  \/ SwitchOn \/ SwitchOff
  \/ \E s \in Stations \cup {AnyStation} : ServiceArm(s)
  \/ \E b \in BOOLEAN : PickupSwitch(b) \/ OptionsFlow(b)
  \/ OptionsUpdated

Timers ==
  \E i \in TimerIds : TimerWakes(i) \/ TimerRuns(i) \/ TimerCancelled(i)

LifeCycle ==
  \/ Setup \/ StartListener \/ AddEntities
  \/ UnloadPlatforms \/ PopBucket \/ UnloadFails \/ StopListener

Next == Writers \/ Timers \/ LifeCycle

Spec == Init /\ [][Next]_vars

----------------------------------------------------------------------------
(* Properties.                                                             *)

\* Types of the variables of the gate and of the entry's life cycle.
TypeOK ==
  /\ life \in {"unloaded", "starting", "forwarding", "loaded", "unloading",
              "stopping", "failed"}
  /\ loads \in 0..MaxLoads
  /\ listening \in BOOLEAN
  /\ option \in BOOLEAN
  /\ notified \in BOOLEAN
  /\ present \in BOOLEAN
  /\ allow \in BOOLEAN \cup {Unset}
  /\ armed \in BOOLEAN
  /\ reason \in {"", "manual", "ring"}
  /\ target \in Stations \cup {AnyStation}
  /\ timer \in 0..MaxArms
  /\ timers \in [TimerIds -> TimerStates]
  /\ arms \in 0..MaxArms
  /\ view \in [Stations -> BOOLEAN]

\* An armed gate always holds the timer of its own, newest arm, and that
\* timer has not been cancelled: nothing is armed that will not expire
\* (streaming_state.py: "auto-disarms after ...").  A gate that is not armed
\* has no timer and carries neither reason nor target.
GateHasItsTimer ==
  /\ armed => timer = arms /\ timer # NoTimer /\ timers[timer] \in {"sleeping", "woken"}
  /\ ~armed => timer = NoTimer /\ reason = "" /\ target = AnyStation

\* A ring keeps the stream open only while incoming calls may be picked up,
\* whichever of switch, options flow, listener task and ring came last.
RingArmNeedsPickup == armed /\ reason = "ring" => PickupAllowed

\* No write of the gate goes unnoticed: what the cameras saw last is what
\* is_stream_allowed answers now.
CamerasSeeGate == EntitiesUp => view = [s \in Stations |-> StreamAllowed(s)]

\* A timer ends the arm that started it and no later one: not a re-arm, not
\* the arm of a bucket created by a reload.
OnlyOwnTimerDisarms ==
  [][\A i \in TimerIds : TimerRuns(i) /\ armed /\ ~armed' => i = arms]_vars

\* __init__.py:949-950: arm_streaming without a loaded entry is an error.
ServiceNeedsEntry ==
  [][\A s \in Stations \cup {AnyStation} : ServiceArm(s) => life # "unloaded"]_vars
=============================================================================
