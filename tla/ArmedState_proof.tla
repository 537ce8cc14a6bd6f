-------------------------- MODULE ArmedState_proof --------------------------
(***************************************************************************)
(* The streaming gate, for every set of stations and every number of arms  *)
(* and reloads: its timer, its ring arms and its cameras stay coherent     *)
(* under every interleaving of writers, timer tasks and entry life cycle.  *)
(***************************************************************************)
EXTENDS ArmedState, TLAPS

\* The inductive invariant.  The three conjuncts need the types; the second
\* needs the first, to know that a gate that is not armed names no reason.
GateInv ==
  /\ TypeOK
  /\ GateHasItsTimer
  /\ RingArmNeedsPickup
  /\ CamerasSeeGate

USE DEF NoTimer, TimerIds, TimerStates

----------------------------------------------------------------------------
(* What the two helpers of streaming_state.py do to the gate.              *)

\* No timer is a possible content of the timer slot.
LEMMA NoTimerInRange == NoTimer \in 0..MaxArms
  BY ArmedAssumption

\* The timer of an armed gate is one of the tasks.
LEMMA ArmedTimerIsTask ==
  ASSUME TypeOK, GateHasItsTimer
  PROVE  armed => timer \in TimerIds
  <1>1. timer \in 0..MaxArms
    BY DEF TypeOK
  <1>2. armed => timer # 0
    BY DEF GateHasItsTimer
  <1> QED
    BY <1>1, <1>2, ArmedAssumption

\* arm() leaves an armed gate whose timer is the newest and asleep.
LEMMA ArmFacts ==
  ASSUME TypeOK, NEW r \in {"manual", "ring"},
         NEW s \in Stations \cup {AnyStation}, Arm(r, s)
  PROVE  /\ armed' = TRUE /\ reason' = r /\ target' = s /\ present' = TRUE
         /\ arms' \in 0..MaxArms /\ timer' = arms' /\ timer' \in 1..MaxArms
         /\ timers' \in [TimerIds -> TimerStates]
         /\ timers'[timer'] = "sleeping"
         /\ view' = IF (IF EntitiesUp THEN TRUE ELSE EntitiesUp')
                    THEN [t \in Stations |-> StreamAllowed(t)'] ELSE view
  <1>1. arms + 1 \in 1..MaxArms
    <2>1. arms \in 0..MaxArms
      BY DEF TypeOK
    <2>2. arms < MaxArms
      BY DEF Arm
    <2> QED
      BY <2>1, <2>2, ArmedAssumption
  <1>2. CancelTimer \in [TimerIds -> TimerStates]
    BY DEF TypeOK, CancelTimer, TimerPending
  <1>3. timers' = [CancelTimer EXCEPT ![arms + 1] = "sleeping"]
    BY DEF Arm
  <1> QED
    BY <1>1, <1>2, <1>3 DEF Arm, Look

\* disarm() leaves a gate without timer, reason or target.
LEMMA DisarmFacts ==
  ASSUME TypeOK, GateHasItsTimer, Disarm
  PROVE  /\ armed' = FALSE /\ timer' = NoTimer /\ reason' = ""
         /\ target' = AnyStation /\ present' = TRUE /\ arms' = arms
         /\ timers' \in [TimerIds -> TimerStates]
         /\ view' = IF (IF EntitiesUp THEN armed ELSE EntitiesUp')
                    THEN [t \in Stations |-> StreamAllowed(t)'] ELSE view
  <1>1. timers' \in [TimerIds -> TimerStates]
    BY DEF TypeOK, Disarm, CancelTimer, TimerPending
  <1>2. timer' = NoTimer
    BY DEF TypeOK, Disarm, GateHasItsTimer, TimerPending
  <1>3. reason' = "" /\ target' = AnyStation
    BY DEF TypeOK, Disarm, GateHasItsTimer
  <1> QED
    BY <1>1, <1>2, <1>3 DEF Disarm, Look

\* What a step must establish about the gate; each writer is checked against
\* it once, whichever action of the entry it is part of.
GateStep ==
  /\ present' \in BOOLEAN /\ allow' \in BOOLEAN \cup {Unset}
  /\ armed' \in BOOLEAN /\ reason' \in {"", "manual", "ring"}
  /\ target' \in Stations \cup {AnyStation}
  /\ timer' \in 0..MaxArms /\ arms' \in 0..MaxArms
  /\ timers' \in [TimerIds -> TimerStates]
  /\ view' \in [Stations -> BOOLEAN]
  /\ GateHasItsTimer'
  /\ RingArmNeedsPickup'
  /\ CamerasSeeGate'

\* Arming keeps the gate coherent, if a ring arms only while it may.
LEMMA ArmStep ==
  ASSUME GateInv, NEW r \in {"manual", "ring"},
         NEW s \in Stations \cup {AnyStation}, Arm(r, s),
         allow' = allow, life' = life, r = "ring" => PickupAllowed
  PROVE  GateStep
  <1>1. TypeOK /\ CamerasSeeGate
    BY DEF GateInv
  <1>2. view' \in [Stations -> BOOLEAN]
    BY <1>1, ArmFacts DEF TypeOK, StreamAllowed
  <1>3. GateHasItsTimer'
    <2>1. armed' = TRUE /\ timer' = arms' /\ timer' \in 1..MaxArms
          /\ timers'[timer'] = "sleeping"
      BY <1>1, ArmFacts
    <2>2. timer' # 0
      BY <2>1, ArmedAssumption
    <2> QED
      BY <2>1, <2>2 DEF GateHasItsTimer
  <1>4. RingArmNeedsPickup'
    BY <1>1, ArmFacts DEF RingArmNeedsPickup, PickupAllowed
  <1>5. CamerasSeeGate'
    BY <1>1, ArmFacts DEF CamerasSeeGate, EntitiesUp, StreamAllowed
  <1> QED
    BY <1>1, <1>2, <1>3, <1>4, <1>5, ArmFacts DEF GateStep, TypeOK

\* Disarming keeps it coherent too, whatever the pickup gate becomes.
LEMMA DisarmStep ==
  ASSUME GateInv, Disarm, allow' \in BOOLEAN \cup {Unset}
  PROVE  GateStep
  <1>1. TypeOK /\ GateHasItsTimer /\ CamerasSeeGate
    BY DEF GateInv
  <1>2. view' \in [Stations -> BOOLEAN]
    BY <1>1, DisarmFacts DEF TypeOK, StreamAllowed
  <1>3. GateHasItsTimer'
    BY <1>1, DisarmFacts DEF GateHasItsTimer
  <1>4. RingArmNeedsPickup'
    BY <1>1, DisarmFacts DEF RingArmNeedsPickup
  <1>5. EntitiesUp' => CamerasSeeGate'
    BY <1>1, DisarmFacts DEF CamerasSeeGate, EntitiesUp, StreamAllowed, GateHasItsTimer
  <1> QED
    <2>1. timer' \in 0..MaxArms
      BY <1>1, DisarmFacts, NoTimerInRange
    <2>2. CamerasSeeGate'
      BY <1>5 DEF CamerasSeeGate
    <2> QED
      BY <1>1, <1>2, <1>3, <1>4, <2>1, <2>2, DisarmFacts DEF GateStep, TypeOK

\* So does set_pickup_allowed.
LEMMA PickupStep ==
  ASSUME GateInv, NEW b \in BOOLEAN, SetPickup(b)
  PROVE  GateStep
  <1>1. TypeOK /\ GateHasItsTimer /\ RingArmNeedsPickup /\ CamerasSeeGate
    BY DEF GateInv
  <1>2. allow' = b
    BY DEF SetPickup, EndsArm
  <1>3. CASE ~b /\ armed /\ reason = "ring"
    BY <1>2, <1>3, DisarmStep DEF SetPickup, EndsArm
  <1>4. CASE ~(~b /\ armed /\ reason = "ring")
    <2>1. /\ UNCHANGED <<armed, reason, target, timer, timers, arms>>
          /\ present' = TRUE /\ Look(FALSE)
      BY <1>4 DEF SetPickup, EndsArm
    <2>2. GateHasItsTimer'
      BY <1>1, <2>1 DEF GateHasItsTimer
    <2>3. RingArmNeedsPickup'
      BY <1>1, <1>2, <1>4, <2>1 DEF RingArmNeedsPickup, PickupAllowed
    <2>4. view' \in [Stations -> BOOLEAN]
      BY <1>1, <2>1 DEF TypeOK, Look, StreamAllowed
    <2>5. CamerasSeeGate'
      BY <1>1, <2>1 DEF CamerasSeeGate, Look, StreamAllowed
    <2> QED
      BY <1>1, <1>2, <2>1, <2>2, <2>3, <2>4, <2>5 DEF GateStep, TypeOK
  <1> QED
    BY <1>3, <1>4

\* A step that leaves the gate alone and adds no entity.
LEMMA IdleStep ==
  ASSUME GateInv, UNCHANGED gate, EntitiesUp' => EntitiesUp
  PROVE  GateStep
  BY DEF GateInv, GateStep, TypeOK, gate, GateHasItsTimer, RingArmNeedsPickup,
         PickupAllowed, CamerasSeeGate, StreamAllowed

\* A bucket that is new or gone holds a gate that is not armed.
LEMMA FreshStep ==
  ASSUME GateInv, armed' = FALSE, reason' = "", target' = AnyStation,
         timer' = NoTimer, UNCHANGED <<timers, arms, view>>, ~EntitiesUp',
         present' \in BOOLEAN, allow' \in BOOLEAN \cup {Unset}
  PROVE  GateStep
  <1>1. timer' \in 0..MaxArms
    BY NoTimerInRange
  <1> QED
    BY <1>1 DEF GateInv, GateStep, TypeOK, GateHasItsTimer, RingArmNeedsPickup,
                CamerasSeeGate

----------------------------------------------------------------------------
(* The invariant.                                                          *)

\* Types of the entry's own variables after a step.
EntryTypes ==
  /\ life \in {"unloaded", "starting", "forwarding", "loaded", "unloading",
              "stopping", "failed"}
  /\ loads \in 0..MaxLoads
  /\ listening \in BOOLEAN
  /\ option \in BOOLEAN
  /\ notified \in BOOLEAN

\* A step that keeps what GateStep says and the entry's types keeps GateInv.
LEMMA GateStepSuffices ==
  ASSUME GateStep, EntryTypes'
  PROVE  GateInv'
  BY DEF GateStep, EntryTypes, GateInv, TypeOK

\* Entry variables that do not change keep their types.
LEMMA EntryKept ==
  ASSUME GateInv, UNCHANGED entry
  PROVE  EntryTypes'
  BY DEF GateInv, TypeOK, EntryTypes, entry

\* A bucket that has just been made for a new entry.
LEMMA GateInit == Init => GateInv
  <1> SUFFICES ASSUME Init PROVE GateInv
    OBVIOUS
  <1>1. timer \in 0..MaxArms /\ arms \in 0..MaxArms /\ loads \in 0..MaxLoads
    <2>1. 0 \in 0..MaxLoads
      BY ArmedAssumption
    <2> QED
      BY <2>1, NoTimerInRange DEF Init
  <1> QED
    BY <1>1 DEF Init, GateInv, TypeOK, GateHasItsTimer, RingArmNeedsPickup,
                CamerasSeeGate, EntitiesUp

\* Rings, switches, services and options.
LEMMA WritersKeepGate == GateInv /\ Writers => GateInv'
  <1> SUFFICES ASSUME GateInv, Writers PROVE GateInv'
    OBVIOUS
  <1>1. CASE \E s \in Stations : Ring(s)
    <2> PICK s \in Stations : Ring(s)
      BY <1>1
    <2>1. UNCHANGED entry /\ allow' = allow /\ life' = life
      BY DEF Ring, entry
    <2>2. allow' \in BOOLEAN \cup {Unset}
      BY <2>1 DEF GateInv, TypeOK
    <2>3. CASE PickupAllowed
      <3>1. Arm("ring", s)
        BY <2>3 DEF Ring
      <3>2. GateStep
        BY <2>1, <2>3, <3>1, ArmStep
      <3> QED
        BY <2>1, <3>2, EntryKept, GateStepSuffices
    <2>4. CASE ~PickupAllowed
      <3>1. Disarm
        BY <2>4 DEF Ring
      <3>2. GateStep
        BY <2>2, <3>1, DisarmStep
      <3> QED
        BY <2>1, <3>2, EntryKept, GateStepSuffices
    <2> QED
      BY <2>3, <2>4
  <1>2. CASE SwitchOn
    <2>1. UNCHANGED entry /\ allow' = allow /\ life' = life /\ Arm("manual", AnyStation)
      BY <1>2 DEF SwitchOn, entry
    <2>2. GateStep
      BY <2>1, ArmStep
    <2> QED
      BY <2>1, <2>2, EntryKept, GateStepSuffices
  <1>3. CASE SwitchOff
    <2>1. UNCHANGED entry /\ Disarm /\ allow' \in BOOLEAN \cup {Unset}
      BY <1>3 DEF SwitchOff, GateInv, TypeOK
    <2>2. GateStep
      BY <2>1, DisarmStep
    <2> QED
      BY <2>1, <2>2, EntryKept, GateStepSuffices
  <1>4. CASE \E s \in Stations \cup {AnyStation} : ServiceArm(s)
    <2> PICK s \in Stations \cup {AnyStation} : ServiceArm(s)
      BY <1>4
    <2>1. UNCHANGED entry /\ allow' = allow /\ life' = life /\ Arm("manual", s)
      BY DEF ServiceArm, entry
    <2>2. GateStep
      BY <2>1, ArmStep
    <2> QED
      BY <2>1, <2>2, EntryKept, GateStepSuffices
  <1>5. CASE \E b \in BOOLEAN : PickupSwitch(b)
    <2> PICK b \in BOOLEAN : PickupSwitch(b)
      BY <1>5
    <2>1. SetPickup(b)
      BY DEF PickupSwitch
    <2>2. EntryTypes'
      BY DEF PickupSwitch, GateInv, TypeOK, EntryTypes
    <2>3. GateStep
      BY <2>1, PickupStep
    <2> QED
      BY <2>2, <2>3, GateStepSuffices
  <1>6. CASE \E b \in BOOLEAN : OptionsFlow(b)
    <2> PICK b \in BOOLEAN : OptionsFlow(b)
      BY <1>6
    <2>1. UNCHANGED gate /\ (EntitiesUp' => EntitiesUp)
      BY DEF OptionsFlow, EntitiesUp
    <2>2. EntryTypes'
      BY DEF OptionsFlow, GateInv, TypeOK, EntryTypes
    <2>3. GateStep
      BY <2>1, IdleStep
    <2> QED
      BY <2>2, <2>3, GateStepSuffices
  <1>7. CASE OptionsUpdated
    <2>1. EntryTypes' /\ option \in BOOLEAN
      BY <1>7 DEF OptionsUpdated, GateInv, TypeOK, EntryTypes
    <2>2. CASE present
      <3>1. SetPickup(option)
        BY <1>7, <2>2 DEF OptionsUpdated
      <3>2. GateStep
        BY <2>1, <3>1, PickupStep
      <3> QED
        BY <2>1, <3>2, GateStepSuffices
    <2>3. CASE ~present
      <3>1. UNCHANGED gate /\ (EntitiesUp' => EntitiesUp)
        BY <1>7, <2>3 DEF OptionsUpdated, EntitiesUp
      <3>2. GateStep
        BY <3>1, IdleStep
      <3> QED
        BY <2>1, <3>2, GateStepSuffices
    <2> QED
      BY <2>2, <2>3
  <1> QED
    BY <1>1, <1>2, <1>3, <1>4, <1>5, <1>6, <1>7 DEF Writers

\* A timer that wakes up, runs or is cancelled.
LEMMA TimersKeepGate == GateInv /\ Timers => GateInv'
  <1> SUFFICES ASSUME GateInv, Timers PROVE GateInv'
    OBVIOUS
  <1> PICK i \in TimerIds : TimerWakes(i) \/ TimerRuns(i) \/ TimerCancelled(i)
    BY DEF Timers
  <1>1. UNCHANGED entry
    BY DEF TimerWakes, TimerRuns, IsCurrent, TimerCancelled
  <1>2. TypeOK /\ GateHasItsTimer /\ RingArmNeedsPickup /\ CamerasSeeGate
    BY DEF GateInv
  <1>3. EntitiesUp' = EntitiesUp
    BY <1>1 DEF entry, EntitiesUp
  <1>4. timers' \in [TimerIds -> TimerStates]
    BY <1>2 DEF TimerWakes, TimerRuns, IsCurrent, TimerCancelled, TypeOK
  <1>5. CASE TimerWakes(i) \/ TimerCancelled(i)
    <2>1. /\ UNCHANGED <<present, allow, armed, reason, target, timer, arms, view>>
          /\ \A j \in TimerIds :
               timers[j] \in {"sleeping", "woken"} => timers'[j] \in {"sleeping", "woken"}
      BY <1>2, <1>5 DEF TimerWakes, TimerCancelled, TypeOK
    <2>2. armed => timer \in TimerIds
      BY <1>2, ArmedTimerIsTask
    <2>3. GateHasItsTimer'
      BY <1>2, <2>1, <2>2 DEF GateHasItsTimer
    <2>4. GateStep
      BY <1>2, <1>3, <1>4, <2>1, <2>3 DEF GateStep, TypeOK, RingArmNeedsPickup,
         PickupAllowed, CamerasSeeGate, StreamAllowed
    <2> QED
      BY <1>1, <2>4, EntryKept, GateStepSuffices
  <1>6. CASE TimerRuns(i) /\ timer = i
    <2>1. /\ armed' = FALSE /\ reason' = "" /\ target' = AnyStation
          /\ timer' = NoTimer /\ present' = TRUE /\ Look(TRUE)
          /\ UNCHANGED <<allow, arms>>
      BY <1>6 DEF TimerRuns, IsCurrent
    <2>2. CamerasSeeGate' /\ view' \in [Stations -> BOOLEAN]
      BY <1>2, <1>3, <2>1 DEF CamerasSeeGate, Look, StreamAllowed, TypeOK
    <2>3. GateHasItsTimer' /\ RingArmNeedsPickup'
      BY <2>1 DEF GateHasItsTimer, RingArmNeedsPickup
    <2>4. GateStep
      BY <1>2, <1>4, <2>1, <2>2, <2>3, NoTimerInRange DEF GateStep, TypeOK
    <2> QED
      BY <1>1, <2>4, EntryKept, GateStepSuffices
  <1>7. CASE TimerRuns(i) /\ timer # i
    <2>1. /\ UNCHANGED <<allow, arms, armed, reason, target, timer, view>>
          /\ present' = TRUE
          /\ timers' = [timers EXCEPT ![i] = "ended"]
      BY <1>7 DEF TimerRuns, IsCurrent
    <2>2. armed => timer \in TimerIds
      BY <1>2, ArmedTimerIsTask
    <2>3. armed => timers'[timer] = timers[timer]
      BY <1>2, <1>7, <2>1, <2>2 DEF TypeOK
    <2>4. GateHasItsTimer'
      BY <1>2, <2>1, <2>3 DEF GateHasItsTimer
    <2>5. GateStep
      BY <1>2, <1>3, <1>4, <2>1, <2>4 DEF GateStep, TypeOK, RingArmNeedsPickup,
         PickupAllowed, CamerasSeeGate, StreamAllowed
    <2> QED
      BY <1>1, <2>5, EntryKept, GateStepSuffices
  <1> QED
    BY <1>5, <1>6, <1>7

\* Set-up and unload, and what they start and stop.
LEMMA LifeCycleKeepsGate == GateInv /\ LifeCycle => GateInv'
  <1> SUFFICES ASSUME GateInv, LifeCycle PROVE GateInv'
    OBVIOUS
  <1> USE DEF EntitiesUp
  <1>1. CASE Setup
    <2>1. loads' \in 0..MaxLoads
      <3>1. loads \in 0..MaxLoads
        BY DEF GateInv, TypeOK
      <3>2. loads < MaxLoads /\ loads' = loads + 1
        BY <1>1 DEF Setup
      <3> QED
        BY <3>1, <3>2, ArmedAssumption
    <2>2. EntryTypes'
      BY <1>1, <2>1 DEF Setup, GateInv, TypeOK, EntryTypes
    <2>3. GateStep
      BY <1>1, FreshStep DEF Setup, GateInv, TypeOK
    <2> QED
      BY <2>2, <2>3, GateStepSuffices
  <1>2. CASE StartListener \/ UnloadPlatforms \/ UnloadFails \/ StopListener
    <2>1. EntryTypes'
      BY <1>2 DEF StartListener, UnloadPlatforms, UnloadFails, StopListener,
                  GateInv, TypeOK, EntryTypes
    <2>2. GateStep
      BY <1>2, IdleStep DEF StartListener, UnloadPlatforms, UnloadFails, StopListener
    <2> QED
      BY <2>1, <2>2, GateStepSuffices
  <1>3. CASE AddEntities
    <2>1. SetPickup(option) /\ option \in BOOLEAN
      BY <1>3 DEF AddEntities, GateInv, TypeOK
    <2>2. EntryTypes'
      BY <1>3 DEF AddEntities, GateInv, TypeOK, EntryTypes
    <2>3. GateStep
      BY <2>1, PickupStep
    <2> QED
      BY <2>2, <2>3, GateStepSuffices
  <1>4. CASE PopBucket
    <2>1. EntryTypes'
      BY <1>4 DEF PopBucket, GateInv, TypeOK, EntryTypes
    <2>2. GateStep
      BY <1>4, FreshStep DEF PopBucket
    <2> QED
      BY <2>1, <2>2, GateStepSuffices
  <1> QED
    BY <1>1, <1>2, <1>3, <1>4 DEF LifeCycle

\* The gate is coherent in every state the program can reach.
THEOREM GateCoherent == Spec => []GateInv
  <1>1. GateInv /\ [Next]_vars => GateInv'
    <2> SUFFICES ASSUME GateInv, [Next]_vars PROVE GateInv'
      OBVIOUS
    <2>1. CASE UNCHANGED vars
      <3>1. UNCHANGED entry /\ UNCHANGED gate /\ (EntitiesUp' => EntitiesUp)
        BY <2>1 DEF vars, entry, gate, EntitiesUp
      <3> QED
        BY <3>1, IdleStep, EntryKept, GateStepSuffices
    <2> QED
      BY <2>1, WritersKeepGate, TimersKeepGate, LifeCycleKeepsGate DEF Next
  <1> QED
    BY <1>1, GateInit, PTL DEF Spec

\* An armed gate always has its own, newest, uncancelled timer; otherwise it
\* has no timer, reason or target.
THEOREM GateAlwaysHasItsTimer == Spec => []GateHasItsTimer
  <1>1. GateInv => GateHasItsTimer
    BY DEF GateInv
  <1> QED
    BY <1>1, GateCoherent, PTL

\* A ring never keeps the stream open while pickup is disabled.
THEOREM RingArmAlwaysNeedsPickup == Spec => []RingArmNeedsPickup
  <1>1. GateInv => RingArmNeedsPickup
    BY DEF GateInv
  <1> QED
    BY <1>1, GateCoherent, PTL

\* No change of the gate escapes the cameras.
THEOREM CamerasAlwaysSeeGate == Spec => []CamerasSeeGate
  <1>1. GateInv => CamerasSeeGate
    BY DEF GateInv
  <1> QED
    BY <1>1, GateCoherent, PTL

\* The variables keep their types.
THEOREM TypesAlwaysOK == Spec => []TypeOK
  <1>1. GateInv => TypeOK
    BY DEF GateInv
  <1> QED
    BY <1>1, GateCoherent, PTL

\* A timer that has been overtaken disarms nothing: if a timer's run ends an
\* arm, it is the timer of the newest arm.
THEOREM StaleTimersAreHarmless == Spec => OnlyOwnTimerDisarms
  <1>1. ASSUME GateInv, [Next]_vars
        PROVE  [\A i \in TimerIds : TimerRuns(i) /\ armed /\ ~armed' => i = arms]_vars
    <2>1. ASSUME NEW i \in TimerIds, TimerRuns(i), armed, ~armed'
          PROVE  i = arms
      <3>1. timer = i
        BY <2>1 DEF TimerRuns, IsCurrent
      <3>2. timer = arms
        BY <1>1, <2>1 DEF GateInv, GateHasItsTimer
      <3> QED
        BY <3>1, <3>2
    <2> QED
      BY <2>1
  <1> QED
    BY <1>1, GateCoherent, PTL DEF Spec, OnlyOwnTimerDisarms
=============================================================================
