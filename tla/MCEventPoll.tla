----------------------------- MODULE MCEventPoll -----------------------------
(* The reports that make _station_event_for_screenshot take every branch.   *)
EXTENDS EventPoll

CONSTANTS a, b

MCStations == {a, b}

Said(kind, station0, belongs, at) ==
  [kind |-> kind, station |-> station0, belongs |-> belongs, at |-> at]

MCReports ==
  {Said("ring", s, 0, t) : s \in MCStations, t \in {1, 4}}
    \cup {Said("door-open", a, 0, 0), Said("door-open", b, 1, 1),
          Said("door-open", NoStation, 0, 4)}
    \cup {Said("screenshot", NoStation, e, 4) : e \in 0..(MaxEvents - 1)}
    \cup {Said("screenshot", NoStation, 0, 0), Said("screenshot", NoStation, 1, 1)}
=============================================================================
