--------------------------- MODULE MCSipListener ----------------------------
(* Two cameras, one at each of two stations.  The cameras are               *)
(* interchangeable together with their stations.                            *)
EXTENDS SipListener

CONSTANTS s1, s2, a, b
Doors == (s1 :> a @@ s2 :> b)
Symmetry ==
  {p \in Permutations(Sessions \cup Stations) :
     \A s \in Sessions : p[s] \in Sessions /\ p[Doors[s]] = Doors[p[s]]}
=============================================================================
