---------------------------- MODULE IntercomLine ----------------------------
(***************************************************************************)
(* What the cameras of one entry may rely on: the intercom is one line,    *)
(* and a session that has it keeps it until it hangs up, until another     *)
(* session asks for it, or until it is cut - by the gateway, by the loss   *)
(* of the connection or by the unloading of the entry.  A line never       *)
(* passes from one session to another without having been free.            *)
(***************************************************************************)
CONSTANTS Sessions,
          Nobody      \* not a session: who has the line when it is free

VARIABLES line,      \* who has the intercom
          asking,    \* sessions in dial()
          leaving,   \* sessions in hangup()
          cut        \* the call is over, whatever its session wants

vars == <<line, asking, leaving, cut>>

Init ==
  /\ line = Nobody
  /\ asking \subseteq Sessions
  /\ leaving \subseteq Sessions
  /\ cut \in BOOLEAN

\* Sessions begin to ask and to leave, the gateway ends a call.
Elsewhere ==
  /\ asking' \subseteq Sessions
  /\ leaving' \subseteq Sessions
  /\ cut' \in BOOLEAN

Take(s) == s \in asking /\ line = Nobody /\ line' = s
HangUp(s) == s \in leaving /\ line = s /\ line' = Nobody
Bumped == line # Nobody /\ asking \ {line} # {} /\ line' = Nobody
Over == line # Nobody /\ cut /\ line' = Nobody

Next ==
  /\ \/ \E s \in Sessions : Take(s) \/ HangUp(s)
     \/ Bumped
     \/ Over
     \/ UNCHANGED line
  /\ Elsewhere

Spec == Init /\ [][Next]_vars
=============================================================================
