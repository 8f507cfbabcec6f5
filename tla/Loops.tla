------------------------------- MODULE Loops -------------------------------
(***************************************************************************)
(* What safeInfiLoop promises of the loops it is given: each runs, and if  *)
(* it breaks down it is run again, for ever.                               *)
(***************************************************************************)

CONSTANT Loops  \* the loops of the program

VARIABLE up     \* the loops that run

Init == up = {}

\* l is run, for the first time or again.
Run(l) ==
  /\ l \in Loops \ up
  /\ up' = up \cup {l}

\* A panic breaks l off.
BreakDown(l) ==
  /\ l \in up
  /\ up' = up \ {l}

Next == \E l \in Loops : Run(l) \/ BreakDown(l)

\* No loop stays down.
Spec == Init /\ [][Next]_up /\ \A l \in Loops : WF_up(Run(l))
=============================================================================
