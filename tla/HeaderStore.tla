---------------------------- MODULE HeaderStore ----------------------------
(***************************************************************************)
(* What saveHeader and SetIgnoreHeader promise each other and the tasks:   *)
(* each is one step.  A header file holds what one ignore set leaves of    *)
(* one answer, or there is none.                                           *)
(***************************************************************************)

CONSTANTS
  Savers,      \* the tasks whose headers are saved
  Names,       \* header names
  CD,          \* "Content-Disposition"
  IgnoreSets,  \* what callers of SetIgnoreHeader give it
  Answers,     \* the responses' headers
  Absent       \* no header file

VARIABLES
  ignore,  \* ignoreHeaderMap
  file,    \* each task's header file
  asked    \* the answer being saved, or Absent

vars == <<ignore, file, asked>>

\* The header file of answer a when the names in ig are ignored.  A known file
\* name is added to a Content-Disposition without one, and with a line of its
\* own when the answer has no Content-Disposition, be that ignored or not.
Text(a, ig) ==
  LET own == a.known /\ CD \notin a.names
  IN  [names    |-> (a.names \ ig) \cup (IF own THEN {CD} ELSE {}),
       fileName |-> own \/ (CD \in a.names \ ig /\ (a.known \/ ~a.bare))]

Init ==
  /\ ignore = {}
  /\ file \in [Savers -> {Absent}]
  /\ asked = [w \in Savers |-> Absent]

SetIgnoreHeader ==
  /\ ignore' \in IgnoreSets
  /\ UNCHANGED <<file, asked>>

Ask(w) ==
  /\ asked[w] = Absent
  /\ \E a \in Answers : asked' = [asked EXCEPT ![w] = a]
  /\ UNCHANGED <<ignore, file>>

Save(w) ==
  /\ asked[w] # Absent
  /\ asked' = [asked EXCEPT ![w] = Absent]
  /\ file' = [file EXCEPT ![w] = Text(asked[w], ignore)]
  /\ UNCHANGED ignore

\* The old file stays, or there is none any more.
SaveFails(w) ==
  /\ asked[w] # Absent
  /\ asked' = [asked EXCEPT ![w] = Absent]
  /\ file' \in {file, [file EXCEPT ![w] = Absent]}
  /\ UNCHANGED ignore

Next ==
  \/ SetIgnoreHeader
  \/ \E w \in Savers : Ask(w) \/ Save(w) \/ SaveFails(w)

Spec == Init /\ [][Next]_vars
=============================================================================
