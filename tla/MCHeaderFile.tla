--------------------------- MODULE MCHeaderFile ---------------------------
EXTENDS HeaderFile

CONSTANT Date  \* any other header

MCNames == {CD, Date}

\* What two of these sets leave, taken name by name, is what neither leaves.
MCIgnoreSets == {{Date}, {CD}}

\* Without a Content-Disposition, and with a bare one.
MCAnswers ==
  {[names |-> {Date}, bare |-> FALSE, known |-> TRUE],
   [names |-> {Date, CD}, bare |-> TRUE, known |-> TRUE]}
=============================================================================
