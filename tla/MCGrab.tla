------------------------------- MODULE MCGrab -------------------------------
(***************************************************************************)
(* Values of Grab's constants for TLC.                                     *)
(***************************************************************************)
EXTENDS Grab

\* All kinds of origins with files of up to three bytes.
AllOrigins ==
  {o \in [size : 0..3, sendsLength : BOOLEAN, servesRanges : BOOLEAN,
          advertises : BOOLEAN, probed : BOOLEAN, framesBody : BOOLEAN] :
     o.sendsLength => o.framesBody}
=============================================================================
