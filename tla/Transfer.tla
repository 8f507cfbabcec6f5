------------------------------ MODULE Transfer ------------------------------
(***************************************************************************)
(* One task's file between startDownload, which has it fetched in attempts *)
(* and may remove it, and grab, which fetches it.  An attempt fails before *)
(* it touches the file, or finds it whole, or starts a transfer, which     *)
(* ends with a whole file unless it reports an error; until then no one    *)
(* else touches the file.  A dishonest origin may have an attempt take for *)
(* whole what is not.  Grab takes these steps and no others, and so do the *)
(* workers of DownloadMgr with each task.                                  *)
(***************************************************************************)

VARIABLES
  honest, \* whether the origin frames its bodies and serves ranges as believed
  phase,  \* where the attempt is
  err,    \* what Response.Err returns; "noResponse": HTTPResponse is nil
  file    \* what is stored at SavePath

vars == <<honest, phase, err, file>>

Failures == {"noResponse", "failed", "noSpace"}

Init ==
  /\ honest \in BOOLEAN
  /\ phase = "idle"
  /\ err = "nil"
  /\ file = "absent"

\* The caller lets go of the response, to make another attempt or none.
Drop ==
  /\ phase = "done"
  /\ phase' = "idle"
  /\ err' = "nil"
  /\ UNCHANGED <<honest, file>>

\* The task has ended without success.
Remove ==
  /\ phase = "idle"
  /\ file' = "absent"
  /\ UNCHANGED <<honest, phase, err>>

DoFails ==
  /\ phase = "idle"
  /\ phase' = "done"
  /\ err' \in Failures
  /\ UNCHANGED <<honest, file>>

DoFindsWholeFile ==
  /\ phase = "idle"
  /\ file # "absent"
  /\ honest => file = "complete"
  /\ phase' = "done"
  /\ UNCHANGED <<honest, err, file>>

DoStartsTransfer ==
  /\ phase = "idle"
  /\ phase' = "copying"
  /\ file' = "partial"
  /\ UNCHANGED <<honest, err>>

TransferEnds ==
  /\ phase = "copying"
  /\ phase' = "done"
  /\ err' \in {"nil", "failed", "noSpace"}
  /\ file' \in {"partial", "complete"}
  /\ honest /\ err' = "nil" => file' = "complete"
  /\ honest /\ err' = "noSpace" => file' = "partial"
  /\ UNCHANGED honest

Next ==
  \/ Drop
  \/ Remove
  \/ DoFails
  \/ DoFindsWholeFile
  \/ DoStartsTransfer
  \/ TransferEnds

Spec == Init /\ [][Next]_vars
=============================================================================
