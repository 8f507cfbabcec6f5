---------------------------- MODULE TaskLifecycle ----------------------------
(***************************************************************************)
(* What the download manager promises the caller of AddQuickDownloadTask   *)
(* and AddNormalDownloadTask about a task, whatever channels it goes       *)
(* through: the task can be found by its id (GetTaskInfo) until exactly    *)
(* one of its callbacks has been called, onCancel only after               *)
(* CancelDownload; then it is forgotten, for good.                         *)
(***************************************************************************)
EXTENDS Sequences

CONSTANT Tasks

VARIABLES
  known,      \* the tasks GetTaskInfo finds
  cancelled,  \* the tasks CancelDownload was called for
  calls       \* the ending callbacks called for each task

vars == <<known, cancelled, calls>>

Callbacks == {"success", "fail", "cancel"}

Init ==
  /\ known = {}
  /\ cancelled = {}
  /\ calls = [t \in Tasks |-> <<>>]

Register(t) ==
  /\ t \notin known
  /\ calls[t] = <<>>
  /\ known' = known \cup {t}
  /\ UNCHANGED <<cancelled, calls>>

Cancel(t) ==
  /\ cancelled' = cancelled \cup {t}
  /\ UNCHANGED <<known, calls>>

End(t, k) ==
  /\ t \in known
  /\ calls[t] = <<>>
  /\ k = "cancel" => t \in cancelled
  /\ calls' = [calls EXCEPT ![t] = <<k>>]
  /\ UNCHANGED <<known, cancelled>>

Forget(t) ==
  /\ t \in known
  /\ calls[t] # <<>>
  /\ known' = known \ {t}
  /\ UNCHANGED <<cancelled, calls>>

Next ==
  \E t \in Tasks :
    \/ Register(t)
    \/ Cancel(t)
    \/ \E k \in Callbacks : End(t, k)
    \/ Forget(t)

Spec == Init /\ [][Next]_vars
=============================================================================
