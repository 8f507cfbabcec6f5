------------------------------ MODULE SafeLoop ------------------------------
(***************************************************************************)
(* safeInfiLoop, with which NewDownloadMgr starts its classifying and its  *)
(* downloading loops.  For each loop an outer goroutine waits on an        *)
(* unbuffered runChannel and spawns a body for each value received.  The   *)
(* first value is sent by the caller, the others by bodies that panicked.  *)
(***************************************************************************)
EXTENDS Naturals

CONSTANTS
  Loops,   \* the loops started: workers of the channels
  Nobody

ASSUME SafeLoopAssumption == Nobody \notin Loops

VARIABLES
  called,   \* the loops safeInfiLoop has been called for
  calling,  \* the loop whose call waits to send, or Nobody
  outer,    \* where each loop's outer goroutine is
  bodies    \* how many body goroutines of each loop are where

vars == <<called, calling, outer, bodies>>

\* A body calls todo, sleeps for the interval, or has recovered from a panic and
\* sleeps for redoDelaySec, and is then about to send.
Places == {"todo", "interval", "redoDelay", "send"}

TypeOK ==
  /\ called \subseteq Loops
  /\ calling \in called \cup {Nobody}
  /\ outer \in [Loops -> {"none", "receive", "spawn"}]
  /\ bodies \in [Loops -> [Places -> Nat]]

Init ==
  /\ called = {}
  /\ calling = Nobody
  /\ outer = [l \in Loops |-> "none"]
  /\ bodies = [l \in Loops |-> [p \in Places |-> 0]]

-----------------------------------------------------------------------------
\* NewDownloadMgr calls safeInfiLoop for one more loop.  The order is that of a
\* range over a map: any.
Call(l) ==
  /\ calling = Nobody
  /\ l \notin called
  /\ called' = called \cup {l}
  /\ calling' = l
  /\ outer' = [outer EXCEPT ![l] = "receive"]
  /\ UNCHANGED bodies

\* One body more, or less, at place p.
Plus(b, p)  == [b EXCEPT ![p] = @ + 1]
Minus(b, p) == [b EXCEPT ![p] = @ - 1]

\* The caller's value is received, and the call returns.
ReceiveFromCaller(l) ==
  /\ calling = l
  /\ outer[l] = "receive"
  /\ calling' = Nobody
  /\ outer' = [outer EXCEPT ![l] = "spawn"]
  /\ UNCHANGED <<called, bodies>>

\* A body's value is received, and its goroutine ends.
ReceiveFromBody(l) ==
  /\ outer[l] = "receive"
  /\ bodies[l]["send"] > 0
  /\ outer' = [outer EXCEPT ![l] = "spawn"]
  /\ bodies' = [bodies EXCEPT ![l] = Minus(@, "send")]
  /\ UNCHANGED <<called, calling>>

\* The outer goroutine spawns bodies without waiting for a value.
SpawnAtOnce(l) ==
  /\ outer[l] = "spawn"
  /\ bodies[l]["todo"] < 2
  /\ bodies' = [bodies EXCEPT ![l] = Plus(@, "todo")]
  /\ UNCHANGED <<called, calling, outer>>

Spawn(l) ==
  /\ outer[l] = "spawn"
  /\ outer' = [outer EXCEPT ![l] = "receive"]
  /\ bodies' = [bodies EXCEPT ![l] = Plus(@, "todo")]
  /\ UNCHANGED <<called, calling>>

\* A body of l gets from place p to place q.
Goes(l, p, q) ==
  /\ bodies[l][p] > 0
  /\ bodies' = [bodies EXCEPT ![l] = Plus(Minus(@, p), q)]
  /\ UNCHANGED <<called, calling, outer>>

TodoReturns(l) == Goes(l, "todo", "interval")

\* The next turn begins although the interval is not over.
NextTurnEarly(l) ==
  /\ bodies[l]["todo"] < 2
  /\ bodies' = [bodies EXCEPT ![l] = Plus(Minus(@, "interval"), "todo")]
  /\ UNCHANGED <<called, calling, outer>>

NextTurn(l) == Goes(l, "interval", "todo")

\* todo panics; the body recovers.
Panic(l) == Goes(l, "todo", "redoDelay")

\* A panicking body ends when its delay is over.
RedoForgotten(l) ==
  /\ bodies[l]["redoDelay"] > 0
  /\ bodies' = [bodies EXCEPT ![l] = Minus(@, "redoDelay")]
  /\ UNCHANGED <<called, calling, outer>>

Redo(l) == Goes(l, "redoDelay", "send")

\* NewDownloadMgr has returned: its caller goes on with its own work.
Caller ==
  /\ calling = Nobody
  /\ called = Loops
  /\ UNCHANGED vars

-----------------------------------------------------------------------------
\* What safeInfiLoop itself does for l; a panic and the end of todo are its
\* users' doing.
Step(l) ==
  \/ Call(l)
  \/ ReceiveFromCaller(l)
  \/ ReceiveFromBody(l)
  \/ Spawn(l)
  \/ NextTurn(l)
  \/ Redo(l)

Next ==
  \/ \E l \in Loops : Step(l) \/ TodoReturns(l) \/ Panic(l)
  \/ Caller

Spec == Init /\ [][Next]_vars

\* Goroutines run and sleeps end.  NewDownloadMgr calls for one loop after the
\* other, and is not overtaken for ever.
FairSpec == Spec /\ \A l \in Loops : WF_vars(Step(l))

-----------------------------------------------------------------------------
\* The bodies of l.
Total(b)  == b["todo"] + b["interval"] + b["redoDelay"] + b["send"]
Bodies(l) == Total(bodies[l])

\* No loop ever has two bodies: the value that lets one start is handed on
\* through the channel, and none is left behind by panics at any moment.  Two
\* bodies would be one more worker for the channel than downloadingCountLimit.
OneBody == \A l \in Loops : Bodies(l) <= 1

\* The loops in which a body calls todo again and again.
Up == {l \in Loops : bodies[l]["todo"] + bodies[l]["interval"] > 0}

\* Every loop is started, although each call blocks its caller, and is run again
\* after each panic.
Promise == INSTANCE Loops WITH up <- Up
ImplementsLoops == Promise!Spec
=============================================================================
