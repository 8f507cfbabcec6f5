---------------------------- MODULE Transfer_proof ----------------------------
(***************************************************************************)
(* Two consequences of the blocking call of Response.Err in startDownload: *)
(* no copy goroutine outlives the download that started it, and the        *)
(* monitor loop never breaks a download off.                               *)
(***************************************************************************)
EXTENDS DownloadMgr_proof

\* What the monitor loop finds: a transfer that has ended, and ended well.
Settled ==
  \A w \in Workers : pc[w] = "monitor" => resp[w].done /\ resp[w].err = "nil"

TransferInv == TypeInv /\ Settled /\ NoOrphanTransfer

\* Worker w alone moves, and holds no running transfer before or after.
AloneWithoutTransfer(w) ==
  /\ OthersStand(w)
  /\ live' = live
  /\ pc[w] = "wait" => resp[w].done
  /\ pc'[w] = "monitor" => /\ resp'[w].done
                           /\ resp'[w].err = "nil"

\* A step that touches no transfer and no waiting worker keeps the invariant.
LEMMA AloneKeeps ==
  ASSUME TransferInv, NEW w \in Workers, AloneWithoutTransfer(w)
  PROVE  Settled' /\ NoOrphanTransfer'
<1>1. Settled'
  BY DEF TransferInv, Settled, AloneWithoutTransfer, OthersStand
<1>2. NoOrphanTransfer'
  <2> SUFFICES ASSUME NEW x \in live'
               PROVE  /\ pc'[x[1]] = "wait"
                      /\ cur'[x[1]] = x[2]
                      /\ ~resp'[x[1]].done
    BY DEF NoOrphanTransfer
  <2>1. /\ x \in live
        /\ pc[x[1]] = "wait" /\ cur[x[1]] = x[2] /\ ~resp[x[1]].done
    BY DEF TransferInv, NoOrphanTransfer, AloneWithoutTransfer
  <2>2. x[1] \in Workers /\ x[1] # w
    BY <2>1
       DEF TransferInv, TypeInv, TypeOK, DiskTypeOK, AloneWithoutTransfer
  <2> QED BY <2>1, <2>2 DEF AloneWithoutTransfer, OthersStand
<1> QED BY <1>1, <1>2

\* Letting go of a task moves no other worker and does not lead to the monitor.
LetsGo(w) ==
  /\ OthersStand(w)
  /\ pc'[w] \in {"loop", "callback"}

\* Every way of letting go of a task leaves the transfers alone.
LEMMA LettingGo ==
  ASSUME TypeInv, NEW w \in Workers,
         \/ \E reason : TaskFail(w, reason) \/ TaskBreakOff(w, reason)
         \/ TaskCancel(w)
         \/ TaskSuccess(w)
         \/ /\ UNCHANGED <<status, failReason, failTimes, allowStart>>
            /\ \E c : HandOver(w, c)
         \/ \E broken : HandleBrokenTask(w, broken)
  PROVE  LetsGo(w)
BY LettingGoFrame DEF LetsGo

\* Every step of a worker keeps the invariant.
LEMMA WorkerStepTransfer ==
  ASSUME TransferInv, NEW w \in Workers, WorkerStep(w)
  PROVE  Settled' /\ NoOrphanTransfer'
<1>0. /\ TypeInv
      /\ pc \in [Workers -> Locations]
      /\ cur \in [Workers -> Tasks \cup {None}]
      /\ resp \in [Workers -> Response]
  BY DEF TransferInv, TypeInv, TypeOK, WorkerTypeOK
<1>1. CASE \/ NewRequestFails(w)
           \/ CancelledBeforeRequest(w)
           \/ TransferFailed(w)
           \/ LengthOverLimit(w)
           \/ SaveHeaderFails(w)
           \/ MonitorDone(w)
  <2>1. LetsGo(w)
    BY <1>0, <1>1, LettingGo
       DEF NewRequestFails, CancelledBeforeRequest, TransferFailed,
           LengthOverLimit, SaveHeaderFails, MonitorDone
  <2>2. live' = live
    BY <1>1
       DEF NewRequestFails, CancelledBeforeRequest, TransferFailed,
           LengthOverLimit, SaveHeaderFails, MonitorDone, otherVars
  <2>3. pc[w] = "wait" => resp[w].done
    BY <1>1
       DEF NewRequestFails, CancelledBeforeRequest, TransferFailed,
           LengthOverLimit, SaveHeaderFails, MonitorDone, Waited, ErrReturns,
           IsComplete
  <2>4. AloneWithoutTransfer(w)
    BY <2>1, <2>2, <2>3 DEF LetsGo, AloneWithoutTransfer
  <2> QED BY <2>4, AloneKeeps
<1>2. CASE Pop(w) \/ CallbackReturns(w) \/ Forget(w) \/ Restart(w)
  <2>1. AloneWithoutTransfer(w)
    BY <1>0, <1>2
       DEF Pop, CallbackReturns, Forget, Restart, GoTo, otherVars,
           AloneWithoutTransfer, OthersStand
  <2> QED BY <2>1, AloneKeeps
<1>3. CASE Dispatch(w) \/ Classify(w)
  <2>1. live' = live /\ pc[w] # "wait"
    BY <1>3 DEF Dispatch, Classify, otherVars
  <2>2. \/ LetsGo(w)
        \/ /\ GoTo(w, IF Home(w) = "preHandle" THEN "classify" ELSE "start")
           /\ UNCHANGED <<cur, resp>>
    BY <1>0, <1>3, LettingGo DEF Dispatch, Classify
  <2>3. AloneWithoutTransfer(w)
    BY <1>0, <2>1, <2>2 DEF LetsGo, GoTo, AloneWithoutTransfer, OthersStand
  <2> QED BY <2>3, AloneKeeps
<1>4. CASE SaveHeader(w)
  <2>1. AloneWithoutTransfer(w)
    BY <1>0, <1>4
       DEF SaveHeader, Waited, ErrReturns, IsComplete, GoTo,
           AloneWithoutTransfer, OthersStand
  <2> QED BY <2>1, AloneKeeps
<1>5. CASE MonitorTick(w)
  <2>1. pc[w] = "monitor" /\ live' = live
    BY <1>5 DEF MonitorTick, otherVars
  <2>2. LetsGo(w) \/ UNCHANGED workerVars
    BY <1>0, <1>5, LettingGo DEF MonitorTick
  <2>3. AloneWithoutTransfer(w)
    BY <1>0, <2>1, <2>2
       DEF LetsGo, workerVars, OthersStand, AloneWithoutTransfer, TransferInv,
           Settled
  <2> QED BY <2>3, AloneKeeps
<1>6. CASE DoFails(w) \/ DoFindsWholeFile(w)
  <2>1. AloneWithoutTransfer(w)
    BY <1>0, <1>6
       DEF DoFails, DoFindsWholeFile, Requesting, Request, GoTo,
           AloneWithoutTransfer, OthersStand
  <2> QED BY <2>1, AloneKeeps
<1>7. CASE DoStartsTransfer(w)
  <2>1. /\ pc[w] = "start"
        /\ pc' = [pc EXCEPT ![w] = "wait"]
        /\ cur' = cur
        /\ live' = live \cup {<<w, Held(w)>>}
    BY <1>7 DEF DoStartsTransfer, Requesting, Request, GoTo
  <2>2. PICK n \in Lengths(w) :
          resp' = [resp EXCEPT ![w] = [NoResponse EXCEPT !.length = n]]
    BY <1>7 DEF DoStartsTransfer
  <2>3. resp'[w].done = FALSE /\ \A v \in Workers \ {w} : resp'[v] = resp[v]
    BY <1>0, <2>2 DEF NoResponse
  <2>4. Settled'
    BY <1>0, <2>1, <2>3 DEF TransferInv, Settled
  <2>5. NoOrphanTransfer'
    <3> SUFFICES ASSUME NEW x \in live'
                 PROVE  /\ pc'[x[1]] = "wait"
                        /\ cur'[x[1]] = x[2]
                        /\ ~resp'[x[1]].done
      BY DEF NoOrphanTransfer
    <3>1. CASE x \in live
      <4>1. pc[x[1]] = "wait" /\ cur[x[1]] = x[2] /\ ~resp[x[1]].done
        BY <3>1 DEF TransferInv, NoOrphanTransfer
      <4>2. x[1] \in Workers /\ x[1] # w
        BY <2>1, <3>1, <4>1 DEF TransferInv, TypeInv, TypeOK, DiskTypeOK
      <4> QED BY <1>0, <2>1, <2>3, <4>1, <4>2
    <3>2. CASE x = <<w, Held(w)>>
      BY <1>0, <2>1, <2>3, <3>2 DEF Held
    <3> QED BY <2>1, <3>1, <3>2
  <2> QED BY <2>4, <2>5
<1> QED BY <1>1, <1>2, <1>3, <1>4, <1>5, <1>6, <1>7
        DEF WorkerStep, StartDownload

\* Every step keeps the invariant.
LEMMA NextTransfer ==
  TransferInv /\ [Next]_vars => TransferInv'
<1> SUFFICES ASSUME TransferInv, [Next]_vars PROVE TransferInv'
  OBVIOUS
<1>0. TypeInv'
  BY NextType DEF TransferInv
<1>1. CASE \/ AddTask
           \/ \E t \in Tasks : Enqueue(t) \/ CancelDownload(t)
           \/ Tick
           \/ UNCHANGED vars
  <2>1. UNCHANGED <<pc, cur, resp, live>>
    BY <1>1
       DEF AddTask, Enqueue, CancelDownload, Tick, vars, otherVars, workerVars
  <2> QED BY <1>0, <2>1 DEF TransferInv, Settled, NoOrphanTransfer
<1>2. ASSUME NEW w \in Workers, WorkerStep(w) PROVE TransferInv'
  BY <1>0, <1>2, WorkerStepTransfer DEF TransferInv
<1>3. ASSUME NEW w \in Workers, Panic(w) PROVE TransferInv'
  <2>1. AloneWithoutTransfer(w)
    BY <1>3
       DEF Panic, GoTo, OthersStand, AloneWithoutTransfer,
           TransferInv, TypeInv, TypeOK, WorkerTypeOK
  <2> QED BY <1>0, <2>1, AloneKeeps DEF TransferInv
<1>4. ASSUME NEW w \in Workers, NEW t \in Tasks, TransferEnds(w, t)
      PROVE  TransferInv'
  <2>1. /\ <<w, t>> \in live
        /\ live' = live \ {<<w, t>>}
        /\ UNCHANGED <<pc, cur>>
        /\ \A v \in Workers \ {w} : resp'[v] = resp[v]
    BY <1>4 DEF TransferEnds, TransferInv, TypeInv, TypeOK, WorkerTypeOK
  <2>2. pc[w] = "wait" /\ cur[w] = t
    BY <2>1 DEF TransferInv, NoOrphanTransfer
  <2>3. Settled'
    BY <2>1, <2>2 DEF TransferInv, Settled
  <2>4. NoOrphanTransfer'
    <3> SUFFICES ASSUME NEW x \in live'
                 PROVE  /\ pc'[x[1]] = "wait"
                        /\ cur'[x[1]] = x[2]
                        /\ ~resp'[x[1]].done
      BY DEF NoOrphanTransfer
    <3>1. /\ x \in live /\ x # <<w, t>> /\ x \in Workers \X Tasks
          /\ pc[x[1]] = "wait" /\ cur[x[1]] = x[2] /\ ~resp[x[1]].done
      BY <2>1 DEF TransferInv, NoOrphanTransfer, TypeInv, TypeOK, DiskTypeOK
    <3>2. x[1] # w
      BY <2>2, <3>1
    <3> QED BY <2>1, <3>1, <3>2
  <2> QED BY <1>0, <2>3, <2>4 DEF TransferInv
<1> QED BY <1>1, <1>2, <1>3, <1>4 DEF Next, Quiescent

\* No transfer runs in the initial states.
LEMMA InitTransfer == Init => TransferInv
BY InitType DEF Init, TransferInv, Settled, NoOrphanTransfer

\* No copy goroutine outlives the startDownload call that started it.
THEOREM NoTransferOutlivesItsDownload == Spec => []NoOrphanTransfer
BY InitTransfer, NextTransfer, PTL DEF Spec, TransferInv

-----------------------------------------------------------------------------
\* A finished transfer makes a tick of the monitor loop a stuttering step.
LEMMA TickOnlyWatches ==
  ASSUME Settled, NEW w \in Workers, MonitorTick(w)
  PROVE  UNCHANGED workerVars
<1>1. IsComplete(w)
  BY DEF MonitorTick, Settled, IsComplete
<1> QED BY <1>1 DEF MonitorTick

\* No tick breaks a download off: the worker leaves the monitor loop because
\* Done is closed, to judge the download, or in a panic of a callback.  What
\* handleBrokenTaskFunc does for any of its reasons is never done.
THEOREM MonitorNeverBreaksOff == Spec => NeverBrokenOff
<1>1. ASSUME TransferInv, [Next]_vars,
             NEW w \in Workers, pc[w] = "monitor", pc'[w] # "monitor"
      PROVE  MonitorDone(w) \/ Panic(w)
  <2>1. CASE \/ AddTask
             \/ \E t \in Tasks : Enqueue(t) \/ CancelDownload(t)
             \/ Tick
             \/ \E v \in Workers, t \in Tasks : TransferEnds(v, t)
             \/ UNCHANGED vars
    BY <1>1, <2>1
       DEF AddTask, Enqueue, CancelDownload, Tick, TransferEnds, vars,
           workerVars
  <2>2. ASSUME NEW v \in Workers, WorkerStep(v) \/ Panic(v)
        PROVE  MonitorDone(w) \/ Panic(w)
    <3>1. v = w
      BY <1>1, <2>2, WorkerFrame DEF TransferInv, OthersStand
    <3>2. ~MonitorTick(w)
      BY <1>1, TickOnlyWatches DEF TransferInv, workerVars
    <3> QED BY <1>1, <2>2, <3>1, <3>2
            DEF WorkerStep, StartDownload, Pop, Dispatch, Classify,
                NewRequestFails, CancelledBeforeRequest, DoFails,
                DoFindsWholeFile, DoStartsTransfer, Requesting, TransferFailed,
                LengthOverLimit, SaveHeaderFails, SaveHeader, Waited,
                CallbackReturns, Forget, Restart
  <2> QED BY <1>1, <2>1, <2>2 DEF Next, Quiescent
<1>2. TransferInv /\ [Next]_vars =>
        [\A w \in Workers : pc[w] = "monitor" /\ pc'[w] # "monitor" =>
           MonitorDone(w) \/ Panic(w)]_vars
  BY <1>1
<1> QED BY <1>2, InitTransfer, NextTransfer, PTL DEF Spec, NeverBrokenOff
=============================================================================
