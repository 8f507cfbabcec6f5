-------------------------- MODULE DownloadMgr_proof --------------------------
(***************************************************************************)
(* Theorems about DownloadMgr for any number of tasks, any requests, any   *)
(* number of workers a channel may have and any retry limits: the types of *)
(* the variables, who has which task, and the order of the idle lists.     *)
(***************************************************************************)
EXTENDS DownloadMgr, IdleList_proof

USE DEF None

\* A worker has no task in hand exactly when it polls its list or recovers.
Hands == \A w \in Workers : cur[w] = None <=> pc[w] \in {"loop", "recovering"}

Busy(w) == w \in Workers /\ pc[w] \notin {"loop", "recovering"}

TypeInv == TypeOK /\ Hands

\* What the assumption on the constants says of the derived sets.
LEMMA ConstantFacts ==
  /\ MaxTasks \in Nat
  /\ RetryDelay \in Nat
  /\ RetryLimit \in [Channels -> 0..5]
  /\ Tasks \subseteq Nat
  /\ None \notin Tasks
  /\ \A w \in Workers : Home(w) \in Channels
BY ConstantsAssumption DEF Tasks, Workers, Home

\* A push of a task to a channel leaves lists of tasks.
LEMMA PushToType ==
  ASSUME TaskTypeOK, NEW t \in Tasks, NEW c \in Channels,
         allowStart' \in [Tasks -> Nat], PushTo(c, t)
  PROVE  /\ channel' \in [Tasks -> Channels]
         /\ idle' \in [Channels -> Seq(Tasks)]
<1>1. Push(idle[c], allowStart', t) \in Seq(Tasks)
  <2>1. allowStart' \in [Tasks -> Int] /\ idle[c] \in Seq(Tasks)
    BY DEF TaskTypeOK
  <2> QED BY <2>1, PushProperties
<1> QED BY <1>1 DEF PushTo, TaskTypeOK

\* The ways a worker lets go of its task keep the types of what they assign.
LEMMA CallBackType ==
  ASSUME TypeInv, NEW w, Busy(w), NEW k \in {"success", "fail", "cancel"},
         CallBack(w, k),
         status' \in [Tasks -> Statuses],
         failReason' \in [Tasks -> FailReasons]
  PROVE  TaskTypeOK' /\ WorkerTypeOK' /\ Hands'
<1>1. Held(w) \in Tasks
  BY DEF TypeInv, TypeOK, WorkerTypeOK, Hands, Busy, Held
<1>2. Append(calls[Held(w)], k) \in Seq({"success", "fail", "cancel"})
  BY <1>1, AppendProperties DEF TypeInv, TypeOK, TaskTypeOK
<1>3. TaskTypeOK'
  BY <1>1, <1>2 DEF TypeInv, TypeOK, TaskTypeOK, CallBack
<1>4. WorkerTypeOK' /\ Hands'
  BY DEF TypeInv, TypeOK, WorkerTypeOK, Hands, Busy, CallBack, Locations,
         NoResponse, Response, Errors
<1> QED BY <1>3, <1>4

\* A worker that hands its task over is back at its loop, with empty hands.
LEMMA HandOverType ==
  ASSUME TypeInv, NEW w, Busy(w), NEW c \in Channels, HandOver(w, c),
         status' \in [Tasks -> Statuses],
         failReason' \in [Tasks -> FailReasons],
         failTimes' \in [Tasks -> Nat], allowStart' \in [Tasks -> Nat]
  PROVE  TaskTypeOK' /\ WorkerTypeOK' /\ Hands'
<1>1. Held(w) \in Tasks
  BY DEF TypeInv, TypeOK, WorkerTypeOK, Hands, Busy, Held
<1>2. TaskTypeOK'
  <2>1. channel' \in [Tasks -> Channels] /\ idle' \in [Channels -> Seq(Tasks)]
    BY <1>1, PushToType DEF TypeInv, TypeOK, HandOver
  <2> QED BY <2>1 DEF TypeInv, TypeOK, TaskTypeOK, HandOver
<1>3. WorkerTypeOK' /\ Hands'
  BY DEF TypeInv, TypeOK, WorkerTypeOK, Hands, Busy, HandOver, Locations,
         NoResponse, Response, Errors
<1> QED BY <1>2, <1>3

\* taskFail keeps the types.
LEMMA TaskFailType ==
  ASSUME TypeInv, NEW w, Busy(w), NEW reason \in FailReasons,
         TaskFail(w, reason)
  PROVE  TaskTypeOK' /\ WorkerTypeOK' /\ Hands'
<1>1. /\ status' \in [Tasks -> Statuses]
      /\ failReason' \in [Tasks -> FailReasons]
  BY DEF TaskFail, TypeInv, TypeOK, TaskTypeOK, Statuses, FailReasons
<1> QED BY <1>1, CallBackType DEF TaskFail

\* taskCancel keeps the types.
LEMMA TaskCancelType ==
  ASSUME TypeInv, NEW w, Busy(w), TaskCancel(w)
  PROVE  TaskTypeOK' /\ WorkerTypeOK' /\ Hands'
<1>1. /\ status' \in [Tasks -> Statuses]
      /\ failReason' \in [Tasks -> FailReasons]
  BY DEF TaskCancel, TypeInv, TypeOK, TaskTypeOK
<1> QED BY <1>1, CallBackType DEF TaskCancel

\* taskSuccess keeps the types.
LEMMA TaskSuccessType ==
  ASSUME TypeInv, NEW w, Busy(w), TaskSuccess(w)
  PROVE  TaskTypeOK' /\ WorkerTypeOK' /\ Hands'
<1>1. /\ status' \in [Tasks -> Statuses]
      /\ failReason' \in [Tasks -> FailReasons]
  BY DEF TaskSuccess, TypeInv, TypeOK, TaskTypeOK, Statuses
<1> QED BY <1>1, CallBackType DEF TaskSuccess

\* taskBreakOff keeps the types, whether it tries again or gives up.
LEMMA TaskBreakOffType ==
  ASSUME TypeInv, NEW w, Busy(w), NEW reason \in FailReasons,
         TaskBreakOff(w, reason)
  PROVE  TaskTypeOK' /\ WorkerTypeOK' /\ Hands'
<1>1. CASE RetriesExhausted(Held(w))
  BY <1>1, TaskFailType DEF TaskBreakOff
<1>2. CASE ~ RetriesExhausted(Held(w))
  <2>1. TryAgain(w, "NoFail")
    BY <1>2 DEF TaskBreakOff
  <2>2. Held(w) \in Tasks
    BY DEF TypeInv, TypeOK, WorkerTypeOK, Hands, Busy, Held
  <2>3. channel[Held(w)] \in Channels
    BY <2>2 DEF TypeInv, TypeOK, TaskTypeOK
  <2>4. /\ status' \in [Tasks -> Statuses]
        /\ failReason' \in [Tasks -> FailReasons]
    BY <2>1 DEF TryAgain, TypeInv, TypeOK, TaskTypeOK, Statuses, FailReasons
  <2>5. failTimes' \in [Tasks -> Nat]
    BY <2>1, <2>2 DEF TryAgain, TypeInv, TypeOK, TaskTypeOK
  <2>6. allowStart' \in [Tasks -> Nat]
    <3>1. now + RetryDelay \in Nat
      BY ConstantFacts DEF TypeInv, TypeOK, CallerTypeOK
    <3> QED BY <2>1, <3>1 DEF TryAgain, TypeInv, TypeOK, TaskTypeOK
  <2> QED BY <2>1, <2>3, <2>4, <2>5, <2>6, HandOverType DEF TryAgain
<1> QED BY <1>1, <1>2

\* What handleBrokenTaskFunc does keeps the types.
LEMMA HandleBrokenTaskType ==
  ASSUME TypeInv, NEW w, Busy(w), NEW broken, HandleBrokenTask(w, broken)
  PROVE  TaskTypeOK' /\ WorkerTypeOK' /\ Hands'
<1>1. /\ Held(w) \in Tasks
      /\ channel[Held(w)] \in Channels
      /\ "unpauseSlow" \in Channels
  BY DEF TypeInv, TypeOK, WorkerTypeOK, TaskTypeOK, Hands, Busy, Held, Channels
<1>2. "Expire" \in FailReasons /\ "SizeLimit" \in FailReasons
      /\ "RequestError" \in FailReasons
  BY DEF FailReasons
<1>3. CASE Pause(w)
  <2>1. /\ status' \in [Tasks -> Statuses]
        /\ failReason' \in [Tasks -> FailReasons]
        /\ failTimes' \in [Tasks -> Nat]
        /\ allowStart' \in [Tasks -> Nat]
    BY <1>3 DEF Pause, TypeInv, TypeOK, TaskTypeOK, Statuses
  <2> QED BY <1>1, <1>3, <2>1, HandOverType DEF Pause
<1>4. CASE ToSlowChannel(w)
  <2>1. /\ status' \in [Tasks -> Statuses]
        /\ failReason' \in [Tasks -> FailReasons]
        /\ failTimes' \in [Tasks -> Nat]
        /\ allowStart' \in [Tasks -> Nat]
    BY <1>4 DEF ToSlowChannel, TypeInv, TypeOK, TaskTypeOK, Statuses
  <2> QED BY <1>1, <1>4, <2>1, HandOverType DEF ToSlowChannel
<1> QED BY <1>2, <1>3, <1>4, TaskFailType, TaskBreakOffType, TaskCancelType
        DEF HandleBrokenTask

\* The workers' steps.
LEMMA WorkerStepType ==
  ASSUME TypeInv, NEW w \in Workers, WorkerStep(w)
  PROVE  TypeInv'
<1> USE DEF TypeInv
<1>0. /\ pc[w] \notin {"loop", "recovering"} =>
           Busy(w) /\ Held(w) \in Tasks
      /\ Home(w) \in Channels
      /\ {"NoFail", "Expire", "SizeLimit", "RequestError", "NoSpace", "Other"}
           \subseteq FailReasons
      /\ {"random", "unpauseFast"} \subseteq Channels
  BY ConstantFacts
     DEF TypeOK, WorkerTypeOK, Hands, Busy, Held, FailReasons, Channels
<1>1. CASE Pop(w)
  <2>1. PICK i \in PopPositions(Home(w)) :
          /\ cur' = [cur EXCEPT ![w] = idle[Home(w)][i]]
          /\ idle' = [idle EXCEPT ![Home(w)] = RemoveAt(@, i)]
    BY <1>1 DEF Pop
  <2>2. idle[Home(w)] \in Seq(Tasks) /\ i \in 1..Len(idle[Home(w)])
    BY <1>0, <2>1
       DEF PopPositions, RandomPositions, QueuePositions, TypeOK, TaskTypeOK
  <2>3. idle[Home(w)][i] \in Tasks /\ RemoveAt(idle[Home(w)], i) \in Seq(Tasks)
    BY <2>2, RemoveAtProperties
  <2>4. TaskTypeOK'
    BY <1>0, <1>1, <2>1, <2>3 DEF Pop, TypeOK, TaskTypeOK
  <2>5. WorkerTypeOK'
    BY <1>1, <2>1, <2>3 DEF Pop, GoTo, TypeOK, WorkerTypeOK, Locations
  <2>6. Hands'
    BY <1>1, <2>1, <2>3, ConstantFacts
       DEF Pop, GoTo, TypeOK, WorkerTypeOK, Hands
  <2>7. CallerTypeOK' /\ DiskTypeOK'
    BY <1>1 DEF Pop, TypeOK, CallerTypeOK, DiskTypeOK, callerVars, diskVars
  <2> QED BY <2>4, <2>5, <2>6, <2>7 DEF TypeOK
<1>2. CASE Dispatch(w)
  <2>1. Busy(w) /\ CallerTypeOK' /\ DiskTypeOK'
    BY <1>0, <1>2
       DEF Dispatch, TypeOK, CallerTypeOK, DiskTypeOK, otherVars, callerVars,
           diskVars
  <2>2. CASE TaskCancel(w) \/ TaskFail(w, "Expire")
    BY <1>0, <2>1, <2>2, TaskCancelType, TaskFailType DEF TypeOK
  <2>3. CASE /\ GoTo(w, IF Home(w) = "preHandle" THEN "classify" ELSE "start")
             /\ UNCHANGED <<taskVars, cur, resp>>
    BY <1>2, <2>1, <2>3
       DEF Dispatch, TypeOK, TaskTypeOK, WorkerTypeOK, Hands, GoTo, taskVars,
           Locations
  <2> QED BY <1>2, <2>2, <2>3 DEF Dispatch
<1>3. CASE Classify(w)
  <2>1. Busy(w) /\ CallerTypeOK' /\ DiskTypeOK'
    BY <1>0, <1>3
       DEF Classify, TypeOK, CallerTypeOK, DiskTypeOK, otherVars, callerVars,
           diskVars
  <2>2. CASE TaskBreakOff(w, "RequestError")
    BY <1>0, <2>1, <2>2, TaskBreakOffType DEF TypeOK
  <2>3. CASE /\ UNCHANGED <<status, failReason, failTimes, allowStart>>
             /\ \E c \in {"random", "unpauseFast"} : HandOver(w, c)
    BY <1>0, <2>1, <2>3, HandOverType DEF TypeOK, TaskTypeOK
  <2> QED BY <1>3, <2>2, <2>3 DEF Classify
<1>4. CASE NewRequestFails(w) \/ TransferFailed(w)
  <2>1. Busy(w) /\ CallerTypeOK' /\ DiskTypeOK'
    BY <1>0, <1>4
       DEF NewRequestFails, TransferFailed, Waited, TypeOK, CallerTypeOK,
           DiskTypeOK, otherVars, callerVars, diskVars
  <2>2. \E reason \in FailReasons : TaskBreakOff(w, reason)
    BY <1>0, <1>4 DEF NewRequestFails, TransferFailed
  <2> QED BY <2>1, <2>2, TaskBreakOffType DEF TypeOK
<1>5. CASE CancelledBeforeRequest(w)
  <2>1. Busy(w) /\ CallerTypeOK' /\ DiskTypeOK'
    BY <1>0, <1>5
       DEF CancelledBeforeRequest, TypeOK, CallerTypeOK, DiskTypeOK, otherVars,
           callerVars, diskVars
  <2> QED BY <1>5, <2>1, TaskCancelType DEF CancelledBeforeRequest, TypeOK
<1>6. CASE LengthOverLimit(w)
  <2>1. Busy(w) /\ CallerTypeOK' /\ DiskTypeOK'
    BY <1>0, <1>6
       DEF LengthOverLimit, Waited, TypeOK, CallerTypeOK, DiskTypeOK, otherVars,
           callerVars, diskVars
  <2> QED BY <1>0, <1>6, <2>1, TaskFailType DEF LengthOverLimit, TypeOK
<1>7. CASE SaveHeaderFails(w)
  <2>1. Busy(w) /\ CallerTypeOK' /\ DiskTypeOK'
    BY <1>0, <1>7
       DEF SaveHeaderFails, Waited, TypeOK, CallerTypeOK, DiskTypeOK, callerVars
  <2> QED BY <1>0, <1>7, <2>1, TaskBreakOffType DEF SaveHeaderFails, TypeOK
<1>8. CASE SaveHeader(w)
  <2>1. CallerTypeOK' /\ DiskTypeOK'
    BY <1>8 DEF SaveHeader, TypeOK, CallerTypeOK, DiskTypeOK, callerVars
  <2>2. TaskTypeOK'
    BY <1>8 DEF SaveHeader, TypeOK, TaskTypeOK, Statuses
  <2>3. WorkerTypeOK' /\ Hands'
    BY <1>8
       DEF SaveHeader, Waited, GoTo, TypeOK, WorkerTypeOK, Hands, Locations
  <2> QED BY <2>1, <2>2, <2>3 DEF TypeOK
<1>9. CASE DoFails(w) \/ DoFindsWholeFile(w) \/ DoStartsTransfer(w)
  <2>1. /\ Requesting(w)
        /\ Request(w)
        /\ UNCHANGED <<now, callerVars, taskVars, cur, lost, header>>
    BY <1>9 DEF DoFails, DoFindsWholeFile, DoStartsTransfer, diskVars
  <2>2. Held(w) \in Tasks
    BY <1>0, <2>1 DEF Requesting
  <2>3. CallerTypeOK' /\ TaskTypeOK'
    BY <2>1 DEF TypeOK, CallerTypeOK, TaskTypeOK, callerVars, taskVars
  <2>4. requests' \in [Tasks -> Nat]
    BY <2>1, <2>2 DEF Request, TypeOK, DiskTypeOK
  <2>5. live' \subseteq Workers \X Tasks
    <3>1. live' = live \/ live' = live \cup {<<w, Held(w)>>}
      BY <1>9 DEF DoFails, DoFindsWholeFile, DoStartsTransfer
    <3>2. <<w, Held(w)>> \in Workers \X Tasks
      BY <2>2
    <3>3. live \subseteq Workers \X Tasks
      BY DEF TypeOK, DiskTypeOK
    <3> QED BY <3>1, <3>2, <3>3
  <2>6. file' \in [Tasks -> {"absent", "partial", "complete"}]
    BY <1>9
       DEF DoFails, DoFindsWholeFile, DoStartsTransfer, TypeOK, DiskTypeOK,
           diskVars
  <2>7. DiskTypeOK'
    BY <2>1, <2>4, <2>5, <2>6 DEF TypeOK, DiskTypeOK
  <2>8. \E r \in Response : resp' = [resp EXCEPT ![w] = r]
    <3>0. /\ param[Held(w)].remote \in Nat
          /\ param[Held(w)].lengthKnown \in BOOLEAN
      BY <2>2 DEF TypeOK, CallerTypeOK, Requests
    <3>1. CASE DoFails(w)
      BY <3>1 DEF DoFails, NoResponse, Response, Errors
    <3>2. CASE DoFindsWholeFile(w)
      BY <3>0, <3>2 DEF DoFindsWholeFile, Response, Errors
    <3>3. CASE DoStartsTransfer(w)
      <4>1. Lengths(w) \subseteq Nat \cup {-1}
        BY <3>0 DEF Lengths
      <4> QED BY <3>3, <4>1 DEF DoStartsTransfer, NoResponse, Response, Errors
    <3> QED BY <1>9, <3>1, <3>2, <3>3
  <2>9. WorkerTypeOK' /\ Hands'
    BY <2>1, <2>8
       DEF Requesting, Request, GoTo, TypeOK, WorkerTypeOK, Hands, Locations
  <2> QED BY <2>3, <2>7, <2>9 DEF TypeOK
<1>10. CASE MonitorTick(w)
  <2>1. Busy(w) /\ CallerTypeOK' /\ DiskTypeOK'
    BY <1>0, <1>10
       DEF MonitorTick, TypeOK, CallerTypeOK, DiskTypeOK, otherVars, callerVars,
           diskVars
  <2>2. CASE \E broken : HandleBrokenTask(w, broken)
    BY <2>1, <2>2, HandleBrokenTaskType DEF TypeOK
  <2>3. CASE UNCHANGED <<taskVars, workerVars>>
    BY <2>1, <2>3
       DEF TypeOK, TaskTypeOK, WorkerTypeOK, Hands, taskVars, workerVars
  <2> QED BY <1>10, <2>2, <2>3 DEF MonitorTick
<1>11. CASE MonitorDone(w)
  <2>1. Busy(w) /\ CallerTypeOK' /\ DiskTypeOK'
    BY <1>0, <1>11
       DEF MonitorDone, TypeOK, CallerTypeOK, DiskTypeOK, otherVars, callerVars,
           diskVars
  <2>2. failReason[Held(w)] \in FailReasons
    BY <1>0, <1>11 DEF MonitorDone, TypeOK, TaskTypeOK
  <2>3. \/ TaskFail(w, "NoSpace")
        \/ TaskBreakOff(w, failReason[Held(w)])
        \/ TaskBreakOff(w, "Other")
        \/ TaskSuccess(w)
    BY <1>11 DEF MonitorDone
  <2> QED BY <1>0, <2>1, <2>2, <2>3, TaskFailType, TaskBreakOffType,
             TaskSuccessType DEF TypeOK
<1>12. CASE CallbackReturns(w)
  <2>1. CallerTypeOK' /\ TaskTypeOK'
    BY <1>12
       DEF CallbackReturns, TypeOK, CallerTypeOK, TaskTypeOK, callerVars,
           taskVars
  <2>2. DiskTypeOK'
    BY <1>12 DEF CallbackReturns, TypeOK, DiskTypeOK, diskVars
  <2>3. WorkerTypeOK' /\ Hands'
    BY <1>12
       DEF CallbackReturns, GoTo, TypeOK, WorkerTypeOK, Hands, Locations
  <2> QED BY <2>1, <2>2, <2>3 DEF TypeOK
<1>13. CASE Forget(w)
  <2>1. CallerTypeOK' /\ TaskTypeOK' /\ DiskTypeOK'
    BY <1>13
       DEF Forget, TypeOK, CallerTypeOK, TaskTypeOK, DiskTypeOK, taskVars,
           diskVars
  <2>2. WorkerTypeOK' /\ Hands'
    BY <1>13 DEF Forget, GoTo, TypeOK, WorkerTypeOK, Hands, Locations
  <2> QED BY <2>1, <2>2 DEF TypeOK
<1>14. CASE Restart(w)
  <2>1. CallerTypeOK' /\ TaskTypeOK' /\ DiskTypeOK'
    BY <1>14
       DEF Restart, TypeOK, CallerTypeOK, TaskTypeOK, DiskTypeOK, taskVars,
           otherVars, callerVars, diskVars
  <2>2. WorkerTypeOK' /\ Hands'
    BY <1>14 DEF Restart, GoTo, TypeOK, WorkerTypeOK, Hands, Locations
  <2> QED BY <2>1, <2>2 DEF TypeOK
<1> QED BY <1>1, <1>2, <1>3, <1>4, <1>5, <1>6, <1>7, <1>8, <1>9, <1>10, <1>11,
           <1>12, <1>13, <1>14 DEF WorkerStep, StartDownload

\* The steps of callers, of the clock, of the origins, and panics.
LEMMA OtherStepType ==
  ASSUME TypeInv,
         \/ AddTask
         \/ \E t \in Tasks : Enqueue(t) \/ CancelDownload(t)
         \/ Tick
         \/ \E w \in Workers : Panic(w)
         \/ \E w \in Workers, t \in Tasks : TransferEnds(w, t)
         \/ UNCHANGED vars
  PROVE  TypeInv'
<1> USE DEF TypeInv
<1>1. CASE AddTask
  <2>1. currentId' \in Tasks
    BY <1>1, ConstantFacts DEF AddTask, TypeOK, CallerTypeOK, Tasks
  <2>2. CallerTypeOK'
    BY <1>1, <2>1, ConstantFacts DEF AddTask, TypeOK, CallerTypeOK, Tasks
  <2>3. TaskTypeOK'
    BY <1>1, <2>1 DEF AddTask, TypeOK, CallerTypeOK, TaskTypeOK
  <2>4. WorkerTypeOK' /\ DiskTypeOK' /\ Hands'
    BY <1>1
       DEF AddTask, TypeOK, WorkerTypeOK, DiskTypeOK, Hands, workerVars,
           diskVars
  <2> QED BY <2>2, <2>3, <2>4 DEF TypeOK
<1>2. ASSUME NEW t \in Tasks, Enqueue(t) PROVE TypeInv'
  <2>1. FirstChannel(t) \in Channels
    BY DEF FirstChannel, Channels
  <2>2. /\ channel' \in [Tasks -> Channels]
        /\ idle' \in [Channels -> Seq(Tasks)]
    <3>1. allowStart' \in [Tasks -> Nat]
      BY <1>2 DEF Enqueue, TypeOK, TaskTypeOK
    <3> QED BY <1>2, <2>1, <3>1, PushToType DEF Enqueue, TypeOK
  <2>3. TaskTypeOK'
    BY <1>2, <2>2 DEF Enqueue, TypeOK, TaskTypeOK
  <2>4. CallerTypeOK' /\ WorkerTypeOK' /\ DiskTypeOK' /\ Hands'
    BY <1>2
       DEF Enqueue, TypeOK, CallerTypeOK, WorkerTypeOK, DiskTypeOK, Hands,
           workerVars, diskVars
  <2> QED BY <2>3, <2>4 DEF TypeOK
<1>3. ASSUME NEW t \in Tasks, CancelDownload(t) PROVE TypeInv'
  BY <1>3
     DEF CancelDownload, TypeOK, CallerTypeOK, TaskTypeOK, WorkerTypeOK,
         DiskTypeOK, Hands, taskVars, workerVars, diskVars
<1>4. CASE Tick
  <2>1. /\ now' \in Nat
        /\ UNCHANGED <<callerVars, taskVars, workerVars, live, diskVars,
                       requests, lost>>
    BY <1>4 DEF Tick, TypeOK, CallerTypeOK
  <2>2. CallerTypeOK' /\ TaskTypeOK'
    BY <2>1 DEF TypeOK, CallerTypeOK, TaskTypeOK, callerVars, taskVars
  <2>3. WorkerTypeOK' /\ DiskTypeOK' /\ Hands'
    BY <2>1
       DEF TypeOK, WorkerTypeOK, DiskTypeOK, Hands, workerVars, diskVars
  <2> QED BY <2>2, <2>3 DEF TypeOK
<1>5. ASSUME NEW w \in Workers, Panic(w) PROVE TypeInv'
  <2>1. Held(w) \in Tasks
    BY <1>5, ConstantFacts
       DEF Panic, TypeOK, WorkerTypeOK, Hands, Held
  <2>2. CallerTypeOK' /\ TaskTypeOK' /\ DiskTypeOK'
    BY <1>5, <2>1
       DEF Panic, TypeOK, CallerTypeOK, TaskTypeOK, DiskTypeOK, callerVars,
           taskVars, diskVars
  <2>3. WorkerTypeOK' /\ Hands'
    BY <1>5
       DEF Panic, GoTo, TypeOK, WorkerTypeOK, Hands, Locations, NoResponse,
           Response, Errors
  <2> QED BY <2>2, <2>3 DEF TypeOK
<1>6. ASSUME NEW w \in Workers, NEW t \in Tasks, TransferEnds(w, t)
      PROVE  TypeInv'
  <2>1. CallerTypeOK' /\ TaskTypeOK'
    BY <1>6
       DEF TransferEnds, TypeOK, CallerTypeOK, TaskTypeOK, callerVars, taskVars
  <2>2. DiskTypeOK'
    BY <1>6 DEF TransferEnds, TypeOK, DiskTypeOK
  <2>3. PICK e \in Errors :
          resp' = [resp EXCEPT ![w].done = TRUE, ![w].err = e]
    BY <1>6 DEF TransferEnds
  <2>4. resp' \in [Workers -> Response]
    BY <2>3 DEF TypeOK, WorkerTypeOK, Response
  <2>5. WorkerTypeOK' /\ Hands'
    BY <1>6, <2>4 DEF TransferEnds, TypeOK, WorkerTypeOK, Hands
  <2> QED BY <2>1, <2>2, <2>5 DEF TypeOK
<1>7. CASE UNCHANGED vars
  BY <1>7
     DEF vars, otherVars, TypeOK, CallerTypeOK, TaskTypeOK, WorkerTypeOK,
         DiskTypeOK, Hands, callerVars, taskVars, workerVars, diskVars
<1> QED BY <1>1, <1>2, <1>3, <1>4, <1>5, <1>6, <1>7

\* The initial states are typed.
LEMMA InitType == Init => TypeInv
<1> SUFFICES ASSUME Init PROVE TypeInv
  OBVIOUS
<1>1. TaskParams \subseteq Requests /\ MaxTasks \in Nat
  BY ConstantsAssumption
<1>2. CallerTypeOK
  BY <1>1 DEF Init, CallerTypeOK
<1>3. TaskTypeOK
  BY DEF Init, TaskTypeOK, Statuses, FailReasons, Channels
<1>4. WorkerTypeOK /\ Hands
  BY DEF Init, WorkerTypeOK, Hands, Locations, NoResponse, Response, Errors
<1>5. DiskTypeOK
  BY DEF Init, DiskTypeOK
<1> QED BY <1>2, <1>3, <1>4, <1>5 DEF TypeInv, TypeOK

\* Every step keeps the types.
LEMMA NextType == TypeInv /\ [Next]_vars => TypeInv'
BY WorkerStepType, OtherStepType DEF Next, Quiescent

\* Every variable keeps its type, and a worker has a task in hand exactly while
\* it works on one.
THEOREM TypeCorrect == Spec => []TypeInv
BY InitType, NextType, PTL DEF Spec

\* The type invariant that the runs check.
THEOREM TypesHold == Spec => []TypeOK
BY TypeCorrect, PTL DEF TypeInv

-----------------------------------------------------------------------------
(***************************************************************************)
(* What the step of a worker leaves alone: the other workers and every     *)
(* task but the one it holds.                                              *)
(***************************************************************************)

OthersStand(w) ==
  \A v \in Workers \ {w} :
    pc'[v] = pc[v] /\ cur'[v] = cur[v] /\ resp'[v] = resp[v]

SameFields(t) ==
  /\ status'[t] = status[t]
  /\ failReason'[t] = failReason[t]
  /\ failTimes'[t] = failTimes[t]
  /\ allowStart'[t] = allowStart[t]
  /\ channel'[t] = channel[t]
  /\ calls'[t] = calls[t]

SameDisk(t) ==
  file'[t] = file[t] /\ header'[t] = header[t] /\ requests'[t] = requests[t]

\* A worker that lets go of its task touches no other worker and no other task,
\* and is next at its loop or in a callback.
LEMMA LettingGoFrame ==
  ASSUME TypeInv, NEW w \in Workers,
         \/ \E reason : TaskFail(w, reason) \/ TaskBreakOff(w, reason)
         \/ TaskCancel(w)
         \/ TaskSuccess(w)
         \/ /\ UNCHANGED <<status, failReason, failTimes, allowStart>>
            /\ \E c : HandOver(w, c)
         \/ \E broken : HandleBrokenTask(w, broken)
  PROVE  /\ OthersStand(w)
         /\ \A t \in Tasks \ {Held(w)} : SameFields(t)
         /\ pc'[w] \in {"loop", "callback"}
<1> DEFINE Frame == /\ OthersStand(w)
                    /\ \A t \in Tasks \ {Held(w)} : SameFields(t)
                    /\ pc'[w] \in {"loop", "callback"}
<1>1. /\ pc \in [Workers -> Locations]
      /\ cur \in [Workers -> Tasks \cup {None}]
      /\ resp \in [Workers -> Response]
  BY DEF TypeInv, TypeOK, WorkerTypeOK
<1>2. /\ status \in [Tasks -> Statuses]
      /\ failReason \in [Tasks -> FailReasons]
      /\ failTimes \in [Tasks -> Nat]
      /\ allowStart \in [Tasks -> Nat]
      /\ channel \in [Tasks -> Channels]
      /\ DOMAIN calls = Tasks
  BY DEF TypeInv, TypeOK, TaskTypeOK
<1>3. ASSUME NEW k, CallBack(w, k),
             \A t \in Tasks \ {Held(w)} :
               status'[t] = status[t] /\ failReason'[t] = failReason[t]
      PROVE  Frame
  BY <1>1, <1>2, <1>3 DEF CallBack, OthersStand, SameFields
<1>4. ASSUME NEW c, HandOver(w, c),
             \A t \in Tasks \ {Held(w)} :
               /\ status'[t] = status[t] /\ failReason'[t] = failReason[t]
               /\ failTimes'[t] = failTimes[t] /\ allowStart'[t] = allowStart[t]
      PROVE  Frame
  BY <1>1, <1>2, <1>4 DEF HandOver, PushTo, OthersStand, SameFields
<1> HIDE DEF Frame
<1>5. ASSUME NEW reason, TaskFail(w, reason) PROVE Frame
  BY <1>2, <1>3, <1>5 DEF TaskFail
<1>6. ASSUME NEW reason, TaskBreakOff(w, reason) PROVE Frame
  <2>1. CASE TryAgain(w, "NoFail")
    BY <1>2, <1>4, <2>1 DEF TryAgain
  <2> QED BY <1>5, <1>6, <2>1 DEF TaskBreakOff
<1>7. ASSUME TaskCancel(w) PROVE Frame
  BY <1>3, <1>7 DEF TaskCancel
<1>8. ASSUME TaskSuccess(w) PROVE Frame
  BY <1>2, <1>3, <1>8 DEF TaskSuccess
<1>9. ASSUME NEW c, HandOver(w, c),
             UNCHANGED <<status, failReason, failTimes, allowStart>>
      PROVE  Frame
  BY <1>4, <1>9
<1>10. ASSUME NEW broken, HandleBrokenTask(w, broken) PROVE Frame
  <2>1. ASSUME Pause(w) PROVE Frame
    BY <1>2, <1>4, <2>1 DEF Pause
  <2>2. ASSUME ToSlowChannel(w) PROVE Frame
    BY <1>2, <1>4, <2>2 DEF ToSlowChannel
  <2> QED BY <1>5, <1>6, <1>7, <1>10, <2>1, <2>2 DEF HandleBrokenTask
<1> QED BY <1>5, <1>6, <1>7, <1>9, <1>10, <1>8 DEF Frame

\* Every step of a worker, and a panic.
LEMMA WorkerFrame ==
  ASSUME TypeInv, NEW w \in Workers, WorkerStep(w) \/ Panic(w)
  PROVE  /\ OthersStand(w)
         /\ \A t \in Tasks \ {Held(w)} : SameFields(t) /\ SameDisk(t)
         /\ UNCHANGED <<now, currentId, param, adding, cancelFlag>>
         /\ \A t \in Tasks \ {Held(w)} : t \in taskMap' <=> t \in taskMap
         /\ lost \subseteq lost'
<1>1. /\ pc \in [Workers -> Locations]
      /\ cur \in [Workers -> Tasks \cup {None}]
      /\ resp \in [Workers -> Response]
  BY DEF TypeInv, TypeOK, WorkerTypeOK
<1>2. /\ status \in [Tasks -> Statuses]
      /\ DOMAIN file = Tasks /\ DOMAIN header = Tasks /\ DOMAIN requests = Tasks
  BY DEF TypeInv, TypeOK, TaskTypeOK, DiskTypeOK
<1>3. UNCHANGED taskVars => \A t : SameFields(t)
  BY DEF taskVars, SameFields
<1>4. CASE \/ NewRequestFails(w)
           \/ CancelledBeforeRequest(w)
           \/ TransferFailed(w)
           \/ LengthOverLimit(w)
           \/ SaveHeaderFails(w)
           \/ MonitorDone(w)
  <2>1. \/ \E reason : TaskFail(w, reason) \/ TaskBreakOff(w, reason)
        \/ TaskCancel(w)
        \/ TaskSuccess(w)
    BY <1>4
       DEF NewRequestFails, CancelledBeforeRequest, TransferFailed,
           LengthOverLimit, SaveHeaderFails, MonitorDone
  <2>2. UNCHANGED <<now, callerVars, file, requests, lost>>
    BY <1>4
       DEF NewRequestFails, CancelledBeforeRequest, TransferFailed,
           LengthOverLimit, SaveHeaderFails, MonitorDone, otherVars, diskVars
  <2>3. \A t \in Tasks \ {Held(w)} : header'[t] = header[t]
    BY <1>2, <1>4
       DEF NewRequestFails, CancelledBeforeRequest, TransferFailed,
           LengthOverLimit, SaveHeaderFails, MonitorDone, otherVars, diskVars
  <2> QED BY <2>1, <2>2, <2>3, LettingGoFrame DEF callerVars, SameDisk
<1>5. CASE Dispatch(w) \/ Classify(w) \/ MonitorTick(w)
  <2>1. UNCHANGED otherVars
    BY <1>5 DEF Dispatch, Classify, MonitorTick
  <2>2. \/ TaskCancel(w)
        \/ TaskFail(w, "Expire")
        \/ TaskBreakOff(w, "RequestError")
        \/ /\ UNCHANGED <<status, failReason, failTimes, allowStart>>
           /\ \E c : HandOver(w, c)
        \/ \E broken : HandleBrokenTask(w, broken)
        \/ /\ UNCHANGED <<taskVars, cur, resp>>
           /\ pc' = pc \/ \E l : GoTo(w, l)
    BY <1>5 DEF Dispatch, Classify, MonitorTick, workerVars
  <2>3. CASE /\ UNCHANGED <<taskVars, cur, resp>>
             /\ pc' = pc \/ \E l : GoTo(w, l)
    BY <1>1, <1>3, <2>1, <2>3
       DEF GoTo, OthersStand, otherVars, callerVars, diskVars, SameDisk
  <2> QED BY <2>1, <2>2, <2>3, LettingGoFrame
          DEF otherVars, callerVars, diskVars, SameDisk
<1>6. CASE DoFails(w) \/ DoFindsWholeFile(w) \/ DoStartsTransfer(w)
  <2>1. OthersStand(w)
    BY <1>1, <1>6
       DEF DoFails, DoFindsWholeFile, DoStartsTransfer, Request, GoTo,
           OthersStand
  <2>2. UNCHANGED <<now, callerVars, taskVars, lost>>
    BY <1>6 DEF DoFails, DoFindsWholeFile, DoStartsTransfer
  <2>3. \A t \in Tasks \ {Held(w)} : SameDisk(t)
    BY <1>2, <1>6
       DEF DoFails, DoFindsWholeFile, DoStartsTransfer, Request, diskVars,
           SameDisk
  <2> QED BY <1>3, <2>1, <2>2, <2>3 DEF callerVars
<1>7. CASE SaveHeader(w)
  BY <1>1, <1>2, <1>7
     DEF SaveHeader, GoTo, OthersStand, SameFields, SameDisk, callerVars
<1>8. CASE Pop(w)
  BY <1>1, <1>8
     DEF Pop, GoTo, OthersStand, SameFields, SameDisk, callerVars, diskVars
<1>9. CASE CallbackReturns(w)
  BY <1>1, <1>2, <1>3, <1>9
     DEF CallbackReturns, GoTo, OthersStand, SameDisk, callerVars, diskVars
<1>10. CASE Forget(w)
  BY <1>1, <1>3, <1>10
     DEF Forget, GoTo, OthersStand, SameDisk, diskVars
<1>11. CASE Restart(w)
  BY <1>1, <1>3, <1>11
     DEF Restart, GoTo, OthersStand, SameDisk, otherVars, callerVars, diskVars
<1>12. CASE Panic(w)
  BY <1>1, <1>3, <1>12
     DEF Panic, GoTo, OthersStand, SameDisk, callerVars, diskVars
<1> QED BY <1>4, <1>5, <1>6, <1>7, <1>8, <1>9, <1>10, <1>11, <1>12
        DEF WorkerStep, StartDownload

-----------------------------------------------------------------------------
(***************************************************************************)
(* Every task is in one hand, taskMap holds exactly the tasks somebody     *)
(* has, and the idle lists stay sorted.  The three are proved together: a  *)
(* push keeps a list free of duplicates only because the pushed task was   *)
(* in nobody's list, and sorted only because changing the start time of    *)
(* the task in hand disturbs no list.                                      *)
(***************************************************************************)

\* Ids are handed out once: what is in taskMap has been added.
Registered == taskMap \subseteq 1..currentId

UniqueHolder == \A v, w \in Workers : cur[v] = cur[w] /\ cur[v] # None => v = w

ListsOK ==
  \A c \in Channels :
    /\ Distinct(idle[c])
    /\ \A t \in Waiting(c) : channel[t] = c
    /\ SortedBy(idle[c], allowStart)

Apart ==
  /\ Queued \cap (HeldTasks \cup adding \cup lost) = {}
  /\ HeldTasks \cap (adding \cup lost) = {}
  /\ adding \cap lost = {}

OwnInv == ListsOK /\ UniqueHolder /\ Apart /\ Accounted /\ Registered

\* The inductive invariant contains the three properties the runs check.
LEMMA OwnInvImplies == OwnInv => SingleOwner /\ Accounted /\ ListsSorted
BY DEF OwnInv, ListsOK, UniqueHolder, Apart, SingleOwner, ListsSorted

\* A task is queued exactly when it stands at some place of some list.
LEMMA QueuedElements ==
  ASSUME TypeInv
  PROVE  /\ \A c \in Channels :
              idle[c] \in Seq(Tasks) /\ Waiting(c) \subseteq Tasks
         /\ \A t : t \in Queued <=> \E c \in Channels : t \in Waiting(c)
<1>1. \A c \in Channels : idle[c] \in Seq(Tasks)
  BY DEF TypeInv, TypeOK, TaskTypeOK
<1> QED BY <1>1, ToSetElements DEF Waiting, Queued

\* A push of a task that is in no list leaves lists as they should be.
LEMMA PushToLists ==
  ASSUME TypeInv, ListsOK, NEW c \in Channels, NEW t \in Tasks, t \notin Queued,
         allowStart' \in [Tasks -> Nat],
         \A u \in Tasks \ {t} : allowStart'[u] = allowStart[u],
         PushTo(c, t)
  PROVE  ListsOK' /\ Queued' = Queued \cup {t}
<1>0. /\ channel \in [Tasks -> Channels]
      /\ idle \in [Channels -> Seq(Tasks)]
      /\ allowStart' \in [Tasks -> Int]
  BY DEF TypeInv, TypeOK, TaskTypeOK
<1>1. /\ idle'[c] = Push(idle[c], allowStart', t)
      /\ \A d \in Channels \ {c} : idle'[d] = idle[d]
      /\ channel'[t] = c
      /\ \A u \in Tasks \ {t} : channel'[u] = channel[u]
  BY <1>0 DEF PushTo
<1>2. Waiting(c)' = Waiting(c) \cup {t}
  BY <1>0, <1>1, PushToSet DEF Waiting
<1>3. \A d \in Channels \ {c} : Waiting(d)' = Waiting(d)
  BY <1>1 DEF Waiting
<1>4. \A d \in Channels : Waiting(d) \subseteq Tasks /\ t \notin Waiting(d)
  BY QueuedElements
<1>5. ASSUME NEW d \in Channels PROVE SortedBy(idle[d], allowStart')
  <2>1. \A i \in 1..Len(idle[d]) : idle[d][i] \in Waiting(d)
    BY <1>0, ToSetElements DEF Waiting
  <2>2. \A u \in Waiting(d) : allowStart'[u] = allowStart[u]
    BY <1>4
  <2>3. SortedBy(idle[d], allowStart)
    BY DEF ListsOK
  <2>4. ASSUME NEW i \in 1..Len(idle[d]), NEW j \in 1..Len(idle[d]), i < j
        PROVE  allowStart'[idle[d][i]] <= allowStart'[idle[d][j]]
    <3>1. allowStart[idle[d][i]] <= allowStart[idle[d][j]]
      BY <2>3, <2>4 DEF SortedBy
    <3>2. /\ allowStart'[idle[d][i]] = allowStart[idle[d][i]]
          /\ allowStart'[idle[d][j]] = allowStart[idle[d][j]]
      BY <2>1, <2>2
    <3> QED BY <3>1, <3>2
  <2> QED BY <2>4 DEF SortedBy
<1>6. Distinct(idle'[c]) /\ SortedBy(idle'[c], allowStart')
  <2>1. Distinct(idle[c]) /\ t \notin ToSet(idle[c])
    BY <1>4 DEF ListsOK, Waiting
  <2>2. /\ idle[c] \in Seq(Tasks)
        /\ SortedBy(idle[c], allowStart')
        /\ idle'[c] = Push(idle[c], allowStart', t)
    BY <1>0, <1>1, <1>5
  <2>3. Distinct(Push(idle[c], allowStart', t))
    BY <1>0, <2>1, <2>2, PushDistinct
  <2>4. SortedBy(Push(idle[c], allowStart', t), allowStart')
    BY <1>0, <2>2, PushSorted
  <2> QED BY <2>2, <2>3, <2>4
<1>7. ASSUME NEW d \in Channels
      PROVE  /\ Distinct(idle'[d])
             /\ \A u \in Waiting(d)' : channel'[u] = d
             /\ SortedBy(idle'[d], allowStart')
  <2>1. CASE d = c
    BY <1>1, <1>2, <1>4, <1>6, <2>1 DEF ListsOK
  <2>2. CASE d # c
    BY <1>1, <1>3, <1>4, <1>5, <2>2 DEF ListsOK
  <2> QED BY <2>1, <2>2
<1>8. ListsOK'
  BY <1>7 DEF ListsOK
<1>9. Queued' = Queued \cup {t}
  <2>1. \A u : u \in Queued' <=> \E d \in Channels : u \in Waiting(d)'
    BY DEF Queued
  <2>2. \A u : u \in Queued <=> \E d \in Channels : u \in Waiting(d)
    BY DEF Queued
  <2> QED BY <1>2, <1>3, <2>1, <2>2
<1> QED BY <1>8, <1>9

\* A worker that gives its task away leaves the others' hands alone.
LEMMA HandsOff ==
  ASSUME TypeInv, UniqueHolder, NEW w, Busy(w), cur' = [cur EXCEPT ![w] = None]
  PROVE  /\ Held(w) \in HeldTasks /\ Held(w) \in Tasks
         /\ HeldTasks' = HeldTasks \ {Held(w)}
         /\ UniqueHolder'
<1>1. /\ w \in Workers
      /\ cur \in [Workers -> Tasks \cup {None}]
      /\ cur[w] \in Tasks /\ cur[w] # None
  BY ConstantFacts DEF TypeInv, TypeOK, WorkerTypeOK, Hands, Busy
<1>2. cur'[w] = None /\ \A v \in Workers \ {w} : cur'[v] = cur[v]
  BY <1>1
<1>3. \A v \in Workers \ {w} : cur[v] # cur[w]
  BY <1>1 DEF UniqueHolder
<1>4. HeldTasks' = {cur'[v] : v \in Workers} \ {None}
  BY DEF HeldTasks
<1> QED BY <1>1, <1>2, <1>3, <1>4 DEF HeldTasks, UniqueHolder, Held

-----------------------------------------------------------------------------
(***************************************************************************)
(* The moves a task makes.                                                 *)
(***************************************************************************)

Keep == UNCHANGED <<currentId, adding, taskMap, allowStart, channel, idle, cur,
                    lost>>

\* Worker w pushes its task to channel c, to start at a time of its choosing.
Put(w, c) ==
  /\ PushTo(c, Held(w))
  /\ cur' = [cur EXCEPT ![w] = None]
  /\ allowStart' \in [Tasks -> Nat]
  /\ \A t \in Tasks \ {Held(w)} : allowStart'[t] = allowStart[t]
  /\ UNCHANGED <<currentId, adding, taskMap, lost>>

\* A step that moves no task between hands keeps the invariant.
LEMMA KeepOwn == OwnInv /\ Keep => OwnInv'
BY DEF OwnInv, Keep, ListsOK, UniqueHolder, Apart, Accounted, Registered,
       Queued, Waiting, HeldTasks

\* A worker that puts its task back in a list keeps the invariant.
LEMMA PutOwn ==
  ASSUME TypeInv, OwnInv, NEW w, Busy(w), NEW c \in Channels, Put(w, c)
  PROVE  OwnInv'
<1>1. /\ Held(w) \in HeldTasks /\ Held(w) \in Tasks
      /\ HeldTasks' = HeldTasks \ {Held(w)}
      /\ UniqueHolder'
  BY HandsOff DEF OwnInv, Put
<1>2. Held(w) \notin Queued
  BY <1>1 DEF OwnInv, Apart
<1>3. ListsOK' /\ Queued' = Queued \cup {Held(w)}
  BY <1>1, <1>2, PushToLists DEF OwnInv, Put
<1>4. Apart' /\ Accounted' /\ Registered'
  BY <1>1, <1>3 DEF OwnInv, Put, Apart, Accounted, Registered
<1> QED BY <1>1, <1>3, <1>4 DEF OwnInv

\* The end of addDownloadTask keeps the invariant.
LEMMA EnqueueOwn ==
  ASSUME TypeInv, OwnInv, NEW t \in Tasks, Enqueue(t)
  PROVE  OwnInv'
<1>1. /\ t \in adding
      /\ adding' = adding \ {t}
      /\ PushTo(FirstChannel(t), t)
      /\ UNCHANGED <<allowStart, currentId, taskMap, cur, lost>>
  BY DEF Enqueue, workerVars
<1>2. FirstChannel(t) \in Channels /\ allowStart \in [Tasks -> Nat]
  BY DEF FirstChannel, Channels, TypeInv, TypeOK, TaskTypeOK
<1>3. t \notin Queued
  BY <1>1 DEF OwnInv, Apart
<1>4. ListsOK' /\ Queued' = Queued \cup {t}
  BY <1>1, <1>2, <1>3, PushToLists DEF OwnInv
<1>5. HeldTasks' = HeldTasks /\ UniqueHolder'
  BY <1>1 DEF OwnInv, HeldTasks, UniqueHolder
<1>6. Apart' /\ Accounted' /\ Registered'
  BY <1>1, <1>4, <1>5 DEF OwnInv, Apart, Accounted, Registered
<1> QED BY <1>4, <1>5, <1>6 DEF OwnInv

\* Storing a fresh task in taskMap keeps the invariant.
LEMMA AddTaskOwn ==
  ASSUME TypeInv, OwnInv, AddTask
  PROVE  OwnInv'
<1> DEFINE t == currentId + 1
<1>1. /\ currentId' = t
      /\ taskMap' = taskMap \cup {t}
      /\ adding' = adding \cup {t}
      /\ allowStart' = [allowStart EXCEPT ![t] = now]
      /\ UNCHANGED <<channel, idle, cur, lost>>
  BY DEF AddTask, workerVars
<1>2. currentId \in Nat /\ allowStart \in [Tasks -> Nat]
  BY ConstantFacts DEF TypeInv, TypeOK, CallerTypeOK, TaskTypeOK
<1>3. t \notin taskMap
  BY <1>2 DEF OwnInv, Registered
<1>4. t \notin adding /\ t \notin Queued /\ t \notin HeldTasks /\ t \notin lost
  BY <1>3 DEF OwnInv, Accounted
<1>5. Queued' = Queued /\ HeldTasks' = HeldTasks /\ UniqueHolder'
  BY <1>1 DEF OwnInv, Queued, Waiting, HeldTasks, UniqueHolder
<1>6. ASSUME NEW c \in Channels PROVE SortedBy(idle[c], allowStart')
  <2>1. \A i \in 1..Len(idle[c]) : idle[c][i] \in Waiting(c)
    BY QueuedElements, ToSetElements DEF Waiting
  <2>2. \A u \in Waiting(c) : allowStart'[u] = allowStart[u]
    BY <1>1, <1>2, <1>4, QueuedElements
  <2>3. SortedBy(idle[c], allowStart)
    BY DEF OwnInv, ListsOK
  <2> QED BY <2>1, <2>2, <2>3 DEF SortedBy
<1>7. ListsOK'
  BY <1>1, <1>6 DEF OwnInv, ListsOK, Waiting
<1>8. Apart' /\ Accounted'
  BY <1>1, <1>4, <1>5 DEF OwnInv, Apart, Accounted
<1>9. Registered'
  BY <1>1, <1>2 DEF OwnInv, Registered
<1> QED BY <1>5, <1>7, <1>8, <1>9 DEF OwnInv

\* Taking a task out of an idle list keeps the invariant.
LEMMA PopOwn ==
  ASSUME TypeInv, OwnInv, NEW w \in Workers, Pop(w)
  PROVE  OwnInv'
<1> DEFINE h == Home(w)
<1>1. PICK i \in PopPositions(h) :
        /\ cur' = [cur EXCEPT ![w] = idle[h][i]]
        /\ idle' = [idle EXCEPT ![h] = RemoveAt(@, i)]
  BY DEF Pop
<1>2. UNCHANGED <<currentId, adding, taskMap, allowStart, channel, lost>>
  BY DEF Pop, callerVars
<1> DEFINE t == idle[h][i]
<1>3. /\ h \in Channels
      /\ idle \in [Channels -> Seq(Tasks)]
      /\ cur \in [Workers -> Tasks \cup {None}]
      /\ cur[w] = None
      /\ i \in 1..Len(idle[h])
  BY <1>1, ConstantFacts
     DEF PopPositions, RandomPositions, QueuePositions, TypeInv, TypeOK,
         TaskTypeOK, WorkerTypeOK, Hands, Pop
<1>4. /\ t \in Waiting(h) /\ t \in Tasks /\ t # None
      /\ \A d \in Channels \ {h} : t \notin Waiting(d)
  BY <1>3, ToSetElements, ConstantFacts DEF Waiting, OwnInv, ListsOK
<1>5. /\ idle'[h] = RemoveAt(idle[h], i)
      /\ \A d \in Channels \ {h} : idle'[d] = idle[d]
      /\ cur'[w] = t
      /\ \A v \in Workers \ {w} : cur'[v] = cur[v]
  BY <1>1, <1>3
<1>6. /\ Waiting(h)' = Waiting(h) \ {t}
      /\ Distinct(idle'[h])
      /\ SortedBy(idle'[h], allowStart)
  <2>1. Distinct(idle[h]) /\ SortedBy(idle[h], allowStart)
    BY <1>3 DEF OwnInv, ListsOK
  <2> QED BY <1>3, <1>5, <2>1, RemoveAtKeeps DEF Waiting
<1> HIDE DEF h, t
<1>7. ListsOK'
  <2> SUFFICES ASSUME NEW d \in Channels
               PROVE  /\ Distinct(idle'[d])
                      /\ \A u \in Waiting(d)' : channel'[u] = d
                      /\ SortedBy(idle'[d], allowStart')
    BY DEF ListsOK
  <2>1. CASE d = h
    BY <1>2, <1>6, <2>1 DEF OwnInv, ListsOK
  <2>2. CASE d # h
    BY <1>2, <1>5, <2>2 DEF OwnInv, ListsOK, Waiting
  <2> QED BY <2>1, <2>2
<1>8. Queued' = Queued \ {t} /\ t \in Queued
  <2>1. \A d \in Channels \ {h} : Waiting(d)' = Waiting(d)
    BY <1>5 DEF Waiting
  <2>2. \A u : u \in Queued' <=> \E d \in Channels : u \in Waiting(d)'
    BY DEF Queued
  <2>3. \A u : u \in Queued <=> \E d \in Channels : u \in Waiting(d)
    BY DEF Queued
  <2> QED BY <1>3, <1>4, <1>6, <2>1, <2>2, <2>3
<1>9. t \notin HeldTasks
  BY <1>8 DEF OwnInv, Apart
<1>10. HeldTasks' = HeldTasks \cup {t} /\ UniqueHolder'
  <2>1. HeldTasks' = {cur'[v] : v \in Workers} \ {None}
    BY DEF HeldTasks
  <2> QED BY <1>3, <1>4, <1>5, <1>9, <2>1 DEF OwnInv, HeldTasks, UniqueHolder
<1>11. Apart' /\ Accounted' /\ Registered'
  BY <1>2, <1>8, <1>10 DEF OwnInv, Apart, Accounted, Registered
<1> QED BY <1>7, <1>10, <1>11 DEF OwnInv

\* Deleting a task from taskMap keeps the invariant.
LEMMA ForgetOwn ==
  ASSUME TypeInv, OwnInv, NEW w \in Workers, Forget(w)
  PROVE  OwnInv'
<1>1. /\ taskMap' = taskMap \ {Held(w)}
      /\ cur' = [cur EXCEPT ![w] = None]
      /\ UNCHANGED <<currentId, adding, allowStart, channel, idle, lost>>
      /\ Busy(w)
  BY DEF Forget, taskVars, Busy
<1>2. /\ Held(w) \in HeldTasks
      /\ HeldTasks' = HeldTasks \ {Held(w)}
      /\ UniqueHolder'
  BY <1>1, HandsOff DEF OwnInv
<1>3. Queued' = Queued /\ ListsOK'
  BY <1>1 DEF OwnInv, Queued, Waiting, ListsOK
<1>4. Apart' /\ Accounted' /\ Registered'
  BY <1>1, <1>2, <1>3 DEF OwnInv, Apart, Accounted, Registered
<1> QED BY <1>2, <1>3, <1>4 DEF OwnInv

\* A panic, which loses the task, keeps the invariant.
LEMMA PanicOwn ==
  ASSUME TypeInv, OwnInv, NEW w \in Workers, Panic(w)
  PROVE  OwnInv'
<1>1. /\ lost' = lost \cup {Held(w)}
      /\ cur' = [cur EXCEPT ![w] = None]
      /\ UNCHANGED <<currentId, adding, taskMap, allowStart, channel, idle>>
      /\ Busy(w)
  BY DEF Panic, callerVars, taskVars, Busy
<1>2. /\ Held(w) \in HeldTasks
      /\ HeldTasks' = HeldTasks \ {Held(w)}
      /\ UniqueHolder'
  BY <1>1, HandsOff DEF OwnInv
<1>3. Queued' = Queued /\ ListsOK'
  BY <1>1 DEF OwnInv, Queued, Waiting, ListsOK
<1>4. Apart' /\ Accounted' /\ Registered'
  BY <1>1, <1>2, <1>3 DEF OwnInv, Apart, Accounted, Registered
<1> QED BY <1>2, <1>3, <1>4 DEF OwnInv

-----------------------------------------------------------------------------
\* Every way of letting go of a task is a move.
LEMMA LettingGoMoves ==
  ASSUME TypeInv, NEW w, Busy(w),
         UNCHANGED <<currentId, adding, taskMap, lost>>,
         \/ \E reason : TaskFail(w, reason) \/ TaskBreakOff(w, reason)
         \/ TaskCancel(w)
         \/ TaskSuccess(w)
         \/ \E c \in Channels : HandOver(w, c) /\ UNCHANGED allowStart
         \/ \E broken : HandleBrokenTask(w, broken)
  PROVE  Keep \/ \E c \in Channels : Put(w, c)
<1>1. /\ Held(w) \in Tasks
      /\ channel[Held(w)] \in Channels
      /\ "unpauseSlow" \in Channels
      /\ allowStart \in [Tasks -> Nat]
  BY DEF TypeInv, TypeOK, WorkerTypeOK, TaskTypeOK, Hands, Busy, Held, Channels
<1>0. now + RetryDelay \in Nat
  BY ConstantFacts DEF TypeInv, TypeOK, CallerTypeOK
<1>2. ASSUME NEW k, CallBack(w, k) PROVE Keep
  BY <1>2 DEF CallBack, Keep
<1>3. ASSUME NEW reason, TaskFail(w, reason) PROVE Keep
  BY <1>2, <1>3 DEF TaskFail
<1>4. CASE TaskCancel(w) \/ TaskSuccess(w)
  BY <1>2, <1>4 DEF TaskCancel, TaskSuccess
<1>5. ASSUME NEW c \in Channels, HandOver(w, c), UNCHANGED allowStart
      PROVE  Put(w, c)
  BY <1>1, <1>5 DEF HandOver, Put
<1>6. ASSUME NEW reason, TaskBreakOff(w, reason)
      PROVE  Keep \/ \E c \in Channels : Put(w, c)
  <2>1. CASE RetriesExhausted(Held(w))
    BY <1>3, <1>6, <2>1 DEF TaskBreakOff
  <2>2. CASE TryAgain(w, "NoFail")
    <3>1. Put(w, channel[Held(w)])
      BY <1>0, <1>1, <2>2 DEF TryAgain, HandOver, Put
    <3> QED BY <1>1, <3>1
  <2> QED BY <1>6, <2>1, <2>2 DEF TaskBreakOff
<1>7. ASSUME NEW broken, HandleBrokenTask(w, broken)
      PROVE  Keep \/ \E c \in Channels : Put(w, c)
  <2>1. CASE Pause(w)
    BY <1>1, <1>5, <2>1 DEF Pause
  <2>2. CASE ToSlowChannel(w)
    BY <1>1, <1>5, <2>2 DEF ToSlowChannel
  <2> QED BY <1>3, <1>4, <1>6, <1>7, <2>1, <2>2 DEF HandleBrokenTask
<1> QED BY <1>3, <1>4, <1>5, <1>6, <1>7

\* Every step of a worker keeps the invariant.
LEMMA WorkerStepOwn ==
  ASSUME TypeInv, OwnInv, NEW w \in Workers, WorkerStep(w)
  PROVE  OwnInv'
<1>0. /\ pc[w] \notin {"loop", "recovering"} => Busy(w)
      /\ {"random", "unpauseFast"} \subseteq Channels
  BY DEF Busy, Channels
<1>1. CASE \/ NewRequestFails(w)
           \/ CancelledBeforeRequest(w)
           \/ TransferFailed(w)
           \/ LengthOverLimit(w)
           \/ SaveHeaderFails(w)
           \/ MonitorDone(w)
  <2>1. Busy(w) /\ UNCHANGED <<currentId, adding, taskMap, lost>>
    BY <1>0, <1>1
       DEF NewRequestFails, CancelledBeforeRequest, TransferFailed,
           LengthOverLimit, SaveHeaderFails, MonitorDone, Waited, otherVars,
           callerVars
  <2>2. \/ \E reason : TaskFail(w, reason) \/ TaskBreakOff(w, reason)
        \/ TaskCancel(w)
        \/ TaskSuccess(w)
    BY <1>1
       DEF NewRequestFails, CancelledBeforeRequest, TransferFailed,
           LengthOverLimit, SaveHeaderFails, MonitorDone
  <2> QED BY <2>1, <2>2, LettingGoMoves, KeepOwn, PutOwn
<1>2. CASE Dispatch(w) \/ Classify(w) \/ MonitorTick(w)
  <2>1. Busy(w) /\ UNCHANGED <<currentId, adding, taskMap, lost>>
    BY <1>0, <1>2
       DEF Dispatch, Classify, MonitorTick, otherVars, callerVars
  <2>2. \/ TaskCancel(w)
        \/ TaskFail(w, "Expire")
        \/ TaskBreakOff(w, "RequestError")
        \/ \E c \in Channels : HandOver(w, c) /\ UNCHANGED allowStart
        \/ \E broken : HandleBrokenTask(w, broken)
        \/ UNCHANGED <<taskVars, cur>>
    BY <1>0, <1>2 DEF Dispatch, Classify, MonitorTick, workerVars
  <2>3. UNCHANGED <<taskVars, cur>> => Keep
    BY <2>1 DEF taskVars, Keep
  <2> QED BY <2>1, <2>2, <2>3, LettingGoMoves, KeepOwn, PutOwn
<1>3. CASE \/ SaveHeader(w)
           \/ DoFails(w)
           \/ DoFindsWholeFile(w)
           \/ DoStartsTransfer(w)
           \/ CallbackReturns(w)
           \/ Restart(w)
  <2>1. Keep
    BY <1>3
       DEF SaveHeader, DoFails, DoFindsWholeFile, DoStartsTransfer,
           CallbackReturns, Restart, Keep, otherVars, callerVars, taskVars
  <2> QED BY <2>1, KeepOwn
<1> QED BY <1>1, <1>2, <1>3, PopOwn, ForgetOwn DEF WorkerStep, StartDownload

\* Every step keeps the invariant.
LEMMA NextOwn == TypeInv /\ OwnInv /\ [Next]_vars => OwnInv'
<1> SUFFICES ASSUME TypeInv, OwnInv, [Next]_vars PROVE OwnInv'
  OBVIOUS
<1>1. CASE \/ \E t \in Tasks : CancelDownload(t)
           \/ Tick
           \/ \E w \in Workers, t \in Tasks : TransferEnds(w, t)
           \/ UNCHANGED vars
  <2>1. Keep
    BY <1>1
       DEF CancelDownload, Tick, TransferEnds, vars, otherVars, callerVars,
           taskVars, workerVars, Keep
  <2> QED BY <2>1, KeepOwn
<1> QED BY <1>1, AddTaskOwn, EnqueueOwn, WorkerStepOwn, PanicOwn
        DEF Next, Quiescent

\* The initial states satisfy the invariant: nothing was added yet.
LEMMA InitOwn == Init => OwnInv
<1> SUFFICES ASSUME Init PROVE OwnInv
  OBVIOUS
<1>1. \A c \in Channels : idle[c] = <<>> /\ Waiting(c) = {}
  BY DEF Init, Waiting, ToSet
<1>2. Queued = {} /\ HeldTasks = {}
  BY <1>1 DEF Queued, HeldTasks, Init
<1> QED BY <1>1, <1>2
        DEF Init, OwnInv, ListsOK, UniqueHolder, Apart, Accounted, Registered,
            Distinct, SortedBy

\* The invariant holds for ever.
LEMMA OwnInvHolds == Spec => []OwnInv
BY InitType, NextType, InitOwn, NextOwn, PTL DEF Spec

\* No task is ever in two hands.
THEOREM EveryTaskHasOneOwner == Spec => []SingleOwner
BY OwnInvHolds, OwnInvImplies, PTL

\* taskMap neither leaks nor forgets.
THEOREM EveryTaskIsAccountedFor == Spec => []Accounted
BY OwnInvHolds, OwnInvImplies, PTL

\* The idle lists are always in the order the pops rely on.
THEOREM ListsStaySorted == Spec => []ListsSorted
BY OwnInvHolds, OwnInvImplies, PTL

-----------------------------------------------------------------------------
\* Only Pop takes a worker out of its loop.
LEMMA OnlyPopLeavesLoop ==
  ASSUME TypeInv, [Next]_vars, NEW w \in Workers,
         pc[w] = "loop", pc'[w] = "popped"
  PROVE  Pop(w)
<1>1. ASSUME NEW v \in Workers, WorkerStep(v) \/ Panic(v) PROVE Pop(w)
  <2>1. v = w
    BY <1>1, WorkerFrame DEF OthersStand
  <2>2. CASE Panic(w)
    BY <2>2 DEF Panic
  <2>3. CASE WorkerStep(w)
    BY <2>3
       DEF WorkerStep, StartDownload, Dispatch, Classify, NewRequestFails,
           CancelledBeforeRequest, DoFails, DoFindsWholeFile, DoStartsTransfer,
           Requesting, TransferFailed, LengthOverLimit, SaveHeaderFails,
           SaveHeader, Waited, MonitorTick, MonitorDone, CallbackReturns,
           Forget, Restart
  <2> QED BY <1>1, <2>1, <2>2, <2>3
<1>2. CASE \/ AddTask
           \/ \E t \in Tasks : Enqueue(t) \/ CancelDownload(t)
           \/ Tick
           \/ \E v \in Workers, t \in Tasks : TransferEnds(v, t)
           \/ UNCHANGED vars
  BY <1>2
     DEF AddTask, Enqueue, CancelDownload, Tick, TransferEnds, vars, workerVars
<1> QED BY <1>1, <1>2 DEF Next, Quiescent

\* No task starts before its time, and the first-come channels start the
\* earliest task first.
LEMMA PopInOrder ==
  ASSUME TypeInv, OwnInv, NEW w \in Workers, Pop(w)
  PROVE  /\ allowStart[cur'[w]] <= now
         /\ Home(w) # "random" =>
              \A t \in Waiting(Home(w)) : allowStart[cur'[w]] <= allowStart[t]
<1> DEFINE list == idle[Home(w)]
<1>1. /\ Home(w) \in Channels /\ list \in Seq(Tasks) /\ Len(list) \in Nat
      /\ cur \in [Workers -> Tasks \cup {None}]
      /\ allowStart \in [Tasks -> Nat]
  BY ConstantFacts DEF TypeInv, TypeOK, TaskTypeOK, WorkerTypeOK
<1>2. PICK i \in PopPositions(Home(w)) : cur' = [cur EXCEPT ![w] = list[i]]
  BY DEF Pop
<1>3. i \in 1..Len(list) /\ cur'[w] = list[i] /\ allowStart[list[i]] <= now
  BY <1>1, <1>2 DEF PopPositions, RandomPositions, QueuePositions
<1>4. ASSUME Home(w) # "random", NEW t \in Waiting(Home(w))
      PROVE  allowStart[list[i]] <= allowStart[t]
  <2>1. i = 1
    BY <1>2, <1>4 DEF PopPositions, QueuePositions
  <2>2. PICK j \in 1..Len(list) : t = list[j]
    BY <1>1, ToSetElements DEF Waiting
  <2>3. CASE j = 1
    <3>1. list[1] \in Tasks
      BY <1>1, <1>3, <2>1, ToSetElements
    <3>2. allowStart[list[1]] \in Nat
      BY <1>1, <3>1
    <3> QED BY <2>1, <2>2, <2>3, <3>2
  <2>4. CASE j # 1
    <3>1. SortedBy(list, allowStart) /\ 1 \in 1..Len(list) /\ 1 < j
      BY <1>1, <1>3, <2>1, <2>2, <2>4 DEF OwnInv, ListsOK
    <3> QED BY <2>1, <2>2, <3>1 DEF SortedBy
  <2> QED BY <2>3, <2>4
<1> QED BY <1>3, <1>4

\* The action property that the runs check.
THEOREM PopsInOrder == Spec => PopOrder
<1> DEFINE A == \A w \in Workers : pc[w] = "loop" /\ pc'[w] = "popped" =>
                  /\ allowStart[cur'[w]] <= now
                  /\ Home(w) # "random" =>
                       \A t \in Waiting(Home(w)) :
                         allowStart[cur'[w]] <= allowStart[t]
<1>1. ASSUME TypeInv, OwnInv, [Next]_vars PROVE A
  BY <1>1, OnlyPopLeavesLoop, PopInOrder
<1>2. ASSUME TypeInv, OwnInv, [Next]_vars PROVE [A]_vars
  BY <1>1, <1>2
<1> QED BY <1>2, TypeCorrect, OwnInvHolds, PTL DEF Spec, PopOrder
=============================================================================
