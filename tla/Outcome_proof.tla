----------------------------- MODULE Outcome_proof -----------------------------
(***************************************************************************)
(* How a task ends, for every number of tasks and workers: what success    *)
(* and failure promise, what is left on disk, how often a task is tried,   *)
(* the life of a task as its caller sees it, and what a cancellation is    *)
(* worth.                                                                  *)
(***************************************************************************)
EXTENDS Transfer_proof

Endings == {<<>>, <<"success">>, <<"fail">>, <<"cancel">>}

\* The task is before its next attempt.
OnItsWay(t) == calls[t] = <<>> /\ requests[t] <= failTimes[t]

Untouched(t) == calls[t] = <<>> /\ requests[t] = 0 /\ failTimes[t] = 0

Cleared(t) == file[t] = "absent" /\ ~header[t]

\* What a success promises of the file.
Delivered(t) ==
  file[t] # "absent" /\ (param[t].honest => file[t] = "complete")

USE DEF Delivered

\* What each ending says about the rest of the task.
EndingOK(t) ==
  /\ calls[t] \in Endings
  /\ calls[t] = <<>> => failReason[t] = "NoFail"
  /\ calls[t] = <<"success">> =>
       /\ Delivered(t) /\ header[t]
       /\ status[t] = "Success" /\ failReason[t] = "NoFail"
  /\ calls[t] = <<"fail">> => status[t] = "Fail" /\ failReason[t] # "NoFail"

BudgetOK(t) ==
  /\ failTimes[t] <= RetryLimit[channel[t]]
  /\ requests[t] <= failTimes[t] + 1

\* Where the task is decides how far it can be.
PlaceOK(t) ==
  /\ t \in adding \/ t > currentId => Untouched(t)
  /\ t \in taskMap \ (HeldTasks \cup lost) => OnItsWay(t)
  /\ t <= currentId /\ t \notin taskMap =>
       calls[t] # <<>> /\ (calls[t] # <<"success">> => Cleared(t))

TaskOK(t) == EndingOK(t) /\ BudgetOK(t) /\ PlaceOK(t)

\* Where a worker is says how far the task it holds has come.
WorkerOK(w) ==
  /\ pc[w] \notin {"loop", "recovering"} => channel[cur[w]] = Home(w)
  /\ pc[w] \in {"popped", "classify", "start"} => OnItsWay(cur[w])
  /\ pc[w] = "classify" => Home(w) = "preHandle"
  /\ pc[w] = "wait" =>
       /\ calls[cur[w]] = <<>>
       /\ resp[w].done /\ resp[w].err = "nil" => Delivered(cur[w])
  /\ pc[w] = "monitor" =>
       calls[cur[w]] = <<>> /\ Delivered(cur[w]) /\ header[cur[w]]
  /\ pc[w] \in {"callback", "forget"} => calls[cur[w]] # <<>>
  /\ pc[w] = "forget" /\ calls[cur[w]] # <<"success">> => Cleared(cur[w])
  /\ pc[w] \notin {"wait", "monitor"} => ~resp[w].done

OutcomeInv ==
  /\ TransferInv
  /\ OwnInv
  /\ \A t \in Tasks : TaskOK(t)
  /\ \A w \in Workers : WorkerOK(w)

\* The types the proofs below keep needing.
LEMMA OutcomeTypes ==
  ASSUME OutcomeInv
  PROVE  /\ TypeInv
         /\ pc \in [Workers -> Locations]
         /\ cur \in [Workers -> Tasks \cup {None}]
         /\ resp \in [Workers -> Response]
         /\ status \in [Tasks -> Statuses]
         /\ failReason \in [Tasks -> FailReasons]
         /\ failTimes \in [Tasks -> Nat]
         /\ requests \in [Tasks -> Nat]
         /\ channel \in [Tasks -> Channels]
         /\ DOMAIN calls = Tasks
         /\ DOMAIN file = Tasks
         /\ DOMAIN header = Tasks
         /\ currentId \in Nat
         /\ \A t \in Tasks : t \in Nat
<1>1. TypeInv
  BY DEF OutcomeInv, TransferInv
<1>2. currentId \in Nat /\ \A t \in Tasks : t \in Nat
  BY <1>1, ConstantFacts DEF TypeInv, TypeOK, CallerTypeOK
<1> QED BY <1>1, <1>2 DEF TypeInv, TypeOK, WorkerTypeOK, TaskTypeOK, DiskTypeOK

\* The task in a worker's hands is registered, and nobody else has it.
LEMMA HeldTask ==
  ASSUME OutcomeInv, NEW w \in Workers, Busy(w)
  PROVE  /\ Held(w) \in Tasks /\ Held(w) \in HeldTasks
         /\ Held(w) \in taskMap
         /\ Held(w) \in 1..currentId
         /\ Held(w) \notin adding /\ Held(w) \notin lost
         /\ TaskOK(Held(w)) /\ WorkerOK(w)
<1>1. cur[w] \in Tasks /\ cur[w] # None
  BY OutcomeTypes, ConstantFacts DEF TypeInv, Hands, Busy
<1>2. Held(w) \in HeldTasks
  BY <1>1 DEF HeldTasks, Held
<1> QED BY <1>1, <1>2
        DEF OutcomeInv, OwnInv, Accounted, Apart, Registered, Held

\* A worker's step is none of the business of other workers and other tasks.
LEMMA Elsewhere ==
  ASSUME OutcomeInv, NEW w \in Workers, WorkerStep(w) \/ Panic(w)
  PROVE  /\ \A v \in Workers \ {w} : WorkerOK(v)'
         /\ \A t \in Tasks \ {Held(w)} : TaskOK(t)'
<1>1. /\ OthersStand(w)
      /\ \A t \in Tasks \ {Held(w)} : SameFields(t) /\ SameDisk(t)
      /\ UNCHANGED <<currentId, param, adding>>
      /\ \A t \in Tasks \ {Held(w)} : t \in taskMap' <=> t \in taskMap
      /\ lost \subseteq lost'
  BY WorkerFrame, OutcomeTypes
<1>2. ASSUME NEW v \in Workers \ {w} PROVE WorkerOK(v)'
  <2>1. /\ pc'[v] = pc[v] /\ cur'[v] = cur[v] /\ resp'[v] = resp[v]
        /\ WorkerOK(v)
    BY <1>1 DEF OthersStand, OutcomeInv
  <2>2. CASE pc[v] \in {"loop", "recovering"}
    BY <2>1, <2>2 DEF WorkerOK
  <2>3. CASE pc[v] \notin {"loop", "recovering"}
    <3>1. cur[v] \in Tasks \ {Held(w)}
      BY <2>3, OutcomeTypes
         DEF TypeInv, Hands, OutcomeInv, OwnInv, UniqueHolder, Held
    <3>2. SameFields(cur[v]) /\ SameDisk(cur[v])
      BY <1>1, <3>1
    <3> QED BY <1>1, <2>1, <3>2
            DEF WorkerOK, OnItsWay, Cleared, SameFields, SameDisk
  <2> QED BY <2>2, <2>3
<1>3. ASSUME NEW t \in Tasks \ {Held(w)} PROVE TaskOK(t)'
  <2>1. SameFields(t) /\ SameDisk(t) /\ TaskOK(t)
    BY <1>1 DEF OutcomeInv
  <2>2. t \in HeldTasks => t \in HeldTasks'
    BY <1>1 DEF OthersStand, HeldTasks, Held
  <2>3. EndingOK(t)' /\ BudgetOK(t)'
    BY <1>1, <2>1 DEF TaskOK, EndingOK, BudgetOK, SameFields, SameDisk
  <2>4. PlaceOK(t)'
    BY <1>1, <2>1, <2>2
       DEF TaskOK, PlaceOK, OnItsWay, Untouched, Cleared, SameFields, SameDisk
  <2> QED BY <2>3, <2>4 DEF TaskOK
<1> QED BY <1>2, <1>3

-----------------------------------------------------------------------------
(***************************************************************************)
(* How a worker lets go of its task.                                       *)
(***************************************************************************)

\* What a task's move between channels leaves alone.
Stay == UNCHANGED <<currentId, adding, taskMap, lost, requests>>

\* A callback is called once, and its task is as its ending says.
LEMMA CallBackOutcome ==
  ASSUME OutcomeInv, NEW w \in Workers, Busy(w), NEW t, t = Held(w),
         calls[t] = <<>>, NEW k \in {"success", "fail", "cancel"},
         CallBack(w, k), Stay,
         k = "success" =>
           /\ Delivered(t)' /\ header'[t]
           /\ status'[t] = "Success" /\ failReason'[t] = "NoFail",
         k = "fail" => status'[t] = "Fail" /\ failReason'[t] # "NoFail"
  PROVE  TaskOK(t)' /\ WorkerOK(w)'
<1>1. /\ t \in Tasks /\ t \in taskMap /\ t \in HeldTasks
      /\ t \in 1..currentId /\ t \notin adding
      /\ TaskOK(t) /\ WorkerOK(w)
  BY HeldTask
<1>2. /\ calls'[t] = <<k>>
      /\ pc'[w] = "callback"
      /\ ~resp'[w].done
      /\ UNCHANGED <<failTimes, channel, cur>>
  <2>1. calls'[t] = Append(<<>>, k)
    BY <1>1, OutcomeTypes DEF CallBack
  <2> QED BY <2>1, OutcomeTypes DEF CallBack, NoResponse
<1>3. HeldTasks' = HeldTasks
  BY <1>2 DEF HeldTasks
<1>4. EndingOK(t)'
  BY <1>2 DEF EndingOK, Endings
<1>5. BudgetOK(t)'
  BY <1>1, <1>2 DEF TaskOK, BudgetOK, Stay
<1>6. PlaceOK(t)'
  BY <1>1, <1>3, OutcomeTypes DEF PlaceOK, Stay
<1>7. WorkerOK(w)'
  <2>1. cur'[w] = t /\ channel'[t] = Home(w) /\ calls'[t] # <<>>
    BY <1>1, <1>2 DEF WorkerOK, Busy, Held
  <2> QED BY <1>2, <2>1 DEF WorkerOK
<1> QED BY <1>4, <1>5, <1>6, <1>7 DEF TaskOK

\* A task that goes to another channel is on its way again.
LEMMA HandOverOutcome ==
  ASSUME OutcomeInv, NEW w \in Workers, Busy(w), NEW t, t = Held(w),
         calls[t] = <<>>, NEW c \in Channels, HandOver(w, c), Stay,
         failReason'[t] = "NoFail", failTimes'[t] \in Nat,
         requests[t] <= failTimes'[t], failTimes'[t] <= RetryLimit[c]
  PROVE  TaskOK(t)' /\ WorkerOK(w)'
<1>0. <<>> # <<"success">> /\ <<>> # <<"fail">>
  OBVIOUS
<1>1. /\ t \in Tasks /\ t \in taskMap
      /\ t \in 1..currentId /\ t \notin adding
      /\ requests[t] \in Nat
  BY HeldTask, OutcomeTypes
<1>2. /\ calls' = calls
      /\ channel'[t] = c
      /\ pc'[w] = "loop"
      /\ ~resp'[w].done
  BY <1>1, OutcomeTypes DEF HandOver, PushTo, NoResponse
<1>3. EndingOK(t)'
  BY <1>0, <1>2 DEF EndingOK, Endings
<1>4. BudgetOK(t)'
  BY <1>1, <1>2 DEF BudgetOK, Stay
<1>5. PlaceOK(t)'
  BY <1>1, <1>2, OutcomeTypes DEF PlaceOK, OnItsWay, Stay
<1>6. WorkerOK(w)'
  BY <1>2 DEF WorkerOK
<1> QED BY <1>3, <1>4, <1>5, <1>6 DEF TaskOK

\* taskBreakOff spends one try of the budget, or ends the task.
LEMMA BreakOffOutcome ==
  ASSUME OutcomeInv, NEW w \in Workers, Busy(w), NEW t, t = Held(w),
         calls[t] = <<>>, NEW reason, reason # "NoFail",
         TaskBreakOff(w, reason), Stay
  PROVE  TaskOK(t)' /\ WorkerOK(w)'
<1>1. /\ t \in Tasks /\ BudgetOK(t)
      /\ channel[t] \in Channels
      /\ RetryLimit[channel[t]] \in Nat
      /\ failTimes[t] \in Nat
  BY HeldTask, OutcomeTypes, ConstantFacts DEF TaskOK
<1>2. CASE TaskFail(w, reason)
  <2>1. status'[t] = "Fail" /\ failReason'[t] # "NoFail" /\ CallBack(w, "fail")
    BY <1>1, <1>2, OutcomeTypes DEF TaskFail
  <2> QED BY <2>1, CallBackOutcome
<1>3. CASE ~RetriesExhausted(t) /\ TryAgain(w, "NoFail")
  <2>1. /\ failReason'[t] = "NoFail"
        /\ failTimes'[t] = failTimes[t] + 1
        /\ HandOver(w, channel[t])
    BY <1>1, <1>3, OutcomeTypes DEF TryAgain
  <2>2. /\ requests[t] <= failTimes'[t]
        /\ failTimes'[t] <= RetryLimit[channel[t]]
    BY <1>1, <1>3, <2>1 DEF BudgetOK, RetriesExhausted
  <2>3. failTimes'[t] \in Nat
    BY <1>1, <2>1
  <2> QED BY <1>1, <2>1, <2>2, <2>3, HandOverOutcome
<1> QED BY <1>2, <1>3 DEF TaskBreakOff

\* taskFail and taskCancel end the task.
LEMMA EndOutcome ==
  ASSUME OutcomeInv, NEW w \in Workers, Busy(w), NEW t, t = Held(w),
         calls[t] = <<>>, Stay,
         TaskCancel(w) \/ \E reason : reason # "NoFail" /\ TaskFail(w, reason)
  PROVE  TaskOK(t)' /\ WorkerOK(w)'
<1>1. t \in Tasks
  BY HeldTask
<1>2. ASSUME NEW reason, reason # "NoFail", TaskFail(w, reason)
      PROVE  TaskOK(t)' /\ WorkerOK(w)'
  <2>1. status'[t] = "Fail" /\ failReason'[t] # "NoFail" /\ CallBack(w, "fail")
    BY <1>1, <1>2, OutcomeTypes DEF TaskFail
  <2> QED BY <2>1, CallBackOutcome
<1>3. CASE TaskCancel(w)
  BY <1>3, CallBackOutcome DEF TaskCancel
<1> QED BY <1>2, <1>3

-----------------------------------------------------------------------------
(***************************************************************************)
(* The steps of a worker, for the worker and the task t in its hands.      *)
(***************************************************************************)

\* The worker ends its task, or gives it back to a channel.
LEMMA LettingGoOutcome ==
  ASSUME OutcomeInv, NEW w \in Workers, NEW t, t = Held(w),
         \/ NewRequestFails(w)
         \/ CancelledBeforeRequest(w)
         \/ TransferFailed(w)
         \/ LengthOverLimit(w)
         \/ SaveHeaderFails(w)
         \/ MonitorDone(w)
         \/ Dispatch(w) /\ (TaskCancel(w) \/ TaskFail(w, "Expire"))
         \/ Classify(w)
  PROVE  TaskOK(t)' /\ WorkerOK(w)'
<1>1. /\ Busy(w)
      /\ pc[w] \in {"popped", "classify", "start", "wait", "monitor"}
  BY DEF NewRequestFails, CancelledBeforeRequest, TransferFailed,
         LengthOverLimit, SaveHeaderFails, MonitorDone, Dispatch, Classify,
         Waited, Busy
<1>2. WorkerOK(w) /\ TaskOK(t) /\ t \in Tasks
  BY <1>1, HeldTask
<1>3. calls[t] = <<>> /\ channel[t] = Home(w) /\ failReason[t] = "NoFail"
  BY <1>1, <1>2 DEF WorkerOK, OnItsWay, TaskOK, EndingOK, Held
<1>4. Stay
  BY DEF NewRequestFails, CancelledBeforeRequest, TransferFailed,
         LengthOverLimit, SaveHeaderFails, MonitorDone, Dispatch, Classify,
         Stay, otherVars, callerVars
<1>5. CASE NewRequestFails(w) \/ TransferFailed(w) \/ SaveHeaderFails(w)
  <2>1. \E reason : reason # "NoFail" /\ TaskBreakOff(w, reason)
    BY <1>5 DEF NewRequestFails, TransferFailed, SaveHeaderFails
  <2> QED BY <1>1, <1>3, <1>4, <2>1, BreakOffOutcome
<1>6. CASE \/ CancelledBeforeRequest(w)
           \/ LengthOverLimit(w)
           \/ Dispatch(w) /\ (TaskCancel(w) \/ TaskFail(w, "Expire"))
  <2>1. TaskCancel(w) \/ \E reason : reason # "NoFail" /\ TaskFail(w, reason)
    BY <1>6 DEF CancelledBeforeRequest, LengthOverLimit
  <2> QED BY <1>1, <1>3, <1>4, <2>1, EndOutcome
<1>7. CASE MonitorDone(w)
  <2>1. /\ pc[w] = "monitor" /\ resp[w].err = "nil"
        /\ Delivered(t) /\ header[t]
    BY <1>2, <1>7 DEF MonitorDone, OutcomeInv, TransferInv, Settled, WorkerOK,
                      Held
  <2>2. TaskBreakOff(w, "Other") \/ TaskSuccess(w)
    BY <1>7, <2>1 DEF MonitorDone
  <2>3. CASE TaskSuccess(w)
    <3>1. /\ status'[t] = "Success" /\ failReason'[t] = "NoFail"
          /\ CallBack(w, "success")
      BY <1>2, <1>3, <2>3, OutcomeTypes DEF TaskSuccess
    <3>2. Delivered(t)' /\ header'[t]
      BY <1>7, <2>1 DEF MonitorDone, otherVars, callerVars, diskVars
    <3> QED BY <1>1, <1>3, <1>4, <3>1, <3>2, CallBackOutcome
  <2> QED BY <1>1, <1>3, <1>4, <2>2, <2>3, BreakOffOutcome
<1>8. CASE Classify(w)
  <2>1. CASE TaskBreakOff(w, "RequestError")
    BY <1>1, <1>3, <1>4, <2>1, BreakOffOutcome
  <2>2. ASSUME NEW c \in {"random", "unpauseFast"}, HandOver(w, c),
               UNCHANGED <<failReason, failTimes>>
        PROVE  TaskOK(t)' /\ WorkerOK(w)'
    <3>1. pc[w] = "classify"
      BY <1>8 DEF Classify
    <3>2. /\ requests[t] <= failTimes[t]
          /\ failTimes[t] <= RetryLimit["preHandle"]
      BY <1>2, <1>3, <3>1 DEF WorkerOK, OnItsWay, TaskOK, BudgetOK, Held
    <3>3. /\ c \in Channels
          /\ RetryLimit["preHandle"] <= RetryLimit[c]
          /\ RetryLimit["preHandle"] \in Nat /\ RetryLimit[c] \in Nat
      BY ConstantsAssumption DEF Channels
    <3>4. failTimes'[t] \in Nat /\ failTimes'[t] <= RetryLimit[c]
      BY <1>2, <2>2, <3>2, <3>3, OutcomeTypes
    <3> QED BY <1>1, <1>3, <1>4, <2>2, <3>2, <3>3, <3>4, HandOverOutcome
  <2> QED BY <1>8, <2>1, <2>2 DEF Classify
<1> QED BY <1>5, <1>6, <1>7, <1>8

\* A task that waited in a list is on its way when it is popped.
LEMMA PopOutcome ==
  ASSUME OutcomeInv, NEW w \in Workers, Pop(w)
  PROVE  WorkerOK(w)'
<1> DEFINE h == Home(w)
<1>1. PICK i \in PopPositions(h) : cur' = [cur EXCEPT ![w] = idle[h][i]]
  BY DEF Pop
<1> DEFINE t == idle[h][i]
<1>2. /\ h \in Channels
      /\ idle[h] \in Seq(Tasks)
      /\ i \in 1..Len(idle[h])
  BY <1>1, ConstantFacts, OutcomeTypes, QueuedElements
     DEF PopPositions, RandomPositions, QueuePositions
<1>3. t \in Waiting(h) /\ t \in Tasks
  BY <1>2, ToSetElements DEF Waiting
<1>4. t \in Queued /\ channel[t] = h
  BY <1>2, <1>3, OutcomeTypes, QueuedElements DEF OutcomeInv, OwnInv, ListsOK
<1>5. OnItsWay(t)
  <2>1. t \in taskMap \ (HeldTasks \cup lost)
    BY <1>4 DEF OutcomeInv, OwnInv, Accounted, Apart
  <2> QED BY <1>3, <2>1 DEF OutcomeInv, TaskOK, PlaceOK
<1>6. /\ pc'[w] = "popped" /\ cur'[w] = t
      /\ ~resp'[w].done
      /\ UNCHANGED <<channel, calls, requests, failTimes>>
  BY <1>1, OutcomeTypes DEF Pop, GoTo, OutcomeInv, WorkerOK
<1> HIDE DEF t, h
<1> QED BY <1>4, <1>5, <1>6 DEF WorkerOK, OnItsWay, h

\* A worker that goes on with its task, before and after client.Do.
LEMMA GoingOnOutcome ==
  ASSUME OutcomeInv, NEW w \in Workers, NEW t, t = Held(w),
         \/ Dispatch(w) /\ ~TaskCancel(w) /\ ~TaskFail(w, "Expire")
         \/ DoFails(w) \/ DoFindsWholeFile(w) \/ DoStartsTransfer(w)
         \/ SaveHeader(w)
         \/ MonitorTick(w)
  PROVE  TaskOK(t)' /\ WorkerOK(w)'
<1>1. /\ t \in Tasks /\ TaskOK(t) /\ WorkerOK(w)
      /\ t \in taskMap /\ t \in 1..currentId
      /\ t \notin adding /\ t \in HeldTasks
  <2>1. Busy(w)
    BY DEF Dispatch, DoFails, DoFindsWholeFile, DoStartsTransfer, Requesting,
           SaveHeader, Waited, MonitorTick, Busy
  <2> QED BY <2>1, HeldTask
<1>2. CASE Dispatch(w) /\ ~TaskCancel(w) /\ ~TaskFail(w, "Expire")
  <2>1. /\ GoTo(w, IF Home(w) = "preHandle" THEN "classify" ELSE "start")
        /\ UNCHANGED <<taskVars, cur, resp, otherVars>>
        /\ pc[w] = "popped"
    BY <1>2 DEF Dispatch
  <2>2. WorkerOK(w)'
    BY <1>1, <2>1, OutcomeTypes
       DEF GoTo, WorkerOK, OnItsWay, taskVars, otherVars
  <2>3. TaskOK(t)'
    BY <1>1, <2>1
       DEF TaskOK, EndingOK, BudgetOK, PlaceOK, Untouched, OnItsWay, Cleared,
           HeldTasks, taskVars, otherVars, callerVars, diskVars
  <2> QED BY <2>2, <2>3
<1>3. CASE DoFails(w) \/ DoFindsWholeFile(w) \/ DoStartsTransfer(w)
  <2>1. /\ pc[w] = "start" /\ Request(w)
        /\ UNCHANGED <<callerVars, taskVars, cur, header, lost>>
    BY <1>3
       DEF DoFails, DoFindsWholeFile, DoStartsTransfer, Requesting, diskVars
  <2>2. OnItsWay(t) /\ channel[t] = Home(w) /\ cur[w] = t
    BY <1>1, <2>1 DEF WorkerOK, Held
  <2>3. /\ requests'[t] = requests[t] + 1
        /\ pc'[w] = "wait"
    BY <1>1, <2>1, OutcomeTypes DEF Request, GoTo
  <2>4. resp'[w].done /\ resp'[w].err = "nil" => Delivered(t)'
    <3>1. CASE DoFails(w)
      <4>1. PICK e \in Errors \ {"nil"} :
              resp' = [resp EXCEPT ![w] =
                         [NoResponse EXCEPT !.done = TRUE, !.err = e]]
        BY <3>1 DEF DoFails
      <4>2. resp'[w].err = e
        BY <4>1, OutcomeTypes DEF NoResponse
      <4> QED BY <4>2
    <3>2. CASE DoFindsWholeFile(w)
      BY <3>2 DEF DoFindsWholeFile, callerVars, diskVars, Held
    <3>3. CASE DoStartsTransfer(w)
      BY <3>3, OutcomeTypes DEF DoStartsTransfer, NoResponse
    <3> QED BY <1>3, <3>1, <3>2, <3>3
  <2>5. WorkerOK(w)'
    BY <2>1, <2>2, <2>3, <2>4 DEF WorkerOK, OnItsWay, taskVars
  <2>6. EndingOK(t)'
    BY <1>1, <2>1, <2>2 DEF TaskOK, EndingOK, OnItsWay, Endings, taskVars
  <2>7. BudgetOK(t)'
    BY <1>1, <2>1, <2>2, <2>3, OutcomeTypes
       DEF TaskOK, BudgetOK, OnItsWay, taskVars
  <2>8. PlaceOK(t)'
    BY <1>1, <2>1, OutcomeTypes DEF PlaceOK, HeldTasks, callerVars
  <2> QED BY <2>5, <2>6, <2>7, <2>8 DEF TaskOK
<1>4. CASE SaveHeader(w)
  <2>1. /\ pc[w] = "wait" /\ resp[w].done /\ resp[w].err = "nil"
        /\ pc'[w] = "monitor" /\ header'[t]
        /\ UNCHANGED <<callerVars, failReason, failTimes, channel, calls, cur,
                       file, requests, lost>>
    BY <1>1, <1>4, OutcomeTypes
       DEF SaveHeader, Waited, ErrReturns, IsComplete, GoTo
  <2>2. calls[t] = <<>> /\ Delivered(t) /\ channel[t] = Home(w)
    BY <1>1, <2>1 DEF WorkerOK, Held
  <2>3. WorkerOK(w)'
    BY <2>1, <2>2 DEF WorkerOK, Held, callerVars
  <2>4. EndingOK(t)' /\ BudgetOK(t)'
    BY <1>1, <2>1, <2>2 DEF TaskOK, EndingOK, BudgetOK
  <2>5. PlaceOK(t)'
    BY <1>1, <2>1, OutcomeTypes DEF PlaceOK, HeldTasks, callerVars
  <2> QED BY <2>3, <2>4, <2>5 DEF TaskOK
<1>5. CASE MonitorTick(w)
  <2>1. resp[w].done
    BY <1>5 DEF MonitorTick, OutcomeInv, TransferInv, Settled
  <2>2. UNCHANGED <<taskVars, workerVars, otherVars>>
    BY <1>5, <2>1 DEF MonitorTick, IsComplete
  <2>3. WorkerOK(w)'
    BY <1>1, <2>2
       DEF WorkerOK, OnItsWay, Cleared, taskVars, workerVars, otherVars,
           callerVars, diskVars
  <2>4. TaskOK(t)'
    BY <1>1, <2>2
       DEF TaskOK, EndingOK, BudgetOK, PlaceOK, Untouched, OnItsWay, Cleared,
           HeldTasks, taskVars, workerVars, otherVars, callerVars, diskVars
  <2> QED BY <2>3, <2>4
<1> QED BY <1>2, <1>3, <1>4, <1>5

\* The end of the task's time with a worker, and of the worker's with the task.
LEMMA PartingOutcome ==
  ASSUME OutcomeInv, NEW w \in Workers, NEW t, t = Held(w),
         CallbackReturns(w) \/ Forget(w) \/ Restart(w) \/ Panic(w)
  PROVE  /\ WorkerOK(w)'
         /\ t \in Tasks => TaskOK(t)'
<1>1. WorkerOK(w) /\ (t \in Tasks => TaskOK(t))
  BY DEF OutcomeInv
<1>2. CASE CallbackReturns(w)
  <2>1. /\ t \in Tasks /\ t \in taskMap /\ t \in 1..currentId
        /\ t \notin adding /\ t \in HeldTasks
    BY <1>2, HeldTask DEF CallbackReturns, Busy
  <2>2. /\ calls[t] # <<>> /\ channel[t] = Home(w) /\ cur[w] = t
        /\ ~resp[w].done
    BY <1>1, <1>2 DEF CallbackReturns, WorkerOK, Held
  <2>3. /\ pc'[w] = "forget"
        /\ UNCHANGED <<callerVars, taskVars, cur, resp, requests, lost>>
    BY <1>2, OutcomeTypes DEF CallbackReturns, GoTo
  <2>4. IF calls[t] = <<"success">> THEN UNCHANGED diskVars
        ELSE Cleared(t)'
    <3>1. calls[t] = <<"success">> => Last(calls[t]) = "success"
      BY DEF Last
    <3>2. calls[t] # <<"success">> => Last(calls[t]) # "success"
      BY <1>1, <2>1, <2>2 DEF TaskOK, EndingOK, Endings, Last
    <3> QED BY <1>2, <2>1, <3>1, <3>2, OutcomeTypes
            DEF CallbackReturns, Cleared
  <2>5. WorkerOK(w)'
    BY <2>2, <2>3, <2>4 DEF WorkerOK, Cleared, taskVars
  <2>6. EndingOK(t)' /\ BudgetOK(t)'
    BY <1>1, <2>1, <2>2, <2>3, <2>4
       DEF TaskOK, EndingOK, BudgetOK, callerVars, taskVars, diskVars
  <2>7. PlaceOK(t)'
    BY <2>1, <2>3, OutcomeTypes DEF PlaceOK, HeldTasks, callerVars
  <2> QED BY <2>1, <2>5, <2>6, <2>7 DEF TaskOK
<1>3. CASE Forget(w)
  <2>1. /\ t \in Tasks /\ t \in 1..currentId /\ t \notin adding
    BY <1>3, HeldTask DEF Forget, Busy
  <2>2. /\ calls[t] # <<>> /\ (calls[t] # <<"success">> => Cleared(t))
        /\ ~resp[w].done
    BY <1>1, <1>3 DEF Forget, WorkerOK, Held
  <2>3. /\ pc'[w] = "loop"
        /\ t \notin taskMap'
        /\ UNCHANGED <<currentId, param, adding, taskVars, resp, diskVars,
                       requests>>
    BY <1>3, OutcomeTypes DEF Forget, GoTo
  <2>4. WorkerOK(w)'
    BY <2>2, <2>3 DEF WorkerOK
  <2>5. EndingOK(t)' /\ BudgetOK(t)'
    BY <1>1, <2>1, <2>3 DEF TaskOK, EndingOK, BudgetOK, taskVars, diskVars
  <2>6. PlaceOK(t)'
    BY <2>1, <2>2, <2>3, OutcomeTypes DEF PlaceOK, Cleared, taskVars, diskVars
  <2> QED BY <2>4, <2>5, <2>6 DEF TaskOK
<1>4. CASE Restart(w)
  <2>1. t \notin Tasks
    BY <1>4, OutcomeTypes, ConstantFacts DEF Restart, TypeInv, Hands, Held
  <2>2. pc'[w] = "loop" /\ resp' = resp /\ ~resp[w].done
    BY <1>1, <1>4, OutcomeTypes DEF Restart, GoTo, WorkerOK
  <2>3. WorkerOK(w)'
    BY <2>2 DEF WorkerOK
  <2> QED BY <2>1, <2>3
<1>5. CASE Panic(w)
  <2>1. t \in Tasks /\ t \in taskMap /\ t \in 1..currentId /\ t \notin adding
    BY <1>5, HeldTask DEF Panic, Busy
  <2>2. /\ pc'[w] = "recovering" /\ ~resp'[w].done
        /\ t \in lost'
        /\ UNCHANGED <<callerVars, taskVars, diskVars, requests>>
    BY <1>5, OutcomeTypes DEF Panic, GoTo, NoResponse
  <2>3. WorkerOK(w)'
    BY <2>2 DEF WorkerOK
  <2>4. EndingOK(t)' /\ BudgetOK(t)'
    BY <1>1, <2>1, <2>2
       DEF TaskOK, EndingOK, BudgetOK, callerVars, taskVars, diskVars
  <2>5. PlaceOK(t)'
    BY <2>1, <2>2, OutcomeTypes DEF PlaceOK, callerVars
  <2> QED BY <2>3, <2>4, <2>5 DEF TaskOK
<1> QED BY <1>2, <1>3, <1>4, <1>5

\* Every step of a worker, and a panic, keep the invariant.
LEMMA WorkerStepOutcome ==
  ASSUME OutcomeInv, NEW w \in Workers, WorkerStep(w) \/ Panic(w)
  PROVE  /\ \A t \in Tasks : TaskOK(t)'
         /\ \A v \in Workers : WorkerOK(v)'
<1> SUFFICES ASSUME NEW t, t = Held(w)
             PROVE  WorkerOK(w)' /\ (t \in Tasks => TaskOK(t)')
  BY Elsewhere
<1>1. CASE Pop(w)
  <2>1. t \notin Tasks
    BY <1>1, OutcomeTypes, ConstantFacts DEF Pop, TypeInv, Hands, Held
  <2> QED BY <1>1, <2>1, PopOutcome
<1> QED BY <1>1, LettingGoOutcome, GoingOnOutcome, PartingOutcome
        DEF WorkerStep, StartDownload

-----------------------------------------------------------------------------
\* A step that changes no more than the clock, the cancellations, or a task
\* nobody holds keeps what is known of the workers.
LEMMA WorkersStand ==
  ASSUME OutcomeInv, UNCHANGED <<param, pc, cur, resp, diskVars, requests>>,
         \A t \in HeldTasks :
           /\ calls'[t] = calls[t] /\ failTimes'[t] = failTimes[t]
           /\ channel'[t] = channel[t]
  PROVE  \A w \in Workers : WorkerOK(w)'
<1> SUFFICES ASSUME NEW w \in Workers PROVE WorkerOK(w)'
  OBVIOUS
<1>1. WorkerOK(w)
  BY DEF OutcomeInv
<1>2. CASE Busy(w)
  <2>1. cur[w] \in HeldTasks
    BY <1>2, HeldTask DEF Held
  <2> QED BY <1>1, <2>1 DEF WorkerOK, OnItsWay, Cleared, diskVars
<1>3. CASE ~Busy(w)
  BY <1>1, <1>3 DEF WorkerOK, Busy
<1> QED BY <1>2, <1>3

\* addDownloadTask: a fresh task starts with a clean record.
LEMMA AddTaskOutcome ==
  ASSUME OutcomeInv, AddTask
  PROVE  /\ \A t \in Tasks : TaskOK(t)'
         /\ \A w \in Workers : WorkerOK(w)'
<1>1. /\ currentId' = currentId + 1 /\ currentId \in Nat
      /\ taskMap' = taskMap \cup {currentId'}
      /\ adding' = adding \cup {currentId'}
      /\ UNCHANGED <<param, status, failReason, failTimes, channel, calls, pc,
                     cur, resp, file, header, requests, lost>>
  BY OutcomeTypes DEF AddTask, workerVars, diskVars
<1>2. \A w \in Workers : WorkerOK(w)'
  BY <1>1, WorkersStand DEF diskVars
<1>3. ASSUME NEW t \in Tasks PROVE TaskOK(t)'
  <2>1. TaskOK(t) /\ t \in Nat /\ requests[t] \in Nat
    BY OutcomeTypes DEF OutcomeInv
  <2>2. EndingOK(t)' /\ BudgetOK(t)'
    BY <1>1, <2>1 DEF TaskOK, EndingOK, BudgetOK
  <2>3. PlaceOK(t)'
    BY <1>1, <2>1
       DEF TaskOK, PlaceOK, Untouched, OnItsWay, Cleared, HeldTasks
  <2> QED BY <2>2, <2>3 DEF TaskOK
<1> QED BY <1>2, <1>3

\* The task enters its first channel with its whole budget.
LEMMA EnqueueOutcome ==
  ASSUME OutcomeInv, NEW u \in Tasks, Enqueue(u)
  PROVE  /\ \A t \in Tasks : TaskOK(t)'
         /\ \A w \in Workers : WorkerOK(w)'
<1>1. /\ u \in adding /\ adding' = adding \ {u}
      /\ channel' = [channel EXCEPT ![u] = FirstChannel(u)]
      /\ UNCHANGED <<currentId, param, taskMap, status, failReason, failTimes,
                     calls, pc, cur, resp, file, header, requests, lost>>
  BY DEF Enqueue, PushTo, workerVars, diskVars
<1>2. \A t \in Tasks \ {u} : channel'[t] = channel[t]
  BY <1>1, OutcomeTypes
<1>3. u \notin HeldTasks /\ HeldTasks \subseteq Tasks
  BY <1>1, OutcomeTypes DEF OutcomeInv, OwnInv, Apart, HeldTasks
<1>4. \A w \in Workers : WorkerOK(w)'
  BY <1>1, <1>2, <1>3, WorkersStand DEF diskVars
<1>5. ASSUME NEW t \in Tasks PROVE TaskOK(t)'
  <2>1. TaskOK(t) /\ t \in Nat
    BY OutcomeTypes DEF OutcomeInv
  <2>2. EndingOK(t)'
    BY <1>1, <2>1 DEF TaskOK, EndingOK
  <2>3. PlaceOK(t)'
    BY <1>1, <2>1
       DEF TaskOK, PlaceOK, Untouched, OnItsWay, Cleared, HeldTasks
  <2>4. BudgetOK(t)'
    <3>1. CASE t = u
      <4>1. failTimes[u] = 0 /\ requests[u] = 0
        BY <1>1, <2>1, <3>1 DEF TaskOK, PlaceOK, Untouched
      <4>2. FirstChannel(u) \in Channels
        BY DEF FirstChannel, Channels
      <4>3. RetryLimit[FirstChannel(u)] \in Nat
        BY <4>2, ConstantFacts
      <4> QED BY <1>1, <3>1, <4>1, <4>3, OutcomeTypes DEF BudgetOK
    <3>2. CASE t # u
      BY <1>1, <1>2, <2>1, <3>2 DEF TaskOK, BudgetOK
    <3> QED BY <3>1, <3>2
  <2> QED BY <2>2, <2>3, <2>4 DEF TaskOK
<1> QED BY <1>4, <1>5

\* A transfer ends while its worker waits; without an error it leaves a file the
\* worker may deliver, which is whole if the origin is honest.
LEMMA TransferEndsOutcome ==
  ASSUME OutcomeInv, NEW w \in Workers, NEW u \in Tasks, TransferEnds(w, u)
  PROVE  /\ \A t \in Tasks : TaskOK(t)'
         /\ \A v \in Workers : WorkerOK(v)'
<1>1. /\ pc[w] = "wait" /\ cur[w] = u
      /\ WorkerOK(w) /\ TaskOK(u)
      /\ u \in taskMap /\ u \notin adding /\ u \in 1..currentId
      /\ u \in HeldTasks
  <2>1. pc[w] = "wait" /\ cur[w] = u
    BY DEF TransferEnds, OutcomeInv, TransferInv, NoOrphanTransfer
  <2> QED BY <2>1, HeldTask DEF Busy, Held
<1>2. /\ UNCHANGED <<callerVars, taskVars, pc, cur, header, requests, lost>>
      /\ \A v \in Workers \ {w} : resp'[v] = resp[v]
      /\ \A t \in Tasks \ {u} : file'[t] = file[t]
      /\ param' = param
      /\ resp'[w].err = "nil" => Delivered(u)'
  BY OutcomeTypes DEF TransferEnds, callerVars
<1>3. calls[u] = <<>>
  BY <1>1 DEF WorkerOK
<1>4. ASSUME NEW v \in Workers PROVE WorkerOK(v)'
  <2>1. WorkerOK(v)
    BY DEF OutcomeInv
  <2>2. CASE v = w
    BY <1>1, <1>2, <2>1, <2>2 DEF WorkerOK, taskVars
  <2>3. CASE v # w /\ Busy(v)
    <3>1. cur[v] \in Tasks \ {u}
      BY <1>1, <2>3, HeldTask, ConstantFacts
         DEF OutcomeInv, OwnInv, UniqueHolder, Held
    <3> QED BY <1>2, <2>1, <2>3, <3>1
            DEF WorkerOK, OnItsWay, Cleared, taskVars
  <2>4. CASE v # w /\ ~Busy(v)
    BY <1>2, <2>1, <2>4 DEF WorkerOK, Busy
  <2> QED BY <2>2, <2>3, <2>4
<1>5. ASSUME NEW t \in Tasks PROVE TaskOK(t)'
  <2>1. TaskOK(t)
    BY DEF OutcomeInv
  <2>2. EndingOK(t)' /\ BudgetOK(t)'
    BY <1>2, <1>3, <2>1 DEF TaskOK, EndingOK, BudgetOK, taskVars
  <2>3. PlaceOK(t)'
    BY <1>1, <1>2, <2>1, OutcomeTypes
       DEF TaskOK, PlaceOK, Untouched, OnItsWay, Cleared, HeldTasks, taskVars,
           callerVars
  <2> QED BY <2>2, <2>3 DEF TaskOK
<1> QED BY <1>4, <1>5

\* Every step keeps the invariant.
LEMMA NextOutcome == OutcomeInv /\ [Next]_vars => OutcomeInv'
<1> SUFFICES ASSUME OutcomeInv, [Next]_vars PROVE OutcomeInv'
  OBVIOUS
<1>1. TransferInv' /\ OwnInv'
  BY NextTransfer, NextOwn DEF OutcomeInv, TransferInv
<1>2. CASE \/ \E t \in Tasks : CancelDownload(t)
           \/ Tick
           \/ UNCHANGED vars
  <2>1. /\ UNCHANGED <<currentId, param, adding, taskMap, taskVars, pc, cur,
                       resp, file, header, requests, lost>>
    BY <1>2
       DEF CancelDownload, Tick, vars, otherVars, callerVars, workerVars,
           diskVars
  <2>2. \A w \in Workers : WorkerOK(w)'
    BY <2>1, WorkersStand DEF taskVars, diskVars
  <2>3. \A t \in Tasks : TaskOK(t)'
    BY <2>1
       DEF OutcomeInv, TaskOK, EndingOK, BudgetOK, PlaceOK, Untouched,
           OnItsWay, Cleared, HeldTasks, taskVars
  <2> QED BY <1>1, <2>2, <2>3 DEF OutcomeInv
<1>3. CASE AddTask
  BY <1>1, <1>3, AddTaskOutcome DEF OutcomeInv
<1>4. ASSUME NEW t \in Tasks, Enqueue(t) PROVE OutcomeInv'
  BY <1>1, <1>4, EnqueueOutcome DEF OutcomeInv
<1>5. ASSUME NEW w \in Workers, WorkerStep(w) \/ Panic(w) PROVE OutcomeInv'
  BY <1>1, <1>5, WorkerStepOutcome DEF OutcomeInv
<1>6. ASSUME NEW w \in Workers, NEW t \in Tasks, TransferEnds(w, t)
      PROVE  OutcomeInv'
  BY <1>1, <1>6, TransferEndsOutcome DEF OutcomeInv
<1> QED BY <1>2, <1>3, <1>4, <1>5, <1>6 DEF Next, Quiescent

\* In the initial states no task has ended, or begun.
LEMMA InitOutcome == Init => OutcomeInv
<1> SUFFICES ASSUME Init PROVE OutcomeInv
  OBVIOUS
<1>1. TransferInv /\ OwnInv
  BY InitTransfer, InitOwn
<1>2. RetryLimit["preHandle"] \in Nat
  BY ConstantFacts DEF Channels
<1>3. \A t \in Tasks : TaskOK(t)
  BY <1>2, ConstantFacts
     DEF Init, TaskOK, EndingOK, BudgetOK, PlaceOK, Untouched, OnItsWay,
         Endings, Tasks
<1>4. \A w \in Workers : WorkerOK(w)
  BY DEF Init, WorkerOK, NoResponse
<1> QED BY <1>1, <1>3, <1>4 DEF OutcomeInv

LEMMA OutcomeInvHolds == Spec => []OutcomeInv
BY InitOutcome, NextOutcome, PTL DEF Spec

\* A task whose success was reported has its file, the whole one if its origin
\* is honest, and its header file, and carries no failure of an earlier attempt.
THEOREM SuccessIsDelivered == Spec => []SuccessDelivers
<1>1. OutcomeInv => SuccessDelivers
  BY DEF OutcomeInv, TaskOK, EndingOK, SuccessDelivers
<1> QED BY <1>1, OutcomeInvHolds, PTL

\* A task whose failure was reported says why.
THEOREM FailureIsExplained == Spec => []FailureHasReason
<1>1. OutcomeInv => FailureHasReason
  BY DEF OutcomeInv, TaskOK, EndingOK, FailureHasReason
<1> QED BY <1>1, OutcomeInvHolds, PTL

\* A task that is forgotten without success leaves neither of its files.
THEOREM NothingIsLeftBehind == Spec => []NoResidue
<1>1. OutcomeInv => NoResidue
  <2> SUFFICES ASSUME OutcomeInv, NEW t \in 1..currentId, t \notin taskMap,
                      calls[t] # <<"success">>
               PROVE  Cleared(t)
    BY DEF NoResidue, Cleared
  <2>1. t \in Tasks /\ t <= currentId
    BY ConstantFacts
       DEF OutcomeInv, TransferInv, TypeInv, TypeOK, CallerTypeOK, Tasks
  <2> QED BY <2>1 DEF OutcomeInv, TaskOK, PlaceOK
<1> QED BY <1>1, OutcomeInvHolds, PTL

\* No task is tried, and no origin asked, more often than the channel allows.
THEOREM RetriesAreBounded == Spec => []RetryBudget
<1>1. OutcomeInv => RetryBudget
  <2> SUFFICES ASSUME OutcomeInv, NEW t \in Tasks
               PROVE  /\ failTimes[t] <= RetryLimit[channel[t]]
                      /\ requests[t] <= RetryLimit[channel[t]] + 1
    BY DEF RetryBudget
  <2>1. BudgetOK(t)
    BY DEF OutcomeInv, TaskOK
  <2>2. /\ failTimes[t] \in Nat /\ requests[t] \in Nat
        /\ RetryLimit[channel[t]] \in Nat
    BY OutcomeTypes, ConstantFacts
  <2> QED BY <2>1, <2>2 DEF BudgetOK
<1> QED BY <1>1, OutcomeInvHolds, PTL

-----------------------------------------------------------------------------
(***************************************************************************)
(* The life of a task as TaskLifecycle describes it, and cancellation.     *)
(***************************************************************************)

CallbackKinds == {"success", "fail", "cancel"}

\* Worker w calls back for its task: for the first time, onCancel only when the
\* task was cancelled, and onSuccess only from the monitor loop.
CallsBack(w, k) ==
  /\ Busy(w)
  /\ calls[Held(w)] = <<>>
  /\ calls' = [calls EXCEPT ![Held(w)] = <<k>>]
  /\ k = "cancel" => cancelFlag[Held(w)]
  /\ k = "success" => pc[w] = "monitor"
  /\ UNCHANGED <<callerVars, cur>>

\* The only step of a worker that changes what was called is a callback.
LEMMA CallbacksOnly ==
  ASSUME OutcomeInv, NEW w \in Workers, WorkerStep(w) \/ Panic(w)
  PROVE  calls' = calls \/ \E k \in CallbackKinds : CallsBack(w, k)
<1> DEFINE t == Held(w)
<1>1. CASE \/ Pop(w) \/ DoFails(w) \/ DoFindsWholeFile(w) \/ DoStartsTransfer(w)
           \/ SaveHeader(w) \/ CallbackReturns(w) \/ Forget(w) \/ Restart(w)
           \/ Panic(w)
  BY <1>1
     DEF Pop, DoFails, DoFindsWholeFile, DoStartsTransfer, SaveHeader,
         CallbackReturns, Forget, Restart, Panic, taskVars
<1>2. ASSUME Busy(w), calls[t] = <<>>, UNCHANGED callerVars,
             NEW k \in CallbackKinds, CallBack(w, k),
             k = "cancel" => cancelFlag[t], k = "success" => pc[w] = "monitor"
      PROVE  CallsBack(w, k)
  <2>1. calls' = [calls EXCEPT ![t] = Append(calls[t], k)] /\ cur' = cur
    BY <1>2 DEF CallBack
  <2>2. Append(calls[t], k) = <<k>>
    BY <1>2
  <2> QED BY <1>2, <2>1, <2>2 DEF CallsBack
<1>3. ASSUME Busy(w), calls[t] = <<>>, UNCHANGED callerVars, NEW reason,
             TaskFail(w, reason)
      PROVE  \E k \in CallbackKinds : CallsBack(w, k)
  <2>1. CallBack(w, "fail")
    BY <1>3 DEF TaskFail
  <2> QED BY <1>2, <1>3, <2>1 DEF CallbackKinds
<1>4. ASSUME Busy(w), calls[t] = <<>>, UNCHANGED callerVars, NEW reason,
             TaskBreakOff(w, reason)
      PROVE  calls' = calls \/ \E k \in CallbackKinds : CallsBack(w, k)
  BY <1>3, <1>4 DEF TaskBreakOff, TryAgain, HandOver
<1>5. ASSUME Busy(w), calls[t] = <<>>, UNCHANGED callerVars, cancelFlag[t],
             TaskCancel(w)
      PROVE  \E k \in CallbackKinds : CallsBack(w, k)
  BY <1>2, <1>5 DEF TaskCancel, CallbackKinds
<1> HIDE DEF t
<1>6. CASE \/ NewRequestFails(w) \/ CancelledBeforeRequest(w)
           \/ TransferFailed(w) \/ LengthOverLimit(w) \/ SaveHeaderFails(w)
           \/ MonitorDone(w) \/ MonitorTick(w) \/ Dispatch(w) \/ Classify(w)
  <2>1. /\ Busy(w) /\ UNCHANGED callerVars
        /\ pc[w] \in {"popped", "classify", "start", "wait", "monitor"}
    BY <1>6
       DEF NewRequestFails, CancelledBeforeRequest, TransferFailed,
           LengthOverLimit, SaveHeaderFails, MonitorDone, MonitorTick,
           Dispatch, Classify, Waited, Busy, otherVars
  <2>2. calls[t] = <<>>
    BY <2>1, HeldTask DEF WorkerOK, OnItsWay, Held, t
  <2>3. CASE NewRequestFails(w) \/ TransferFailed(w) \/ SaveHeaderFails(w)
    BY <1>4, <2>1, <2>2, <2>3
       DEF NewRequestFails, TransferFailed, SaveHeaderFails
  <2>4. CASE CancelledBeforeRequest(w) \/ LengthOverLimit(w)
    BY <1>3, <1>5, <2>1, <2>2, <2>4
       DEF CancelledBeforeRequest, LengthOverLimit, t
  <2>5. CASE MonitorDone(w)
    <3>1. \/ \E reason : TaskFail(w, reason) \/ TaskBreakOff(w, reason)
          \/ TaskSuccess(w) /\ pc[w] = "monitor"
      BY <2>5 DEF MonitorDone
    <3>2. TaskSuccess(w) /\ pc[w] = "monitor" => CallsBack(w, "success")
      BY <1>2, <2>1, <2>2 DEF TaskSuccess, CallbackKinds
    <3> QED BY <1>3, <1>4, <2>1, <2>2, <3>1, <3>2 DEF CallbackKinds
  <2>6. CASE MonitorTick(w)
    <3>1. resp[w].done
      BY <2>6 DEF MonitorTick, OutcomeInv, TransferInv, Settled
    <3> QED BY <2>6, <3>1 DEF MonitorTick, IsComplete, taskVars
  <2>7. CASE Dispatch(w)
    BY <1>3, <1>5, <2>1, <2>2, <2>7 DEF Dispatch, taskVars, t
  <2>8. CASE Classify(w)
    BY <1>4, <2>1, <2>2, <2>8 DEF Classify, HandOver
  <2> QED BY <1>6, <2>3, <2>4, <2>5, <2>6, <2>7, <2>8
<1> QED BY <1>1, <1>6 DEF WorkerStep, StartDownload

\* Only Forget takes a task out of taskMap.
LEMMA ForgetsOnly ==
  ASSUME NEW w \in Workers, WorkerStep(w) \/ Panic(w)
  PROVE  Forget(w) \/ UNCHANGED callerVars
BY DEF WorkerStep, StartDownload, Pop, Dispatch, Classify, NewRequestFails,
       CancelledBeforeRequest, DoFails, DoFindsWholeFile, DoStartsTransfer,
       TransferFailed, LengthOverLimit, SaveHeaderFails, SaveHeader,
       MonitorTick, MonitorDone, CallbackReturns, Restart, Panic, otherVars

\* A worker gets a task only by popping it.
LEMMA KeepsOrLosesTask ==
  ASSUME OutcomeInv, NEW w \in Workers, WorkerStep(w) \/ Panic(w), ~Pop(w)
  PROVE  cur'[w] = cur[w] \/ cur'[w] = None
<1>1. cur \in [Workers -> Tasks \cup {None}]
  BY OutcomeTypes
<1>2. ASSUME \/ \E reason : TaskFail(w, reason) \/ TaskBreakOff(w, reason)
             \/ TaskCancel(w)
             \/ TaskSuccess(w)
             \/ \E c : HandOver(w, c)
      PROVE  cur'[w] = cur[w] \/ cur'[w] = None
  BY <1>1, <1>2
     DEF TaskFail, TaskBreakOff, TryAgain, TaskCancel, TaskSuccess, CallBack,
         HandOver
<1>3. CASE \/ NewRequestFails(w) \/ CancelledBeforeRequest(w)
           \/ TransferFailed(w) \/ LengthOverLimit(w) \/ SaveHeaderFails(w)
           \/ MonitorDone(w) \/ Dispatch(w) \/ Classify(w)
  BY <1>2, <1>3
     DEF NewRequestFails, CancelledBeforeRequest, TransferFailed,
         LengthOverLimit, SaveHeaderFails, MonitorDone, Dispatch, Classify
<1>4. CASE MonitorTick(w)
  BY <1>4
     DEF MonitorTick, OutcomeInv, TransferInv, Settled, IsComplete, workerVars
<1>5. CASE \/ DoFails(w) \/ DoFindsWholeFile(w) \/ DoStartsTransfer(w)
           \/ SaveHeader(w) \/ CallbackReturns(w) \/ Restart(w)
  BY <1>5
     DEF DoFails, DoFindsWholeFile, DoStartsTransfer, SaveHeader,
         CallbackReturns, Restart
<1>6. CASE Forget(w) \/ Panic(w)
  BY <1>1, <1>6 DEF Forget, Panic
<1> QED BY <1>3, <1>4, <1>5, <1>6 DEF WorkerStep, StartDownload

\* Every step is one of the caller's view of a task, or none.
LEMMA NextLifecycle ==
  ASSUME OutcomeInv, [Next]_vars
  PROVE  [Lifecycle!Next]_(Lifecycle!vars)
<1>1. CASE AddTask
  <2>1. /\ currentId' = currentId + 1 /\ currentId' \in Tasks
        /\ taskMap' = taskMap \cup {currentId'}
        /\ UNCHANGED <<cancelFlag, calls>>
    BY <1>1, OutcomeTypes, ConstantFacts DEF AddTask, Tasks
  <2>2. currentId' \notin taskMap
    BY <2>1, OutcomeTypes DEF OutcomeInv, OwnInv, Registered
  <2>3. calls[currentId'] = <<>>
    BY <2>1, OutcomeTypes DEF OutcomeInv, TaskOK, PlaceOK, Untouched
  <2>4. Lifecycle!Register(currentId')
    BY <2>1, <2>2, <2>3 DEF Lifecycle!Register
  <2> QED BY <2>1, <2>4 DEF Lifecycle!Next
<1>2. ASSUME NEW t \in Tasks, CancelDownload(t) PROVE Lifecycle!Next
  <2>1. UNCHANGED <<taskMap, calls>>
    BY <1>2 DEF CancelDownload, taskVars
  <2>2. {u \in Tasks : cancelFlag'[u]} = {u \in Tasks : cancelFlag[u]} \cup {t}
    BY <1>2
       DEF CancelDownload, OutcomeInv, TransferInv, TypeInv, TypeOK,
           CallerTypeOK
  <2> QED BY <2>1, <2>2 DEF Lifecycle!Next, Lifecycle!Cancel
<1>3. ASSUME NEW w \in Workers, WorkerStep(w) \/ Panic(w)
      PROVE  [Lifecycle!Next]_(Lifecycle!vars)
  <2>1. ASSUME NEW k \in CallbackKinds, CallsBack(w, k) PROVE Lifecycle!Next
    <3>1. Held(w) \in Tasks /\ Held(w) \in taskMap
      BY <2>1, HeldTask DEF CallsBack
    <3>2. Lifecycle!End(Held(w), k)
      BY <2>1, <3>1 DEF CallsBack, Lifecycle!End, callerVars
    <3> QED BY <2>1, <3>1, <3>2
            DEF Lifecycle!Next, Lifecycle!Callbacks, CallbackKinds
  <2>2. CASE Forget(w)
    <3>1. Held(w) \in Tasks /\ Held(w) \in taskMap /\ calls[Held(w)] # <<>>
      BY <2>2, HeldTask DEF Forget, Busy, WorkerOK, Held
    <3>2. Lifecycle!Forget(Held(w))
      BY <2>2, <3>1 DEF Forget, Lifecycle!Forget, taskVars
    <3> QED BY <3>1, <3>2 DEF Lifecycle!Next
  <2>3. CASE UNCHANGED callerVars /\ calls' = calls
    BY <2>3 DEF callerVars, Lifecycle!vars
  <2> QED BY <1>3, <2>1, <2>2, <2>3, CallbacksOnly, ForgetsOnly
<1>4. CASE \/ \E t \in Tasks : Enqueue(t)
           \/ Tick
           \/ \E w \in Workers, t \in Tasks : TransferEnds(w, t)
           \/ UNCHANGED vars
  <2>1. UNCHANGED <<taskMap, cancelFlag, calls>>
    BY <1>4
       DEF Enqueue, Tick, TransferEnds, vars, otherVars, callerVars, taskVars
  <2> QED BY <2>1 DEF Lifecycle!vars
<1> QED BY <1>1, <1>2, <1>3, <1>4 DEF Next, Quiescent

\* The manager keeps the promises of TaskLifecycle.
THEOREM LifecycleIsKept == Spec => ImplementsLifecycle
<1>1. Init => Lifecycle!Init
  BY DEF Init, Lifecycle!Init
<1>2. OutcomeInv /\ [Next]_vars => [Lifecycle!Next]_(Lifecycle!vars)
  BY NextLifecycle
<1> QED BY <1>1, <1>2, OutcomeInvHolds, PTL
        DEF Spec, ImplementsLifecycle, Lifecycle!Spec

\* What holds of a task from a cancellation on that comes before its request.
Condemned(t) ==
  /\ cancelFlag[t]
  /\ calls[t] # <<"success">>
  /\ calls[t] = <<>> =>
       \A w \in Workers :
         cur[w] = t => pc[w] \in {"popped", "classify", "start"}

\* A worker with such a task before the request lets it go.
LEMMA CancelledLetGo ==
  ASSUME OutcomeInv, NEW w \in Workers, WorkerStep(w), cancelFlag[Held(w)],
         pc[w] \in {"popped", "classify", "start"}
  PROVE  cur'[w] = None \/ \E k \in CallbackKinds : CallsBack(w, k)
<1>1. /\ Held(w) \in Tasks /\ DOMAIN calls = Tasks
      /\ calls[Held(w)] = <<>> /\ cur \in [Workers -> Tasks \cup {None}]
  BY HeldTask, OutcomeTypes DEF Busy, WorkerOK, OnItsWay, Held
<1>2. ASSUME NEW k, CallBack(w, k) PROVE calls' # calls
  BY <1>1, <1>2 DEF CallBack
<1>3. ASSUME NEW c, HandOver(w, c) PROVE cur'[w] = None
  BY <1>1, <1>3 DEF HandOver
<1>4. ASSUME NEW reason, TaskBreakOff(w, reason)
      PROVE  cur'[w] = None \/ calls' # calls
  BY <1>2, <1>3, <1>4 DEF TaskBreakOff, TaskFail, TryAgain
<1>5. \/ Dispatch(w)
      \/ Classify(w)
      \/ NewRequestFails(w)
      \/ CancelledBeforeRequest(w)
  BY DEF WorkerStep, StartDownload, Pop, DoFails, DoFindsWholeFile,
         DoStartsTransfer, Requesting, TransferFailed, LengthOverLimit,
         SaveHeaderFails, SaveHeader, Waited, MonitorTick, MonitorDone,
         CallbackReturns, Forget, Restart
<1>6. cur'[w] = None \/ calls' # calls
  BY <1>2, <1>3, <1>4, <1>5
     DEF Dispatch, Classify, NewRequestFails, CancelledBeforeRequest,
         TaskCancel
<1> QED BY <1>6, CallbacksOnly

\* Once condemned, a task stays so.
LEMMA NextCondemned ==
  ASSUME OutcomeInv, NEW t \in Tasks, Condemned(t), [Next]_vars
  PROVE  Condemned(t)'
<1>0. /\ cur \in [Workers -> Tasks \cup {None}]
      /\ pc \in [Workers -> Locations]
      /\ DOMAIN calls = Tasks
      /\ cancelFlag \in [Tasks -> BOOLEAN]
      /\ t # None
  BY OutcomeTypes, ConstantFacts
     DEF OutcomeInv, TransferInv, TypeInv, TypeOK, CallerTypeOK
<1>1. CASE \/ AddTask
           \/ \E u \in Tasks : Enqueue(u) \/ CancelDownload(u)
           \/ Tick
           \/ \E w \in Workers, u \in Tasks : TransferEnds(w, u)
           \/ UNCHANGED vars
  <2>1. UNCHANGED <<pc, cur, calls>> /\ cancelFlag'[t]
    BY <1>0, <1>1
       DEF AddTask, Enqueue, CancelDownload, Tick, TransferEnds, vars,
           otherVars, callerVars, taskVars, workerVars, Condemned
  <2> QED BY <2>1 DEF Condemned
<1>2. ASSUME NEW w \in Workers, WorkerStep(w) \/ Panic(w) PROVE Condemned(t)'
  <2>1. /\ \A v \in Workers \ {w} : pc'[v] = pc[v] /\ cur'[v] = cur[v]
        /\ cancelFlag' = cancelFlag
    BY <1>2, WorkerFrame, OutcomeTypes DEF OthersStand
  <2>2. CASE calls[t] # <<>>
    <3>1. calls'[t] = calls[t]
      BY <1>0, <1>2, <2>2, CallbacksOnly DEF CallsBack
    <3> QED BY <2>1, <2>2, <3>1 DEF Condemned
  <2>3. CASE calls[t] = <<>> /\ Held(w) # t
    <3>1. calls'[t] = calls[t]
      BY <1>0, <1>2, <2>3, CallbacksOnly DEF CallsBack
    <3>2. cur'[w] = t => pc'[w] = "popped"
      <4>1. CASE Pop(w)
        BY <1>0, <4>1 DEF Pop, GoTo
      <4>2. CASE ~Pop(w)
        BY <1>0, <1>2, <2>3, <4>2, KeepsOrLosesTask DEF Held
      <4> QED BY <4>1, <4>2
    <3> QED BY <2>1, <2>3, <3>1, <3>2 DEF Condemned
  <2>4. CASE calls[t] = <<>> /\ Held(w) = t
    <3>1. pc[w] \in {"popped", "classify", "start"} /\ cancelFlag[t]
      BY <2>4 DEF Condemned, Held
    <3>2. \A v \in Workers \ {w} : cur[v] # t
      BY <1>0, <2>4 DEF OutcomeInv, OwnInv, UniqueHolder, Held
    <3>3. calls'[t] = <<>> \/ \E k \in CallbackKinds : CallsBack(w, k)
      BY <1>2, <2>4, CallbacksOnly
    <3>4. ASSUME NEW k \in CallbackKinds, CallsBack(w, k) PROVE Condemned(t)'
      <4>1. k # "success" /\ calls'[t] = <<k>>
        BY <1>0, <2>4, <3>1, <3>4 DEF CallsBack
      <4> QED BY <2>1, <3>1, <4>1 DEF Condemned
    <3>5. CASE cur'[w] = None /\ calls'[t] = <<>>
      BY <1>0, <2>1, <3>1, <3>2, <3>5 DEF Condemned
    <3>6. CASE WorkerStep(w)
      BY <2>4, <3>1, <3>3, <3>4, <3>5, <3>6, CancelledLetGo
    <3>7. CASE Panic(w)
      BY <1>0, <3>3, <3>4, <3>5, <3>7 DEF Panic
    <3> QED BY <1>2, <3>6, <3>7
  <2> QED BY <2>2, <2>3, <2>4
<1> QED BY <1>1, <1>2 DEF Next, Quiescent

\* A cancellation that comes before the request of an attempt is final.
THEOREM CancellationIsFinal == Spec => CancelIsFinal
<1>1. ASSUME NEW t \in Tasks
      PROVE  Spec => [](cancelFlag[t] /\ BeforeRequest(t) =>
                          [](calls[t] # <<"success">>))
  <2>1. cancelFlag[t] /\ BeforeRequest(t) => Condemned(t)
    BY DEF BeforeRequest, Condemned
  <2>2. OutcomeInv /\ Condemned(t) /\ [Next]_vars => Condemned(t)'
    BY NextCondemned
  <2>3. Condemned(t) => calls[t] # <<"success">>
    BY DEF Condemned
  <2> QED BY <2>1, <2>2, <2>3, OutcomeInvHolds, PTL DEF Spec
<1> QED BY <1>1 DEF CancelIsFinal

-----------------------------------------------------------------------------
(***************************************************************************)
(* The workers use each task's file as Transfer lets them.                 *)
(***************************************************************************)

\* What Transfer sees of a task is what its worker has, if it has one.
Seen(t) ==
  /\ \A w \in Workers : cur[w] = t =>
       /\ Phase(t) = IF <<w, t>> \in live THEN "copying"
                     ELSE IF resp[w].done THEN "done" ELSE "idle"
       /\ Outcome(t) = IF resp[w].done THEN resp[w].err ELSE "nil"
  /\ (\A w \in Workers : cur[w] # t) => Phase(t) = "idle" /\ Outcome(t) = "nil"

AllSeen == \A t \in Tasks : Seen(t)

LEMMA SeenNow == OutcomeInv => AllSeen
<1> SUFFICES ASSUME OutcomeInv, NEW t \in Tasks PROVE Seen(t)
  BY DEF AllSeen
<1>1. \A w \in Workers : <<w, t>> \in live => cur[w] = t /\ ~resp[w].done
  BY DEF OutcomeInv, TransferInv, NoOrphanTransfer
<1>2. ASSUME NEW w \in Workers, cur[w] = t
      PROVE  /\ Phase(t) = IF <<w, t>> \in live THEN "copying"
                           ELSE IF resp[w].done THEN "done" ELSE "idle"
             /\ Outcome(t) = IF resp[w].done THEN resp[w].err ELSE "nil"
  <2>1. \A v \in Workers : cur[v] = t => v = w
    BY <1>2, ConstantFacts DEF OutcomeInv, OwnInv, UniqueHolder
  <2>2. Phase(t) = IF <<w, t>> \in live THEN "copying"
                   ELSE IF resp[w].done THEN "done" ELSE "idle"
    BY <1>1, <1>2, <2>1 DEF Phase, HasResponse
  <2>3. CASE resp[w].done
    <3>1. HasResponse(w, t) /\ \A v \in Workers : HasResponse(v, t) => v = w
      BY <1>2, <2>1, <2>3 DEF HasResponse
    <3>2. (CHOOSE v \in Workers : HasResponse(v, t)) = w
      BY <3>1
    <3>3. Phase(t) = "done"
      BY <1>1, <2>2, <2>3
    <3>4. Outcome(t) = resp[CHOOSE v \in Workers : HasResponse(v, t)].err
      BY <3>3 DEF Outcome
    <3>5. Outcome(t) = resp[w].err
      BY <3>2, <3>4
    <3> QED BY <2>2, <2>3, <3>5
  <2>4. CASE ~resp[w].done
    BY <2>2, <2>4 DEF Outcome
  <2> QED BY <2>2, <2>3, <2>4
<1>3. ASSUME \A w \in Workers : cur[w] # t
      PROVE  Phase(t) = "idle" /\ Outcome(t) = "nil"
  BY <1>1, <1>3 DEF Phase, Outcome, HasResponse
<1> QED BY <1>2, <1>3 DEF Seen

LEMMA SeenNext == OutcomeInv' => AllSeen'
BY SeenNow, PTL

\* The task's file and what its worker has stay as they are.
ViewStands(t) ==
  Phase(t)' = Phase(t) /\ Outcome(t)' = Outcome(t) /\ file'[t] = file[t]

\* The worker lets go of what it has of the task's attempt.
ViewDrops(t) ==
  /\ Phase(t) \in {"idle", "done"}
  /\ Phase(t)' = "idle" /\ Outcome(t)' = "nil"
  /\ file'[t] = file[t]

\* Steps that touch neither the hands, the file nor the response.
LEMMA ViewUnmoved ==
  ASSUME NEW t, Seen(t), Seen(t)', UNCHANGED cur, file'[t] = file[t],
         \A w \in Workers : cur[w] = t =>
           /\ resp'[w] = resp[w]
           /\ <<w, t>> \in live' <=> <<w, t>> \in live
  PROVE  ViewStands(t)
<1>1. CASE \E w \in Workers : cur[w] = t
  <2>1. PICK w \in Workers : cur[w] = t
    BY <1>1
  <2>2. /\ Phase(t) = IF <<w, t>> \in live THEN "copying"
                      ELSE IF resp[w].done THEN "done" ELSE "idle"
        /\ Outcome(t) = IF resp[w].done THEN resp[w].err ELSE "nil"
    BY <2>1 DEF Seen
  <2>3. /\ Phase(t)' = IF <<w, t>> \in live' THEN "copying"
                       ELSE IF resp'[w].done THEN "done" ELSE "idle"
        /\ Outcome(t)' = IF resp'[w].done THEN resp'[w].err ELSE "nil"
    BY <2>1 DEF Seen
  <2>4. resp'[w] = resp[w] /\ (<<w, t>> \in live' <=> <<w, t>> \in live)
    BY <2>1
  <2> QED BY <2>2, <2>3, <2>4 DEF ViewStands
<1>2. CASE \A w \in Workers : cur[w] # t
  BY <1>2 DEF Seen, ViewStands
<1> QED BY <1>1, <1>2

\* Either is a step of Transfer.
LEMMA StandsOrDrops ==
  ASSUME NEW t \in Tasks, param' = param, ViewStands(t) \/ ViewDrops(t)
  PROVE  [View(t)!Next]_(View(t)!vars)
<1>1. CASE ViewStands(t)
  BY <1>1 DEF ViewStands, View!vars
<1>2. CASE ViewDrops(t) /\ Phase(t) = "idle"
  <2>1. Outcome(t) = "nil"
    BY <1>2 DEF Outcome
  <2> QED BY <1>2, <2>1 DEF ViewDrops, View!vars
<1>3. CASE ViewDrops(t) /\ Phase(t) = "done"
  BY <1>3 DEF ViewDrops, View!Next, View!Drop
<1> QED BY <1>1, <1>2, <1>3 DEF ViewDrops

\* What a worker does with its own task leaves the other tasks' views alone.
LEMMA OtherViews ==
  ASSUME OutcomeInv, OutcomeInv', NEW w \in Workers, WorkerStep(w) \/ Panic(w),
         NEW t \in Tasks \ {Held(w)}
  PROVE  ViewStands(t)
<1>1. /\ OthersStand(w)
      /\ file'[t] = file[t]
      /\ Seen(t) /\ Seen(t)'
  BY SeenNow, SeenNext, WorkerFrame, OutcomeTypes DEF AllSeen, SameDisk
<1>2. CASE \E v \in Workers : cur[v] = t
  <2>1. PICK v \in Workers : cur[v] = t
    BY <1>2
  <2>2. v # w /\ cur'[v] = t /\ resp'[v] = resp[v]
    BY <1>1, <2>1 DEF Held, OthersStand
  <2>3. <<v, t>> \in live' <=> <<v, t>> \in live
    BY <2>2
       DEF WorkerStep, StartDownload, Pop, Dispatch, Classify,
           NewRequestFails, CancelledBeforeRequest, DoFails,
           DoFindsWholeFile, DoStartsTransfer, TransferFailed,
           LengthOverLimit, SaveHeaderFails, SaveHeader, MonitorTick,
           MonitorDone, CallbackReturns, Forget, Restart, Panic, otherVars
  <2> QED BY <1>1, <2>1, <2>2, <2>3 DEF Seen, ViewStands
<1>3. CASE \A v \in Workers : cur[v] # t
  <2>1. Phase(t) = "idle" /\ Outcome(t) = "nil"
    BY <1>1, <1>3 DEF Seen
  <2>2. CASE cur'[w] = t
    <3>1. Pop(w)
      BY <1>3, <2>2, KeepsOrLosesTask, ConstantFacts
    <3>2. pc'[w] = "popped" /\ resp' = resp /\ live' = live
      BY <3>1, OutcomeTypes DEF Pop, GoTo
    <3>3. <<w, t>> \notin live' /\ ~resp'[w].done
      BY <3>2 DEF OutcomeInv, WorkerOK, TransferInv, NoOrphanTransfer
    <3> QED BY <1>1, <2>1, <2>2, <3>3 DEF Seen, ViewStands
  <2>3. CASE cur'[w] # t
    <3>1. \A v \in Workers : cur'[v] # t
      BY <1>1, <1>3, <2>3 DEF OthersStand
    <3> QED BY <1>1, <2>1, <3>1 DEF Seen, ViewStands
  <2> QED BY <2>2, <2>3
<1> QED BY <1>2, <1>3

\* A worker that stops having a response, or never had one, drops the attempt.
LEMMA DropsView ==
  ASSUME OutcomeInv, OutcomeInv', NEW w \in Workers, NEW t \in Tasks,
         cur[w] = t, OthersStand(w), live' = live,
         pc[w] = "wait" => resp[w].done,
         cur'[w] = None \/ (cur'[w] = t /\ ~resp'[w].done)
  PROVE  /\ Phase(t) \in {"idle", "done"}
         /\ Phase(t)' = "idle" /\ Outcome(t)' = "nil"
<1>1. Seen(t) /\ Seen(t)'
  BY SeenNow, SeenNext DEF AllSeen
<1>2. <<w, t>> \notin live
  BY DEF OutcomeInv, TransferInv, NoOrphanTransfer
<1>3. Phase(t) \in {"idle", "done"}
  BY <1>1, <1>2 DEF Seen
<1>4. CASE cur'[w] = t /\ ~resp'[w].done
  BY <1>1, <1>2, <1>3, <1>4 DEF Seen
<1>5. CASE cur'[w] = None
  <2>1. \A v \in Workers \ {w} : cur[v] # t
    BY ConstantFacts DEF OutcomeInv, OwnInv, UniqueHolder
  <2>2. \A v \in Workers : cur'[v] # t
    BY <1>5, <2>1, ConstantFacts DEF OthersStand
  <2> QED BY <1>1, <1>3, <2>2 DEF Seen
<1> QED BY <1>4, <1>5

\* Each step of the worker that has the task is one of Transfer, or none.
LEMMA OwnView ==
  ASSUME OutcomeInv, OutcomeInv', NEW w \in Workers, NEW t \in Tasks,
         t = Held(w), WorkerStep(w) \/ Panic(w)
  PROVE  [View(t)!Next]_(View(t)!vars)
<1>0. param' = param
  BY WorkerFrame, OutcomeTypes
<1>1. /\ cur[w] = t /\ t # None
      /\ OthersStand(w)
      /\ Seen(t) /\ Seen(t)'
      /\ WorkerOK(w) /\ WorkerOK(w)'
  BY SeenNow, SeenNext, WorkerFrame, OutcomeTypes, ConstantFacts
     DEF AllSeen, Held, OutcomeInv
<1>2. CASE \/ NewRequestFails(w) \/ CancelledBeforeRequest(w)
           \/ TransferFailed(w) \/ LengthOverLimit(w) \/ SaveHeaderFails(w)
           \/ MonitorDone(w) \/ Dispatch(w) \/ Classify(w)
           \/ Forget(w) \/ Panic(w)
  <2>1. /\ UNCHANGED <<live, file>>
        /\ pc[w] = "wait" => resp[w].done
    BY <1>2
       DEF NewRequestFails, CancelledBeforeRequest, TransferFailed,
           LengthOverLimit, SaveHeaderFails, MonitorDone, Dispatch, Classify,
           Forget, Panic, Waited, ErrReturns, IsComplete,
           otherVars, diskVars
  <2>2. pc'[w] \notin {"wait", "monitor"}
    <3>1. CASE Forget(w) \/ Panic(w)
      BY <3>1, OutcomeTypes DEF Forget, Panic, GoTo
    <3>2. CASE Dispatch(w) \/ Classify(w)
      <4>1. \/ \E reason : TaskFail(w, reason) \/ TaskBreakOff(w, reason)
            \/ TaskCancel(w)
            \/ /\ UNCHANGED <<status, failReason, failTimes, allowStart>>
               /\ \E c : HandOver(w, c)
            \/ \E l \in {"classify", "start"} : GoTo(w, l)
        BY <3>2 DEF Dispatch, Classify
      <4> QED BY <4>1, LettingGoFrame, OutcomeTypes DEF GoTo
    <3>3. CASE ~(Forget(w) \/ Panic(w)) /\ ~(Dispatch(w) \/ Classify(w))
      <4>1. \/ \E reason : TaskFail(w, reason) \/ TaskBreakOff(w, reason)
            \/ TaskCancel(w)
            \/ TaskSuccess(w)
        BY <1>2, <3>3
           DEF NewRequestFails, CancelledBeforeRequest, TransferFailed,
               LengthOverLimit, SaveHeaderFails, MonitorDone
      <4> QED BY <4>1, LettingGoFrame, OutcomeTypes
    <3> QED BY <3>1, <3>2, <3>3
  <2>3. ~resp'[w].done
    BY <1>1, <2>2 DEF WorkerOK
  <2>4. cur'[w] = None \/ cur'[w] = t
    <3>1. ~Pop(w)
      BY <1>1, OutcomeTypes DEF Pop, TypeInv, Hands
    <3> QED BY <1>1, <3>1, KeepsOrLosesTask
  <2>5. ViewDrops(t)
    BY <1>1, <2>1, <2>3, <2>4, DropsView DEF ViewDrops
  <2> QED BY <1>0, <2>5, StandsOrDrops
<1>3. CASE SaveHeader(w) \/ MonitorTick(w)
  <2>1. UNCHANGED <<cur, resp, live, file>>
    BY <1>3
       DEF SaveHeader, MonitorTick, OutcomeInv, TransferInv, Settled,
           IsComplete, workerVars, otherVars, diskVars
  <2>2. ViewStands(t)
    BY <1>1, <2>1, ViewUnmoved
  <2> QED BY <1>0, <2>2, StandsOrDrops
<1>4. CASE CallbackReturns(w)
  <2>1. /\ UNCHANGED <<cur, resp, live>>
        /\ pc[w] = "callback"
        /\ file'[t] \in {"absent", file[t]}
    BY <1>1, <1>4, OutcomeTypes DEF CallbackReturns, diskVars, Held
  <2>2. /\ Phase(t) = "idle" /\ Outcome(t) = "nil"
        /\ Phase(t)' = "idle" /\ Outcome(t)' = "nil"
    <3>1. ~resp[w].done /\ <<w, t>> \notin live
      BY <1>1, <2>1
         DEF WorkerOK, OutcomeInv, TransferInv, NoOrphanTransfer
    <3> QED BY <1>1, <2>1, <3>1 DEF Seen
  <2> QED BY <1>0, <2>1, <2>2 DEF View!Next, View!Remove, View!vars
<1>5. CASE DoFails(w) \/ DoFindsWholeFile(w) \/ DoStartsTransfer(w)
  <2>1. pc[w] = "start" /\ cur' = cur
    BY <1>5
       DEF DoFails, DoFindsWholeFile, DoStartsTransfer, Requesting
  <2>2. ~resp[w].done /\ <<w, t>> \notin live
    BY <1>1, <2>1 DEF WorkerOK, OutcomeInv, TransferInv, NoOrphanTransfer
  <2>3. /\ Phase(t) = "idle" /\ Outcome(t) = "nil"
        /\ Phase(t)' = IF <<w, t>> \in live' THEN "copying"
                       ELSE IF resp'[w].done THEN "done" ELSE "idle"
        /\ Outcome(t)' = IF resp'[w].done THEN resp'[w].err ELSE "nil"
    BY <1>1, <2>1, <2>2 DEF Seen
  <2>4. CASE DoFails(w)
    <3>1. PICK e \in Errors \ {"nil"} :
            resp' = [resp EXCEPT ![w] =
                       [NoResponse EXCEPT !.done = TRUE, !.err = e]]
      BY <2>4 DEF DoFails
    <3>2. resp'[w].done /\ resp'[w].err = e
      BY <3>1, OutcomeTypes DEF NoResponse
    <3>3. UNCHANGED <<live, file>>
      BY <2>4 DEF DoFails, diskVars
    <3>4. e \in {"noResponse", "failed", "noSpace"}
      BY DEF Errors
    <3> QED BY <1>0, <2>2, <2>3, <3>2, <3>3, <3>4
            DEF View!Next, View!DoFails, View!Failures
  <2>5. CASE DoFindsWholeFile(w)
    <3>1. /\ resp'[w].done /\ resp'[w].err = "nil"
          /\ Delivered(t)
          /\ UNCHANGED <<live, file>>
      BY <1>1, <2>5, OutcomeTypes DEF DoFindsWholeFile, diskVars, Held
    <3> QED BY <1>0, <2>2, <2>3, <3>1 DEF View!Next, View!DoFindsWholeFile
  <2>6. CASE DoStartsTransfer(w)
    <3>1. /\ ~resp'[w].done
          /\ <<w, t>> \in live'
          /\ file'[t] = "partial"
      BY <1>1, <2>6, OutcomeTypes DEF DoStartsTransfer, NoResponse, Held
    <3> QED BY <1>0, <2>3, <3>1 DEF View!Next, View!DoStartsTransfer
  <2> QED BY <1>5, <2>4, <2>5, <2>6
<1>6. ~Pop(w) /\ ~Restart(w)
  BY <1>1, OutcomeTypes DEF Pop, Restart, TypeInv, Hands
<1> QED BY <1>2, <1>3, <1>4, <1>5, <1>6 DEF WorkerStep, StartDownload

\* The end of a transfer is the end of its task's attempt.
LEMMA TransferEndsView ==
  ASSUME OutcomeInv, OutcomeInv', NEW w \in Workers, NEW u \in Tasks,
         TransferEnds(w, u), NEW t \in Tasks
  PROVE  [View(t)!Next]_(View(t)!vars)
<1>1. /\ cur[w] = u /\ cur' = cur
      /\ <<w, u>> \in live /\ live' = live \ {<<w, u>>}
      /\ ~resp[w].done /\ resp'[w].done
      /\ \A v \in Workers \ {w} : resp'[v] = resp[v]
      /\ \A x \in Tasks \ {u} : file'[x] = file[x]
      /\ param' = param
  BY OutcomeTypes
     DEF TransferEnds, OutcomeInv, TransferInv, NoOrphanTransfer, Response,
         callerVars
<1>2. Seen(t) /\ Seen(t)'
  BY SeenNow, SeenNext DEF AllSeen
<1>3. CASE t # u
  <2>1. ViewStands(t)
    <3>1. \A v \in Workers : cur[v] = t => v # w
      BY <1>1, <1>3
    <3> QED BY <1>1, <1>2, <1>3, <3>1, ViewUnmoved
  <2> QED BY <1>1, <2>1, StandsOrDrops
<1>4. CASE t = u
  <2>1. /\ Phase(t) = "copying" /\ Outcome(t) = "nil"
        /\ Phase(t)' = "done" /\ Outcome(t)' = resp'[w].err
    BY <1>1, <1>2, <1>4 DEF Seen
  <2>2. /\ resp'[w].err \in {"nil", "failed", "noSpace"}
        /\ file'[t] \in {"partial", "complete"}
        /\ param[t].honest /\ resp'[w].err = "nil" => file'[t] = "complete"
        /\ param[t].honest /\ resp'[w].err = "noSpace" => file'[t] = "partial"
    BY <1>4, OutcomeTypes DEF TransferEnds, Errors, Response
  <2> QED BY <1>1, <2>1, <2>2 DEF View!Next, View!TransferEnds
<1> QED BY <1>3, <1>4

\* Every step is one of Transfer for each task, or none.
LEMMA NextView ==
  ASSUME OutcomeInv, [Next]_vars, NEW t \in Tasks
  PROVE  [View(t)!Next]_(View(t)!vars)
<1>0. OutcomeInv'
  BY NextOutcome
<1>1. CASE \/ AddTask
           \/ \E u \in Tasks : Enqueue(u) \/ CancelDownload(u)
           \/ Tick
           \/ UNCHANGED vars
  <2>1. UNCHANGED <<param, cur, resp, live, file>>
    BY <1>1
       DEF AddTask, Enqueue, CancelDownload, Tick, vars, otherVars,
           callerVars, workerVars, diskVars
  <2>2. Seen(t) /\ Seen(t)'
    BY <1>0, SeenNow, SeenNext DEF AllSeen
  <2>3. ViewStands(t)
    BY <2>1, <2>2, ViewUnmoved
  <2> QED BY <2>1, <2>3, StandsOrDrops
<1>2. ASSUME NEW w \in Workers, WorkerStep(w) \/ Panic(w)
      PROVE  [View(t)!Next]_(View(t)!vars)
  <2>1. param' = param
    BY <1>2, WorkerFrame, OutcomeTypes
  <2> QED BY <1>0, <1>2, <2>1, OtherViews, OwnView, StandsOrDrops
<1>3. ASSUME NEW w \in Workers, NEW u \in Tasks, TransferEnds(w, u)
      PROVE  [View(t)!Next]_(View(t)!vars)
  BY <1>0, <1>3, TransferEndsView
<1> QED BY <1>1, <1>2, <1>3 DEF Next, Quiescent

\* With each task's file the workers deal as Transfer lets them.
THEOREM TransfersAreUsed == Spec => UseTransfers
<1> DEFINE Steps == \A t \in Tasks : [View(t)!Next]_(View(t)!vars)
<1>1. Init => \A t \in Tasks : View(t)!Init
  <2> SUFFICES ASSUME Init, NEW t \in Tasks PROVE View(t)!Init
    OBVIOUS
  <2>1. /\ live = {} /\ file[t] = "absent"
        /\ \A w \in Workers : ~HasResponse(w, t)
    BY DEF Init, HasResponse, NoResponse
  <2>2. Phase(t) = "idle" /\ Outcome(t) = "nil"
    BY <2>1 DEF Phase, Outcome
  <2>3. param[t].honest \in BOOLEAN
    BY InitType DEF TypeInv, TypeOK, CallerTypeOK, Requests
  <2> QED BY <2>1, <2>2, <2>3 DEF View!Init
<1>2. OutcomeInv /\ [Next]_vars => [Steps]_vars
  BY NextView
<1> HIDE DEF Steps
<1>3. Spec => [][Steps]_vars
  BY <1>2, OutcomeInvHolds, PTL DEF Spec
<1>4. Spec => \A t \in Tasks : View(t)!Init
  BY <1>1, PTL DEF Spec
<1> QED BY <1>3, <1>4 DEF UseTransfers, Steps

-----------------------------------------------------------------------------
(***************************************************************************)
(* The size limit, where the code keeps it.                                *)
(***************************************************************************)

\* The length the worker reads for its task is that of the whole file.
ToldWhole(w) == param[cur[w]].lengthKnown /\ Home(w) # "random"

WithinLimit(t) ==
  param[t].sizeLimit > 0 => param[t].remote <= param[t].sizeLimit

\* The length is at hand until it is compared; the monitor is behind that.
LimitWatched(w) ==
  ToldWhole(w) =>
    /\ pc[w] = "wait" /\ (resp[w].done => resp[w].err = "nil") =>
         resp[w].length = param[cur[w]].remote
    /\ pc[w] = "monitor" => WithinLimit(cur[w])

LimitInv ==
  /\ \A w \in Workers : LimitWatched(w)
  /\ KnownLengthIsLimited

\* A step keeps what is known of a worker that stays where it is, or that is
\* neither waiting nor monitoring.
LEMMA StillWatched ==
  ASSUME NEW w, LimitWatched(w), UNCHANGED param,
         \/ pc'[w] = pc[w] /\ cur'[w] = cur[w] /\ resp'[w] = resp[w]
         \/ pc'[w] \notin {"wait", "monitor"}
  PROVE  LimitWatched(w)'
BY DEF LimitWatched, ToldWhole, WithinLimit

\* Waiting begins with the length the origin tells, and the monitor behind the
\* comparison.
LEMMA WorkerWatched ==
  ASSUME OutcomeInv, LimitInv, NEW w \in Workers, WorkerStep(w) \/ Panic(w)
  PROVE  LimitWatched(w)'
<1>1. LimitWatched(w) /\ UNCHANGED param
  BY WorkerFrame, OutcomeTypes DEF LimitInv
<1>2. CASE pc[w] = "start" /\ pc'[w] = "wait"
  <2>1. DoFails(w) \/ DoFindsWholeFile(w) \/ DoStartsTransfer(w)
    <3>1. ~NewRequestFails(w) /\ ~CancelledBeforeRequest(w)
      BY <1>2, LettingGoFrame, OutcomeTypes
         DEF NewRequestFails, CancelledBeforeRequest
    <3>2. ~Panic(w)
      BY <1>2, OutcomeTypes DEF Panic, GoTo
    <3> QED BY <1>2, <3>1, <3>2
            DEF WorkerStep, StartDownload, Pop, Dispatch, Classify,
                TransferFailed, LengthOverLimit, SaveHeaderFails, SaveHeader,
                Waited, MonitorTick, MonitorDone, CallbackReturns, Forget,
                Restart
  <2>2. cur' = cur
    BY <2>1 DEF DoFails, DoFindsWholeFile, DoStartsTransfer
  <2>3. CASE DoFails(w)
    <3>1. PICK e \in Errors \ {"nil"} :
            resp' = [resp EXCEPT ![w] =
                       [NoResponse EXCEPT !.done = TRUE, !.err = e]]
      BY <2>3 DEF DoFails
    <3>2. resp'[w].done /\ resp'[w].err # "nil"
      BY <3>1, OutcomeTypes DEF NoResponse
    <3> QED BY <1>2, <3>2 DEF LimitWatched
  <2>4. CASE DoFindsWholeFile(w)
    <3>1. resp'[w].length = param[cur[w]].remote
      BY <2>4, OutcomeTypes DEF DoFindsWholeFile, Held
    <3> QED BY <1>1, <1>2, <2>2, <3>1 DEF LimitWatched
  <2>5. CASE DoStartsTransfer(w)
    <3>1. PICK n \in Lengths(w) :
            resp' = [resp EXCEPT ![w] = [NoResponse EXCEPT !.length = n]]
      BY <2>5 DEF DoStartsTransfer
    <3>2. resp'[w].length = n
      BY <3>1, OutcomeTypes DEF NoResponse
    <3>3. ToldWhole(w) => n = param[cur[w]].remote
      BY DEF Lengths, ToldWhole, Held
    <3> QED BY <1>1, <1>2, <2>2, <3>2, <3>3 DEF LimitWatched, ToldWhole
  <2> QED BY <2>1, <2>3, <2>4, <2>5
<1>3. CASE SaveHeader(w)
  <2>1. /\ pc[w] = "wait" /\ resp[w].err = "nil" /\ ~TooLong(w)
        /\ pc'[w] = "monitor" /\ cur' = cur
    BY <1>3, OutcomeTypes DEF SaveHeader, Waited, GoTo
  <2>2. cur[w] \in Tasks
    BY <2>1, HeldTask DEF Busy, Held
  <2>3. param[cur[w]].remote \in Nat /\ param[cur[w]].sizeLimit \in Nat
    BY <2>2, OutcomeTypes DEF TypeInv, TypeOK, CallerTypeOK, Requests
  <2>4. ToldWhole(w) => WithinLimit(cur[w])
    BY <1>1, <2>1, <2>3 DEF LimitWatched, TooLong, WithinLimit, Held
  <2> QED BY <1>1, <2>1, <2>4 DEF LimitWatched, ToldWhole, WithinLimit
<1>4. CASE MonitorTick(w)
  <2>1. UNCHANGED workerVars
    BY <1>4 DEF MonitorTick, OutcomeInv, TransferInv, Settled, IsComplete
  <2> QED BY <1>1, <2>1, StillWatched DEF workerVars
<1>5. CASE ~(pc[w] = "start" /\ pc'[w] = "wait") /\ ~SaveHeader(w)
           /\ ~MonitorTick(w)
  <2>1. pc'[w] \notin {"wait", "monitor"}
    <3>1. CASE Pop(w) \/ CallbackReturns(w) \/ Forget(w) \/ Restart(w)
               \/ Panic(w)
      BY <3>1, OutcomeTypes
         DEF Pop, CallbackReturns, Forget, Restart, Panic, GoTo
    <3>2. CASE Dispatch(w) \/ Classify(w)
      <4>1. \/ \E reason : TaskFail(w, reason) \/ TaskBreakOff(w, reason)
            \/ TaskCancel(w)
            \/ /\ UNCHANGED <<status, failReason, failTimes, allowStart>>
               /\ \E c : HandOver(w, c)
            \/ \E l \in {"classify", "start"} : GoTo(w, l)
        BY <3>2 DEF Dispatch, Classify
      <4> QED BY <4>1, LettingGoFrame, OutcomeTypes DEF GoTo
    <3>3. CASE DoFails(w) \/ DoFindsWholeFile(w) \/ DoStartsTransfer(w)
      BY <1>5, <3>3, OutcomeTypes
         DEF DoFails, DoFindsWholeFile, DoStartsTransfer, Requesting, Request,
             GoTo
    <3>4. CASE \/ NewRequestFails(w) \/ CancelledBeforeRequest(w)
               \/ TransferFailed(w) \/ LengthOverLimit(w)
               \/ SaveHeaderFails(w) \/ MonitorDone(w)
      <4>1. \/ \E reason : TaskFail(w, reason) \/ TaskBreakOff(w, reason)
            \/ TaskCancel(w)
            \/ TaskSuccess(w)
        BY <3>4
           DEF NewRequestFails, CancelledBeforeRequest, TransferFailed,
               LengthOverLimit, SaveHeaderFails, MonitorDone
      <4> QED BY <4>1, LettingGoFrame, OutcomeTypes
    <3> QED BY <1>5, <3>1, <3>2, <3>3, <3>4 DEF WorkerStep, StartDownload
  <2> QED BY <1>1, <2>1, StillWatched
<1> QED BY <1>2, <1>3, <1>4, <1>5

\* A success is reported from the monitor, and changes no channel afterwards.
LEMMA SuccessLimited ==
  ASSUME OutcomeInv, LimitInv, NEW w \in Workers, WorkerStep(w) \/ Panic(w)
  PROVE  KnownLengthIsLimited'
<1> SUFFICES ASSUME NEW t \in Tasks, calls'[t] = <<"success">>,
                    param'[t].lengthKnown, channel'[t] # "random"
             PROVE  WithinLimit(t)'
  BY DEF KnownLengthIsLimited, WithinLimit
<1>1. /\ UNCHANGED param
      /\ t # Held(w) => channel'[t] = channel[t]
  BY WorkerFrame, OutcomeTypes DEF SameFields
<1>2. CASE calls[t] = <<"success">> /\ channel'[t] = channel[t]
  BY <1>1, <1>2 DEF LimitInv, KnownLengthIsLimited, WithinLimit
<1>3. CASE calls[t] = <<"success">> /\ t = Held(w)
  <2>1. Busy(w) /\ WorkerOK(w)
    BY <1>3, OutcomeTypes, ConstantFacts
       DEF TypeInv, Hands, Busy, Held, OutcomeInv
  <2>2. pc[w] \in {"callback", "forget"}
    <3>1. calls[cur[w]] # <<>>
      <4>1. <<"success">> # <<>>
        OBVIOUS
      <4> QED BY <1>3, <4>1 DEF Held
    <3>2. pc[w] \notin {"popped", "classify", "start", "wait", "monitor"}
      BY <2>1, <3>1 DEF WorkerOK, OnItsWay
    <3>3. pc[w] \in Locations
      BY OutcomeTypes
    <3> QED BY <2>1, <3>2, <3>3 DEF Busy, Locations
  <2>3. CallbackReturns(w) \/ Forget(w) \/ Panic(w)
    BY <2>2
       DEF WorkerStep, StartDownload, Pop, Dispatch, Classify,
           NewRequestFails, CancelledBeforeRequest, DoFails,
           DoFindsWholeFile, DoStartsTransfer, Requesting, TransferFailed,
           LengthOverLimit, SaveHeaderFails, SaveHeader, Waited, MonitorTick,
           MonitorDone, Restart
  <2>4. channel' = channel
    BY <2>3 DEF CallbackReturns, Forget, Panic, taskVars
  <2> QED BY <1>2, <1>3, <2>4
<1>4. CASE calls[t] # <<"success">>
  <2>1. t = Held(w) /\ Busy(w) /\ pc[w] = "monitor"
    BY <1>4, CallbacksOnly, OutcomeTypes DEF CallsBack
  <2>2. channel[t] = Home(w) /\ cur[w] = t
    BY <2>1, HeldTask DEF WorkerOK, Held
  <2>3. channel' = channel
    <3>1. MonitorDone(w)
      <4>1. ~MonitorTick(w)
        BY <1>4 DEF MonitorTick, OutcomeInv, TransferInv, Settled, IsComplete,
                    taskVars
      <4>2. ~Panic(w)
        BY <1>4 DEF Panic, taskVars
      <4> QED BY <2>1, <4>1, <4>2
              DEF WorkerStep, StartDownload, Pop, Dispatch, Classify,
                  NewRequestFails, CancelledBeforeRequest, DoFails,
                  DoFindsWholeFile, DoStartsTransfer, Requesting,
                  TransferFailed, LengthOverLimit, SaveHeaderFails,
                  SaveHeader, Waited, CallbackReturns, Forget, Restart
    <3> QED BY <1>4, <3>1
            DEF MonitorDone, TaskFail, TaskBreakOff, TryAgain, HandOver,
                TaskSuccess, CallBack
  <2>4. ToldWhole(w)
    BY <1>1, <2>2, <2>3 DEF ToldWhole
  <2> QED BY <1>1, <2>1, <2>2, <2>4
          DEF LimitInv, LimitWatched, WithinLimit
<1> QED BY <1>1, <1>2, <1>3, <1>4

\* Every step keeps the limit.
LEMMA NextLimit == OutcomeInv /\ LimitInv /\ [Next]_vars => LimitInv'
<1> SUFFICES ASSUME OutcomeInv, LimitInv, [Next]_vars PROVE LimitInv'
  OBVIOUS
<1>1. ASSUME NEW w \in Workers, WorkerStep(w) \/ Panic(w) PROVE LimitInv'
  <2>1. OthersStand(w) /\ UNCHANGED param
    BY <1>1, WorkerFrame, OutcomeTypes
  <2>2. \A v \in Workers \ {w} : LimitWatched(v)'
    BY <2>1, StillWatched DEF OthersStand, LimitInv
  <2> QED BY <1>1, <2>2, WorkerWatched, SuccessLimited DEF LimitInv
<1>2. ASSUME NEW t \in Tasks, Enqueue(t) PROVE LimitInv'
  <2>1. UNCHANGED <<param, calls, pc, cur, resp>>
    BY <1>2 DEF Enqueue, workerVars
  <2>2. \A u \in Tasks \ {t} : channel'[u] = channel[u]
    BY <1>2, OutcomeTypes DEF Enqueue, PushTo
  <2>3. calls[t] = <<>>
    BY <1>2 DEF Enqueue, OutcomeInv, TaskOK, PlaceOK, Untouched
  <2>4. \A w \in Workers : LimitWatched(w)'
    BY <2>1, StillWatched DEF LimitInv
  <2>5. KnownLengthIsLimited'
    BY <2>1, <2>2, <2>3 DEF LimitInv, KnownLengthIsLimited
  <2> QED BY <2>4, <2>5 DEF LimitInv
<1>3. CASE \/ AddTask
           \/ \E t \in Tasks : CancelDownload(t)
           \/ Tick
           \/ UNCHANGED vars
  <2>1. UNCHANGED <<param, calls, channel, pc, cur, resp>>
    BY <1>3
       DEF AddTask, CancelDownload, Tick, vars, otherVars, callerVars,
           taskVars, workerVars
  <2> QED BY <2>1, StillWatched DEF LimitInv, KnownLengthIsLimited
<1>4. ASSUME NEW w \in Workers, NEW t \in Tasks, TransferEnds(w, t)
      PROVE  LimitInv'
  <2>1. /\ UNCHANGED <<param, calls, channel, pc, cur>>
        /\ \A v \in Workers \ {w} : resp'[v] = resp[v]
    BY <1>4, OutcomeTypes DEF TransferEnds, callerVars, taskVars
  <2>2. pc[w] = "wait" /\ ~resp[w].done
    BY <1>4 DEF TransferEnds, OutcomeInv, TransferInv, NoOrphanTransfer
  <2>3. resp'[w].length = resp[w].length
    <3>1. PICK e \in Errors \ {"noResponse"} :
            resp' = [resp EXCEPT ![w].done = TRUE, ![w].err = e]
      BY <1>4 DEF TransferEnds
    <3> QED BY <3>1, OutcomeTypes DEF Response
  <2>4. LimitWatched(w)'
    BY <2>1, <2>2, <2>3 DEF LimitInv, LimitWatched, ToldWhole, WithinLimit
  <2>5. \A v \in Workers \ {w} : LimitWatched(v)'
    BY <2>1, StillWatched DEF LimitInv
  <2>6. KnownLengthIsLimited'
    BY <2>1 DEF LimitInv, KnownLengthIsLimited
  <2> QED BY <2>4, <2>5, <2>6 DEF LimitInv
<1> QED BY <1>1, <1>2, <1>3, <1>4 DEF Next, Quiescent

\* No file that is told to be too long for its task is delivered, outside the
\* channel that resumes downloads.
THEOREM KnownLimitsAreKept == Spec => []KnownLengthIsLimited
<1>1. Init => LimitInv
  <2> SUFFICES ASSUME Init PROVE LimitInv
    OBVIOUS
  <2>1. \A t \in Tasks : calls[t] = <<>>
    BY DEF Init
  <2>2. \A w \in Workers : pc[w] = "loop"
    BY DEF Init
  <2> QED BY <2>1, <2>2 DEF LimitInv, LimitWatched, KnownLengthIsLimited
<1>2. LimitInv => KnownLengthIsLimited
  BY DEF LimitInv
<1> QED BY <1>1, <1>2, OutcomeInvHolds, NextLimit, PTL DEF Spec
====
