----------------------------- MODULE DownloadMgr -----------------------------
(***************************************************************************)
(* The download manager: callers that add and cancel tasks, the five       *)
(* channels with their idle lists, and the worker goroutines that          *)
(* classify, download, retry and end the tasks (downloadmgr.go,            *)
(* channel.go, task.go).  A transfer made by the grab package appears as   *)
(* its caller sees it: Do returns a response, a copy goroutine runs until  *)
(* it closes the response's Done channel, and Err waits for that.          *)
(*                                                                         *)
(* Each task is saved under a path of its own, so files are indexed by     *)
(* task.                                                                   *)
(***************************************************************************)
EXTENDS IdleList, Monitor

CONSTANTS
  MaxTasks,    \* bound on the number of addDownloadTask calls
  TaskParams,  \* the requests callers make
  CountLimit,  \* downloadingCountLimit of each channel
  RetryLimit,  \* retryTimesLimit of each channel
  RetryDelay,  \* the 5000 ms a task waits before it is tried again
  MayPanic     \* whether the user's callbacks may panic

Channels == {"preHandle", "quick", "random", "unpauseFast", "unpauseSlow"}

Tasks == 1..MaxTasks
None  == 0

\* The goroutines run() and classifyNewTaskLoop() start: channel and number.
Workers == {w \in Channels \X (1..15) : w[2] <= CountLimit[w[1]]}
Home(w) == w[1]

Requests ==
  [type : {"quick", "normal"},
   expire : Nat,          \* ExpireTime
   sizeLimit : Nat,       \* SizeLimit, 0 for no limit
   url : {"good", "malformed"},
   remote : Nat,          \* size of the file the origin serves
   lengthKnown : BOOLEAN, \* whether the origin sends Content-Length
   honest : BOOLEAN]      \* whether its bodies are framed and it serves the
                          \* ranges it is believed to serve (Grab's Honest)

\* The ranges initChannel admits, and a preHandle budget that the download
\* channels a task moves on to do not undercut.
ASSUME ConstantsAssumption ==
  /\ MaxTasks \in Nat
  /\ TaskParams \subseteq Requests
  /\ CountLimit \in [Channels -> 1..15]
  /\ RetryLimit \in [Channels -> 0..5]
  /\ RetryLimit["preHandle"] <= RetryLimit["random"]
  /\ RetryLimit["preHandle"] <= RetryLimit["unpauseFast"]
  /\ RetryDelay \in Nat
  /\ MayPanic \in BOOLEAN

VARIABLES
  now,         \* the clock, in units of RetryDelay's choosing
  currentId,   \* DownloadMgr.currentId
  param,       \* what the caller of addDownloadTask asks for
  adding,      \* tasks stored in taskMap and not yet pushed to a channel
  taskMap,     \* the ids in DownloadMgr.taskMap
  cancelFlag,  \* Task.cancelFlag
  status,      \* Task.Status
  failReason,  \* Task.FailReason
  failTimes,   \* Task.failTimes
  allowStart,  \* Task.allowStartTime
  channel,     \* Task.channel
  idle,        \* downloadChannel.idleList
  calls,       \* history: the onSuccess, onFail, onCancel calls of a task
  pc,          \* where each worker is
  cur,         \* the task each worker holds
  resp,        \* the grab.Response of each worker's startDownload
  live,        \* <<w, t>>: a copy goroutine worker w started for task t runs
  file,        \* what is stored at SavePath
  header,      \* whether SavePath.header exists
  requests,    \* history: how often client.Do was called for a task
  lost         \* tasks that were in a worker's hands when it panicked

callerVars == <<currentId, param, adding, taskMap, cancelFlag>>
taskVars   == <<status, failReason, failTimes, allowStart, channel, idle,
                calls>>
workerVars == <<pc, cur, resp>>
diskVars   == <<file, header>>
\* All that a worker leaves alone which only decides about its task.
otherVars == <<now, callerVars, live, diskVars, requests, lost>>
vars == <<taskVars, workerVars, otherVars>>

Locations ==
  {"loop", "popped", "classify", "start", "wait", "monitor", "callback",
   "forget", "recovering"}

Errors    == {"nil", "noResponse", "failed", "noSpace"}
Response  == [done : BOOLEAN, err : Errors, length : Nat \cup {-1}]
NoResponse == [done |-> FALSE, err |-> "nil", length |-> -1]

Statuses    == {"New", "Pause", "Downloading", "Success", "Fail"}
FailReasons ==
  {"NoFail", "NoSpace", "Expire", "SizeLimit", "RequestError", "Other"}

CallerTypeOK ==
  /\ now \in Nat
  /\ currentId \in 0..MaxTasks
  /\ param \in [Tasks -> Requests]
  /\ adding \subseteq Tasks
  /\ taskMap \subseteq Tasks
  /\ cancelFlag \in [Tasks -> BOOLEAN]

TaskTypeOK ==
  /\ status \in [Tasks -> Statuses]
  /\ failReason \in [Tasks -> FailReasons]
  /\ failTimes \in [Tasks -> Nat]
  /\ allowStart \in [Tasks -> Nat]
  /\ channel \in [Tasks -> Channels]
  /\ idle \in [Channels -> Seq(Tasks)]
  /\ calls \in [Tasks -> Seq({"success", "fail", "cancel"})]

WorkerTypeOK ==
  /\ pc \in [Workers -> Locations]
  /\ cur \in [Workers -> Tasks \cup {None}]
  /\ resp \in [Workers -> Response]

DiskTypeOK ==
  /\ live \subseteq Workers \X Tasks
  /\ file \in [Tasks -> {"absent", "partial", "complete"}]
  /\ header \in [Tasks -> BOOLEAN]
  /\ requests \in [Tasks -> Nat]
  /\ lost \subseteq Tasks

TypeOK == CallerTypeOK /\ TaskTypeOK /\ WorkerTypeOK /\ DiskTypeOK

Init ==
  /\ now = 0
  /\ currentId = 0
  /\ param \in [Tasks -> TaskParams]
  /\ adding = {}
  /\ taskMap = {}
  /\ cancelFlag = [t \in Tasks |-> FALSE]
  /\ status = [t \in Tasks |-> "New"]
  /\ failReason = [t \in Tasks |-> "NoFail"]
  /\ failTimes = [t \in Tasks |-> 0]
  /\ allowStart = [t \in Tasks |-> 0]
  /\ channel = [t \in Tasks |-> "preHandle"]
  /\ idle = [c \in Channels |-> <<>>]
  /\ calls = [t \in Tasks |-> <<>>]
  /\ pc = [w \in Workers |-> "loop"]
  /\ cur = [w \in Workers |-> None]
  /\ resp = [w \in Workers |-> NoResponse]
  /\ live = {}
  /\ file = [t \in Tasks |-> "absent"]
  /\ header = [t \in Tasks |-> FALSE]
  /\ requests = [t \in Tasks |-> 0]
  /\ lost = {}

-----------------------------------------------------------------------------
(***************************************************************************)
(* Callers and the clock.                                                  *)
(***************************************************************************)

\* addDownloadTask up to taskMap.Store: the task has an id and can be found.
AddTask ==
  /\ currentId < MaxTasks
  /\ currentId' = currentId + 1
  /\ taskMap' = taskMap \cup {currentId'}
  /\ adding' = adding \cup {currentId'}
  /\ allowStart' = [allowStart EXCEPT ![currentId'] = now]
  /\ UNCHANGED <<now, param, cancelFlag, status, failReason, failTimes, channel,
                 idle, calls, workerVars, live, diskVars, requests, lost>>

\* pushTaskToIdleList(t) on channel c: the task's channel and its list change.
PushTo(c, t) ==
  /\ channel' = [channel EXCEPT ![t] = c]
  /\ idle' = [idle EXCEPT ![c] = Push(@, allowStart', t)]

FirstChannel(t) == IF param[t].type = "quick" THEN "quick" ELSE "preHandle"

\* The rest of addDownloadTask: the task enters its first channel.
Enqueue(t) ==
  /\ t \in adding
  /\ adding' = adding \ {t}
  /\ UNCHANGED allowStart
  /\ PushTo(FirstChannel(t), t)
  /\ UNCHANGED <<now, currentId, param, taskMap, cancelFlag, status, failReason,
                 failTimes, calls, workerVars, live, diskVars, requests, lost>>

\* Any holder of the *Task may call CancelDownload, also after the task ended.
CancelDownload(t) ==
  /\ t <= currentId
  /\ ~cancelFlag[t]
  /\ cancelFlag' = [cancelFlag EXCEPT ![t] = TRUE]
  /\ UNCHANGED <<now, currentId, param, adding, taskMap, taskVars, workerVars,
                 live, diskVars, requests, lost>>

\* Time passes.  The bound: the clock rests when nobody waits for it, neither a
\* task for its start time nor an unfinished quick task for its expiry.
Tick ==
  /\ \E t \in Tasks :
       \/ t \in taskMap /\ allowStart[t] > now
       \/ calls[t] = <<>> /\ param[t].type = "quick" /\ param[t].expire >= now
  /\ now' = now + 1
  /\ UNCHANGED <<callerVars, taskVars, workerVars, live, diskVars, requests,
                 lost>>

-----------------------------------------------------------------------------
(***************************************************************************)
(* How a worker w lets go of the task it holds.  Each of these assigns the *)
(* whole of taskVars and workerVars.                                       *)
(***************************************************************************)

Held(w) == cur[w]

\* The worker runs the user's callback of kind k for the task that ended.
CallBack(w, k) ==
  /\ calls' = [calls EXCEPT ![Held(w)] = Append(@, k)]
  /\ pc' = [pc EXCEPT ![w] = "callback"]
  /\ resp' = [resp EXCEPT ![w] = NoResponse]
  /\ UNCHANGED <<failTimes, allowStart, channel, idle, cur>>

\* The worker pushes the task to channel c and goes on to the next one.
HandOver(w, c) ==
  /\ PushTo(c, Held(w))
  /\ pc' = [pc EXCEPT ![w] = "loop"]
  /\ cur' = [cur EXCEPT ![w] = None]
  /\ resp' = [resp EXCEPT ![w] = NoResponse]
  /\ UNCHANGED calls

TaskSuccess(w) ==
  /\ status' = [status EXCEPT ![Held(w)] = "Success"]
  /\ CallBack(w, "success")
  /\ UNCHANGED failReason

TaskCancel(w) ==
  /\ CallBack(w, "cancel")
  /\ UNCHANGED <<status, failReason>>

TaskFail(w, reason) ==
  /\ status' = [status EXCEPT ![Held(w)] = "Fail"]
  /\ failReason' = [failReason EXCEPT ![Held(w)] = reason]
  /\ CallBack(w, "fail")

\* An off-by-one in the test of the budget.
RetriesExhaustedLate(t) == failTimes[t] > RetryLimit[channel[t]]

RetriesExhausted(t) == failTimes[t] >= RetryLimit[channel[t]]

\* Another try, with its failure counted and its start put off.
TryAgain(w, reason) ==
  /\ status' = [status EXCEPT ![Held(w)] = "Fail"]
  /\ failReason' = [failReason EXCEPT ![Held(w)] = reason]
  /\ failTimes' = [failTimes EXCEPT ![Held(w)] = @ + 1]
  /\ allowStart' = [allowStart EXCEPT ![Held(w)] = now + RetryDelay]
  /\ HandOver(w, channel[Held(w)])

\* Four slips in taskBreakOff: the return behind taskFail is missing, the
\* reason is cleared too early, or never, or the failures are counted down.
TaskBreakOffNoReturn(w, reason) ==
  IF RetriesExhausted(Held(w))
  THEN /\ status' = [status EXCEPT ![Held(w)] = "Fail"]
       /\ failReason' = [failReason EXCEPT ![Held(w)] = "NoFail"]
       /\ failTimes' = [failTimes EXCEPT ![Held(w)] = @ + 1]
       /\ allowStart' = [allowStart EXCEPT ![Held(w)] = now + RetryDelay]
       /\ PushTo(channel[Held(w)], Held(w))
       /\ calls' = [calls EXCEPT ![Held(w)] = Append(@, "fail")]
       /\ pc' = [pc EXCEPT ![w] = "callback"]
       /\ resp' = [resp EXCEPT ![w] = NoResponse]
       /\ UNCHANGED cur
  ELSE TryAgain(w, "NoFail")

TaskBreakOffClearsFirst(w, reason) ==
  IF RetriesExhausted(Held(w)) THEN TaskFail(w, "NoFail")
  ELSE TryAgain(w, "NoFail")

TaskBreakOffKeepsReason(w, reason) ==
  IF RetriesExhausted(Held(w)) THEN TaskFail(w, reason)
  ELSE TryAgain(w, reason)

TaskBreakOffCountsDown(w, reason) ==
  IF RetriesExhausted(Held(w)) THEN TaskFail(w, reason)
  ELSE /\ status' = [status EXCEPT ![Held(w)] = "Fail"]
       /\ failReason' = [failReason EXCEPT ![Held(w)] = "NoFail"]
       /\ failTimes' = [failTimes EXCEPT ![Held(w)] = @ - 1]
       /\ allowStart' = [allowStart EXCEPT ![Held(w)] = now + RetryDelay]
       /\ HandOver(w, channel[Held(w)])

TaskBreakOff(w, reason) ==
  IF RetriesExhausted(Held(w)) THEN TaskFail(w, reason)
  ELSE TryAgain(w, "NoFail")

GoTo(w, location) == pc' = [pc EXCEPT ![w] = location]

-----------------------------------------------------------------------------
(***************************************************************************)
(* The loop of a worker: pop a task, drop it if it was cancelled or is     *)
(* overdue, else classify it (preHandle) or download it.                   *)
(***************************************************************************)

PopPositions(c) ==
  IF c = "random"
  THEN RandomPositions(idle[c], allowStart, now)
  ELSE QueuePositions(idle[c], allowStart, now)

Pop(w) ==
  /\ pc[w] = "loop"
  /\ \E i \in PopPositions(Home(w)) :
       /\ cur' = [cur EXCEPT ![w] = idle[Home(w)][i]]
       /\ idle' = [idle EXCEPT ![Home(w)] = RemoveAt(@, i)]
  /\ GoTo(w, "popped")
  /\ UNCHANGED <<now, callerVars, status, failReason, failTimes, allowStart,
                 channel, calls, resp, live, diskVars, requests, lost>>

Overdue(t) == param[t].type = "quick" /\ param[t].expire <= now

\* The continue behind taskCancel is missing.
DispatchNoContinue(w) ==
  /\ pc[w] = "popped"
  /\ IF Home(w) # "preHandle" /\ Overdue(Held(w))
     THEN TaskFail(w, "Expire")
     ELSE /\ GoTo(w, IF Home(w) = "preHandle" THEN "classify" ELSE "start")
          /\ calls' = IF cancelFlag[Held(w)]
                      THEN [calls EXCEPT ![Held(w)] = Append(@, "cancel")]
                      ELSE calls
          /\ UNCHANGED <<status, failReason, failTimes, allowStart, channel,
                         idle, cur, resp>>
  /\ UNCHANGED otherVars

Dispatch(w) ==
  /\ pc[w] = "popped"
  /\ IF cancelFlag[Held(w)] THEN TaskCancel(w)
     ELSE IF Home(w) # "preHandle" /\ Overdue(Held(w))
     THEN TaskFail(w, "Expire")
     ELSE /\ GoTo(w, IF Home(w) = "preHandle" THEN "classify" ELSE "start")
          /\ UNCHANGED <<taskVars, cur, resp>>
  /\ UNCHANGED otherVars

\* Tasks that cannot resume are pushed back to the channel they come from.
ClassifyBack(w) ==
  /\ pc[w] = "classify"
  /\ \/ TaskBreakOff(w, "RequestError")
     \/ /\ param[Held(w)].url = "good"
        /\ UNCHANGED <<status, failReason, failTimes, allowStart>>
        /\ \E c \in {"random", "preHandle"} : HandOver(w, c)
  /\ UNCHANGED otherVars

\* classify: the origin may fail to answer; else the range check decides.
Classify(w) ==
  /\ pc[w] = "classify"
  /\ \/ TaskBreakOff(w, "RequestError")
     \/ /\ param[Held(w)].url = "good"
        /\ UNCHANGED <<status, failReason, failTimes, allowStart>>
        /\ \E c \in {"random", "unpauseFast"} : HandOver(w, c)
  /\ UNCHANGED otherVars

-----------------------------------------------------------------------------
(***************************************************************************)
(* startDownload.                                                          *)
(***************************************************************************)

NewRequestFails(w) ==
  /\ pc[w] = "start"
  /\ param[Held(w)].url = "malformed"
  /\ TaskBreakOff(w, "RequestError")
  /\ UNCHANGED otherVars

CancelledBeforeRequest(w) ==
  /\ pc[w] = "start"
  /\ param[Held(w)].url = "good"
  /\ cancelFlag[Held(w)]
  /\ TaskCancel(w)
  /\ UNCHANGED otherVars

\* The last look at cancelFlag before the request is left out.
RequestingIgnoresCancel(w) ==
  /\ pc[w] = "start"
  /\ param[Held(w)].url = "good"

\* client.Do is called.
Requesting(w) ==
  /\ pc[w] = "start"
  /\ param[Held(w)].url = "good"
  /\ ~cancelFlag[Held(w)]

\* The request is made; Err is called next.
Request(w) ==
  /\ requests' = [requests EXCEPT ![Held(w)] = @ + 1]
  /\ GoTo(w, "wait")

\* client.Do closes the response itself: no answer, a bad status, a file that
\* cannot be opened or is longer than the remote one.
DoFails(w) ==
  /\ Requesting(w)
  /\ \E e \in Errors \ {"nil"} :
       resp' = [resp EXCEPT ![w] = [NoResponse EXCEPT !.done = TRUE, !.err = e]]
  /\ Request(w)
  /\ UNCHANGED <<now, callerVars, taskVars, cur, live, diskVars, lost>>

\* client.Do finds the file of an earlier attempt to have the right length, and
\* closes the response.  Of an honest origin it is the whole file.
DoFindsWholeFile(w) ==
  /\ Requesting(w)
  /\ file[Held(w)] # "absent"
  /\ param[Held(w)].honest => file[Held(w)] = "complete"
  /\ param[Held(w)].lengthKnown
  /\ param[Held(w)].remote > 0
  /\ resp' = [resp EXCEPT ![w] = [done |-> TRUE, err |-> "nil",
                                  length |-> param[Held(w)].remote]]
  /\ Request(w)
  /\ UNCHANGED <<now, callerVars, taskVars, cur, live, diskVars, lost>>

\* The Content-Length of the GET: what is left to fetch when the download of a
\* resumable task resumes, else the whole, or -1 when the origin sends none.
Lengths(w) ==
  LET t == Held(w) IN
  IF ~param[t].lengthKnown THEN {-1}
  ELSE IF Home(w) = "random" /\ file[t] = "partial"
  THEN {n \in 0..param[t].remote : n > 0 \/ param[t].remote = 0}
  ELSE {param[t].remote}

\* client.Do opens the file and leaves the copying to a goroutine.
DoStartsTransfer(w) ==
  /\ Requesting(w)
  /\ \E n \in Lengths(w) :
       resp' = [resp EXCEPT ![w] = [NoResponse EXCEPT !.length = n]]
  /\ live' = live \cup {<<w, Held(w)>>}
  /\ file' = [file EXCEPT ![Held(w)] = "partial"]
  /\ Request(w)
  /\ UNCHANGED <<now, callerVars, taskVars, cur, header, lost>>

\* The copy goroutine ends and closes Done.  A transfer that failed after its
\* last byte (setting the file's time) leaves a whole file behind.  One from a
\* dishonest origin may end without an error and leave a file that is not whole:
\* its body was cut short unnoticed, or a whole body was appended to a part.
TransferEnds(w, t) ==
  /\ <<w, t>> \in live
  /\ live' = live \ {<<w, t>>}
  /\ \E e \in Errors \ {"noResponse"} :
       resp' = [resp EXCEPT ![w].done = TRUE, ![w].err = e]
  /\ \E f \in {"partial", "complete"} :
       /\ param[t].honest /\ resp'[w].err = "nil" => f = "complete"
       /\ param[t].honest /\ resp'[w].err = "noSpace" => f = "partial"
       /\ file' = [file EXCEPT ![t] = f]
  /\ UNCHANGED <<now, callerVars, taskVars, pc, cur, header, requests, lost>>

IsComplete(w) == resp[w].done

\* A response whose Err only reports, and does not wait for Done.
ErrReturnsAtOnce(w) == TRUE

\* Response.Err blocks its caller until Done is closed.
ErrReturns(w) == IsComplete(w)

Waited(w) == pc[w] = "wait" /\ ErrReturns(w)

TransferFailed(w) ==
  /\ Waited(w)
  /\ resp[w].err # "nil"
  /\ TaskBreakOff(w, IF resp[w].err = "noResponse" THEN "RequestError"
                     ELSE "Other")
  /\ UNCHANGED otherVars

\* The comparison the wrong way round.
TooLongBackwards(w) ==
  /\ resp[w].length # -1
  /\ param[Held(w)].sizeLimit > 0
  /\ resp[w].length < param[Held(w)].sizeLimit

TooLong(w) ==
  /\ resp[w].length # -1
  /\ param[Held(w)].sizeLimit > 0
  /\ resp[w].length > param[Held(w)].sizeLimit

LengthOverLimit(w) ==
  /\ Waited(w)
  /\ resp[w].err = "nil"
  /\ TooLong(w)
  /\ TaskFail(w, "SizeLimit")
  /\ UNCHANGED otherVars

\* saveHeader fails: it could not create the file, or removed what it wrote.
SaveHeaderFails(w) ==
  /\ Waited(w)
  /\ resp[w].err = "nil"
  /\ ~TooLong(w)
  /\ \E h \in {header[Held(w)], FALSE} :
       header' = [header EXCEPT ![Held(w)] = h]
  /\ TaskBreakOff(w, "RequestError")
  /\ UNCHANGED <<now, callerVars, live, file, requests, lost>>

SaveHeader(w) ==
  /\ Waited(w)
  /\ resp[w].err = "nil"
  /\ ~TooLong(w)
  /\ header' = [header EXCEPT ![Held(w)] = TRUE]
  /\ status' = [status EXCEPT ![Held(w)] = "Downloading"]
  /\ GoTo(w, "monitor")
  /\ UNCHANGED <<now, callerVars, failReason, failTimes, allowStart, channel,
                 idle, calls, cur, resp, live, file, requests, lost>>

-----------------------------------------------------------------------------
(***************************************************************************)
(* The monitor loop of startDownload, from the first select on.            *)
(***************************************************************************)

\* What a tick may find, at the edges of the closures' comparisons.
Elapsed == {NoSpeedTime, NoSpeedTime + 1, LowSpeedTime, LowSpeedTime + 1,
            RandomDownloadingTime, RandomDownloadingTime + 1}

Sees(w, elapsed, speed) ==
  LET t == Held(w) IN
  [cancelled     |-> cancelFlag[t],
   oversize      |-> param[t].sizeLimit \in 1..(param[t].remote - 1),
   expired       |-> now > param[t].expire,
   othersWaiting |-> idle[channel[t]] # <<>>,
   elapsed       |-> elapsed,
   speed         |-> speed]

\* What the channel may decide about the task of w at a tick.
Verdicts(w) ==
  {CheckDownloadingState(channel[Held(w)], Sees(w, elapsed, speed)) :
     elapsed \in Elapsed, speed \in Speeds}

Pause(w) ==
  /\ status' = [status EXCEPT ![Held(w)] = "Pause"]
  /\ UNCHANGED <<failReason, failTimes, allowStart>>
  /\ HandOver(w, channel[Held(w)])

ToSlowChannel(w) ==
  /\ failTimes' = [failTimes EXCEPT ![Held(w)] = 0]
  /\ status' = [status EXCEPT ![Held(w)] = "New"]
  /\ UNCHANGED <<failReason, allowStart>>
  /\ HandOver(w, "unpauseSlow")

HandleBrokenTask(w, broken) ==
  \/ broken = "broken_pause"     /\ Pause(w)
  \/ broken = "broken_expire"    /\ TaskFail(w, "Expire")
  \/ broken = "broken_sizeLimit" /\ TaskFail(w, "SizeLimit")
  \/ broken = "broken_noSpeed"   /\ TaskBreakOff(w, "RequestError")
  \/ broken = "broken_lowSpeed"  /\ ToSlowChannel(w)
  \/ broken = "broken_cancel"    /\ TaskCancel(w)

\* The look at IsComplete before a download is broken off is left out.
MonitorTickUnchecked(w) ==
  /\ pc[w] = "monitor"
  /\ \E broken \in Verdicts(w) :
       IF broken # "no_broken" THEN HandleBrokenTask(w, broken)
       ELSE UNCHANGED <<taskVars, workerVars>>
  /\ UNCHANGED otherVars

\* The ticker fires: the download is broken off if its channel says so and the
\* transfer still runs; returning from startDownload then cancels the transfer,
\* whose goroutine ends in a step of its own.
MonitorTick(w) ==
  /\ pc[w] = "monitor"
  /\ \E broken \in Verdicts(w) :
       IF broken # "no_broken" /\ ~IsComplete(w)
       THEN HandleBrokenTask(w, broken)
       ELSE UNCHANGED <<taskVars, workerVars>>
  /\ UNCHANGED otherVars

\* What Stat says of the file: it may be missing or empty, or it is not.  A file
\* that is not whole may be either.
MissingOrEmpty(t) == file[t] # "complete" \/ param[t].remote = 0
HasBytes(t)       == file[t] # "absent" /\ param[t].remote # 0

\* Done is closed: the loop ends and the download is judged.
MonitorDone(w) ==
  /\ pc[w] = "monitor"
  /\ IsComplete(w)
  /\ IF resp[w].err = "noSpace" THEN TaskFail(w, "NoSpace")
     ELSE IF resp[w].err # "nil" THEN TaskBreakOff(w, failReason[Held(w)])
     ELSE \/ MissingOrEmpty(Held(w)) /\ TaskBreakOff(w, "Other")
          \/ HasBytes(Held(w)) /\ TaskSuccess(w)
  /\ UNCHANGED otherVars

-----------------------------------------------------------------------------
(***************************************************************************)
(* The rest of taskSuccess, taskFail and taskCancel, and panics.           *)
(***************************************************************************)

\* taskFail and taskCancel forget the header file.
CallbackReturnsHeaderStays(w) ==
  /\ pc[w] = "callback"
  /\ GoTo(w, "forget")
  /\ IF Last(calls[Held(w)]) = "success" THEN UNCHANGED file
     ELSE file' = [file EXCEPT ![Held(w)] = "absent"]
  /\ UNCHANGED <<now, callerVars, taskVars, cur, resp, live, header, requests,
                 lost>>

\* The callback returns; taskFail and taskCancel remove both files.
CallbackReturns(w) ==
  /\ pc[w] = "callback"
  /\ GoTo(w, "forget")
  /\ IF Last(calls[Held(w)]) = "success"
     THEN UNCHANGED diskVars
     ELSE /\ file' = [file EXCEPT ![Held(w)] = "absent"]
          /\ header' = [header EXCEPT ![Held(w)] = FALSE]
  /\ UNCHANGED <<now, callerVars, taskVars, cur, resp, live, requests, lost>>

\* An ending without its taskMap.Delete.
ForgetLeaks(w) ==
  /\ pc[w] = "forget"
  /\ GoTo(w, "loop")
  /\ cur' = [cur EXCEPT ![w] = None]
  /\ UNCHANGED <<taskVars, resp, otherVars>>

\* taskMap.Delete, and the worker is back at its loop.
Forget(w) ==
  /\ pc[w] = "forget"
  /\ taskMap' = taskMap \ {Held(w)}
  /\ GoTo(w, "loop")
  /\ cur' = [cur EXCEPT ![w] = None]
  /\ UNCHANGED <<now, currentId, param, adding, cancelFlag, taskVars, resp,
                 live, diskVars, requests, lost>>

\* A callback of the user's panics, the one that ends a task, or onDownloading
\* at a tick the loop took before it looked at Done: safeInfiLoop recovers the
\* goroutine, and its task is in nobody's hands.
Panic(w) ==
  /\ MayPanic
  /\ pc[w] \in {"monitor", "callback"}
  /\ GoTo(w, "recovering")
  /\ cur' = [cur EXCEPT ![w] = None]
  /\ resp' = [resp EXCEPT ![w] = NoResponse]
  /\ lost' = lost \cup {Held(w)}
  /\ UNCHANGED <<now, callerVars, taskVars, live, diskVars, requests>>

\* After redoDelaySec safeInfiLoop starts the loop anew.
Restart(w) ==
  /\ pc[w] = "recovering"
  /\ GoTo(w, "loop")
  /\ UNCHANGED <<taskVars, cur, resp, otherVars>>

-----------------------------------------------------------------------------
StartDownload(w) ==
  \/ NewRequestFails(w)
  \/ CancelledBeforeRequest(w)
  \/ DoFails(w)
  \/ DoFindsWholeFile(w)
  \/ DoStartsTransfer(w)
  \/ TransferFailed(w)
  \/ LengthOverLimit(w)
  \/ SaveHeaderFails(w)
  \/ SaveHeader(w)
  \/ MonitorTick(w)
  \/ MonitorDone(w)

WorkerStep(w) ==
  \/ Pop(w)
  \/ Dispatch(w)
  \/ Classify(w)
  \/ StartDownload(w)
  \/ CallbackReturns(w)
  \/ Forget(w)
  \/ Restart(w)

\* Every task was dealt with: the workers poll their empty lists for ever.
Quiescent ==
  /\ currentId = MaxTasks
  /\ taskMap \subseteq lost
  /\ \A w \in Workers : pc[w] = "loop"
  /\ UNCHANGED vars

Next ==
  \/ AddTask
  \/ \E t \in Tasks : Enqueue(t) \/ CancelDownload(t)
  \/ Tick
  \/ \E w \in Workers : WorkerStep(w) \/ Panic(w)
  \/ \E w \in Workers, t \in Tasks : TransferEnds(w, t)
  \/ Quiescent

Spec == Init /\ [][Next]_vars

\* The clock runs, goroutines that can go on do, origins answer requests (or
\* are given up by the dialer); nothing is owed by callers.
CodeFairness ==
  /\ WF_vars(Tick)
  /\ \A t \in Tasks : WF_vars(Enqueue(t))
  /\ \A w \in Workers : WF_vars(WorkerStep(w))

\* An origin may hang for ever once its transfer has begun.
CodeFairSpec == Spec /\ CodeFairness

\* Origins end every transfer, one way or another.
FairSpec ==
  /\ CodeFairSpec
  /\ \A w \in Workers, t \in Tasks : WF_vars(TransferEnds(w, t))

-----------------------------------------------------------------------------
(***************************************************************************)
(* Properties.                                                             *)
(***************************************************************************)

Waiting(c) == ToSet(idle[c])
Queued     == UNION {Waiting(c) : c \in Channels}
HeldTasks  == {cur[w] : w \in Workers} \ {None}

\* No task is ever in two hands: it stands at most once in the idle lists, in
\* the list of its own channel, is held by at most one worker, and a queued
\* task is not held, nor still being added, nor lost.  (pushTaskToIdleList is
\* the last thing a worker does with a task; popTaskFormIdleList removes what
\* it returns under the same lock.)
SingleOwner ==
  /\ \A c \in Channels : Distinct(idle[c])
  /\ \A c \in Channels : \A t \in Waiting(c) : channel[t] = c
  /\ \A v, w \in Workers : cur[v] = cur[w] /\ cur[v] # None => v = w
  /\ Queued \cap (HeldTasks \cup adding \cup lost) = {}
  /\ HeldTasks \cap (adding \cup lost) = {}
  /\ adding \cap lost = {}

\* taskMap neither leaks nor forgets: what it holds is exactly what is being
\* added, queued, in a worker's hands or was lost to a panic.
Accounted == taskMap = adding \cup Queued \cup HeldTasks \cup lost

\* Every idle list stays sorted by allowStartTime, which popQueueTask and the
\* scan of popRandomTask rely on.
ListsSorted == \A c \in Channels : SortedBy(idle[c], allowStart)

\* A copy goroutine runs only while the worker that started it waits for it in
\* startDownload: no transfer outlives its download, so no two transfers write
\* one file and nothing writes a file that is being removed.
NoOrphanTransfer ==
  \A x \in live : pc[x[1]] = "wait" /\ cur[x[1]] = x[2] /\ ~resp[x[1]].done

\* No tick of the monitor loop breaks a download off, whatever its channel has
\* to say of it (cancelled, too long, expired, no speed, low speed, a long time
\* while others wait): Err, called before the loop, has waited for Done, so the
\* loop is left when Done is found closed or a callback panics, and in no other
\* way.
NeverBrokenOff ==
  [][\A w \in Workers : pc[w] = "monitor" /\ pc'[w] # "monitor" =>
       MonitorDone(w) \/ Panic(w)]_vars

\* A task that reports success has a file and its header file on disk, carries
\* no failure of an earlier attempt, and has the whole file if its origin is
\* honest.  (If not, transfer.copy may have taken a body that broke off for a
\* whole one, and getRequest an answer that ignores Range for the rest.)
SuccessDelivers ==
  \A t \in Tasks : calls[t] = <<"success">> =>
    /\ file[t] # "absent"
    /\ param[t].honest => file[t] = "complete"
    /\ header[t]
    /\ status[t] = "Success"
    /\ failReason[t] = "NoFail"

\* A task that reports failure says why.
FailureHasReason ==
  \A t \in Tasks : calls[t] = <<"fail">> =>
    status[t] = "Fail" /\ failReason[t] # "NoFail"

\* Once a task is forgotten without success, neither of its files is left.
NoResidue ==
  \A t \in 1..currentId : t \notin taskMap /\ calls[t] # <<"success">> =>
    file[t] = "absent" /\ ~header[t]

\* No task is retried more often than its channel allows, whatever failures
\* it has behind it, and no origin is asked for a file more than once per try.
RetryBudget ==
  \A t \in Tasks :
    /\ failTimes[t] <= RetryLimit[channel[t]]
    /\ requests[t] <= RetryLimit[channel[t]] + 1

\* A file longer than its task allows is never delivered when the origin tells
\* its length, except by the channel that resumes downloads: there the length
\* may be that of the rest.
KnownLengthIsLimited ==
  \A t \in Tasks :
    /\ calls[t] = <<"success">>
    /\ param[t].lengthKnown /\ param[t].sizeLimit > 0
    /\ channel[t] # "random"
    => param[t].remote <= param[t].sizeLimit

\* A worker starts no task before its time (a retry waits out its delay), and
\* the first-come channels start no task while an earlier one waits.
PopOrder ==
  [][\A w \in Workers : pc[w] = "loop" /\ pc'[w] = "popped" =>
       /\ allowStart[cur'[w]] <= now
       /\ Home(w) # "random" =>
            \A t \in Waiting(Home(w)) :
              allowStart[cur'[w]] <= allowStart[t]]_vars

\* The task is not past the last look startDownload takes at cancelFlag.
BeforeRequest(t) ==
  /\ t \in taskMap
  /\ calls[t] = <<>>
  /\ \A w \in Workers : cur[w] = t => pc[w] \in {"popped", "classify", "start"}

\* A cancellation that comes before the request of an attempt is final: the
\* task may be cancelled or fail, it will not succeed.
CancelIsFinal ==
  \A t \in Tasks :
    [](cancelFlag[t] /\ BeforeRequest(t) => [](calls[t] # <<"success">>))

\* The manager keeps the promises of TaskLifecycle.
Lifecycle == INSTANCE TaskLifecycle
               WITH known <- taskMap, cancelled <- {t \in Tasks : cancelFlag[t]}
ImplementsLifecycle == Lifecycle!Spec

\* What Transfer's phase and err are for task t: its response counts as long as
\* a worker has it.
HasResponse(w, t) == cur[w] = t /\ resp[w].done

Phase(t) ==
  IF \E w \in Workers : <<w, t>> \in live THEN "copying"
  ELSE IF \E w \in Workers : HasResponse(w, t) THEN "done"
  ELSE "idle"

Outcome(t) ==
  IF Phase(t) = "done"
  THEN resp[CHOOSE w \in Workers : HasResponse(w, t)].err
  ELSE "nil"

\* The workers deal with each task's file as Transfer lets them: one attempt
\* after another, each over before its response is judged, and no file is
\* removed under a transfer.
View(t) == INSTANCE Transfer
             WITH honest <- param[t].honest, phase <- Phase(t),
                  err <- Outcome(t), file <- file[t]
UseTransfers ==
  /\ \A t \in Tasks : View(t)!Init
  /\ [][\A t \in Tasks : [View(t)!Next]_(View(t)!vars)]_vars

\* Every task that was added is dealt with in the end, by a worker or by a panic
\* in its own callback: the others go on, behind a restarted worker.
EveryTaskEnds ==
  \A t \in Tasks : t \in taskMap ~> (t \notin taskMap \/ t \in lost)

-----------------------------------------------------------------------------
(***************************************************************************)
(* What the documentation says and the code does not do.                   *)
(***************************************************************************)

\* task.go: if SizeLimit > 0 and more data than SizeLimit is downloaded, the
\* task fails.
SizeLimitHolds ==
  \A t \in Tasks : calls[t] = <<"success">> /\ param[t].sizeLimit > 0 =>
    param[t].remote <= param[t].sizeLimit

\* README.md: a failed task gets a chance to retry unless there is no space;
\* a download that found no space is not tried again.
NoSpaceNotRetried ==
  [][\A w \in Workers :
       pc[w] = "wait" /\ resp[w].err = "noSpace" => pc'[w] # "loop"]_vars

\* downloadmgr.go: a quick task fails when it expires, also when the origin
\* hangs.
QuickTaskExpires ==
  \A t \in Tasks : param[t].type = "quick" /\ t \in taskMap ~> calls[t] # <<>>

\* README.md: a download that is abnormal, whose data has stopped coming, is
\* interrupted.
StalledIsInterrupted ==
  \A w \in Workers, t \in Tasks : <<w, t>> \in live ~> <<w, t>> \notin live
=============================================================================
