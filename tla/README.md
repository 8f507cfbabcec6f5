# A verification model of downloadmgr

This directory keeps TLA+ models of the download manager, the TLC runs that
check them and the proofs that TLAPS checks. Paths such as `task.go:189` are
relative to `src/`.

## 1. Inventory

### Components, their state and their operations

| Component | State | Operations |
|---|---|---|
| Download manager (`downloadmgr.go`) | `currentId` under `idLock`; `taskMap` (a `sync.Map`); the five channels | `addDownloadTask`, `GetTaskInfo`, `classify`; starts the worker goroutines |
| Download channel (`channel.go`), five instances | `idleList` under `idleListLock`, sorted by `allowStartTime`; the limits of its workers and retries | `pushTaskToIdleList`, `popQueueTask` or `popRandomTask`, the loop of `run`, `checkDownloadingStateFunc` (one closure for each channel), `handleBrokenTaskFunc` |
| Task (`task.go`) | `Status`, `FailReason`, `failTimes`, `allowStartTime`, `channel`, `cancelFlag`, written without a lock by whoever holds the task | `CancelDownload` by any holder of the pointer; `startDownload`, `taskSuccess`, `taskCancel`, `taskBreakOff`, `taskFail` by the worker that popped it |
| grab client and response (`grab/client.go`, `grab/response.go`) | one `Response` for each attempt: `HTTPResponse`, `fi`, `DidResume`, `bytesResumed`, `err`, `Done`; the file at `SavePath` | the chain of state functions: stat, HEAD, validate, GET, open in the caller's goroutine, copy and close in another; `Err` blocks until `Done` is closed |
| Transfer and gauge (`grab/transfer.go`, `grab/bps`) | bytes written (atomic); a ring of samples under a mutex; a ticker | `copy`, `Watch` in a goroutine of its own, `Sample`, `BPS` |
| Header files (`header.go`) | the ignore set under `ignoreHeaderMapLock`; `SavePath.header` | `SetIgnoreHeader`, `saveHeader` |
| Goroutine restarts (`safeInfiLoop` in `downloadmgr.go`) | an unbuffered `runChannel` per loop, an outer goroutine and a body | run the loop, recover a panic, wait ten seconds, run it again |

### How they interact

A caller adds a task from its own goroutine: the task gets an id, enters
`taskMap` and is pushed to the `quick` channel (quick tasks) or to `preHandle`
(normal tasks). Three workers pop `preHandle`, ask the origin whether it serves
ranges and push the task to `random` or to `unpauseFast`. The workers of a
download channel pop a task, drop it if it was cancelled or is overdue, and call
`startDownload`, which asks grab for a transfer, waits for it, stores the header
file, enters the monitor loop and ends the task: success, cancellation, failure,
or another try, for which the task goes back to the list of its channel with a
start time five seconds ahead. Each ending calls one callback of the user,
removes the files (unless it is success) and deletes the task from `taskMap`.

Shared between goroutines are `taskMap`, the idle lists, the fields of a task
(handed from goroutine to goroutine through the lists), `cancelFlag`, which
callers write while workers read it, the ignore set, which callers replace while
workers save headers, the count of bytes and the samples of a transfer, and the
file system.

### What is hard here

* **Interleavings.** A task is in `taskMap` before it is in a list; it can be
  cancelled at any time; a push makes it visible to other workers at once; the
  copy goroutine runs beside the worker.
* **Order.** The lists are sorted by a key that retries change; a queue pop looks
  at the head only, a random pop scans the ready prefix.
* **Retries.** `failTimes` follows the task from channel to channel, files of
  earlier attempts are resumed or found whole, and fields keep old values.
* **Blocking.** `resp.Err()` at `task.go:189` waits for the end of the transfer
  before the monitor loop starts. Much of the code behind it, and the protection
  against hanging origins, depends on this line; so does the absence of two
  writers of one file.
* **Partial failure.** A panic in a user's callback leaves a task in nobody's
  hands; saving the header may fail when the file is already whole, or
  after half of the header file, with the lock held.
* **Handshakes.** A panicking body passes its right to run on through an
  unbuffered channel that the caller and the outer goroutine use as well.
* **Time.** Ticks come late, wait in their channel or are dropped, and a rate is
  computed from them at any moment.

What makes each component correct:

* manager: `taskMap` holds exactly the tasks that are somewhere in the system,
  ids are found until one callback has been called, and never again after that;
* channels: a task is in one list at most, lists stay sorted, pops respect start
  times, every queued task is dealt with in the end;
* tasks: one ending each, with a reason that fits, files that fit, and no more
  attempts than the limits allow; a cancellation is not followed by a success;
* grab: `Done` is closed once and always, the file is the origin's file when
  there was no error, and a request is made with the right range;
* gauge: the rate is a number, taken over the last samples and over no shorter
  time than they stand for; the sampling ends with the transfer;
* header: a header file holds what one ignore set leaves of one answer, or does
  not exist, and the lock is never kept;
* restarts: one body for each loop at any time, and always one again.

The hazards at their lines, and the properties that watch them, are listed in
`PROJECT.json`.

## 2. Modules

| Module | Models | Role |
|---|---|---|
| `IdleList` | push and the two pops of `channel.go:74-243` | operators on a list and the start times of its tasks |
| `Monitor` | the four closures of `channel.go:255-420` | an operator from an observation to a verdict |
| `DownloadMgr` | `downloadmgr.go`, `channel.go`, `task.go`, with grab as its caller sees it | the state machine of the whole system; composes the two modules above |
| `TaskLifecycle` | what a caller may rely on | abstract specification that `DownloadMgr` implements |
| `Grab` | `grab/client.go`, `grab/response.go`, `grab/transfer.go` | the state machine of `Do` over successive attempts at one file, with the file's contents |
| `Transfer` | what `startDownload` relies on about grab | abstract specification that `Grab` implements, and `DownloadMgr` for the file of each task |
| `Gauge` | `grab/bps/sma.go`, `grab/bps/bps.go` and the counter of `grab/transfer.go` | the goroutines of one transfer, the ticker, the ring |
| `HeaderFile` | `header.go` | savers and setters around a `sync.RWMutex` |
| `HeaderStore` | what `saveHeader` and `SetIgnoreHeader` promise | abstract specification that `HeaderFile` implements; its `Save` and `SaveFails` are the two steps `DownloadMgr` has |
| `SafeLoop` | `safeInfiLoop` and the calls of it (`downloadmgr.go:280-309`) | caller, outer goroutines and bodies |
| `Loops` | what `safeInfiLoop` promises | abstract specification that `SafeLoop` implements |
| `MCDownloadMgr`, `MCGrab`, `MCHeaderFile` | | constants for TLC |
| `IdleList_proof`, `DownloadMgr_proof`, `Transfer_proof`, `Outcome_proof` (each on top of the one before), `Grab_proof`, `Gauge_proof`, `SafeLoop_proof`, `HeaderFile_proof` | | lemmas and theorems |

### DownloadMgr

State. `idle[c]` is the idle list of channel `c`; the fields of a task are
functions on `Tasks` (`status`, `failReason`, `failTimes`, `allowStart`,
`channel`, `cancelFlag`). A worker `w = <<channel, number>>` is one goroutine:
`pc[w]` says where it is, `cur[w]` is its local variable `task`, `resp[w]` the
response of its `startDownload`. `live` holds the copy goroutines that run.
`file[t]` and `header[t]` are what is stored on disk. `calls`, `requests` and
`lost` are history. The clock `now` advances in units; `RetryDelay` stands for
the 5000 ms of `task.go:298`. The model keeps `ExpireTime` in the same unit.

| `pc` | the goroutine is |
|---|---|
| `loop` | about to pop (`channel.go:138`, `downloadmgr.go:182`) |
| `popped` | holding a task, before the checks of `cancelFlag` and expiry |
| `classify` | probing the origin (`downloadmgr.go:197`) |
| `start` | in `startDownload`, before the request |
| `wait` | behind `client.Do`, up to the end of `saveHeader` |
| `monitor` | in the monitor loop |
| `callback` | in the user's `onSuccess`, `onFail` or `onCancel` |
| `forget` | about to delete the task from `taskMap` |
| `recovering` | a panic was recovered, the loop has not been started again |

Steps. Code that runs under one lock, or touches only what the goroutine owns,
is one step; every point at which another goroutine can see or change something
is a step boundary: the two halves of `addDownloadTask` (`AddTask`, `Enqueue`),
pop, the reads of `cancelFlag`, the request, the end of the transfer (the
steps of `TransferEnds` belong to the copy goroutine), the callback, the delete.
The retry branch of `taskBreakOff` writes only fields of a task nobody else
holds before its push, so `TryAgain` is one step.

What the outside may do is nondeterministic: an origin answers, fails, has a
length or not, hangs; the disk is full; a header cannot be saved; time passes; a
callback panics (only where `MayPanic` is TRUE): the one of the task's ending, or
`onDownloading` at a tick that the loop took before it looked at `Done`. At a tick of the monitor loop
the elapsed time and the speed are any of the values at the edges of the
closures' comparisons.

Abstractions. Contents of files are `absent`, `partial` or `complete`; `partial`
is any file that is not the origin's, a part of it, but also a part with the
whole appended, and it may be empty. A request says whether its origin is
`honest`: an attempt without an error leaves the whole file of an honest origin,
and any file of another one, whose bodies may break off unnoticed
(`grab/transfer.go:86-91`) or who ignores the Range header
(`grab/client.go:379`). What makes an origin honest is defined in `Grab`. Each
task has its own `SavePath`. The URL is `good` or one that `url.Parse` rejects. A
resumed file's Content-Length is any positive rest. `onDownloading` and
`onSlowSpeed` change no state; that they may panic is in `Panic`.

### TaskLifecycle

A task is registered, possibly cancelled, ended by exactly one callback
(`onCancel` only after a cancellation) and forgotten. The mapping takes `known`
to `taskMap` and `cancelled` to the set of tasks whose `cancelFlag` is set.

### Grab and Transfer

`DownloadMgr` lets an attempt fail before it touches the file (`DoFails`), take
the file for whole (`DoFindsWholeFile`), or start a transfer that ends with an
error or, if the origin is honest, with a whole file (`DoStartsTransfer`,
`TransferEnds`). `Transfer` has these steps for one file and two of the caller: it drops the response, or removes the
file. The two modules meet in `Transfer`: `Grab` shows that the code of grab takes
no other steps, for honest origins and for others (`ImplementsTransfer`), and `DownloadMgr` that its workers deal
with every task's file by these steps only, one attempt after another whichever
workers make them (`UseTransfers`); a single state space of both would add
nothing but size.

State. `next` is the state function that `Client.run` is about to call (or the
place in `copyFile` where it is), `routine` the goroutine it runs in: the one
that called `Do`, or the copy goroutine. `resp` has the fields of `Response`
that decide anything, with `http` for `HTTPResponse` (`nil`, or the method of its
request), `body` for the bytes not yet read, `range` for the Range header, `n` for
the count of its transfer, `size` and `resumed` for `sizeUnsafe` and
`bytesResumed`. `file` is a sequence of bytes, `<<1, 2, ...>>` if it is the
origin's; `Absent` if there is no file.

Each state function is an action; `copyFile` is `CopyFile` (up to the
truncation), `CopyBytes`, `CopyBreaks` or `CopyEnds` for a turn of the loop of
`transfer.copy`, and `AfterCopy`. `Cancel` makes the context done, at any point:
`run` looks at it before each state function (`Interrupted`). Requests, the
file system and the body may fail wherever the code has an error path.

An origin has a size; it sends a Content-Length or not, serves ranges or not,
advertises them or not, and frames its bodies or not (a body without
Content-Length and chunks ends where the connection does; one with a length does
not). `Probe` is what `checkOriginResumeSupport` may have found before the
task's first attempt: it asks for one byte and believes an origin that
advertises ranges, or whose body has one byte. So an origin is taken to serve
ranges that does not if it advertises them falsely, if its file is one byte
long, or if an unframed body breaks off behind the first byte. The properties
say which origins they need: `KeepsRanges`, a probe that told the truth, or
`Honest`, framed bodies as well. `Honest(origin)` is `Transfer`'s `honest`, which
`DownloadMgr` takes from the request.

`ProgressIsReal` relates what `Size` and `BytesComplete` say, from three fields
which different state functions set in two goroutines, to the file.

Under `Transfer`'s mapping the attempt is `idle` until the transfer is set,
`copying` until `Done` is closed, `done` until the response is replaced. In
`DownloadMgr` a task is `copying` while a copy goroutine is in `live`, `done`
while a worker holds it together with a response. A file that exists at `copying` counts as
`partial`: nobody reads it before the attempt has ended.

### Gauge

`copy` is where the loop of `transfer.copy` is, `n` the bytes it has written,
`done` whether the context it made for `Watch` is done. `watch` is where `Watch`
is, `due` and `tick` are its `time.Ticker`: when it fires next and the tick that
waits in its channel. `index`, `sampleCount`, `samples` and `timestamps` are the
fields of `sma`, `taken` is the history of all samples. `Sample` and `BPS` run
under one mutex and are each one step; BPS may be asked for in any state, so the
properties speak of what it would return in each.

The ticker may fire late and keeps its rhythm; a tick that finds the channel
full is dropped; `Watch` may take a tick at any time after it fired. What
`Ticker` does is modelled from its documentation (`external`).

### HeaderFile and HeaderStore

`saving[w]` and `setting[s]` say where each saver and setter is; `left` are the
names the range over the response's header has still to come to, in any order,
`text` what has been written. `readers` and `writer` are the `sync.RWMutex`: a
setter that wants the lock keeps new savers waiting, gets it when the last
reader has gone, and admits all waiting savers when it unlocks. A header file
has the names stored and whether the file name is among them; `CutOff` is one
that has been created and not yet flushed. The answer says whether its
Content-Disposition lacks a file name and whether `GuessFilename` finds one.
`genHeaderFile`, each write and the `Flush` may fail; the deferred calls run in
their order: unlock and close, then remove. That removing and closing do not
fail is an assumption: their errors are ignored by the code.

A saver saves again and again, as a task that is retried does, over what its
last call left. Under the mapping to `HeaderStore` what counts while a call runs
is the file it found, and `Save` happens when the call returns: the lock has been
held since before the first look at the ignore set, so the set of that moment is
the set of them all.

A known file name goes into the file when the answer's Content-Disposition lacks
one, and as a line of its own when there is no Content-Disposition, even if
Content-Disposition is ignored; when it is ignored and in the answer, the name is
not stored at all. `Text` has it so.

### SafeLoop and Loops

`called` and `calling` are `NewDownloadMgr`'s progress; `outer[l]` is where the
outer goroutine of loop `l` is, `bodies[l]` counts its bodies at each of their
places. An unbuffered send and its receive are one step, `ReceiveFromCaller` or
`ReceiveFromBody`. Under the mapping to `Loops` a loop is up while a body calls
`todo` or sleeps between two calls.

## 3. Runs

All constants are small, and the interesting cases still occur:

| Run | Instance | Shows |
|---|---|---|
| `flow` | 2 tasks, each quick or normal; 2 workers on `random`, 1 elsewhere; retry limit 1, panics | `TypeOK`, `SingleOwner`, `Accounted`, `NoOrphanTransfer`, `ListsSorted`, `PopOrder`, `NeverBrokenOff`, and the refinement `ImplementsLifecycle` |
| `outcomes` | 1 task, every variant of a request, honest origins and others, the code's retry limits, panics | `SuccessDelivers`, `FailureHasReason`, `NoResidue`, `RetryBudget`, `KnownLengthIsLimited`, `CancelIsFinal`, and `UseTransfers`, the refinement of `Transfer` for the task's file |
| `liveness` | 2 tasks, 1 worker per channel, one retry on `random` and none elsewhere, panics | `EveryTaskEnds` under `FairSpec` |
| `grab` | every kind of origin, files of 0 to 3 bytes, 3 attempts | `TypeOK`, `NoDeveloperError`, `OnlyPrefixes`, `SuccessIsWhole`, `ProgressIsReal`, `EveryAttemptEnds` under `FairSpec`, and the refinement `ImplementsTransfer` |
| `gauge` | a ring of 3, a tick every 2 units of time, 11 units, 2 bytes | `TypeOK`, `WindowIsLast`, `RateIsSane`, `WindowIsLong`, and `WatchEnds` under `FairSpec` |
| `header` | 2 savers, 2 setters, 2 names, 2 ignore sets, 2 answers | `TypeOK`, `NoHalfFile`, the refinement `ImplementsStore`, and `EveryCallReturns` under `FairSpec` |
| `safe_loop` | 4 loops | `TypeOK`, `OneBody`, and the refinement `ImplementsLoops`, liveness included, under `FairSpec` |

Two tasks and two workers on one channel are the least at which two goroutines
compete for a task or a list, and at which a retry has to be inserted behind or
before another task; for longer lists there is the proof of `ListsStaySorted`.
`NeverBrokenOff` needs the second task as well: the closure of `random` looks
at whether others are waiting. Properties about one task's attempts need
one task and the full retry limits of `channel.go:38-45` (at most four attempts).
Sizes 0, 1 and 2 with limits 0 and 1 give files that are empty, fit and do not
fit. `AllParams` leaves out what no request can be: a body whose length is told is
framed, and no ranges are asked for a quick task, so that a quick task with a
told length has an honest origin. Liveness needs less of the retries than
safety: one pass through a list that has to wait for the clock. `Tick` is disabled when nothing waits for the clock, which bounds `now`;
`MaxTasks` bounds the ids.

A file of three bytes is the least that can be resumed twice and still lack a
byte; three attempts are a first, one that resumes and one that follows a
resumed one (an attempt starts from nothing but the file). `MaxAttempts` is the
bound on calls of `Do`.

`Horizon`, the bound on the time of `Gauge`, lets the ring turn and a sample of
the second turn be overtaken by a late tick; `MaxBytes` bounds what is copied.
The two ignore sets of `header` are such that the names left by one and by the
other, mixed, are left by neither; the answers are one without and one with a
Content-Disposition, each with a name to be added. Four loops are more than two
that could concern each other: their channels are their own, and only the calls
are in one goroutine.

Deadlock is checked. In `Grab`, `Finished` stands for the end of the last
attempt the bound allows, in `Gauge` for the end of the transfer; in `SafeLoop`,
`Caller` stands for what goes on outside when all loops sleep. `Quiescent`, a step that changes nothing, stands for the
workers that poll empty lists when every task was dealt with; any other state
without a successor would be reported.

### Where the code does not do what it says

| Run | Documentation | Code |
|---|---|---|
| `size_limit` | `task.go:65`: "if download data > size limit, task fail" | `task.go:201` looks at a Content-Length, which may be missing or only that of the rest of a resumed file |
| `no_space` | `README.md:35`: a retry "unless no sapce" | the test for no space is behind another look at the same error, `task.go:189`, which retries |
| `hung_quick` | `downloadmgr.go:67`: "The task will fail when it expires." | the monitor loop that would see it starts when the transfer has ended |
| `stalled` | `README.md:35`: "The download task will be interrupted if the download task is abnormal", `README.md:13`: a task whose "download speed is low" goes to UnpauseSlow | the closures that look for that are called behind `task.go:189`, when the transfer has ended, and `task.go:230` ignores what they say of such a transfer |
| `grab_ranges` | `grab/response.go:50`: "DidResume specifies that the file transfer resumed a previously incomplete transfer" | `grab/client.go:284` sets it before the request, and nothing looks at the answer (`client.go:379`, "TODO: check Content-Range"): the whole body of an origin that ignores Range is appended to the part, and the download succeeds |

What is left of the promise that `size_limit` refutes is `KnownLengthIsLimited`:
with a told length, and outside the channel that resumes downloads, a file over
the limit is not delivered. That one is checked by `outcomes` and proved.

`hung_quick` and `stalled` run under `CodeFairSpec`, the others are violations of
safety. What `stalled` shows has a second side, `NeverBrokenOff`, which holds: in
all states, whatever the closures say, no tick breaks a download off. What
`hung_quick` shows of a task's expiry is as true of its cancellation: the check of
`cancelFlag` in the monitor loop (`channel.go:262`, `313`, `352`, `396`) waits
behind the same call, so cancelling a task whose transfer hangs does not end it
(`README.md:28`: onDownloadCanceled runs when the task is canceled).

The models have some more such differences, for which there is no run, because a
property would only repeat the line:

* `task.go:63` says of ExpireTime "if set 0 never expire"; `channel.go:152`
  compares 0 with the time, and the task fails at once;
* `grab/response.go:143` speaks of "the last five seconds"; `newTransfer` makes
  a ring of eleven samples, one each second, which are ten;
* `onDownloading` is called by the monitor loop, which is entered when the
  transfer has ended: a callback that comes during the download never does;
* a success of a dishonest origin may be a file cut off or doubled
  (`grab_ranges`); `SuccessDelivers` therefore claims the whole file for honest
  origins only, and for the others a file that is there.

### Fairness

`CodeFairSpec` assumes weak fairness of the clock, of `Enqueue` (the caller's
goroutine continues) and of each worker's own steps. Go's scheduler runs every
goroutine that can run. For the steps `DoFails` to `DoStartsTransfer` this also
assumes that an origin answers a request or the connection is given up: the
dialer gives up after seven seconds, but nothing limits the wait for a response
header, so this is an assumption about origins. `FairSpec` adds that every
transfer ends; nothing in the code enforces it (see `hung_quick` and `stalled`),
so `EveryTaskEnds` holds for origins that keep this promise. It excepts a task
whose own callback panicked: no goroutine has it any more. The tasks behind it in
the list are not excepted, which needs that the worker is restarted. Callers owe nothing:
`AddTask` and `CancelDownload` are not fair, nor are panics.

`FairSpec` of `Grab` is weak fairness of the attempt's own steps: both goroutines
run, and a request or a read of the body returns. The second half is the same
assumption about origins. `Do` and `Cancel` are not fair.

`Gauge`: when `copy` has returned, its deferred `cancel` makes the context done,
`Watch` starts, and its `select`, which picks at random among what is ready, does
not pass the context over for ever although ticks keep coming
(`WF(WatchReturns)`). The clock, the ticker and the copy owe nothing.

`HeaderFile`: the steps of each call that has begun are weakly fair; a file
operation that fails is a step as well. `Announce`, a setter's turn among
setters, is strongly fair, because the `sync.Mutex` inside the `RWMutex` hands
itself to a goroutine that has waited too long. Beginning a call is not fair.

`SafeLoop`: `Step(l)`, what `safeInfiLoop` does for a loop, is weakly fair. A
panic and the return of `todo` are not.

## 4. Proofs

The theorems about `DownloadMgr` hold for every value of the constants that
satisfies `ConstantsAssumption`: any number of tasks, one to fifteen workers per channel,
retry limits from 0 to 5 (`initChannel`), any requests. The assumption also says
that the retry limit of `preHandle` does not exceed those of the channels a task
moves on to; the code's limits satisfy it.

| Theorem | Statement |
|---|---|
| `TypesHold` | `Spec => []TypeOK` |
| `EveryTaskHasOneOwner` | `Spec => []SingleOwner` |
| `EveryTaskIsAccountedFor` | `Spec => []Accounted` |
| `ListsStaySorted` | `Spec => []ListsSorted` |
| `PopsInOrder` | `Spec => PopOrder` |
| `NoTransferOutlivesItsDownload` | `Spec => []NoOrphanTransfer` |
| `MonitorNeverBreaksOff` | `Spec => NeverBrokenOff` |
| `SuccessIsDelivered` | `Spec => []SuccessDelivers` |
| `FailureIsExplained` | `Spec => []FailureHasReason` |
| `NothingIsLeftBehind` | `Spec => []NoResidue` |
| `RetriesAreBounded` | `Spec => []RetryBudget` |
| `LifecycleIsKept` | `Spec => ImplementsLifecycle` |
| `CancellationIsFinal` | `Spec => CancelIsFinal` |
| `TransfersAreUsed` | `Spec => UseTransfers` |
| `KnownLimitsAreKept` | `Spec => []KnownLengthIsLimited` |
| `NoPanic` | `Spec => []NoDeveloperError` of `Grab` |
| `FilesArePrefixes` | `Spec => []OnlyPrefixes` |
| `SuccessDeliversWhole` | `Spec => []SuccessIsWhole` |
| `ProgressIsTrue` | `Spec => []ProgressIsReal` |
| `GrabTyped` | `Spec => []TypeOK` of `Grab` |
| `GrabImplementsTransfer` | `Spec => ImplementsTransfer` |
| `GaugeTyped` | `Spec => []TypeOK` of `Gauge` |
| `WindowIsOfLastSamples` | `Spec => []WindowIsLast` |
| `RateIsANumber` | `Spec => []RateIsSane` |
| `FullWindowIsLong` | `Spec => []WindowIsLong` |
| `LoopsTyped` | `Spec => []TypeOK` of `SafeLoop` |
| `NeverTwoBodies` | `Spec => []OneBody` |
| `LoopsImplemented` | `Spec =>` the safety part of `ImplementsLoops` |
| `HeaderTyped` | `Spec => []TypeOK` of `HeaderFile` |
| `NoHalfHeader` | `Spec => []NoHalfFile` |
| `HeaderImplementsStore` | `Spec => ImplementsStore` |

Those about `Grab` hold for any set of origins with files of any length and any
number of attempts (`GrabAssumption`), those about `Gauge` for a ring of any
size from two and any interval between ticks (`GaugeAssumption`), those about
`SafeLoop` and `HeaderFile` for any number of loops, savers, setters, names,
ignore sets and answers.

* **Types.** `TypeInv` adds to `TypeOK` that a worker holds a task exactly when
  `pc` is none of `loop` and `recovering`. Without it `Held(w)` could be `None`
  and the steps that update the held task's fields would leave the types.
* **Frames.** Most proofs about `DownloadMgr` need of a step only what it leaves
  alone. `WorkerFrame` says so once for all steps of a worker: other workers, the
  fields of tasks it does not hold, the requests and the files stay
  (`OthersStand`, `SameFields`); `LettingGoFrame` says what the four ways of
  ending an attempt do with the worker.
* **Ownership.** `OwnInv` is inductive relative to `TypeInv`. It adds to the
  three properties that tasks with ids not yet given out are in nobody's hands
  (`Registered`), needed for `AddTask`. Steps fall into a few moves (keep, put,
  enqueue, pop, forget, add, panic), with one lemma for each; the lemmas on lists
  (`PushToSet`, `PushDistinct`, `PushSorted`, `RemoveAtKeeps`) carry the rest.
  A sorted list stays sorted although `TryAgain` changes a start time, because
  the task whose time changes stands in no list: ownership and order are proved
  together for this reason.
* **Pops.** `PopOrder` is about steps: only `Pop` leads out of `loop`
  (`OnlyPopLeavesLoop`), a pop draws from the ready prefix, and in a sorted list
  everything before a ready task is ready.
* **Transfers.** `TransferInv` adds that a worker in the monitor loop has a
  response that is done without an error. That is what the blocking `Err`
  provides; with it a tick changes nothing whatever the closure's verdict
  (`TickOnlyWatches`), so that `MonitorDone` and a panic are all that leads out
  of the loop.
* **Outcomes.** What the callbacks promise follows from no single step: the file
  a success relies on may be that of an attempt two retries ago, in another
  channel. `OutcomeInv` therefore says of each task how its ending, its attempts
  and its place go together (`EndingOK`, `BudgetOK`, `PlaceOK`) and of each worker
  how far the task in its hands has come (`WorkerOK`). `Delivered` is what a
  response without an error says of the file: it is there, and whole if the origin
  is honest. Two parts are less
  obvious than the rest. A task not at work, or before its request, has been
  requested no more often than it has failed (`OnItsWay`); without that,
  `requests` has no bound across `preHandle` and the channel it moves on to. And
  a task whose callback has been called is deleted only when its files are
  (`forget` in `WorkerOK`), for `NoResidue`. It rests on `OwnInv`: that a worker
  may change a task needs that no other one holds it. `RetryBudget` is where the
  assumption on the limit of `preHandle` is needed.
* **Lifecycle.** Under `OutcomeInv` each step of `DownloadMgr` is one of
  `TaskLifecycle` or changes none of its variables: `CallbacksOnly` says when
  a callback is called at all, and `OutcomeInv` that it is the first.
* **Cancellation.** `CancelIsFinal` is proved for each task from `Condemned`: it is
  cancelled, has not succeeded, and whoever holds it is before the request. Every
  step keeps that, because `startDownload` looks at `cancelFlag` last before the
  request and a task that is let go and popped again is before it.
* **Transfers used.** `Seen` says what `Phase` and `Outcome`, defined by a choice
  among the workers, are by the one worker that holds the task. With it each
  step changes the view of one task by one step of `Transfer`, and leaves the
  views of the others (`ViewStands`, `ViewDrops`).
* **Size limit.** `LimitInv`: from the response on, the length a worker has read is
  that of the whole file (`ToldWhole`), and behind the comparison the file is
  within the limit. `TransferEnds` keeps the first because the transfer it ends
  is its own worker's (`NoOrphanTransfer`). Where the length is not told, or is
  that of the rest of a resumed file, `size_limit` shows the counterexample.
* **Grab.** `GrabInv` has two parts. `Control` says what was received and closed
  by each place of the chain; the panics contradict it. `Files` says that the
  file is a prefix (`Upto`), what the attempt knows of it (`Asked`), that the
  body received starts where the Range header says, and that in the copy the
  body left continues the file (`RestFrom`); a successful end follows, because
  a body that is read to its end has brought the file to the origin's length.
  `Files` needs `KeepsRanges`; `Control` needs nothing. The refinement is proved
  for every origin. It adds `SeenInv`: a copy runs only behind a GET and on an
  existing file, an attempt without an error has left one, and one that ends for
  want of space has not got the whole file of an honest origin; and `RealBytes`:
  no byte received could be taken for the mark `Absent`. `Counted`, for
  `ProgressIsTrue`, says at each place of the chain what `size`, `resumed` and
  `n` have to do with the length of the file.
* **Gauge.** `RingInv`: the sample number `k` before the last is in the slot `k`
  behind `index`, around the ring (`Held`), and the count is that of all samples
  until the ring has turned (`Counted`). `TimeInv` is about the ticker: samples
  with `k` others between them are more than `k` intervals apart (`Spaced`), a
  tick in the channel and the one to come keep that distance (`TickSpaced`,
  `DueSpaced`), which is what makes the time between the oldest and the newest
  sample positive although `Watch` may take two ticks at one moment.
* **Restarts.** `Token`: the right to run a body is with the caller that has still
  to send, with an outer goroutine that has received and not yet spawned, or
  with the one body. The number of bodies alone is not inductive: a receive and a
  spawn each change it.
* **Headers.** `Kept`: a saver that writes is a reader and has written, for the
  ignore set in force, just the names its range has been at (`Written`). `Assign`
  needs `readers = {}`, so it changes the set only when nobody has written for
  the old one; from `AllWritten` the file flushed is `HeaderStore`'s `Text`.

Every invariant, action property and refinement that a passing run checks is a
theorem, for all values of the constants. Only model-checked is liveness, which
is beyond the proof system: `EveryTaskEnds`, `EveryAttemptEnds`, `WatchEnds`,
`EveryCallReturns` and the fairness of `ImplementsLoops`, whose safety part is
`LoopsImplemented`.

## 5. Not modelled

* how header files are laid out, and how a file name is guessed and cleaned;
* the wrap of the 64-bit id (`downloadmgr.go:135`);
* two tasks with one `SavePath`: nothing in the code prevents it, and the model
  assumes that callers do;
* in `Grab`: a directory as `SavePath`, the encryption of blocks, hooks and the
  fields of a `Request` that `NewRequest` leaves at their zero values, and the
  methods of `Response` that downloadmgr does not call (`Open`, `Bytes`, `ETA`);
* the panic of `mkdirp` (`grab/util.go:40`): when a file is in the way of the
  directory of `SavePath`, `statFileInfo` has failed before (`grab/client.go:212-219`,
  ENOTDIR is not `IsNotExist`) and the task ends as after any error; the panic
  needs the file to appear in between, or a system whose `Stat` takes this for a
  file that does not exist;
* failing to remove or to close a file, which the code ignores;
* an origin whose file changes between two attempts;
* logging, `ToString`, the example program, the commented-out parts of grab.

## 6. Plan

The state-changing code of all components is modelled, and the safety of every
model is proved. What is left:

1. lemmas about the closures of `Monitor` for every observation (a cancelled
   download is broken off by each, a finished one by none), for the day the
   monitor loop is entered while a transfer runs;
2. a statement of the safety part of `ImplementsLoops` by itself, so that the run
   and `LoopsImplemented` name the same formula;
3. shorter proofs where a lemma about frames can replace a case analysis.
