------------------------------- MODULE Gauge -------------------------------
(***************************************************************************)
(* The speed of a running transfer.  The loop of transfer.copy counts the  *)
(* bytes it writes; bps.Watch runs in a goroutine of its own and samples   *)
(* the count at each tick of a time.Ticker; the samples go into the ring   *)
(* of sma, from which BPS takes the oldest and the newest at any moment.   *)
(***************************************************************************)
EXTENDS Integers, Sequences

CONSTANTS
  MaxSamples,  \* of the ring: 11 in newTransfer
  Interval,    \* of the ticker, in units of time
  Horizon,     \* bound on the time
  MaxBytes     \* bound on the bytes of the transfer

ASSUME GaugeAssumption ==
  /\ MaxSamples \in Nat /\ MaxSamples >= 2  \* NewSMA panics otherwise
  /\ Interval \in Nat \ {0}
  /\ Horizon \in Nat
  /\ MaxBytes \in Nat

VARIABLES
  now,          \* the time
  n,            \* transfer.n
  copy,         \* where transfer.copy is
  done,         \* the context of Watch is done
  watch,        \* where Watch is
  due,          \* when the ticker fires next
  tick,         \* the tick in the ticker's channel, or Nil
  index,        \* sma.index: the slot of the next sample
  sampleCount,  \* sma.sampleCount
  samples,      \* sma.samples
  timestamps,   \* sma.timestamps
  taken         \* history: all samples

ring == <<index, sampleCount, samples, timestamps, taken>>
vars == <<now, n, copy, done, watch, due, tick, ring>>

Nil   == -1
Slots == 0..MaxSamples - 1

TypeOK ==
  /\ now \in Nat
  /\ n \in Nat
  /\ copy \in {"looking", "reading", "returned"}
  /\ done \in BOOLEAN
  /\ watch \in {"starting", "select", "returned"}
  /\ due \in Nat
  /\ tick \in Nat \cup {Nil}
  /\ index \in Slots
  /\ sampleCount \in 0..MaxSamples
  /\ samples \in [Slots -> Nat]
  /\ timestamps \in [Slots -> Nat]
  /\ taken \in Seq([t : Nat, n : Nat])

Init ==
  /\ now = 0
  /\ n = 0
  /\ copy = "looking"
  /\ done = FALSE
  /\ watch = "starting"
  /\ due = 0
  /\ tick = Nil
  /\ index = 0
  /\ sampleCount = 0
  /\ samples = [s \in Slots |-> 0]
  /\ timestamps = [s \in Slots |-> 0]
  /\ taken = <<>>

-----------------------------------------------------------------------------
(***************************************************************************)
(* sma: the ring of samples.                                               *)
(***************************************************************************)

\* The count starts anew with each turn of the ring.
SampleRestarts(t, b) ==
  /\ timestamps' = [timestamps EXCEPT ![index] = t]
  /\ samples' = [samples EXCEPT ![index] = b]
  /\ index' = (index + 1) % MaxSamples
  /\ sampleCount' = (sampleCount + 1) % MaxSamples
  /\ taken' = Append(taken, [t |-> t, n |-> b])

\* The count is not kept at the number of slots.
SampleCounts(t, b) ==
  /\ timestamps' = [timestamps EXCEPT ![index] = t]
  /\ samples' = [samples EXCEPT ![index] = b]
  /\ index' = (index + 1) % MaxSamples
  /\ sampleCount' = sampleCount + 1
  /\ taken' = Append(taken, [t |-> t, n |-> b])

Sample(t, b) ==
  /\ timestamps' = [timestamps EXCEPT ![index] = t]
  /\ samples' = [samples EXCEPT ![index] = b]
  /\ index' = (index + 1) % MaxSamples
  /\ sampleCount' =
       IF sampleCount = MaxSamples THEN MaxSamples ELSE sampleCount + 1
  /\ taken' = Append(taken, [t |-> t, n |-> b])

\* The ring counts as full one sample late.
OldestLate == IF sampleCount <= MaxSamples THEN 0 ELSE index

Oldest == IF sampleCount < MaxSamples THEN 0 ELSE index

Newest == (index + MaxSamples - 1) % MaxSamples

\* BPS is Bytes divided by Seconds, or 0 while there is no Rate.
Rate    == sampleCount >= 2
Seconds == timestamps[Newest] - timestamps[Oldest]
Bytes   == samples[Newest] - samples[Oldest]

-----------------------------------------------------------------------------
(***************************************************************************)
(* The goroutines and the ticker.                                          *)
(***************************************************************************)

Clock ==
  /\ watch # "returned"
  /\ now < Horizon
  /\ now' = now + 1
  /\ UNCHANGED <<n, copy, done, watch, due, tick, ring>>

\* At the head of its loop copy looks at the context.
CopyLooks ==
  /\ copy = "looking"
  /\ copy' = IF done THEN "returned" ELSE "reading"
  /\ UNCHANGED <<now, n, done, watch, due, tick, ring>>

\* A block is read and written.
CopyBlock ==
  /\ copy = "reading"
  /\ n' \in (n + 1)..MaxBytes
  /\ copy' = "looking"
  /\ UNCHANGED <<now, done, watch, due, tick, ring>>

\* The body has ended, or a read or a write failed.
CopyBreaks ==
  /\ copy = "reading"
  /\ copy' = "returned"
  /\ UNCHANGED <<now, n, done, watch, due, tick, ring>>

\* The transfer is cancelled from outside, or copy has returned and cancels the
\* context it made for Watch.
ContextDone ==
  /\ ~done
  /\ done' = TRUE
  /\ UNCHANGED <<now, n, copy, watch, due, tick, ring>>

\* The first sample is taken before the ticker is made.
WatchStarts ==
  /\ watch = "starting"
  /\ Sample(now, n)
  /\ watch' = "select"
  /\ due' = now + Interval
  /\ UNCHANGED <<now, n, copy, done, tick>>

\* A tick is taken for the time that should have passed since the last.
TickerFiresAgain ==
  /\ watch = "select"
  /\ now >= due
  /\ tick' = now
  /\ due' = due + 1
  /\ UNCHANGED <<now, n, copy, done, watch, ring>>

\* A tick stays in the channel until Watch takes it, with the time at which it
\* fired; a tick that finds the channel full is dropped.  The ticker may fire
\* late, but keeps its rhythm.
TickerFires ==
  /\ watch = "select"
  /\ now >= due
  /\ tick' = IF tick = Nil THEN now ELSE tick
  /\ due' \in {d \in (now + 1)..(now + Interval) : (d - due) % Interval = 0}
  /\ UNCHANGED <<now, n, copy, done, watch, ring>>

WatchSamples ==
  /\ watch = "select"
  /\ tick # Nil
  /\ Sample(tick, n)
  /\ tick' = Nil
  /\ UNCHANGED <<now, n, copy, done, watch, due>>

\* Watch looks at the context only when it has no tick to sample.
WatchPrefersTicks ==
  /\ watch = "select"
  /\ done
  /\ tick = Nil
  /\ watch' = "returned"
  /\ UNCHANGED <<now, n, copy, done, due, tick, ring>>

WatchReturns ==
  /\ watch = "select"
  /\ done
  /\ watch' = "returned"
  /\ UNCHANGED <<now, n, copy, done, due, tick, ring>>

\* Everything has ended.
Finished ==
  /\ watch = "returned" /\ copy = "returned"
  /\ UNCHANGED vars

Next ==
  \/ Clock
  \/ CopyLooks
  \/ CopyBlock
  \/ CopyBreaks
  \/ ContextDone
  \/ WatchStarts
  \/ TickerFires
  \/ WatchSamples
  \/ WatchReturns
  \/ Finished

Spec == Init /\ [][Next]_vars

\* Watch's goroutine runs, and a select with both cases ready picks either in
\* the end.
FairSpec ==
  /\ Spec
  /\ WF_vars(copy = "returned" /\ ContextDone)
  /\ WF_vars(WatchStarts)
  /\ WF_vars(WatchReturns)

-----------------------------------------------------------------------------
(***************************************************************************)
(* Properties.                                                             *)
(***************************************************************************)

\* The sample number k before the last.
Before(k) == taken[Len(taken) - k]

\* BPS looks at the last sample and at the oldest of the last MaxSamples, before
\* and after the ring has turned.
WindowIsLast ==
  Rate =>
    /\ timestamps[Newest] = Before(0).t
    /\ samples[Newest] = Before(0).n
    /\ timestamps[Oldest] = Before(sampleCount - 1).t
    /\ samples[Oldest] = Before(sampleCount - 1).n
    /\ sampleCount = MaxSamples \/ sampleCount = Len(taken)

\* The rate is a number: no two samples have the same time, however late Watch
\* takes a tick; and it is that of bytes that were written.
RateIsSane == Rate => Seconds > 0 /\ Bytes \in 0..n

\* transfer.go: 10 seconds moving average sampling every second.  With a full
\* ring the rate is never that of a shorter time, but for one late tick.
WindowIsLong ==
  sampleCount = MaxSamples => Seconds > (MaxSamples - 2) * Interval

\* Watch does not outlive the transfer: its goroutine and ticker are released.
WatchEnds == copy = "returned" ~> watch = "returned"
=============================================================================
