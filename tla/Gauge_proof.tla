----------------------------- MODULE Gauge_proof -----------------------------
(***************************************************************************)
(* Theorems about Gauge for a ring of any length, any interval and any     *)
(* bounds: the ring holds the last samples, and the rate taken from it is  *)
(* that of bytes that were written in a time that has passed.              *)
(***************************************************************************)
EXTENDS Gauge, SequenceTheorems, TLAPS

\* The modulus of the ring and of the ticker, in the three ranges it meets.
LEMMA ModSmall ==
  ASSUME NEW m \in Nat, NEW x \in Nat, x < m
  PROVE  x % m = x
OBVIOUS

LEMMA ModTurn ==
  ASSUME NEW m \in Nat, NEW x \in Nat, m <= x, x < m + m
  PROVE  x % m = x - m
OBVIOUS

LEMMA ModZero ==
  ASSUME NEW m \in Nat \ {0}, NEW x \in Nat \ {0}, x % m = 0
  PROVE  x >= m
OBVIOUS

\* What is put off as long as its bound grows stays above it.
LEMMA Later ==
  ASSUME NEW a \in Nat, NEW x \in Nat, NEW y \in Nat, NEW m \in Nat,
         NEW d \in Nat, NEW e \in Nat, d > a + x, y = x + m, e >= d + m
  PROVE  e > a + y
OBVIOUS

\* One interval more, and no fewer than none.
LEMMA Times ==
  ASSUME NEW k \in Nat, NEW m \in Nat
  PROVE  /\ k * m \in Nat
         /\ (k + 1) * m = k * m + m
OBVIOUS

-----------------------------------------------------------------------------
(***************************************************************************)
(* The ring.                                                               *)
(***************************************************************************)

\* The slot of the sample number k before the last.
SlotOf(k) == IF index > k THEN index - 1 - k ELSE index + MaxSamples - 1 - k

\* The index of the next sample is the number of samples taken, in turns of the
\* ring; as long as the ring has not turned, the count is that number.
Counted ==
  \/ sampleCount = MaxSamples /\ Len(taken) >= MaxSamples
  \/ /\ sampleCount < MaxSamples
     /\ sampleCount = Len(taken)
     /\ index = Len(taken)

\* The ring holds the last samples.
Held ==
  \A k \in 0..sampleCount - 1 :
    /\ timestamps[SlotOf(k)] = Before(k).t
    /\ samples[SlotOf(k)] = Before(k).n

RingInv == Counted /\ Held

\* The next slot, and where the newest and the oldest sample are.
LEMMA Slotted ==
  ASSUME TypeOK
  PROVE  /\ (index + 1) % MaxSamples =
              IF index + 1 = MaxSamples THEN 0 ELSE index + 1
         /\ Newest = SlotOf(0)
<1>1. MaxSamples \in Nat /\ MaxSamples >= 2 /\ index \in 0..MaxSamples - 1
  BY GaugeAssumption DEF TypeOK, Slots
<1>2. (index + 1) % MaxSamples =
        IF index + 1 = MaxSamples THEN 0 ELSE index + 1
  <2>1. CASE index + 1 = MaxSamples
    <3>1. (index + 1) % MaxSamples = (index + 1) - MaxSamples
      BY <1>1, <2>1, ModTurn
    <3> QED BY <1>1, <2>1, <3>1
  <2>2. CASE index + 1 < MaxSamples
    BY <1>1, <2>2, ModSmall
  <2> QED BY <1>1, <2>1, <2>2
<1>3. Newest = SlotOf(0)
  <2> DEFINE x == index + MaxSamples - 1
  <2>0. x \in Nat
    BY <1>1
  <2>1. CASE index = 0
    <3>1. x < MaxSamples /\ x = MaxSamples - 1
      BY <1>1, <2>1
    <3>2. x % MaxSamples = x
      BY <1>1, <2>0, <3>1, ModSmall
    <3> QED BY <1>1, <2>1, <3>1, <3>2 DEF Newest, SlotOf
  <2>2. CASE index > 0
    <3>1. MaxSamples <= x /\ x < MaxSamples + MaxSamples
      BY <1>1, <2>2
    <3>2. x % MaxSamples = x - MaxSamples
      BY <1>1, <2>0, <3>1, ModTurn
    <3>3. x - MaxSamples = index - 1
      BY <1>1
    <3> QED BY <1>1, <2>2, <3>2, <3>3 DEF Newest, SlotOf
  <2> QED BY <1>1, <2>1, <2>2
<1> QED BY <1>2, <1>3

\* The oldest sample of the window is where BPS looks for it.
LEMMA OldestSlot ==
  ASSUME TypeOK, Counted, sampleCount > 0
  PROVE  Oldest = SlotOf(sampleCount - 1)
<1>1. MaxSamples \in Nat /\ MaxSamples >= 2 /\ index \in 0..MaxSamples - 1
      /\ sampleCount \in 0..MaxSamples
  BY GaugeAssumption DEF TypeOK, Slots
<1> QED BY <1>1 DEF Oldest, SlotOf, Counted

\* A sample keeps the types and goes into the ring in front of the others.
LEMMA SampleKeeps ==
  ASSUME TypeOK, RingInv, NEW t \in Nat, NEW b \in Nat, Sample(t, b)
  PROVE  /\ index' \in Slots
         /\ sampleCount' \in 0..MaxSamples
         /\ samples' \in [Slots -> Nat]
         /\ timestamps' \in [Slots -> Nat]
         /\ taken' \in Seq([t : Nat, n : Nat])
         /\ RingInv'
<1> DEFINE s == [t |-> t, n |-> b]
<1>1. MaxSamples \in Nat /\ MaxSamples >= 2 /\ index \in 0..MaxSamples - 1
      /\ sampleCount \in 0..MaxSamples /\ Len(taken) \in Nat
      /\ taken \in Seq([t : Nat, n : Nat]) /\ s \in [t : Nat, n : Nat]
  BY GaugeAssumption DEF TypeOK, Slots
<1>2. index' = IF index + 1 = MaxSamples THEN 0 ELSE index + 1
  BY Slotted DEF Sample
<1>3. sampleCount' =
        IF sampleCount = MaxSamples THEN MaxSamples ELSE sampleCount + 1
  BY DEF Sample
<1>4. /\ taken' \in Seq([t : Nat, n : Nat])
      /\ Len(taken') = Len(taken) + 1
      /\ \A i \in 1..Len(taken) : taken'[i] = taken[i]
      /\ taken'[Len(taken) + 1] = s
  BY <1>1, AppendProperties DEF Sample
<1>5. /\ samples' \in [Slots -> Nat] /\ timestamps' \in [Slots -> Nat]
      /\ samples'[index] = b /\ timestamps'[index] = t
      /\ \A x \in Slots \ {index} :
           samples'[x] = samples[x] /\ timestamps'[x] = timestamps[x]
  BY DEF Sample, TypeOK
<1>6. Counted'
  BY <1>1, <1>2, <1>3, <1>4 DEF RingInv, Counted
<1>7. Held'
  <2> SUFFICES ASSUME NEW k \in 0..sampleCount' - 1
               PROVE  /\ timestamps'[SlotOf(k)'] = Before(k)'.t
                      /\ samples'[SlotOf(k)'] = Before(k)'.n
    BY DEF Held
  <2>0. Before(k)' = taken'[Len(taken) + 1 - k]
    BY <1>4 DEF Before
  <2>1. CASE k = 0
    <3>1. SlotOf(k)' = index
      BY <1>1, <1>2, <2>1 DEF SlotOf
    <3>2. Before(k)' = s
      BY <1>1, <1>4, <2>0, <2>1
    <3> QED BY <1>5, <3>1, <3>2
  <2>2. CASE k > 0
    <3> DEFINE j == k - 1
    <3>1. j \in 0..sampleCount - 1 /\ k <= Len(taken)
      BY <1>1, <1>3, <2>2 DEF RingInv, Counted
    <3>2. SlotOf(k)' = SlotOf(j) /\ SlotOf(j) \in Slots \ {index}
      BY <1>1, <1>2, <1>3, <2>2, <3>1 DEF SlotOf, Slots
    <3>3. Before(k)' = Before(j)
      <4>1. Len(taken) + 1 - k = Len(taken) - j
            /\ Len(taken) - j \in 1..Len(taken)
        BY <1>1, <2>2, <3>1
      <4> QED BY <1>4, <2>0, <4>1 DEF Before
    <3> QED BY <1>5, <3>1, <3>2, <3>3 DEF RingInv, Held
  <2> QED BY <2>1, <2>2
<1>8. index' \in Slots /\ sampleCount' \in 0..MaxSamples
  BY <1>1, <1>2, <1>3 DEF Slots
<1>9. RingInv'
  BY <1>6, <1>7 DEF RingInv
<1> QED BY <1>4, <1>5, <1>8, <1>9

-----------------------------------------------------------------------------
(***************************************************************************)
(* The times and the counts of the samples.                                *)
(***************************************************************************)

\* A tick that fires does so at least an interval after the one before was
\* due: two samples with k others between them are more than k intervals apart.
Spaced ==
  \A i, j \in 1..Len(taken) :
    i < j => taken[j].t > taken[i].t + (j - i - 1) * Interval

\* The tick in the channel, and the one to come, keep that distance.
TickSpaced ==
  tick # Nil => \A i \in 1..Len(taken) :
                  tick > taken[i].t + (Len(taken) - i) * Interval

Pending == IF tick = Nil THEN 0 ELSE 1

DueSpaced ==
  \A i \in 1..Len(taken) :
    due > taken[i].t + (Len(taken) - i + Pending) * Interval

\* The samples count what was written, in order.
Ordered ==
  /\ \A i \in 1..Len(taken) : taken[i].n <= n
  /\ \A i, j \in 1..Len(taken) : i < j => taken[i].n <= taken[j].n

\* Before the first sample there is no tick; the tick in the channel waits for
\* Watch, and no later one is due before it.
Started ==
  /\ watch = "starting" => taken = <<>> /\ tick = Nil
  /\ tick # Nil => due > tick

TimeInv == Spaced /\ TickSpaced /\ DueSpaced /\ Ordered /\ Started

GaugeInv == TypeOK /\ RingInv /\ TimeInv

\* A sample is a pair of numbers.
LEMMA SampleTyped ==
  ASSUME TypeOK, NEW i \in 1..Len(taken)
  PROVE  taken[i].t \in Nat /\ taken[i].n \in Nat
<1>1. taken \in Seq([t : Nat, n : Nat])
  BY DEF TypeOK
<1>2. taken[i] \in [t : Nat, n : Nat]
  BY <1>1, ElementOfSeq
<1> QED BY <1>2

\* The first sample is in time.
LEMMA FirstSample ==
  ASSUME GaugeInv, WatchStarts
  PROVE  TimeInv'
<1>1. taken = <<>> /\ tick' = Nil /\ due' = now + Interval /\ n' = n
      /\ watch' = "select" /\ taken' = <<[t |-> now, n |-> n]>>
  BY DEF WatchStarts, Sample, GaugeInv, TimeInv, Started
<1>2. now \in Nat /\ n \in Nat /\ Interval \in Nat /\ Interval > 0
  BY GaugeAssumption DEF GaugeInv, TypeOK
<1>3. Len(taken') = 1 /\ taken'[1].t = now /\ taken'[1].n = n
  BY <1>1
<1>4. 1 - 1 + 0 = 0 /\ 0 * Interval = 0
  BY <1>2
<1> QED BY <1>1, <1>2, <1>3, <1>4
        DEF TimeInv, Spaced, TickSpaced, DueSpaced, Ordered, Started, Pending

\* A tick that is sampled is in time.
LEMMA TickSample ==
  ASSUME GaugeInv, WatchSamples
  PROVE  TimeInv'
<1> DEFINE L == Len(taken)
           s == [t |-> tick, n |-> n]
<1>1. /\ tick # Nil /\ tick' = Nil /\ watch = "select"
      /\ UNCHANGED <<due, n, watch>>
      /\ taken' = Append(taken, s)
  BY DEF WatchSamples, Sample
<1>2. /\ tick \in Nat /\ n \in Nat /\ due \in Nat /\ Interval \in Nat
      /\ taken \in Seq([t : Nat, n : Nat]) /\ L \in Nat
      /\ s \in [t : Nat, n : Nat]
  BY <1>1, GaugeAssumption DEF GaugeInv, TypeOK
<1>3. /\ Len(taken') = L + 1
      /\ \A i \in 1..L : taken'[i] = taken[i]
      /\ taken'[L + 1] = s
  BY <1>1, <1>2, AppendProperties
<1>4. \A i \in 1..L : taken[i].t \in Nat /\ taken[i].n \in Nat
  BY SampleTyped DEF GaugeInv
<1> HIDE DEF L
<1>5. Spaced'
  <2> SUFFICES ASSUME NEW i \in 1..L + 1, NEW j \in 1..L + 1, i < j
               PROVE  taken'[j].t > taken'[i].t + (j - i - 1) * Interval
    BY <1>3 DEF Spaced
  <2>1. CASE j = L + 1
    <3>1. i \in 1..L /\ j - i - 1 = L - i
      BY <1>2, <2>1
    <3>2. tick > taken[i].t + (L - i) * Interval
      BY <1>1, <3>1 DEF GaugeInv, TimeInv, TickSpaced, L
    <3> QED BY <1>3, <2>1, <3>1, <3>2
  <2>2. CASE j # L + 1
    <3>1. i \in 1..L /\ j \in 1..L
      BY <1>2, <2>2
    <3> QED BY <1>3, <3>1 DEF GaugeInv, TimeInv, Spaced, L
  <2> QED BY <2>1, <2>2
<1>6. DueSpaced'
  <2>1. Pending' = 0 /\ due' = due /\ Len(taken') = L + 1
    BY <1>1, <1>3 DEF Pending
  <2> SUFFICES ASSUME NEW i \in 1..Len(taken')
               PROVE  due' > taken'[i].t +
                                (Len(taken') - i + Pending') * Interval
    BY DEF DueSpaced
  <2>2. i \in 1..L + 1 /\ Len(taken') - i + Pending' = L + 1 - i
    BY <1>2, <2>1
  <2>3. CASE i = L + 1
    <3>1. L + 1 - i = 0 /\ 0 * Interval = 0
      BY <1>2, <2>3
    <3>2. due > tick
      BY <1>1 DEF GaugeInv, TimeInv, Started
    <3> QED BY <1>2, <1>3, <2>1, <2>3, <2>2, <3>1, <3>2
  <2>4. CASE i # L + 1
    <3>1. i \in 1..L /\ L + 1 - i = L - i + 1
      BY <1>2, <2>4, <2>2
    <3>2. due > taken[i].t + (L - i + 1) * Interval
      BY <1>1, <3>1 DEF GaugeInv, TimeInv, DueSpaced, Pending, L
    <3> QED BY <1>3, <2>1, <2>2, <3>1, <3>2
  <2> QED BY <2>3, <2>4
<1>7. Ordered'
  BY <1>1, <1>2, <1>3, <1>4 DEF GaugeInv, TimeInv, Ordered, L
<1>8. TickSpaced' /\ Started'
  BY <1>1 DEF TickSpaced, Started
<1> QED BY <1>5, <1>6, <1>7, <1>8 DEF TimeInv

\* A ticker that fires, in its rhythm, keeps the distance.
LEMMA TickInTime ==
  ASSUME GaugeInv, TickerFires
  PROVE  TimeInv'
<1> DEFINE L == Len(taken)
<1>1. /\ now >= due /\ watch = "select"
      /\ tick' = IF tick = Nil THEN now ELSE tick
      /\ UNCHANGED <<n, watch, taken>>
  BY DEF TickerFires, ring
<1>2. /\ tick \in Nat \cup {Nil} /\ Nil \notin Nat /\ now \in Nat
      /\ due \in Nat /\ Interval \in Nat \ {0}
      /\ taken \in Seq([t : Nat, n : Nat]) /\ L \in Nat
  BY GaugeAssumption DEF GaugeInv, TypeOK, Nil
<1>3. \A i \in 1..L : taken[i].t \in Nat
  BY SampleTyped DEF GaugeInv
<1>4. due' \in Nat /\ due' >= due + Interval /\ due' > now
  <2>1. PICK d \in (now + 1)..(now + Interval) :
          due' = d /\ (d - due) % Interval = 0
    BY DEF TickerFires
  <2>2. d \in Nat /\ d - due \in Nat \ {0}
    BY <1>1, <1>2, <2>1
  <2>3. d - due >= Interval
    BY <1>2, <2>1, <2>2, ModZero
  <2> QED BY <1>2, <2>1, <2>2, <2>3
<1>5. tick' # Nil /\ Pending' = 1
  BY <1>1, <1>2 DEF Pending
<1> HIDE DEF L
<1>6. TickSpaced'
  <2> SUFFICES ASSUME NEW i \in 1..L
               PROVE  tick' > taken[i].t + (L - i) * Interval
    BY <1>1 DEF TickSpaced, L
  <2>1. CASE tick = Nil
    <3>1. due > taken[i].t + (L - i + 0) * Interval
      BY <2>1 DEF GaugeInv, TimeInv, DueSpaced, Pending, L
    <3>2. L - i + 0 = L - i /\ (L - i) * Interval \in Nat
      BY <1>2, Times
    <3>3. tick' = now /\ due <= now /\ taken[i].t \in Nat
      BY <1>1, <1>3, <2>1
    <3>4. due > taken[i].t + (L - i) * Interval
      BY <3>1, <3>2
    <3> HIDE DEF L
    <3> QED BY <1>2, <3>2, <3>3, <3>4
  <2>2. CASE tick # Nil
    BY <1>1, <2>2 DEF GaugeInv, TimeInv, TickSpaced, L
  <2> QED BY <2>1, <2>2
<1>7. DueSpaced'
  <2> SUFFICES ASSUME NEW i \in 1..L
               PROVE  due' > taken[i].t + (L - i + 1) * Interval
    BY <1>1, <1>5 DEF DueSpaced, L
  <2>1. L - i \in Nat /\ (L - i) * Interval \in Nat
        /\ (L - i + 1) * Interval = (L - i) * Interval + Interval
    <3>1. L - i \in Nat
      BY <1>2
    <3> QED BY <1>2, <3>1, Times
  <2>2. CASE tick = Nil
    <3>1. due > taken[i].t + (L - i + 0) * Interval /\ L - i + 0 = L - i
      BY <1>2, <2>2 DEF GaugeInv, TimeInv, DueSpaced, Pending, L
    <3>2. due > taken[i].t + (L - i) * Interval
      BY <3>1
    <3> DEFINE few == (L - i) * Interval
               more == (L - i + 1) * Interval
    <3>3. /\ few \in Nat /\ more = few + Interval /\ more \in Nat
          /\ due > taken[i].t + few
      BY <1>2, <2>1, <3>2
    <3>4. due' > taken[i].t + more
      <4> HIDE DEF few, more
      <4> QED BY <1>2, <1>3, <1>4, <3>3, Later
    <3> QED BY <3>4
  <2>3. CASE tick # Nil
    <3>1. due > taken[i].t + (L - i + 1) * Interval
      BY <2>3 DEF GaugeInv, TimeInv, DueSpaced, Pending, L
    <3>2. taken[i].t \in Nat /\ (L - i + 1) * Interval \in Nat
      <4>1. L - i + 1 \in Nat
        BY <1>2, <2>1
      <4> QED BY <1>2, <1>3, <4>1, Times
    <3>3. due' > due
      BY <1>2, <1>4
    <3> QED BY <1>2, <1>4, <3>1, <3>2, <3>3
  <2> QED BY <2>2, <2>3
<1>8. Ordered' /\ Spaced'
  BY <1>1 DEF GaugeInv, TimeInv, Ordered, Spaced
<1>9. Started'
  BY <1>1, <1>2, <1>4 DEF GaugeInv, TimeInv, Started
<1> QED BY <1>6, <1>7, <1>8, <1>9 DEF TimeInv

\* Every step keeps the invariant.
LEMMA NextGauge == GaugeInv /\ [Next]_vars => GaugeInv'
<1> SUFFICES ASSUME GaugeInv, [Next]_vars PROVE GaugeInv'
  OBVIOUS
<1>0. TypeOK /\ RingInv /\ TimeInv
  BY DEF GaugeInv
<1>1. CASE UNCHANGED <<ring, tick, due, n, watch>> /\ TypeOK'
  BY <1>0, <1>1
     DEF ring, GaugeInv, RingInv, Counted, Held, SlotOf, Before, TimeInv,
         Spaced, TickSpaced, DueSpaced, Pending, Ordered, Started
<1>2. CASE Clock \/ CopyLooks \/ CopyBreaks \/ ContextDone \/ UNCHANGED vars
           \/ Finished
  <2>1. UNCHANGED <<ring, tick, due, n, watch>>
    BY <1>2 DEF Clock, CopyLooks, CopyBreaks, ContextDone, Finished, vars, ring
  <2>2. TypeOK'
    <3>1. now' \in Nat /\ UNCHANGED n
      BY <1>0, <1>2
         DEF Clock, CopyLooks, CopyBreaks, ContextDone, Finished, vars, TypeOK
    <3>2. copy' \in {"looking", "reading", "returned"} /\ done' \in BOOLEAN
      BY <1>0, <1>2
         DEF Clock, CopyLooks, CopyBreaks, ContextDone, Finished, vars, TypeOK
    <3> QED BY <1>0, <2>1, <3>1, <3>2 DEF TypeOK, ring
  <2> QED BY <1>1, <2>1, <2>2
<1>3. CASE CopyBlock
  <2>1. n' \in Nat /\ n' >= n /\ copy' = "looking"
        /\ UNCHANGED <<now, done, watch, due, tick, ring>>
    BY <1>0, <1>3, GaugeAssumption DEF CopyBlock, TypeOK
  <2>2. TypeOK'
    BY <1>0, <2>1 DEF TypeOK, ring
  <2>3. RingInv'
    BY <1>0, <2>1 DEF ring, RingInv, Counted, Held, SlotOf, Before
  <2>4. Ordered'
    <3>1. \A i \in 1..Len(taken) : taken[i].n \in Nat /\ taken[i].n <= n
      BY <1>0, SampleTyped DEF TimeInv, Ordered
    <3>2. n \in Nat /\ taken' = taken
      BY <1>0, <2>1 DEF TypeOK, ring
    <3> QED BY <1>0, <2>1, <3>1, <3>2 DEF TimeInv, Ordered
  <2>5. TimeInv'
    BY <1>0, <2>1, <2>4
       DEF ring, TimeInv, Spaced, TickSpaced, DueSpaced, Pending, Started
  <2> QED BY <2>2, <2>3, <2>5 DEF GaugeInv
<1>4. CASE WatchStarts
  <2>1. now \in Nat /\ n \in Nat /\ now + Interval \in Nat
    BY <1>0, GaugeAssumption DEF TypeOK
  <2>2. /\ index' \in Slots /\ sampleCount' \in 0..MaxSamples
        /\ samples' \in [Slots -> Nat] /\ timestamps' \in [Slots -> Nat]
        /\ taken' \in Seq([t : Nat, n : Nat]) /\ RingInv'
    BY <1>0, <1>4, <2>1, SampleKeeps DEF WatchStarts
  <2>3. TypeOK'
    BY <1>0, <1>4, <2>1, <2>2 DEF WatchStarts, TypeOK
  <2> QED BY <1>4, <2>2, <2>3, FirstSample DEF GaugeInv
<1>5. CASE WatchSamples
  <2>1. tick \in Nat /\ n \in Nat
    BY <1>0, <1>5 DEF TypeOK, WatchSamples
  <2>2. /\ index' \in Slots /\ sampleCount' \in 0..MaxSamples
        /\ samples' \in [Slots -> Nat] /\ timestamps' \in [Slots -> Nat]
        /\ taken' \in Seq([t : Nat, n : Nat]) /\ RingInv'
    BY <1>0, <1>5, <2>1, SampleKeeps DEF WatchSamples
  <2>3. TypeOK'
    BY <1>0, <1>5, <2>1, <2>2 DEF WatchSamples, TypeOK
  <2> QED BY <1>5, <2>2, <2>3, TickSample DEF GaugeInv
<1>6. CASE TickerFires
  <2>1. TypeOK'
    <3>1. due' \in Nat /\ tick' \in Nat \cup {Nil}
      BY <1>0, <1>6, GaugeAssumption DEF TickerFires, TypeOK
    <3> QED BY <1>0, <1>6, <3>1 DEF TickerFires, TypeOK, ring
  <2>2. RingInv'
    BY <1>0, <1>6 DEF TickerFires, ring, RingInv, Counted, Held, SlotOf, Before
  <2> QED BY <1>6, <2>1, <2>2, TickInTime DEF GaugeInv
<1>7. CASE WatchReturns
  <2>1. TypeOK'
    BY <1>0, <1>7 DEF WatchReturns, TypeOK, ring
  <2>2. RingInv'
    BY <1>0, <1>7 DEF WatchReturns, ring, RingInv, Counted, Held, SlotOf, Before
  <2>3. TimeInv'
    BY <1>0, <1>7
       DEF WatchReturns, ring, TimeInv, Spaced, TickSpaced, DueSpaced, Pending,
           Ordered, Started
  <2> QED BY <2>1, <2>2, <2>3 DEF GaugeInv
<1> QED BY <1>2, <1>3, <1>4, <1>5, <1>6, <1>7 DEF Next

LEMMA InitGauge == Init => GaugeInv
<1> SUFFICES ASSUME Init PROVE GaugeInv
  OBVIOUS
<1>1. MaxSamples \in Nat /\ MaxSamples >= 2
  BY GaugeAssumption
<1>2. taken = <<>> /\ Len(taken) = 0
  BY DEF Init
<1>3. TypeOK
  <2>1. index \in Slots /\ sampleCount \in 0..MaxSamples
    BY <1>1 DEF Init, Slots
  <2>2. taken \in Seq([t : Nat, n : Nat])
    BY EmptySeq DEF Init
  <2> QED BY <2>1, <2>2 DEF Init, TypeOK
<1>4. RingInv
  BY <1>1, <1>2 DEF Init, RingInv, Counted, Held
<1>5. TimeInv
  BY <1>2 DEF Init, TimeInv, Spaced, TickSpaced, DueSpaced, Ordered, Started
<1> QED BY <1>3, <1>4, <1>5 DEF GaugeInv

LEMMA GaugeInvariant == Spec => []GaugeInv
BY InitGauge, NextGauge, PTL DEF Spec

-----------------------------------------------------------------------------
(***************************************************************************)
(* What follows for the rate.                                              *)
(***************************************************************************)

\* The variables of the gauge keep their types.
THEOREM GaugeTyped == Spec => []TypeOK
BY GaugeInvariant, PTL DEF GaugeInv

\* The window from which the rate is taken.
LEMMA Window ==
  ASSUME GaugeInv, Rate
  PROVE  /\ sampleCount \in 2..MaxSamples /\ sampleCount <= Len(taken)
         /\ sampleCount = MaxSamples \/ sampleCount = Len(taken)
         /\ timestamps[Newest] = Before(0).t
         /\ samples[Newest] = Before(0).n
         /\ timestamps[Oldest] = Before(sampleCount - 1).t
         /\ samples[Oldest] = Before(sampleCount - 1).n
<1>1. TypeOK /\ Counted /\ Held
  BY DEF GaugeInv, RingInv
<1>2. /\ MaxSamples \in Nat /\ Len(taken) \in Nat
      /\ sampleCount \in 0..MaxSamples /\ sampleCount >= 2
  BY <1>1, GaugeAssumption DEF TypeOK, Rate
<1>3. sampleCount <= Len(taken)
      /\ (sampleCount = MaxSamples \/ sampleCount = Len(taken))
  BY <1>1, <1>2 DEF Counted
<1>4. Newest = SlotOf(0) /\ Oldest = SlotOf(sampleCount - 1)
  BY <1>1, <1>2, Slotted, OldestSlot
<1>5. 0 \in 0..sampleCount - 1 /\ sampleCount - 1 \in 0..sampleCount - 1
  BY <1>2
<1> QED BY <1>1, <1>2, <1>3, <1>4, <1>5 DEF Held

\* How the newest sample of the window is related to the oldest.
LEMMA Rates ==
  ASSUME GaugeInv, Rate
  PROVE  /\ Seconds \in Int
         /\ sampleCount - 2 \in Nat
         /\ Seconds > (sampleCount - 2) * Interval
         /\ Bytes \in 0..n
<1> DEFINE L == Len(taken)
           o == L - (sampleCount - 1)
<1>1. /\ sampleCount \in 2..MaxSamples /\ sampleCount <= L
      /\ Seconds = taken[L].t - taken[o].t
      /\ Bytes = taken[L].n - taken[o].n
  <2>1. L - 0 = L
    OBVIOUS
  <2> QED BY <2>1, Window DEF Before, Seconds, Bytes
<1>2. MaxSamples \in Nat /\ L \in Nat /\ n \in Nat /\ Interval \in Nat
  BY GaugeAssumption DEF GaugeInv, TypeOK
<1>3. /\ o \in 1..L /\ L \in 1..L /\ o < L
      /\ L - o - 1 = sampleCount - 2 /\ sampleCount - 2 \in Nat
  BY <1>1, <1>2
<1>4. /\ taken[L].t \in Nat /\ taken[o].t \in Nat
      /\ taken[L].n \in Nat /\ taken[o].n \in Nat
  BY <1>3, SampleTyped DEF GaugeInv
<1> HIDE DEF L, o
<1>5. taken[L].t > taken[o].t + (sampleCount - 2) * Interval
  <2>1. taken[L].t > taken[o].t + (L - o - 1) * Interval
    BY <1>3 DEF GaugeInv, TimeInv, Spaced, L
  <2> QED BY <1>3, <2>1
<1>6. taken[o].n <= taken[L].n /\ taken[L].n <= n
  BY <1>3 DEF GaugeInv, TimeInv, Ordered, L
<1>7. (sampleCount - 2) * Interval \in Nat
  BY <1>2, <1>3, Times
<1> QED BY <1>1, <1>2, <1>3, <1>4, <1>5, <1>6, <1>7

\* BPS takes the rate from the last sample and the oldest of the last
\* MaxSamples, before and after the ring has turned.
THEOREM WindowIsOfLastSamples == Spec => []WindowIsLast
<1>1. GaugeInv => WindowIsLast
  BY Window DEF WindowIsLast
<1> QED BY <1>1, GaugeInvariant, PTL

\* BPS divides by no zero, and the bytes of the rate were written.
THEOREM RateIsANumber == Spec => []RateIsSane
<1>1. GaugeInv => RateIsSane
  <2> SUFFICES ASSUME GaugeInv, Rate PROVE Seconds > 0 /\ Bytes \in 0..n
    BY DEF RateIsSane
  <2>1. (sampleCount - 2) * Interval \in Nat
    BY Rates, Times, GaugeAssumption
  <2> QED BY <2>1, Rates
<1> QED BY <1>1, GaugeInvariant, PTL

\* With a full ring the rate is that of more than MaxSamples - 2 intervals.
THEOREM FullWindowIsLong == Spec => []WindowIsLong
<1>1. GaugeInv => WindowIsLong
  <2> SUFFICES ASSUME GaugeInv, sampleCount = MaxSamples
               PROVE  Seconds > (MaxSamples - 2) * Interval
    BY DEF WindowIsLong
  <2>1. Rate
    BY GaugeAssumption DEF Rate
  <2> QED BY <2>1, Rates
<1> QED BY <1>1, GaugeInvariant, PTL
=============================================================================
