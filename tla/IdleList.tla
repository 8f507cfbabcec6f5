------------------------------ MODULE IdleList ------------------------------
(***************************************************************************)
(* The idle list of a download channel (channel.go, type downloadChannel): *)
(* the waiting tasks, sorted by allowStartTime.  Every operation of the    *)
(* code runs under idleListLock, so each is one operator here, applied     *)
(* in one step by the module that owns the lists.  A list is a sequence of *)
(* tasks; key[t] is the allowStartTime of task t.                          *)
(***************************************************************************)
EXTENDS Integers, SequencesExt

(***************************************************************************)
(* pushTaskToIdleList walks from the end of the list to the last task that *)
(* may start no later than t and inserts t right behind it (at the front   *)
(* when there is none).                                                    *)
(***************************************************************************)
InsertPosBackwards(list, key, t) ==  \* compares the wrong way round
  1 + SelectLastInSeq(list, LAMBDA u : key[u] > key[t])

InsertPos(list, key, t) ==
  1 + SelectLastInSeq(list, LAMBDA u : key[u] <= key[t])

Push(list, key, t) == InsertAt(list, InsertPos(list, key, t), t)

(***************************************************************************)
(* The positions a pop may take.  popQueueTask looks at the first task     *)
(* only; popRandomTask scans up to the first task that may not start yet   *)
(* and draws any position before it.                                       *)
(***************************************************************************)
QueuePositions(list, key, now) ==
  {i \in 1..Len(list) : i = 1 /\ key[list[i]] <= now}

\* popRandomTask drawing from the whole list instead of its ready prefix.
RandomPositionsAll(list, key, now) == 1..Len(list)

RandomPositions(list, key, now) ==
  {i \in 1..Len(list) : \A j \in 1..i : key[list[j]] <= now}

\* The list in order: no task stands before one that may start earlier.
SortedBy(list, key) ==
  \A i, j \in 1..Len(list) : i < j => key[list[i]] <= key[list[j]]

\* No task stands in the list twice.
Distinct(list) ==
  \A i, j \in 1..Len(list) : list[i] = list[j] => i = j
=============================================================================
