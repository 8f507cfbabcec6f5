--------------------------- MODULE IdleList_proof ---------------------------
(***************************************************************************)
(* What the operators of IdleList do to a list, for lists of any length.   *)
(***************************************************************************)
EXTENDS IdleList, SequenceTheorems, WellFoundedInduction, TLAPS

\* A non-empty set of positions has a last one.
LEMMA LastPosition ==
  ASSUME NEW n \in Nat, NEW I \in SUBSET (1..n), I # {}
  PROVE  /\ Max(I) \in I
         /\ \A i \in I : i <= Max(I)
<1> DEFINE J == {n - i : i \in I}
<1>1. J \subseteq Nat /\ J # {}
  <2>1. \A i \in I : i \in 1..n /\ n - i \in Nat
    OBVIOUS
  <2>2. J # {}
    <3> PICK i \in I : TRUE
      OBVIOUS
    <3> n - i \in J
      OBVIOUS
    <3> QED OBVIOUS
  <2> QED BY <2>1, <2>2
<1>2. PICK m \in J : \A j \in J : ~ (<<j, m>> \in OpToRel(<, Nat))
  BY <1>1, WFMin, NatLessThanWellFounded
<1>3. PICK k \in I : m = n - k
  BY <1>2
<1>4. \A i \in I : i <= k
  <2> SUFFICES ASSUME NEW i \in I, i > k PROVE FALSE
    OBVIOUS
  <2>1. n - i \in J /\ n - i < m /\ n - i \in Nat /\ m \in Nat
    BY <1>3
  <2> QED BY <1>2, <2>1 DEF OpToRel
<1> QED BY <1>3, <1>4 DEF Max

\* InsertPos is the position behind the last task that may start no later.
LEMMA InsertPosLast ==
  ASSUME NEW T, NEW list \in Seq(T), NEW key \in [T -> Int], NEW t \in T
  PROVE  /\ InsertPos(list, key, t) \in 1..(Len(list) + 1)
         /\ InsertPos(list, key, t) > 1 =>
              key[list[InsertPos(list, key, t) - 1]] <= key[t]
         /\ \A i \in InsertPos(list, key, t)..Len(list) : key[t] < key[list[i]]
<1> DEFINE I == {i \in 1..Len(list) : key[list[i]] <= key[t]}
<1>1. InsertPos(list, key, t) = 1 + (IF I # {} THEN Max(I) ELSE 0)
  BY DEF InsertPos, SelectLastInSeq
<1>2. Len(list) \in Nat /\ \A i \in 1..Len(list) : key[list[i]] \in Int
  OBVIOUS
<1>3. CASE I = {}
  BY <1>1, <1>2, <1>3
<1>4. CASE I # {}
  <2> DEFINE p == Max(I)
  <2>1. p \in I /\ \A i \in I : i <= p
    BY <1>2, <1>4, LastPosition
  <2>2. InsertPos(list, key, t) = p + 1
    BY <1>1, <1>4, <2>1
  <2>3. p \in 1..Len(list) /\ key[list[p]] <= key[t]
    BY <2>1
  <2>4. \A i \in p + 1..Len(list) : i \notin I
    BY <1>2, <2>1, <2>3
  <2>5. ASSUME NEW i \in p + 1..Len(list) PROVE key[t] < key[list[i]]
    <3>1. i \in 1..Len(list) /\ ~ (key[list[i]] <= key[t])
      BY <1>2, <2>3, <2>4
    <3>2. key[t] \in Int /\ key[list[i]] \in Int
      BY <1>2, <3>1
    <3> QED BY <3>1, <3>2
  <2> HIDE DEF p
  <2> QED BY <1>2, <2>2, <2>3, <2>5
<1> QED BY <1>3, <1>4

\* Push puts t at InsertPos and moves what stands behind it up by one.
LEMMA PushProperties ==
  ASSUME NEW T, NEW list \in Seq(T), NEW key \in [T -> Int], NEW t \in T
  PROVE  LET p == InsertPos(list, key, t) IN
         /\ Push(list, key, t) \in Seq(T)
         /\ Len(Push(list, key, t)) = Len(list) + 1
         /\ p \in 1..(Len(list) + 1)
         /\ \A i \in 1..(Len(list) + 1) :
              Push(list, key, t)[i] = IF i < p THEN list[i]
                                      ELSE IF i = p THEN t ELSE list[i - 1]
<1> DEFINE p == InsertPos(list, key, t)
           n == Len(list)
           front == SubSeq(list, 1, p - 1)
           back == SubSeq(list, p, n)
<1>1. n \in Nat /\ p \in 1..(n + 1) /\ \A i \in 1..n : list[i] \in T
  BY InsertPosLast
<1> HIDE DEF p, n
<1>2. /\ front \in Seq(T)
      /\ Len(front) = p - 1
      /\ \A i \in 1..(p - 1) : front[i] = list[i]
  BY <1>1, SubSeqProperties, Z3
<1>3. /\ back \in Seq(T)
      /\ Len(back) = n - p + 1
      /\ \A i \in 1..(n - p + 1) : back[i] = list[p + i - 1]
  BY <1>1, SubSeqProperties, Z3
<1> HIDE DEF front, back
<1> DEFINE head == front \o <<t>>
<1>4. Push(list, key, t) = head \o back
  BY DEF Push, InsertAt, front, back, p, n
<1>5. /\ head \in Seq(T)
      /\ Len(head) = p
      /\ \A i \in 1..p : head[i] = IF i < p THEN list[i] ELSE t
  BY <1>1, <1>2, ConcatProperties
<1> HIDE DEF head
<1>6. /\ head \o back \in Seq(T)
      /\ Len(head \o back) = n + 1
      /\ \A i \in 1..(n + 1) :
           (head \o back)[i] = IF i <= p THEN head[i] ELSE back[i - p]
  <2>1. Len(head) + Len(back) = n + 1
    BY <1>1, <1>3, <1>5
  <2>2. /\ head \o back \in Seq(T)
        /\ Len(head \o back) = Len(head) + Len(back)
        /\ \A i \in 1..(Len(head) + Len(back)) :
             (head \o back)[i] = IF i <= Len(head) THEN head[i]
                                  ELSE back[i - Len(head)]
    BY <1>3, <1>5, ConcatProperties
  <2> QED BY <1>5, <2>1, <2>2
<1>7. ASSUME NEW i \in 1..(n + 1)
      PROVE  Push(list, key, t)[i] = IF i < p THEN list[i]
                                     ELSE IF i = p THEN t ELSE list[i - 1]
  <2>1. CASE i <= p
    BY <1>1, <1>4, <1>5, <1>6, <2>1
  <2>2. CASE i > p
    <3>1. i - p \in 1..(n - p + 1) /\ p + (i - p) - 1 = i - 1
      BY <1>1, <2>2
    <3>2. back[i - p] = list[i - 1]
      BY <1>3, <3>1
    <3>3. Push(list, key, t)[i] = back[i - p]
      <4>1. ~(i <= p)
        BY <1>1, <2>2
      <4>2. (head \o back)[i] = back[i - p]
        BY <1>6, <1>7, <4>1
      <4> QED BY <1>4, <4>2
    <3> QED BY <1>1, <2>2, <3>2, <3>3
  <2> QED BY <1>1, <2>1, <2>2
<1> QED BY <1>1, <1>4, <1>6, <1>7 DEF p, n

\* RemoveAt takes the task at position p out and closes the gap.
LEMMA RemoveAtProperties ==
  ASSUME NEW T, NEW list \in Seq(T), NEW p \in 1..Len(list)
  PROVE  /\ RemoveAt(list, p) \in Seq(T)
         /\ Len(RemoveAt(list, p)) = Len(list) - 1
         /\ \A i \in 1..(Len(list) - 1) :
              RemoveAt(list, p)[i] = IF i < p THEN list[i] ELSE list[i + 1]
<1> DEFINE n == Len(list)
           front == SubSeq(list, 1, p - 1)
           back == SubSeq(list, p + 1, n)
<1>1. n \in Nat /\ p \in 1..n /\ \A i \in 1..n : list[i] \in T
  OBVIOUS
<1> HIDE DEF n
<1>2. /\ front \in Seq(T)
      /\ Len(front) = p - 1
      /\ \A i \in 1..(p - 1) : front[i] = list[i]
  BY <1>1, SubSeqProperties, Z3
<1>3. /\ back \in Seq(T)
      /\ Len(back) = n - p
      /\ \A i \in 1..(n - p) : back[i] = list[p + i]
  BY <1>1, SubSeqProperties, Z3
<1> HIDE DEF front, back
<1>4. RemoveAt(list, p) = front \o back
  BY DEF RemoveAt, front, back, n
<1>5. /\ front \o back \in Seq(T)
      /\ Len(front \o back) = n - 1
      /\ \A i \in 1..(n - 1) :
           (front \o back)[i] = IF i <= p - 1 THEN front[i]
                                ELSE back[i - (p - 1)]
  <2>1. Len(front) + Len(back) = n - 1
    BY <1>1, <1>2, <1>3
  <2>2. /\ front \o back \in Seq(T)
        /\ Len(front \o back) = Len(front) + Len(back)
        /\ \A i \in 1..(Len(front) + Len(back)) :
             (front \o back)[i] = IF i <= Len(front) THEN front[i]
                                   ELSE back[i - Len(front)]
    BY <1>2, <1>3, ConcatProperties
  <2> QED BY <1>2, <2>1, <2>2
<1>6. ASSUME NEW i \in 1..(n - 1)
      PROVE  RemoveAt(list, p)[i] = IF i < p THEN list[i] ELSE list[i + 1]
  <2>1. CASE i < p
    BY <1>1, <1>2, <1>4, <1>5, <2>1
  <2>2. CASE i >= p
    <3>1. i - (p - 1) \in 1..(n - p) /\ p + (i - (p - 1)) = i + 1
      BY <1>1, <2>2
    <3> QED BY <1>1, <1>3, <1>4, <1>5, <2>2, <3>1
  <2> QED BY <1>1, <2>1, <2>2
<1> QED BY <1>4, <1>5, <1>6 DEF n

\* The tasks of a list, and its length, in the terms of the operators above.
LEMMA ToSetElements ==
  ASSUME NEW T, NEW list \in Seq(T)
  PROVE  /\ Len(list) \in Nat
         /\ \A i \in 1..Len(list) : list[i] \in T /\ list[i] \in ToSet(list)
         /\ ToSet(list) = {list[i] : i \in 1..Len(list)}
         /\ ToSet(list) \subseteq T
BY DEF ToSet

\* What a push adds: t, and nothing is lost.
LEMMA PushToSet ==
  ASSUME NEW T, NEW list \in Seq(T), NEW key \in [T -> Int], NEW t \in T
  PROVE  ToSet(Push(list, key, t)) = ToSet(list) \cup {t}
<1> DEFINE p == InsertPos(list, key, t)
           new == Push(list, key, t)
           n == Len(list)
<1>1. /\ new \in Seq(T)
      /\ Len(new) = n + 1
      /\ p \in 1..(n + 1)
      /\ \A i \in 1..(n + 1) : new[i] = IF i < p THEN list[i]
                                       ELSE IF i = p THEN t ELSE list[i - 1]
  BY PushProperties
<1>2. n \in Nat
  OBVIOUS
<1>3. ToSet(new) = {new[i] : i \in 1..(n + 1)}
  BY <1>1, ToSetElements
<1>4. ToSet(list) = {list[i] : i \in 1..n}
  BY ToSetElements
<1> HIDE DEF p, new, n
<1>5. ASSUME NEW u \in ToSet(new) PROVE u \in ToSet(list) \cup {t}
  <2>1. PICK i \in 1..(n + 1) : u = new[i]
    BY <1>3
  <2>2. CASE i < p
    <3>1. u = list[i] /\ i \in 1..n
      BY <1>1, <1>2, <2>1, <2>2
    <3> QED BY <1>4, <3>1
  <2>3. CASE i = p
    BY <1>1, <2>1, <2>3
  <2>4. CASE i > p
    <3>1. u = list[i - 1] /\ i - 1 \in 1..n
      BY <1>1, <1>2, <2>1, <2>4
    <3> QED BY <1>4, <3>1
  <2> QED BY <1>1, <1>2, <2>2, <2>3, <2>4
<1>6. ASSUME NEW u \in ToSet(list) PROVE u \in ToSet(new)
  <2>1. PICK i \in 1..n : u = list[i]
    BY <1>4
  <2>2. CASE i < p
    <3>1. i \in 1..(n + 1) /\ new[i] = u
      BY <1>1, <1>2, <2>1, <2>2
    <3> QED BY <1>3, <3>1
  <2>3. CASE i >= p
    <3>1. i + 1 \in 1..(n + 1) /\ new[i + 1] = list[(i + 1) - 1]
      BY <1>1, <1>2, <2>3
    <3>2. (i + 1) - 1 = i
      OBVIOUS
    <3> QED BY <1>3, <2>1, <3>1, <3>2
  <2> QED BY <1>1, <1>2, <2>2, <2>3
<1>7. t \in ToSet(new)
  <2>1. new[p] = t /\ p \in 1..(n + 1)
    BY <1>1, <1>2
  <2> QED BY <1>3, <2>1
<1> QED BY <1>5, <1>6, <1>7 DEF new

\* A push of a task that is not in the list puts no task in it twice.
LEMMA PushDistinct ==
  ASSUME NEW T, NEW list \in Seq(T), NEW key \in [T -> Int], NEW t \in T,
         Distinct(list), t \notin ToSet(list)
  PROVE  Distinct(Push(list, key, t))
<1> DEFINE p == InsertPos(list, key, t)
           new == Push(list, key, t)
           n == Len(list)
<1>1. /\ Len(new) = n + 1
      /\ p \in 1..(n + 1)
      /\ \A i \in 1..(n + 1) : new[i] = IF i < p THEN list[i]
                                       ELSE IF i = p THEN t ELSE list[i - 1]
  BY PushProperties
<1>2. n \in Nat /\ \A i \in 1..n : list[i] # t
  BY ToSetElements
<1>3. \A i, j \in 1..n : list[i] = list[j] => i = j
  BY DEF Distinct
<1> HIDE DEF p, new, n
<1> SUFFICES ASSUME NEW i \in 1..(n + 1), NEW j \in 1..(n + 1), i < j
             PROVE  new[i] # new[j]
  BY <1>1, <1>2 DEF Distinct, new
<1>4. CASE j < p
  BY <1>1, <1>2, <1>3, <1>4
<1>5. CASE j = p
  BY <1>1, <1>2, <1>5
<1>6. CASE i < p /\ p < j
  <2>1. new[i] = list[i] /\ new[j] = list[j - 1] /\ j - 1 \in 1..n /\ i \in 1..n
    BY <1>1, <1>2, <1>6
  <2>2. i # j - 1
    BY <1>1, <1>2, <1>6
  <2> QED BY <1>3, <2>1, <2>2
<1>7. CASE i = p
  <2>1. new[i] = t /\ new[j] = list[j - 1] /\ j - 1 \in 1..n
    BY <1>1, <1>2, <1>7
  <2> QED BY <1>2, <2>1
<1>8. CASE p < i
  <2>1. /\ new[i] = list[i - 1] /\ new[j] = list[j - 1]
        /\ i - 1 \in 1..n /\ j - 1 \in 1..n
    BY <1>1, <1>2, <1>8
  <2> QED BY <1>3, <2>1
<1> QED BY <1>1, <1>2, <1>4, <1>5, <1>6, <1>7, <1>8

\* A push keeps a sorted list sorted.
LEMMA PushSorted ==
  ASSUME NEW T, NEW list \in Seq(T), NEW key \in [T -> Int], NEW t \in T,
         SortedBy(list, key)
  PROVE  SortedBy(Push(list, key, t), key)
<1> DEFINE p == InsertPos(list, key, t)
           new == Push(list, key, t)
           n == Len(list)
<1>1. /\ Len(new) = n + 1
      /\ p \in 1..(n + 1)
      /\ \A i \in 1..(n + 1) : new[i] = IF i < p THEN list[i]
                                       ELSE IF i = p THEN t ELSE list[i - 1]
  BY PushProperties
<1>2. n \in Nat /\ key[t] \in Int /\ \A i \in 1..n : key[list[i]] \in Int
  OBVIOUS
<1>3. \A i, j \in 1..n : i < j => key[list[i]] <= key[list[j]]
  BY DEF SortedBy
<1>4. /\ p > 1 => key[list[p - 1]] <= key[t]
      /\ \A i \in p..n : key[t] < key[list[i]]
  BY InsertPosLast
<1> HIDE DEF p, new, n
<1>5. \A i \in 1..n : i < p => key[list[i]] <= key[t]
  <2> SUFFICES ASSUME NEW i \in 1..n, i < p PROVE key[list[i]] <= key[t]
    OBVIOUS
  <2>1. CASE i = p - 1
    BY <1>1, <1>4, <2>1
  <2>2. CASE i < p - 1
    <3>1. p - 1 \in 1..n /\ key[list[i]] <= key[list[p - 1]]
      BY <1>1, <1>2, <1>3, <2>2
    <3> QED BY <1>1, <1>2, <1>4, <3>1
  <2> QED BY <1>1, <2>1, <2>2
<1> SUFFICES ASSUME NEW i \in 1..(n + 1), NEW j \in 1..(n + 1), i < j
             PROVE  key[new[i]] <= key[new[j]]
  BY <1>1 DEF SortedBy, new
<1>6. CASE j < p
  BY <1>1, <1>2, <1>3, <1>6
<1>7. CASE j = p
  BY <1>1, <1>2, <1>5, <1>7
<1>8. CASE i < p /\ p < j
  <2>1. new[i] = list[i] /\ new[j] = list[j - 1] /\ j - 1 \in p..n /\ i \in 1..n
    BY <1>1, <1>2, <1>8
  <2>2. j - 1 \in 1..n
    BY <1>1, <2>1
  <2>3. key[list[i]] <= key[t] /\ key[t] < key[list[j - 1]]
    BY <1>4, <1>5, <1>8, <2>1
  <2> QED BY <1>2, <2>1, <2>2, <2>3
<1>9. CASE i = p
  <2>1. new[i] = t /\ new[j] = list[j - 1] /\ j - 1 \in p..n /\ j - 1 \in 1..n
    BY <1>1, <1>2, <1>9
  <2>2. key[t] < key[list[j - 1]]
    BY <1>4, <2>1
  <2> QED BY <1>2, <2>1, <2>2
<1>10. CASE p < i
  <2>1. /\ new[i] = list[i - 1] /\ new[j] = list[j - 1]
        /\ i - 1 \in 1..n /\ j - 1 \in 1..n /\ i - 1 < j - 1
    BY <1>1, <1>2, <1>10
  <2> QED BY <1>3, <2>1
<1> QED BY <1>1, <1>2, <1>6, <1>7, <1>8, <1>9, <1>10

\* Taking the task at position p out of a list in which every task stands once
\* takes out that task, and only that one, and disturbs no order.
LEMMA RemoveAtKeeps ==
  ASSUME NEW T, NEW list \in Seq(T), NEW p \in 1..Len(list), Distinct(list)
  PROVE  /\ ToSet(RemoveAt(list, p)) = ToSet(list) \ {list[p]}
         /\ Distinct(RemoveAt(list, p))
         /\ \A key : SortedBy(list, key) => SortedBy(RemoveAt(list, p), key)
<1> DEFINE new == RemoveAt(list, p)
           n == Len(list)
           from(i) == IF i < p THEN i ELSE i + 1
<1>1. /\ new \in Seq(T)
      /\ Len(new) = n - 1
      /\ \A i \in 1..(n - 1) : new[i] = IF i < p THEN list[i] ELSE list[i + 1]
  BY RemoveAtProperties
<1>2. n \in Nat /\ p \in 1..n
  OBVIOUS
<1>3. \A i, j \in 1..n : list[i] = list[j] => i = j
  BY DEF Distinct
<1>4. ToSet(new) = {new[i] : i \in 1..(n - 1)}
  BY <1>1, ToSetElements
<1>5. ToSet(list) = {list[i] : i \in 1..n}
  BY ToSetElements
<1> HIDE DEF new, n
<1>6. \A i \in 1..(n - 1) :
        from(i) \in 1..n /\ from(i) # p /\ new[i] = list[from(i)]
  BY <1>1, <1>2
<1>7. \A i, j \in 1..(n - 1) : i < j => from(i) < from(j)
  BY <1>2
<1>8. \A i \in 1..n : i # p => \E j \in 1..(n - 1) : i = from(j)
  <2> SUFFICES ASSUME NEW i \in 1..n, i # p
               PROVE  \E j \in 1..(n - 1) : i = from(j)
    OBVIOUS
  <2>1. CASE i < p
    <3>1. i \in 1..(n - 1) /\ i = from(i)
      BY <1>2, <2>1
    <3> QED BY <3>1
  <2>2. CASE i > p
    <3>1. i - 1 \in 1..(n - 1) /\ i = from(i - 1)
      BY <1>2, <2>2
    <3> QED BY <3>1
  <2> QED BY <1>2, <2>1, <2>2
<1> HIDE DEF from
<1>9. ToSet(new) = ToSet(list) \ {list[p]}
  <2>1. ASSUME NEW u \in ToSet(new) PROVE u \in ToSet(list) /\ u # list[p]
    BY <1>2, <1>3, <1>4, <1>5, <1>6
  <2>2. ASSUME NEW u \in ToSet(list), u # list[p] PROVE u \in ToSet(new)
    <3>1. PICK i \in 1..n : u = list[i] /\ i # p
      BY <1>5, <2>2
    <3>2. PICK j \in 1..(n - 1) : i = from(j)
      BY <1>8, <3>1
    <3> QED BY <1>4, <1>6, <3>1, <3>2
  <2> QED BY <2>1, <2>2
<1>10. Distinct(new)
  <2> SUFFICES ASSUME NEW i \in 1..(n - 1), NEW j \in 1..(n - 1), i < j
               PROVE  new[i] # new[j]
    BY <1>1, <1>2 DEF Distinct
  <2>1. from(i) < from(j) /\ from(i) \in 1..n /\ from(j) \in 1..n
    BY <1>6, <1>7
  <2>2. from(i) # from(j)
    BY <2>1
  <2> QED BY <1>3, <1>6, <2>1, <2>2
<1>11. ASSUME NEW key, SortedBy(list, key) PROVE SortedBy(new, key)
  <2> SUFFICES ASSUME NEW i \in 1..(n - 1), NEW j \in 1..(n - 1), i < j
               PROVE  key[new[i]] <= key[new[j]]
    BY <1>1 DEF SortedBy
  <2>1. from(i) < from(j) /\ from(i) \in 1..n /\ from(j) \in 1..n
    BY <1>6, <1>7
  <2>2. key[list[from(i)]] <= key[list[from(j)]]
    BY <1>11, <2>1 DEF SortedBy, n
  <2> QED BY <1>6, <2>2
<1> QED BY <1>9, <1>10, <1>11 DEF new
=============================================================================
