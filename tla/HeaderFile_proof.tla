-------------------------- MODULE HeaderFile_proof --------------------------
(***************************************************************************)
(* Theorems about HeaderFile for any number of savers, setters and names:  *)
(* no half-written header file stays, and saveHeader and SetIgnoreHeader   *)
(* are atomic to each other.                                               *)
(***************************************************************************)
EXTENDS HeaderFile, TLAPS

\* Where a saver holds the read lock.
Reading == {"write", "fail", "finish"}

\* What has been written of answer a when the range has still to come to the
\* names in rest.
Written(a, rest, ig) ==
  [names    |-> (a.names \ rest) \ ig,
   fileName |-> CD \in (a.names \ rest) \ ig /\ (a.known \/ ~a.bare)]

\* What is known of a saver: all it has written so far it has written for the
\* ignore set in force.
Kept(w) ==
  /\ w \in readers <=> saving[w] \in Reading
  /\ saving[w] = "idle" <=> answer[w] = Absent
  /\ saving[w] = "idle" => file[w] # CutOff
  /\ before[w] # CutOff
  /\ saving[w] = "create" => file[w] = before[w]
  /\ saving[w] \in {"create", "rlock", "blocked"} =>
       left[w] = answer[w].names
  /\ saving[w] \in {"rlock", "blocked"} => text[w] = Empty
  /\ saving[w] = "write" =>
       /\ left[w] \subseteq answer[w].names
       /\ text[w] = Written(answer[w], left[w], ignore)
  /\ saving[w] = "finish" => file[w] = Store!Text(answer[w], ignore)

HeaderInv == TypeOK /\ \A w \in Savers : Kept(w)

-----------------------------------------------------------------------------
\* Nothing is written when the range begins.
LEMMA NothingWritten ==
  ASSUME NEW a, NEW ig
  PROVE  Written(a, a.names, ig) = Empty
BY DEF Written, Empty

\* When the range is over, only the line for the file name is missing.
LEMMA AllWritten ==
  ASSUME NEW a \in AnswerType, NEW ig
  PROVE  Store!Text(a, ig) =
           IF a.known /\ CD \notin a.names
           THEN [names    |-> Written(a, {}, ig).names \cup {CD},
                 fileName |-> TRUE]
           ELSE Written(a, {}, ig)
BY DEF Store!Text, Written, AnswerType

\* One more name, which is not ignored.
LEMMA OneMoreWritten ==
  ASSUME NEW a \in AnswerType, NEW rest \in SUBSET a.names, NEW k \in rest,
         NEW ig, k \notin ig
  PROVE  Written(a, rest \ {k}, ig) =
           [names    |-> Written(a, rest, ig).names \cup {k},
            fileName |-> \/ Written(a, rest, ig).fileName
                         \/ k = CD /\ (a.known \/ ~a.bare)]
BY DEF Written, AnswerType

LEMMA OneIgnored ==
  ASSUME NEW a \in AnswerType, NEW rest \in SUBSET a.names, NEW k \in rest,
         NEW ig, k \in ig
  PROVE  Written(a, rest \ {k}, ig) = Written(a, rest, ig)
<1>1. (a.names \ (rest \ {k})) \ ig = (a.names \ rest) \ ig
  OBVIOUS
<1> QED BY <1>1 DEF Written

\* A step that leaves a saver's variables and the ignore map alone.
LEMMA Untouched ==
  ASSUME NEW w \in Savers, Kept(w), ignore' = ignore,
         (w \in readers)' <=> w \in readers,
         saving'[w] = saving[w], answer'[w] = answer[w], left'[w] = left[w],
         text'[w] = text[w], file'[w] = file[w], before'[w] = before[w]
  PROVE  Kept(w)'
BY DEF Kept, Store!Text, Written

-----------------------------------------------------------------------------
\* A setter's step changes the map when no saver reads it, and lets the savers
\* begin that have waited.
LEMMA SettersKeep ==
  ASSUME HeaderInv, NEW s \in Setters, SetBegins(s) \/ SetStep(s)
  PROVE  HeaderInv'
<1> USE DEF HeaderInv
<1>1. CASE SetBegins(s) \/ Announce(s)
  <2>1. TypeOK'
    BY <1>1 DEF SetBegins, Announce, GoSet, saveVars, TypeOK
  <2>2. ASSUME NEW w \in Savers PROVE Kept(w)'
    BY <1>1, Untouched DEF SetBegins, Announce, saveVars
  <2> QED BY <2>1, <2>2
<1>2. CASE Assign(s)
  <2>1. TypeOK'
    BY <1>2, HeaderAssumption DEF Assign, GoSet, saveVars, TypeOK
  <2>2. ASSUME NEW w \in Savers PROVE Kept(w)'
    BY <1>2 DEF Assign, saveVars, Kept, Reading
  <2> QED BY <2>1, <2>2
<1>3. CASE SetReturns(s)
  <2>1. TypeOK'
    BY <1>3 DEF SetReturns, GoSet, Blocked, TypeOK
  <2>2. ASSUME NEW w \in Savers, saving[w] = "blocked" PROVE Kept(w)'
    <3>1. /\ saving'[w] = "write" /\ w \in readers'
          /\ UNCHANGED <<ignore, answer, left, text, file, before>>
      BY <1>3, <2>2 DEF SetReturns, Blocked
    <3>2. text[w] = Empty /\ left[w] = answer[w].names
      BY <2>2 DEF Kept
    <3>3. text[w] = Written(answer[w], left[w], ignore)
      BY <3>2, NothingWritten
    <3>4. answer[w] # Absent /\ before[w] # CutOff
      BY <2>2 DEF Kept
    <3> QED BY <3>1, <3>2, <3>3, <3>4 DEF Kept, Reading, Written
  <2>3. ASSUME NEW w \in Savers, saving[w] # "blocked" PROVE Kept(w)'
    BY <1>3, <2>3, Untouched DEF SetReturns, Blocked, TypeOK
  <2> QED BY <2>1, <2>2, <2>3
<1> QED BY <1>1, <1>2, <1>3 DEF SetStep

\* A saver's step concerns that saver only.
LEMMA OthersUntouched ==
  ASSUME HeaderInv, NEW v \in Savers, SaveBegins(v) \/ SaveStep(v),
         NEW w \in Savers \ {v}
  PROVE  Kept(w)'
<1>1. ignore' = ignore /\ ((w \in readers)' <=> w \in readers)
  BY DEF SaveBegins, SaveStep, CreateFails, Create, RLock, RLockBlocks, Write,
     Flush, WriteFails, SaveReturns, UnlockFailed, Remove, lockVars
<1>2. saving'[w] = saving[w] /\ answer'[w] = answer[w] /\ left'[w] = left[w]
  BY DEF HeaderInv, TypeOK, SaveBegins, SaveStep, CreateFails, Create, RLock,
     RLockBlocks, Write, Flush, WriteFails, SaveReturns, UnlockFailed, Remove,
     Returns, GoSave
<1>3. text'[w] = text[w] /\ file'[w] = file[w] /\ before'[w] = before[w]
  BY DEF HeaderInv, TypeOK, SaveBegins, SaveStep, CreateFails, Create, RLock,
     RLockBlocks, Write, Flush, WriteFails, SaveReturns, UnlockFailed, Remove,
     Returns
<1> QED BY <1>1, <1>2, <1>3, Untouched DEF HeaderInv

-----------------------------------------------------------------------------
\* The answer of a call that runs.
LEMMA AnswerTyped ==
  ASSUME HeaderInv, NEW w \in Savers, saving[w] # "idle"
  PROVE  answer[w] \in AnswerType
BY HeaderAssumption DEF HeaderInv, TypeOK, Kept

LEMMA SaveBeginsKeeps ==
  ASSUME HeaderInv, NEW w \in Savers, SaveBegins(w)
  PROVE  HeaderInv'
<1> USE DEF HeaderInv
<1>1. PICK a \in Answers :
        /\ answer' = [answer EXCEPT ![w] = a]
        /\ left' = [left EXCEPT ![w] = a.names]
  BY DEF SaveBegins
<1>2. a \in AnswerType /\ a # Absent
  BY HeaderAssumption
<1>3. TypeOK'
  BY <1>1, <1>2 DEF SaveBegins, lockVars, GoSave, TypeOK, AnswerType
<1>4. Kept(w)'
  BY <1>1, <1>2 DEF SaveBegins, lockVars, GoSave, TypeOK, Kept, Reading
<1> QED BY <1>3, <1>4, OthersUntouched

\* CreateFails, SaveReturns and Remove: the call's variables are gone.
LEMMA ReturnsKeeps ==
  ASSUME HeaderInv, NEW w \in Savers,
         CreateFails(w) \/ SaveReturns(w) \/ Remove(w)
  PROVE  HeaderInv'
<1> USE DEF HeaderInv
<1>1. /\ Returns(w)
      /\ writer' = writer /\ setting' = setting /\ ignore' = ignore
      /\ readers' \in {readers, readers \ {w}}
      /\ w \notin readers'
      /\ file' \in {file, [file EXCEPT ![w] = Absent]}
  BY DEF CreateFails, SaveReturns, Remove, lockVars, Kept, Reading
<1>2. TypeOK'
  BY <1>1 DEF Returns, GoSave, TypeOK, Empty, TextType
<1>3. file'[w] # CutOff
  <2>1. CASE CreateFails(w)
    BY <2>1 DEF CreateFails, Kept
  <2>2. CASE SaveReturns(w)
    <3>1. file'[w] = Store!Text(answer[w], ignore) /\ answer[w] \in AnswerType
      BY <2>2, AnswerTyped DEF SaveReturns, Kept
    <3>2. answer[w].names \subseteq Names /\ answer[w].known \in BOOLEAN
      BY <3>1 DEF AnswerType
    <3>3. file'[w] \in TextType
      BY <3>1, <3>2, HeaderAssumption DEF Store!Text, TextType
    <3> QED BY <3>3, HeaderAssumption
  <2>3. CASE Remove(w)
    BY <2>3, HeaderAssumption DEF Remove, TypeOK
  <2> QED BY <2>1, <2>2, <2>3
<1>4. Kept(w)'
  BY <1>1, <1>3, HeaderAssumption DEF Returns, GoSave, TypeOK, Kept, Reading
<1> QED BY <1>2, <1>4, OthersUntouched DEF SaveStep

LEMMA LockingKeeps ==
  ASSUME HeaderInv, NEW w \in Savers,
         Create(w) \/ RLock(w) \/ RLockBlocks(w) \/ UnlockFailed(w)
  PROVE  HeaderInv'
<1> USE DEF HeaderInv
<1>1. CASE Create(w)
  <2>1. TypeOK'
    BY <1>1 DEF Create, lockVars, GoSave, TypeOK, Empty, TextType
  <2>2. Kept(w)'
    BY <1>1 DEF Create, lockVars, GoSave, TypeOK, Kept, Reading
  <2> QED BY <1>1, <2>1, <2>2, OthersUntouched DEF SaveStep
<1>2. CASE RLock(w)
  <2>1. TypeOK'
    BY <1>2 DEF RLock, GoSave, TypeOK
  <2>2. text[w] = Written(answer[w], left[w], ignore)
    BY <1>2, NothingWritten DEF RLock, Kept
  <2>3. Kept(w)'
    BY <1>2, <2>2 DEF RLock, GoSave, TypeOK, Kept, Reading, Written
  <2> QED BY <1>2, <2>1, <2>3, OthersUntouched DEF SaveStep
<1>3. CASE RLockBlocks(w) \/ UnlockFailed(w)
  <2>1. TypeOK'
    BY <1>3 DEF RLockBlocks, UnlockFailed, lockVars, GoSave, TypeOK
  <2>2. Kept(w)'
    BY <1>3 DEF RLockBlocks, UnlockFailed, lockVars, GoSave, TypeOK, Kept,
       Reading
  <2> QED BY <1>3, <2>1, <2>2, OthersUntouched DEF SaveStep
<1> QED BY <1>1, <1>2, <1>3

LEMMA WriteKeeps ==
  ASSUME HeaderInv, NEW w \in Savers, Write(w)
  PROVE  HeaderInv'
<1> USE DEF HeaderInv
<1>1. PICK k \in left[w] :
        /\ left' = [left EXCEPT ![w] = @ \ {k}]
        /\ IF k \in ignore
           THEN UNCHANGED text
           ELSE text' = [text EXCEPT
                  ![w].names = @ \cup {k},
                  ![w].fileName =
                     @ \/ (k = CD /\ (answer[w].known \/ ~answer[w].bare))]
  BY DEF Write
<1>2. /\ left[w] \in SUBSET answer[w].names
      /\ text[w] = Written(answer[w], left[w], ignore)
      /\ answer[w] \in AnswerType /\ answer[w] # Absent
  BY AnswerTyped DEF Write, Kept
<1>3. text[w] \in TextType /\ k \in Names
  BY <1>1 DEF TypeOK
<1>4. left'[w] = left[w] \ {k}
  BY <1>1 DEF TypeOK
<1>5. text'[w] \in TextType
      /\ text'[w] = Written(answer[w], left'[w], ignore)
  <2>1. CASE k \in ignore
    BY <1>1, <1>2, <1>3, <1>4, <2>1, OneIgnored
  <2>2. CASE k \notin ignore
    <3>1. text'[w] =
            [names    |-> text[w].names \cup {k},
             fileName |-> \/ text[w].fileName
                          \/ k = CD /\ (answer[w].known \/ ~answer[w].bare)]
      BY <1>1, <1>3, <2>2 DEF TypeOK, TextType
    <3>2. text'[w] \in TextType
      BY <1>3, <3>1 DEF TextType
    <3>3. text'[w] = Written(answer[w], left[w] \ {k}, ignore)
      BY <1>2, <2>2, <3>1, OneMoreWritten
    <3> QED BY <1>4, <3>2, <3>3
  <2> QED BY <2>1, <2>2
<1>6. TypeOK'
  <2>1. text' \in [Savers -> TextType]
    <3>1. text' = [text EXCEPT ![w] = text'[w]]
      BY <1>1 DEF TypeOK
    <3> QED BY <1>5, <3>1 DEF TypeOK
  <2> QED BY <1>1, <2>1 DEF Write, lockVars, TypeOK
<1>7. Kept(w)'
  BY <1>2, <1>4, <1>5 DEF Write, lockVars, Kept, Reading, Written
<1> QED BY <1>6, <1>7, OthersUntouched DEF SaveStep

LEMMA FlushKeeps ==
  ASSUME HeaderInv, NEW w \in Savers, Flush(w) \/ WriteFails(w)
  PROVE  HeaderInv'
<1> USE DEF HeaderInv
<1>1. /\ saving[w] = "write" /\ answer[w] \in AnswerType /\ answer[w] # Absent
      /\ text[w] = Written(answer[w], left[w], ignore)
      /\ text[w] \in TextType
  BY AnswerTyped DEF Flush, WriteFails, Kept, TypeOK
<1>2. CASE Flush(w)
  <2> DEFINE t == IF OwnName(w)
                  THEN [names    |-> text[w].names \cup {CD},
                        fileName |-> TRUE]
                  ELSE text[w]
  <2>1. /\ left[w] = {} /\ file' = [file EXCEPT ![w] = t]
        /\ saving' = [saving EXCEPT ![w] = "finish"]
        /\ UNCHANGED <<lockVars, answer, left, text, before>>
    BY <1>2 DEF Flush, GoSave
  <2>2. t = Store!Text(answer[w], ignore)
    BY <1>1, <2>1, AllWritten DEF OwnName
  <2>3. t \in TextType
    BY <1>1, HeaderAssumption DEF TextType
  <2> HIDE DEF t
  <2>4. TypeOK'
    BY <2>1, <2>3 DEF lockVars, TypeOK
  <2>5. Kept(w)'
    BY <1>1, <2>1, <2>2 DEF lockVars, TypeOK, Kept, Reading, Store!Text
  <2> QED BY <1>2, <2>4, <2>5, OthersUntouched DEF SaveStep
<1>3. CASE WriteFails(w)
  <2>1. TypeOK'
    BY <1>3 DEF WriteFails, lockVars, GoSave, TypeOK
  <2>2. Kept(w)'
    BY <1>1, <1>3 DEF WriteFails, lockVars, GoSave, TypeOK, Kept, Reading
  <2> QED BY <1>3, <2>1, <2>2, OthersUntouched DEF SaveStep
<1> QED BY <1>2, <1>3

LEMMA HeaderNext ==
  ASSUME HeaderInv, [Next]_vars
  PROVE  HeaderInv'
<1>1. CASE UNCHANGED vars
  <2>1. TypeOK'
    BY <1>1 DEF vars, lockVars, saveVars, HeaderInv, TypeOK
  <2>2. ASSUME NEW w \in Savers PROVE Kept(w)'
    BY <1>1, Untouched DEF vars, lockVars, saveVars, HeaderInv
  <2> QED BY <2>1, <2>2 DEF HeaderInv
<1> QED
  BY <1>1, SettersKeep, SaveBeginsKeeps, ReturnsKeeps, LockingKeeps,
     WriteKeeps, FlushKeeps DEF Next, SaveStep

THEOREM HeaderInvariant == Spec => []HeaderInv
<1>1. ASSUME Init PROVE HeaderInv
  <2>1. TypeOK
    BY <1>1 DEF Init, TypeOK, Empty, TextType
  <2>2. ASSUME NEW w \in Savers PROVE Kept(w)
    BY <1>1, HeaderAssumption DEF Init, Kept, Reading
  <2> QED BY <2>1, <2>2 DEF HeaderInv
<1> QED BY <1>1, HeaderNext, PTL DEF Spec

\* Every variable keeps its type.
THEOREM HeaderTyped == Spec => []TypeOK
<1>1. HeaderInv => TypeOK
  BY DEF HeaderInv
<1> QED BY <1>1, HeaderInvariant, PTL

\* No call of saveHeader, successful or not, leaves a file written in part.
THEOREM NoHalfHeader == Spec => []NoHalfFile
<1>1. HeaderInv => NoHalfFile
  BY DEF HeaderInv, NoHalfFile, Kept
<1> QED BY <1>1, HeaderInvariant, PTL

-----------------------------------------------------------------------------
\* A step that changes nothing the store knows of.
LEMMA StoreStutters ==
  ASSUME HeaderInv, HeaderInv', ignore' = ignore, answer' = answer,
         \A w \in Savers :
           /\ (saving[w] = "idle")' <=> saving[w] = "idle"
           /\ before'[w] = before[w]
           /\ saving[w] = "idle" => file'[w] = file[w]
  PROVE  UNCHANGED Store!vars
<1>1. Stored' = Stored
  BY DEF Stored
<1> QED BY <1>1 DEF Store!vars

\* A call that ends: its file counts from now on, and no other changes.
LEMMA StoredWhenReturns ==
  ASSUME HeaderInv, NEW w \in Savers, Returns(w), saving[w] # "idle",
         \A v \in Savers \ {w} : file'[v] = file[v]
  PROVE  /\ Stored' = [Stored EXCEPT ![w] = file'[w]]
         /\ Stored[w] = before[w]
         /\ answer[w] # Absent /\ answer' = [answer EXCEPT ![w] = Absent]
<1>1. /\ saving'[w] = "idle"
      /\ \A v \in Savers \ {w} :
           saving'[v] = saving[v] /\ before'[v] = before[v]
  BY DEF Returns, GoSave, HeaderInv, TypeOK
<1>2. Stored'[w] = file'[w]
  BY <1>1 DEF Stored
<1>3. \A v \in Savers \ {w} : Stored'[v] = Stored[v]
  BY <1>1 DEF Stored
<1>4. Stored' = [Stored EXCEPT ![w] = file'[w]]
  BY <1>2, <1>3 DEF Stored
<1> QED BY <1>4 DEF Stored, Returns, HeaderInv, Kept

\* saveHeader takes effect when its deferred calls are made, and SetIgnoreHeader
\* when the map is assigned: each is one step of the store.
THEOREM HeaderImplementsStore == Spec => ImplementsStore
<1>1. ASSUME Init PROVE Store!Init
  BY <1>1 DEF Init, Store!Init, Stored
<1>2. ASSUME HeaderInv, HeaderInv', [Next]_vars
      PROVE  [Store!Next]_(Store!vars)
  <2> USE <1>2
  <2>1. CASE UNCHANGED vars
    BY <2>1, StoreStutters DEF vars, lockVars, saveVars
  <2>2. ASSUME NEW s \in Setters, SetBegins(s) \/ Announce(s) \/ SetReturns(s)
        PROVE  UNCHANGED Store!vars
    BY <2>2, StoreStutters
       DEF SetBegins, Announce, SetReturns, saveVars, Blocked, HeaderInv, TypeOK
  <2>3. ASSUME NEW s \in Setters, Assign(s)
        PROVE  Store!SetIgnoreHeader
    <3>1. Stored' = Stored
      BY <2>3 DEF Assign, saveVars, Stored
    <3> QED BY <2>3, <3>1 DEF Assign, saveVars, Store!SetIgnoreHeader
  <2>4. ASSUME NEW w \in Savers, SaveBegins(w)
        PROVE  Store!Ask(w)
    <3>1. Stored' = Stored
      BY <2>4 DEF SaveBegins, GoSave, Stored, HeaderInv, TypeOK
    <3>2. answer[w] = Absent /\ ignore' = ignore
      BY <2>4 DEF SaveBegins, lockVars, HeaderInv, Kept
    <3> QED BY <2>4, <3>1, <3>2 DEF SaveBegins, Store!Ask
  <2>5. ASSUME NEW w \in Savers,
               \/ Create(w) \/ RLock(w) \/ RLockBlocks(w) \/ Write(w)
               \/ Flush(w) \/ WriteFails(w) \/ UnlockFailed(w)
        PROVE  UNCHANGED Store!vars
    BY <2>5, StoreStutters
       DEF Create, RLock, RLockBlocks, Write, Flush, WriteFails, UnlockFailed,
           GoSave, lockVars, HeaderInv, TypeOK
  <2>6. ASSUME NEW w \in Savers, SaveReturns(w)
        PROVE  Store!Save(w)
    <3>1. /\ Stored' = [Stored EXCEPT ![w] = file'[w]]
          /\ answer[w] # Absent /\ answer' = [answer EXCEPT ![w] = Absent]
      BY <2>6, StoredWhenReturns DEF SaveReturns
    <3>2. file'[w] = Store!Text(answer[w], ignore) /\ ignore' = ignore
      BY <2>6 DEF SaveReturns, HeaderInv, Kept
    <3> QED BY <3>1, <3>2 DEF Store!Save
  <2>7. ASSUME NEW w \in Savers, CreateFails(w) \/ Remove(w)
        PROVE  Store!SaveFails(w)
    <3>1. /\ Stored' = [Stored EXCEPT ![w] = file'[w]]
          /\ Stored[w] = before[w]
          /\ answer[w] # Absent /\ answer' = [answer EXCEPT ![w] = Absent]
          /\ ignore' = ignore
      BY <2>7, StoredWhenReturns
         DEF CreateFails, Remove, lockVars, HeaderInv, TypeOK
    <3>2. CASE CreateFails(w)
      <4>1. file'[w] = Stored[w]
        BY <3>1, <3>2 DEF CreateFails, HeaderInv, Kept
      <4>2. Stored' = Stored
        BY <3>1, <4>1 DEF Stored
      <4> QED BY <3>1, <4>2 DEF Store!SaveFails
    <3>3. CASE Remove(w)
      <4>1. file'[w] = Absent
        BY <3>3 DEF Remove, HeaderInv, TypeOK
      <4> QED BY <3>1, <4>1 DEF Store!SaveFails
    <3> QED BY <2>7, <3>2, <3>3
  <2> QED BY <2>1, <2>2, <2>3, <2>4, <2>5, <2>6, <2>7
         DEF Next, SetStep, SaveStep, Store!Next
<1> QED BY <1>1, <1>2, HeaderInvariant, PTL
        DEF Spec, ImplementsStore, Store!Spec
=============================================================================
