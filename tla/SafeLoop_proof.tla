--------------------------- MODULE SafeLoop_proof ---------------------------
(***************************************************************************)
(* Theorems about SafeLoop for any number of loops: no loop has two        *)
(* bodies, and each step is one of Loops or none.                          *)
(***************************************************************************)
EXTENDS SafeLoop, TLAPS

\* What lets a body start is in one place: with the caller, with the outer
\* goroutine, or with the one body there is.
Token(l) ==
  /\ l \notin called => outer[l] = "none" /\ Bodies(l) = 0
  /\ l \in called =>
       Bodies(l) = IF calling = l \/ outer[l] = "spawn" THEN 0 ELSE 1
  /\ calling = l => outer[l] = "receive"
  /\ outer[l] = "none" => l \notin called

LoopInv == TypeOK /\ \A l \in Loops : Token(l)

\* A body more, or less, at some place.
LEMMA OneMore ==
  ASSUME NEW b \in [Places -> Nat], NEW p \in Places
  PROVE  /\ Plus(b, p) \in [Places -> Nat]
         /\ Total(Plus(b, p)) = Total(b) + 1
         /\ Total(b) \in Nat
BY DEF Plus, Total, Places

LEMMA OneLess ==
  ASSUME NEW b \in [Places -> Nat], NEW p \in Places, b[p] > 0
  PROVE  /\ Minus(b, p) \in [Places -> Nat]
         /\ Total(Minus(b, p)) = Total(b) - 1
         /\ Total(b) > 0
BY DEF Minus, Total, Places

\* What is known of one loop's bodies.
LEMMA BodyCounts ==
  ASSUME TypeOK, NEW l \in Loops
  PROVE  /\ bodies[l] \in [Places -> Nat]
         /\ bodies[l]["todo"] \in Nat /\ bodies[l]["interval"] \in Nat
         /\ bodies[l]["redoDelay"] \in Nat /\ bodies[l]["send"] \in Nat
         /\ Bodies(l) = bodies[l]["todo"] + bodies[l]["interval"]
                        + bodies[l]["redoDelay"] + bodies[l]["send"]
<1>1. bodies[l] \in [Places -> Nat]
  BY DEF TypeOK
<1>2. \A p \in Places : bodies[l][p] \in Nat
  BY <1>1
<1> QED BY <1>1, <1>2 DEF Places, Bodies, Total

\* A body that goes from one place to another is still one body, and the other
\* loops have nothing to do with it.
LEMMA GoesKeeps ==
  ASSUME LoopInv, NEW l \in Loops, NEW p \in Places, NEW q \in Places,
         Goes(l, p, q)
  PROVE  LoopInv'
<1> DEFINE c == Minus(bodies[l], p)
           b == Plus(c, q)
<1>1. /\ bodies[l] \in [Places -> Nat] /\ bodies[l][p] > 0
      /\ bodies' = [bodies EXCEPT ![l] = b]
      /\ UNCHANGED <<called, calling, outer>>
  BY DEF Goes, LoopInv, TypeOK
<1>2. c \in [Places -> Nat] /\ Total(c) = Total(bodies[l]) - 1
  BY <1>1, OneLess
<1>3. Total(bodies[l]) \in Nat
  BY <1>1, OneMore DEF Places
<1> HIDE DEF c
<1>4. b \in [Places -> Nat] /\ Total(b) = Total(c) + 1
  BY <1>2, OneMore
<1>5. Total(b) = Total(bodies[l])
  BY <1>2, <1>3, <1>4
<1> HIDE DEF b
<1>6. TypeOK'
  BY <1>1, <1>4 DEF LoopInv, TypeOK
<1>7. \A k \in Loops : Bodies(k)' = Bodies(k)
  BY <1>1, <1>4, <1>5 DEF Bodies, LoopInv, TypeOK
<1> QED BY <1>1, <1>6, <1>7 DEF LoopInv, Token

\* Every step keeps the token where one goroutine has it.
LEMMA LoopNext ==
  ASSUME LoopInv, [Next]_vars
  PROVE  LoopInv'
<1>1. CASE Caller \/ UNCHANGED vars
  BY <1>1 DEF Caller, vars, LoopInv, TypeOK, Token, Bodies
<1>2. ASSUME NEW l \in Loops, Call(l)
      PROVE  LoopInv'
  BY <1>2, SafeLoopAssumption DEF Call, LoopInv, TypeOK, Token, Bodies
<1>3. ASSUME NEW l \in Loops, ReceiveFromCaller(l)
      PROVE  LoopInv'
  BY <1>3, SafeLoopAssumption
     DEF ReceiveFromCaller, LoopInv, TypeOK, Token, Bodies
<1>4. ASSUME NEW l \in Loops, ReceiveFromBody(l)
      PROVE  LoopInv'
  <2> DEFINE b == Minus(bodies[l], "send")
  <2>1. /\ bodies[l] \in [Places -> Nat] /\ bodies[l]["send"] > 0
        /\ outer[l] = "receive" /\ outer' = [outer EXCEPT ![l] = "spawn"]
        /\ bodies' = [bodies EXCEPT ![l] = b]
        /\ UNCHANGED <<called, calling>>
    BY <1>4 DEF ReceiveFromBody, LoopInv, TypeOK
  <2>2. b \in [Places -> Nat] /\ Total(b) = Bodies(l) - 1 /\ Bodies(l) > 0
    BY <2>1, OneLess DEF Places, Bodies
  <2> HIDE DEF b
  <2>3. TypeOK'
    BY <2>1, <2>2 DEF LoopInv, TypeOK
  <2>4. /\ Bodies(l)' = Bodies(l) - 1
        /\ \A k \in Loops \ {l} : Bodies(k)' = Bodies(k)
    BY <2>1, <2>2 DEF Bodies, LoopInv, TypeOK
  <2>5. l \in called /\ Bodies(l) = 1 /\ calling # l
    BY <2>2 DEF LoopInv, Token
  <2>6. Token(l)'
    BY <2>1, <2>4, <2>5 DEF LoopInv, TypeOK, Token
  <2>7. ASSUME NEW k \in Loops \ {l} PROVE Token(k)'
    BY <2>1, <2>4 DEF LoopInv, TypeOK, Token
  <2> QED BY <2>3, <2>6, <2>7 DEF LoopInv
<1>5. ASSUME NEW l \in Loops, Spawn(l)
      PROVE  LoopInv'
  <2> DEFINE b == Plus(bodies[l], "todo")
  <2>1. /\ bodies[l] \in [Places -> Nat]
        /\ outer[l] = "spawn" /\ outer' = [outer EXCEPT ![l] = "receive"]
        /\ bodies' = [bodies EXCEPT ![l] = b]
        /\ UNCHANGED <<called, calling>>
    BY <1>5 DEF Spawn, LoopInv, TypeOK
  <2>2. b \in [Places -> Nat] /\ Total(b) = Bodies(l) + 1
    BY <2>1, OneMore DEF Places, Bodies
  <2> HIDE DEF b
  <2>3. TypeOK'
    BY <2>1, <2>2 DEF LoopInv, TypeOK
  <2>4. /\ Bodies(l)' = Bodies(l) + 1
        /\ \A k \in Loops \ {l} : Bodies(k)' = Bodies(k)
    BY <2>1, <2>2 DEF Bodies, LoopInv, TypeOK
  <2>5. l \in called /\ Bodies(l) = 0 /\ calling # l
    BY <2>1 DEF LoopInv, Token
  <2>6. Token(l)'
    BY <2>1, <2>4, <2>5 DEF LoopInv, TypeOK, Token
  <2>7. ASSUME NEW k \in Loops \ {l} PROVE Token(k)'
    BY <2>1, <2>4 DEF LoopInv, TypeOK, Token
  <2> QED BY <2>3, <2>6, <2>7 DEF LoopInv
<1>6. ASSUME NEW l \in Loops,
             TodoReturns(l) \/ NextTurn(l) \/ Panic(l) \/ Redo(l)
      PROVE  LoopInv'
  BY <1>6, GoesKeeps DEF TodoReturns, NextTurn, Panic, Redo, Places
<1> QED BY <1>1, <1>2, <1>3, <1>4, <1>5, <1>6 DEF Next, Step

THEOREM LoopInvariant == Spec => []LoopInv
<1>1. ASSUME Init PROVE LoopInv
  BY <1>1, SafeLoopAssumption
     DEF Init, LoopInv, TypeOK, Token, Bodies, Total, Places
<1> QED BY <1>1, LoopNext, PTL DEF Spec

\* Every variable keeps its type.
THEOREM LoopsTyped == Spec => []TypeOK
<1>1. LoopInv => TypeOK
  BY DEF LoopInv
<1> QED BY <1>1, LoopInvariant, PTL

\* However often loops panic, and while others are still being started, no loop
\* has two bodies.
THEOREM NeverTwoBodies == Spec => []OneBody
<1>1. LoopInv => OneBody
  <2> SUFFICES ASSUME LoopInv, NEW l \in Loops
               PROVE  Bodies(l) <= 1
    BY DEF OneBody
  <2>1. Token(l)
    BY DEF LoopInv
  <2>2. CASE l \in called
    BY <2>1, <2>2 DEF Token
  <2>3. CASE l \notin called
    BY <2>1, <2>3 DEF Token
  <2> QED BY <2>2, <2>3
<1> QED BY <1>1, LoopInvariant, PTL

\* The steps of Loops.
PromisedSteps == Promise!Init /\ [][Promise!Next]_Up

\* Every step starts a loop that was down, breaks one off, or does neither: the
\* safety part of ImplementsLoops.
THEOREM LoopsImplemented == Spec => PromisedSteps
<1>1. ASSUME Init PROVE Promise!Init
  BY <1>1 DEF Init, Promise!Init, Up, Places
<1>2. ASSUME LoopInv, [Next]_vars
      PROVE  [Promise!Next]_Up
  <2> USE <1>2 DEF LoopInv
  <2>1. CASE Caller \/ UNCHANGED vars
    BY <2>1 DEF Caller, vars, Up
  <2>2. ASSUME NEW l \in Loops, Call(l) \/ ReceiveFromCaller(l)
        PROVE  UNCHANGED Up
    BY <2>2 DEF Call, ReceiveFromCaller, Up
  \* Only l can come up or go down when only its bodies change.
  <2>3. ASSUME NEW l \in Loops, NEW b,
               bodies' = [bodies EXCEPT ![l] = b]
        PROVE  /\ b["todo"] + b["interval"] > 0 => Up' = Up \cup {l}
               /\ ~ (b["todo"] + b["interval"] > 0) => Up' = Up \ {l}
    <3>1. /\ bodies'[l] = b
          /\ \A k \in Loops \ {l} : bodies'[k] = bodies[k]
      BY <2>3 DEF TypeOK
    <3>2. \A k \in Loops \ {l} : k \in Up' <=> k \in Up
      BY <3>1 DEF Up
    <3>3. l \in Up' <=> b["todo"] + b["interval"] > 0
      BY <3>1 DEF Up
    <3>4. Up \subseteq Loops /\ Up' \subseteq Loops
      BY DEF Up
    <3> QED BY <3>2, <3>3, <3>4
  \* Bodies that neither call todo nor sleep for the interval do not count.
  <2>4. ASSUME NEW l \in Loops, NEW b,
               bodies' = [bodies EXCEPT ![l] = b],
               b["todo"] + b["interval"]
                 = bodies[l]["todo"] + bodies[l]["interval"]
        PROVE  UNCHANGED Up
    BY <2>3, <2>4 DEF Up
  <2>5. ASSUME NEW l \in Loops, ReceiveFromBody(l)
        PROVE  UNCHANGED Up
    <3> DEFINE b == Minus(bodies[l], "send")
    <3>1. b["todo"] = bodies[l]["todo"] /\ b["interval"] = bodies[l]["interval"]
      BY BodyCounts DEF Minus, Places
    <3>2. bodies' = [bodies EXCEPT ![l] = b]
      BY <2>5 DEF ReceiveFromBody
    <3> HIDE DEF b
    <3> QED BY <2>4, <3>1, <3>2
  <2>6. ASSUME NEW l \in Loops, Redo(l)
        PROVE  UNCHANGED Up
    <3> DEFINE b == Plus(Minus(bodies[l], "redoDelay"), "send")
    <3>1. b["todo"] = bodies[l]["todo"] /\ b["interval"] = bodies[l]["interval"]
      BY BodyCounts DEF Plus, Minus, Places
    <3>2. bodies' = [bodies EXCEPT ![l] = b]
      BY <2>6 DEF Redo, Goes
    <3> HIDE DEF b
    <3> QED BY <2>4, <3>1, <3>2
  <2>7. ASSUME NEW l \in Loops, TodoReturns(l)
        PROVE  UNCHANGED Up
    <3> DEFINE b == Plus(Minus(bodies[l], "todo"), "interval")
    <3>1. /\ b["todo"] = bodies[l]["todo"] - 1
          /\ b["interval"] = bodies[l]["interval"] + 1
      BY BodyCounts DEF Plus, Minus, Places
    <3>2. bodies' = [bodies EXCEPT ![l] = b]
      BY <2>7 DEF TodoReturns, Goes
    <3> HIDE DEF b
    <3>3. b["todo"] + b["interval"] = bodies[l]["todo"] + bodies[l]["interval"]
      BY <3>1, BodyCounts
    <3> QED BY <2>4, <3>2, <3>3
  <2>8. ASSUME NEW l \in Loops, NextTurn(l)
        PROVE  UNCHANGED Up
    <3> DEFINE b == Plus(Minus(bodies[l], "interval"), "todo")
    <3>1. /\ b["todo"] = bodies[l]["todo"] + 1
          /\ b["interval"] = bodies[l]["interval"] - 1
      BY BodyCounts DEF Plus, Minus, Places
    <3>2. bodies' = [bodies EXCEPT ![l] = b]
      BY <2>8 DEF NextTurn, Goes
    <3> HIDE DEF b
    <3>3. b["todo"] + b["interval"] = bodies[l]["todo"] + bodies[l]["interval"]
      BY <3>1, BodyCounts
    <3> QED BY <2>4, <3>2, <3>3
  <2>9. ASSUME NEW l \in Loops, Spawn(l)
        PROVE  Promise!Next
    <3> DEFINE b == Plus(bodies[l], "todo")
    <3>1. outer[l] = "spawn" /\ bodies' = [bodies EXCEPT ![l] = b]
      BY <2>9 DEF Spawn
    <3>2. /\ b["todo"] = bodies[l]["todo"] + 1
          /\ b["interval"] = bodies[l]["interval"]
      BY BodyCounts DEF Plus, Places
    <3> HIDE DEF b
    <3>3. Bodies(l) <= 0
      BY <3>1 DEF Token
    <3>4. ~ (bodies[l]["todo"] + bodies[l]["interval"] > 0)
      BY <3>3, BodyCounts
    <3>5. l \notin Up
      BY <3>4 DEF Up
    <3>6. b["todo"] + b["interval"] > 0
      BY <3>2, BodyCounts
    <3>7. Up' = Up \cup {l}
      BY <2>3, <3>1, <3>6
    <3> QED BY <3>5, <3>7 DEF Promise!Next, Promise!Run
  <2>10. ASSUME NEW l \in Loops, Panic(l)
         PROVE  Promise!Next
    <3> DEFINE b == Plus(Minus(bodies[l], "todo"), "redoDelay")
    <3>1. bodies[l]["todo"] > 0 /\ bodies' = [bodies EXCEPT ![l] = b]
      BY <2>10 DEF Panic, Goes
    <3>2. /\ b["todo"] = bodies[l]["todo"] - 1
          /\ b["interval"] = bodies[l]["interval"]
      BY BodyCounts DEF Plus, Minus, Places
    <3> HIDE DEF b
    <3>3. Token(l)
      OBVIOUS
    <3>4. Bodies(l) <= 1
      BY <3>3 DEF Token
    <3>5. bodies[l]["todo"] = 1 /\ bodies[l]["interval"] = 0
      BY <3>1, <3>4, BodyCounts
    <3>6. l \in Up
      BY <3>5 DEF Up
    <3>7. ~ (b["todo"] + b["interval"] > 0)
      BY <3>2, <3>5
    <3>8. Up' = Up \ {l}
      BY <2>3, <3>1, <3>7
    <3> QED BY <3>6, <3>8 DEF Promise!Next, Promise!BreakDown
  <2> QED
    BY <1>2, <2>1, <2>2, <2>5, <2>6, <2>7, <2>8, <2>9, <2>10 DEF Next, Step
<1> QED BY <1>1, <1>2, LoopInvariant, PTL DEF Spec, PromisedSteps
=============================================================================
