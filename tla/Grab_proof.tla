----------------------------- MODULE Grab_proof -----------------------------
(***************************************************************************)
(* Theorems about Grab for origins with files of any length, in any number *)
(* of attempts: no panic, prefixes only, success means the whole file, and *)
(* Transfer is implemented.                                                *)
(***************************************************************************)
EXTENDS Grab, SequenceTheorems, TLAPS

USE DEF Nil

\* The caller's goroutine is in one of its state functions.
Asking ==
  next \in {"statFileInfo", "validateLocal", "headRequest", "getRequest",
            "readResponse", "openWriter"}

\* The caller's goroutine has opened the file, the copy has not begun.
Prepared ==
  /\ ~resp.done
  /\ \/ next = "returned" /\ routine = "caller"
     \/ next = "copyFile"

\* Where an attempt is, and what is closed or received by then.
Control ==
  /\ next # "panicked"
  /\ resp.done => next \in {"returned", "copyFile"}
  /\ next = "readResponse" => resp.http # "nil"
  /\ next = "validateLocal" => resp.fi # Nil
  /\ Prepared => resp.transfer
  /\ Asking => ~resp.transfer
  /\ resp.err # "nil" => resp.done \/ next = "closeResponse"

\* The file holds the first bytes of the origin's file.
Upto ==
  file # Absent =>
    Len(file) <= origin.size /\ \A i \in 1..Len(file) : file[i] = i

\* The bytes b are those of the origin's file from number s + 1 on.
RestFrom(b, s) ==
  /\ s <= origin.size
  /\ Len(b) = origin.size - s
  /\ \A i \in 1..Len(b) : b[i] = s + i

\* What the attempt knows of the file and asks for.
Asked ==
  /\ resp.fi # Nil => file # Absent /\ resp.fi = Len(file)
  /\ resp.fi = Nil /\ next # "statFileInfo" =>
       file = IF resp.transfer THEN <<>> ELSE Absent
  /\ resp.range # Nil => resp.range = resp.fi /\ origin.servesRanges
  /\ resp.didResume <=> resp.range # Nil
  /\ resp.canResume => origin.servesRanges
  /\ resp.http # "GET" /\ resp.contentLength # Nil =>
       resp.contentLength = origin.size
  /\ Asking /\ resp.http = "GET" => next \in {"readResponse", "openWriter"}

\* The body of the GET has been received and not yet read.
Received ==
  \/ next = "readResponse" /\ resp.http = "GET"
  \/ next = "openWriter"
  \/ Prepared

Files ==
  /\ Upto
  /\ Asking \/ Prepared => Asked
  /\ Received => RestFrom(resp.body, BodyStart)
  /\ next = "copy" => file # Absent /\ RestFrom(resp.body, Len(file))
  /\ /\ next \in {"copied", "closeResponse"} \/ resp.done
     /\ resp.err = "nil" /\ origin.framesBody
     => file = Whole

GrabInv == TypeOK /\ Control /\ (KeepsRanges(origin) => Files)

-----------------------------------------------------------------------------
\* The origin's file, and what the origin sends of it from number s + 1 on.
LEMMA WholeFacts ==
  ASSUME TypeOK
  PROVE  /\ origin.size \in Nat
         /\ Whole \in Contents
         /\ Len(Whole) = origin.size
         /\ \A i \in 1..origin.size : Whole[i] = i
         /\ \A s \in 0..origin.size :
              /\ SubSeq(Whole, s + 1, origin.size) \in Contents
              /\ RestFrom(SubSeq(Whole, s + 1, origin.size), s)
<1>1. origin.size \in Nat
  BY GrabAssumption DEF TypeOK, Origin
<1>2. Whole \in Seq(Nat) /\ Len(Whole) = origin.size
  BY <1>1 DEF Whole
<1>3. \A i \in 1..origin.size : Whole[i] = i
  BY <1>1 DEF Whole
<1>4. ASSUME NEW s \in 0..origin.size
      PROVE  /\ SubSeq(Whole, s + 1, origin.size) \in Contents
             /\ RestFrom(SubSeq(Whole, s + 1, origin.size), s)
  <2>1. s + 1 \in Int /\ origin.size \in Int /\ s <= origin.size
    BY <1>1
  <2>2. \A i \in (s + 1)..origin.size : Whole[i] \in Nat
    BY <1>1, <1>3
  <2> DEFINE rest == SubSeq(Whole, s + 1, origin.size)
  <2>3. /\ rest \in Seq(Nat)
        /\ Len(rest) = IF s + 1 <= origin.size
                       THEN origin.size - (s + 1) + 1 ELSE 0
        /\ \A i \in 1..origin.size - (s + 1) + 1 :
             rest[i] = Whole[s + 1 + i - 1]
    BY <2>1, <2>2, SubSeqProperties
  <2> HIDE DEF rest
  <2>4. Len(rest) = origin.size - s
    BY <1>1, <2>3
  <2>5. \A i \in 1..Len(rest) : rest[i] = s + i
    <3>1. TAKE i \in 1..Len(rest)
    <3>2. s + 1 + i - 1 = s + i /\ s + i \in 1..origin.size
      BY <1>1, <2>4
    <3>3. i \in 1..origin.size - (s + 1) + 1
      BY <1>1, <2>4
    <3>4. rest[i] = Whole[s + 1 + i - 1]
      BY <2>3, <3>3
    <3>5. Whole[s + i] = s + i
      BY <1>3, <3>2
    <3> QED BY <3>2, <3>4, <3>5
  <2> QED BY <2>1, <2>3, <2>4, <2>5 DEF RestFrom, Contents, rest
<1> QED BY <1>1, <1>2, <1>3, <1>4 DEF Contents

\* A file of the right length that holds only bytes in place is whole.
LEMMA UptoWhole ==
  ASSUME TypeOK, Upto, file # Absent, Len(file) = origin.size
  PROVE  file = Whole
BY WholeFacts DEF TypeOK, Contents, Upto, Whole

\* What the state functions make of a response is a response.
LEMMA Updates ==
  ASSUME NEW r \in Response
  PROVE  /\ \A e \in {"failed", "noSpace"} : [r EXCEPT !.err = e] \in Response
         /\ [r EXCEPT !.fi = Nil, !.done = TRUE, !.cancelled = TRUE]
              \in Response
         /\ [r EXCEPT !.cancelled = TRUE] \in Response
         /\ \A n \in Nat : [r EXCEPT !.fi = n] \in Response
         /\ [r EXCEPT !.optionsKnown = TRUE] \in Response
         /\ [r EXCEPT !.http = "nil"] \in Response
         /\ [r EXCEPT !.http = "HEAD"] \in Response
         /\ [r EXCEPT !.http = "GET"] \in Response
         /\ [r EXCEPT !.transfer = TRUE] \in Response
<1>1. \A e \in {"failed", "noSpace"} : [r EXCEPT !.err = e] \in Response
  BY DEF Response
<1>2. [r EXCEPT !.fi = Nil, !.done = TRUE, !.cancelled = TRUE] \in Response
  BY DEF Response
<1>3. /\ [r EXCEPT !.cancelled = TRUE] \in Response
      /\ \A n \in Nat : [r EXCEPT !.fi = n] \in Response
      /\ [r EXCEPT !.optionsKnown = TRUE] \in Response
  BY DEF Response
<1>4. /\ [r EXCEPT !.http = "nil"] \in Response
      /\ [r EXCEPT !.http = "HEAD"] \in Response
      /\ [r EXCEPT !.http = "GET"] \in Response
  BY DEF Response
<1>5. [r EXCEPT !.transfer = TRUE] \in Response
  BY DEF Response
<1> QED BY <1>1, <1>2, <1>3, <1>4, <1>5

\* And what they make of it when they learn a number.
LEMMA UpdatesOfNumbers ==
  ASSUME NEW r \in Response, NEW n \in Nat \cup {Nil}
  PROVE  /\ [r EXCEPT !.http = "HEAD", !.contentLength = n] \in Response
         /\ \A b \in Contents :
              [r EXCEPT !.http = "GET", !.body = b, !.contentLength = n]
                \in Response
         /\ \A b \in BOOLEAN :
              [r EXCEPT !.size = n, !.canResume = b] \in Response
         /\ [r EXCEPT !.size = n] \in Response
<1>1. /\ [r EXCEPT !.http = "HEAD", !.contentLength = n] \in Response
      /\ [r EXCEPT !.size = n] \in Response
  BY DEF Response
<1>2. ASSUME NEW b \in Contents
      PROVE  [r EXCEPT !.http = "GET", !.body = b, !.contentLength = n]
               \in Response
  BY DEF Response
<1>3. ASSUME NEW b \in BOOLEAN
      PROVE  [r EXCEPT !.size = n, !.canResume = b] \in Response
  BY DEF Response
<1> QED BY <1>1, <1>2, <1>3

\* And when they resume the file, or have written some of it.
LEMMA UpdatesOfFile ==
  ASSUME NEW r \in Response
  PROVE  /\ r.fi \in Nat =>
              /\ [r EXCEPT !.didResume = TRUE, !.resumed = r.fi] \in Response
              /\ [r EXCEPT !.range = r.fi, !.didResume = TRUE,
                           !.resumed = r.fi] \in Response
         /\ \A b \in Contents :
              [r EXCEPT !.body = b, !.n = r.n + 1] \in Response
<1>1. ASSUME r.fi \in Nat
      PROVE  [r EXCEPT !.didResume = TRUE, !.resumed = r.fi] \in Response
  BY <1>1 DEF Response
<1>2. ASSUME r.fi \in Nat
      PROVE  [r EXCEPT !.range = r.fi, !.didResume = TRUE, !.resumed = r.fi]
               \in Response
  BY <1>2 DEF Response
<1>3. ASSUME NEW b \in Contents
      PROVE  [r EXCEPT !.body = b, !.n = r.n + 1] \in Response
  <2>1. r.n + 1 \in Nat
    BY DEF Response
  <2>2. ASSUME NEW m \in Nat
        PROVE  [r EXCEPT !.body = b, !.n = m] \in Response
    BY DEF Response
  <2> QED BY <2>1, <2>2
<1> QED BY <1>1, <1>2, <1>3

\* What the origin answers to the GET is a response.
LEMMA AnswerTyped ==
  ASSUME TypeOK,
         BodyStart > 0 => BodyStart < origin.size
  PROVE  /\ BodyStart \in 0..origin.size
         /\ Answer \in Response
         /\ Answer = [resp EXCEPT !.http = "GET", !.body = Answer.body,
                                  !.contentLength = Answer.contentLength]
         /\ RestFrom(Answer.body, BodyStart)
<1>1. origin.size \in Nat
  BY WholeFacts
<1>2. resp \in Response /\ resp.range \in Nat \cup {Nil}
  BY DEF TypeOK, Response
<1>3. BodyStart \in 0..origin.size
  BY <1>1, <1>2 DEF BodyStart
<1> DEFINE b == SubSeq(Whole, BodyStart + 1, origin.size)
           n == IF origin.sendsLength THEN origin.size - BodyStart ELSE Nil
<1>4. b \in Contents /\ RestFrom(b, BodyStart)
  BY <1>3, WholeFacts
<1>5. n \in Nat \cup {Nil}
  BY <1>1, <1>3
<1>6. Answer = [resp EXCEPT !.http = "GET", !.body = b, !.contentLength = n]
  BY DEF Answer
<1> HIDE DEF b, n
<1>7. Answer \in Response
  BY <1>2, <1>4, <1>5, <1>6, UpdatesOfNumbers
<1>8. Answer.body = b /\ Answer.contentLength = n
  BY <1>2, <1>6 DEF Response
<1> QED BY <1>3, <1>4, <1>6, <1>7, <1>8

\* Every variable keeps its type.
LEMMA TypeNext ==
  ASSUME TypeOK, Control, [Next]_vars
  PROVE  TypeOK'
<1> USE DEF TypeOK, GoOn, At, Places, StateFuncs
<1>0. /\ resp \in Response
      /\ file \in Contents /\ Len(file) \in Nat
      /\ <<>> \in Contents
  BY DEF Contents
<1>1. CASE Do
  BY <1>1, GrabAssumption DEF Do, NewResponse, Response, Contents
<1>2. CASE DoReturns \/ Cancel \/ Finished \/ UNCHANGED vars
  BY <1>0, <1>2, Updates DEF DoReturns, Cancel, Finished, vars
<1>3. CASE Interrupted \/ Close
  <2>1. [resp EXCEPT !.err = "failed"] \in Response
    BY <1>0, Updates
  <2>2. ASSUME NEW r \in Response, CloseResponse(r), UNCHANGED file
        PROVE  TypeOK'
    BY <2>2, Updates DEF CloseResponse
  <2> QED BY <1>0, <1>3, <2>1, <2>2 DEF Interrupted, Close
<1>4. CASE StatFileInfo
  BY <1>0, <1>4, Updates DEF StatFileInfo, FailWith
<1>5. CASE ValidateLocal
  <2>1. resp.fi \in Nat
    BY <1>0, <1>5 DEF ValidateLocal, Control, Response
  <2> QED BY <1>0, <1>5, <2>1, Updates, UpdatesOfFile
          DEF ValidateLocal, FailWith
<1>6. CASE HeadRequest
  <2> DEFINE known == [resp EXCEPT !.optionsKnown = TRUE]
             n == IF origin.sendsLength THEN origin.size ELSE Nil
  <2>1. known \in Response /\ n \in Nat \cup {Nil}
    BY <1>0, Updates, WholeFacts
  <2>2. [known EXCEPT !.http = "nil"] \in Response
    BY <2>1, Updates
  <2>3. /\ next' \in Places /\ UNCHANGED <<origin, attempts, routine, file>>
        /\ \/ resp' = known
           \/ resp' = [[known EXCEPT !.http = "nil"] EXCEPT !.err = "failed"]
           \/ resp' = [known EXCEPT !.http = "HEAD"]
           \/ resp' = [known EXCEPT !.http = "HEAD", !.contentLength = n]
    BY <1>6 DEF HeadRequest, FailWith
  <2> HIDE DEF known, n
  <2>4. /\ [[known EXCEPT !.http = "nil"] EXCEPT !.err = "failed"] \in Response
        /\ [known EXCEPT !.http = "HEAD"] \in Response
        /\ [known EXCEPT !.http = "HEAD", !.contentLength = n] \in Response
    BY <2>1, <2>2, Updates, UpdatesOfNumbers
  <2> QED BY <2>1, <2>3, <2>4
<1>7. CASE GetRequest
  <2>1. /\ [resp EXCEPT !.http = "nil"] \in Response
        /\ [resp EXCEPT !.http = "GET"] \in Response
    BY <1>0, Updates
  <2> QED BY <1>7, <2>1, Updates, AnswerTyped DEF GetRequest, FailWith
<1>8. CASE ReadResponse
  <2>1. SizeUnsafe \in Nat \cup {Nil}
    BY <1>0 DEF SizeUnsafe, Response
  <2>2. origin.probed \in BOOLEAN
    BY GrabAssumption DEF Origin
  <2>3. /\ next' \in Places /\ UNCHANGED <<origin, attempts, file, routine>>
        /\ \/ UNCHANGED resp
           \/ resp' = [resp EXCEPT !.size = SizeUnsafe,
                                  !.canResume = origin.probed]
           \/ resp' = [resp EXCEPT !.size = SizeUnsafe]
    BY <1>8 DEF ReadResponse
  <2> HIDE DEF SizeUnsafe
  <2>4. resp' \in Response
    <3>1. [resp EXCEPT !.size = SizeUnsafe, !.canResume = origin.probed]
            \in Response
      BY <1>0, <2>1, <2>2, UpdatesOfNumbers
    <3>2. [resp EXCEPT !.size = SizeUnsafe] \in Response
      BY <1>0, <2>1, UpdatesOfNumbers
    <3> QED BY <1>0, <2>3, <3>1, <3>2
  <2> QED BY <2>3, <2>4
<1>9. CASE OpenWriter
  BY <1>0, <1>9, Updates DEF OpenWriter, FailWith
<1>10. CASE CopyFile
  BY <1>0, <1>10 DEF CopyFile
<1>11. CASE CopyBytes
  <2>1. resp.body \in Seq(Nat)
    BY <1>0 DEF Response, Contents
  <2>2. resp.body # <<>>
    BY <1>11 DEF CopyBytes
  <2>3. Head(resp.body) \in Nat /\ Tail(resp.body) \in Contents
    BY <2>1, <2>2, HeadTailProperties DEF Contents
  <2>4. Append(file, Head(resp.body)) \in Contents
    BY <1>0, <2>3, AppendProperties DEF Contents
  <2>5. /\ next' \in Places /\ UNCHANGED <<origin, attempts, routine>>
        /\ file' \in Contents /\ resp' \in Response
    BY <1>0, <1>11, <2>3, <2>4, Updates, UpdatesOfFile
       DEF CopyBytes, FailWith
  <2> QED BY <2>5
<1>12. CASE CopyBreaks \/ CopyEnds \/ AfterCopy
  <2> DEFINE n == IF resp.size = Nil THEN BytesComplete ELSE resp.size
  <2>1. n \in Nat \cup {Nil}
    BY <1>0 DEF BytesComplete, Response
  <2>2. \/ UNCHANGED resp
        \/ resp' = [resp EXCEPT !.err = "failed"]
        \/ resp' = [resp EXCEPT !.size = n]
    BY <1>12 DEF CopyBreaks, CopyEnds, AfterCopy, FailWith
  <2> HIDE DEF n
  <2>3. resp' \in Response
    BY <1>0, <2>1, <2>2, Updates, UpdatesOfNumbers
  <2> QED BY <1>0, <1>12, <2>3 DEF CopyBreaks, CopyEnds, AfterCopy, FailWith
<1> QED BY <1>1, <1>2, <1>3, <1>4, <1>5, <1>6, <1>7, <1>8, <1>9, <1>10, <1>11,
           <1>12 DEF Next, Step

\* No step leads to a panic, or away from what Control says.
LEMMA ControlNext ==
  ASSUME TypeOK, Control, [Next]_vars
  PROVE  Control'
<1> USE DEF TypeOK, Control, Asking, Prepared, Response
<1>1. CASE Do
  BY <1>1 DEF Do, NewResponse
<1>2. CASE DoReturns \/ Cancel \/ Finished \/ UNCHANGED vars
  BY <1>2 DEF DoReturns, Cancel, Finished, vars
<1>3. CASE Interrupted \/ Close
  BY <1>3 DEF Interrupted, Close, CloseResponse, GoOn, At
<1>4. CASE StatFileInfo
  BY <1>4 DEF StatFileInfo, FailWith, GoOn, At
<1>5. CASE ValidateLocal
  BY <1>5 DEF ValidateLocal, FailWith, GoOn, At
<1>6. CASE HeadRequest
  BY <1>6 DEF HeadRequest, FailWith, GoOn, At
<1>7. CASE GetRequest
  BY <1>7 DEF GetRequest, Answer, FailWith, GoOn, At
<1>8. CASE ReadResponse
  BY <1>8 DEF ReadResponse, GoOn, At
<1>9. CASE OpenWriter
  BY <1>9 DEF OpenWriter, FailWith, GoOn, At
<1>10. CASE CopyFile
  BY <1>10 DEF CopyFile, GoOn, At
<1>11. CASE CopyBytes
  BY <1>11 DEF CopyBytes, FailWith, GoOn, At
<1>12. CASE CopyBreaks \/ CopyEnds \/ AfterCopy
  BY <1>12 DEF CopyBreaks, CopyEnds, AfterCopy, FailWith, GoOn, At
<1> QED BY <1>1, <1>2, <1>3, <1>4, <1>5, <1>6, <1>7, <1>8, <1>9, <1>10, <1>11,
           <1>12 DEF Next, Step

-----------------------------------------------------------------------------
\* Where the body starts that is about to be copied: where the file ends that is
\* resumed, at the start for any other.
LEMMA PreparedStart ==
  ASSUME TypeOK, Control, KeepsRanges(origin), Files, Prepared
  PROVE  /\ file # Absent
         /\ IF resp.fi # Nil /\ ~resp.didResume THEN BodyStart = 0
            ELSE BodyStart = Len(file)
<1>1. Asked /\ resp.transfer
  BY DEF Files, Control
<1>2. Absent # <<>>
  BY DEF Absent
<1>3. resp.fi # Nil => file # Absent /\ resp.fi = Len(file)
  BY <1>1 DEF Asked
<1>4. resp.fi = Nil => file = <<>> /\ resp.range = Nil
  BY <1>1 DEF Asked, Prepared
<1>5. resp.didResume => BodyStart = resp.fi /\ resp.fi # Nil
  BY <1>1 DEF Asked, BodyStart
<1>6. ~resp.didResume => BodyStart = 0
  BY <1>1 DEF Asked, BodyStart
<1>7. resp.fi = Nil => BodyStart = 0 /\ Len(file) = 0
  BY <1>4 DEF BodyStart
<1> QED BY <1>2, <1>3, <1>4, <1>5, <1>6, <1>7

\* No step makes the file, or the attempt's view of it, wrong.
LEMMA FilesNext ==
  ASSUME TypeOK, TypeOK', Control, Control', KeepsRanges(origin), Files,
         [Next]_vars
  PROVE  Files'
<1> USE DEF GoOn, At
<1>0. /\ resp \in Response /\ file \in Contents
      /\ <<>> \in Contents /\ Absent # <<>>
      /\ origin.size \in Nat
  BY WholeFacts DEF TypeOK, Contents, Absent
<1>f. /\ DOMAIN resp =
           {"http", "contentLength", "body", "fi", "range", "optionsKnown",
            "canResume", "didResume", "transfer", "n", "size", "resumed",
            "err", "done", "cancelled"}
      /\ Len(file) \in Nat
      /\ {resp.fi, resp.range, resp.contentLength} \subseteq Nat \cup {Nil}
      /\ resp.body \in Contents
      /\ resp.didResume \in BOOLEAN
  BY <1>0 DEF Response, Contents
<1>1. CASE Do
  BY <1>1, <1>0 DEF Do, NewResponse, Files, Upto, Asked, Asking, Prepared,
     Received
<1>2. CASE DoReturns \/ Cancel \/ Finished \/ UNCHANGED vars
  <2>1. /\ UNCHANGED <<origin, file>> /\ Whole' = Whole
        /\ \/ UNCHANGED resp
           \/ resp' = [resp EXCEPT !.cancelled = TRUE]
    BY <1>2 DEF DoReturns, Cancel, Finished, vars, Whole
  <2>2. \/ UNCHANGED <<next, routine>>
        \/ next = "returned" /\ routine = "caller" /\ next' = "copyFile"
    BY <1>2 DEF DoReturns, Cancel, Finished, vars
  <2>3. /\ resp'.fi = resp.fi /\ resp'.transfer = resp.transfer
        /\ resp'.range = resp.range /\ resp'.didResume = resp.didResume
        /\ resp'.canResume = resp.canResume /\ resp'.http = resp.http
        /\ resp'.contentLength = resp.contentLength
        /\ resp'.body = resp.body /\ resp'.err = resp.err
        /\ resp'.done = resp.done
    BY <2>1, <1>f
  <2>4. Upto' /\ BodyStart' = BodyStart
    BY <2>1, <2>3 DEF Files, Upto, BodyStart
  <2>5. /\ Asking' => Asking
        /\ Prepared' => Prepared
        /\ Received' => Received
    BY <2>2, <2>3 DEF Asking, Prepared, Received
  <2>6. (Asking \/ Prepared) /\ Asked => Asked'
    BY <2>1, <2>2, <2>3 DEF Asked, Asking, Prepared
  <2>7. Files' <=>
          /\ Upto
          /\ Asking' \/ Prepared' => Asked'
          /\ Received' => RestFrom(resp.body, BodyStart)
          /\ next' = "copy" =>
               file # Absent /\ RestFrom(resp.body, Len(file))
          /\ /\ next' \in {"copied", "closeResponse"} \/ resp.done
             /\ resp.err = "nil" /\ origin.framesBody
             => file = Whole
    BY <2>1, <2>3, <2>4 DEF Files, RestFrom
  <2> QED BY <2>2, <2>5, <2>6, <2>7 DEF Files
<1>3. CASE Interrupted \/ Close
  BY <1>3, <1>0 DEF Interrupted, Close, CloseResponse, Files, Upto, Asking,
     Prepared, Received, Whole, Response, Control
<1>4. CASE StatFileInfo
  BY <1>4, <1>0 DEF StatFileInfo, FailWith, Files, Upto, Asked, Asking,
     Prepared, Received, Whole, Response, Control
<1>5. CASE ValidateLocal
  <2>1. /\ resp.fi # Nil /\ file # Absent /\ resp.fi = Len(file) /\ Asked
        /\ resp.http # "GET" /\ ~resp.transfer /\ ~resp.done
        /\ resp.err = "nil"
    BY <1>5 DEF ValidateLocal, Files, Asked, Asking, Control
  <2>2. UNCHANGED <<origin, file, routine>> /\ (Upto => Upto') /\ Whole' = Whole
    BY <1>5 DEF ValidateLocal, FailWith, Upto, Whole
  <2>3. CASE next' = "headRequest" /\ UNCHANGED resp
    BY <2>1, <2>2, <2>3 DEF Files, Asked, Asking, Prepared, Received
  <2>4. CASE /\ ExpectedSize = resp.fi /\ ExpectedSize # 0
             /\ next' = "closeResponse"
    <3>1. Len(file) = origin.size
      BY <2>1, <2>4 DEF ExpectedSize, Asked
    <3>2. file = Whole
      BY <2>1, <3>1, UptoWhole DEF Files
    <3> QED BY <2>2, <2>4, <3>2
            DEF Files, Asking, Prepared, Received
  <2>5. CASE FailWith(resp, "failed")
    BY <1>0, <2>1, <2>2, <2>5
       DEF FailWith, Files, Asking, Prepared, Received, Response
  <2>6. CASE /\ resp' = [resp EXCEPT !.range = resp.fi, !.didResume = TRUE,
                                     !.resumed = resp.fi]
             /\ resp.canResume
             /\ next' = "getRequest"
    <3>1. Asked'
      BY <1>0, <2>1, <2>2, <2>6 DEF Asked, Asking, Response
    <3> QED BY <1>0, <2>1, <2>2, <2>6, <3>1
            DEF Files, Asking, Prepared, Received, Response
  <2> QED BY <1>5, <2>3, <2>4, <2>5, <2>6 DEF ValidateLocal
<1>6. CASE HeadRequest
  <2>1. /\ Asked /\ ~resp.transfer /\ ~resp.done /\ resp.err = "nil"
        /\ next = "headRequest" /\ resp.http # "GET"
    BY <1>6 DEF HeadRequest, Files, Asked, Asking, Control
  <2>2. UNCHANGED <<origin, file, routine>> /\ Upto' /\ Whole' = Whole
    BY <1>6 DEF HeadRequest, FailWith, Files, Upto, Whole
  <2>3. /\ resp'.fi = resp.fi /\ resp'.transfer = resp.transfer
        /\ resp'.range = resp.range /\ resp'.didResume = resp.didResume
        /\ resp'.canResume = resp.canResume /\ resp'.done = resp.done
        /\ resp'.http \in {"nil", "HEAD", resp.http}
        /\ \/ resp'.contentLength = resp.contentLength
           \/ resp'.contentLength \in {origin.size, Nil}
    BY <1>6, <1>f DEF HeadRequest, FailWith
  <2>4. CASE next' = "closeResponse" /\ resp'.err = "failed"
    BY <2>1, <2>2, <2>3, <2>4 DEF Files, Asking, Prepared, Received
  <2>5. CASE /\ next' = "getRequest" \/ next' = "readResponse"
             /\ next' = "readResponse" => resp'.http = "HEAD"
    <3>1. Asked'
      BY <2>1, <2>2, <2>3, <2>5 DEF Asked, Asking
    <3> QED BY <2>1, <2>2, <2>3, <2>5, <3>1
            DEF Files, Asking, Prepared, Received
  <2> QED BY <1>6, <1>f, <2>4, <2>5 DEF HeadRequest, FailWith
<1>7. CASE GetRequest
  <2>1. Asked /\ ~resp.transfer /\ ~resp.done /\ resp.err = "nil"
    BY <1>7 DEF GetRequest, Files, Asking, Control
  <2>2. UNCHANGED <<origin, file, routine>> /\ (Upto => Upto') /\ Whole' = Whole
    BY <1>7 DEF GetRequest, FailWith, Upto, Whole
  <2>3. ASSUME NEW r \in Response, FailWith(r, "failed")
        PROVE  Files'
    BY <2>2, <2>3 DEF FailWith, Files, Asking, Prepared, Received, Response
  <2>4. CASE /\ BodyStart > 0 => BodyStart < origin.size
             /\ resp' = Answer
             /\ next' = "readResponse"
    <3>1. /\ RestFrom(Answer.body, BodyStart)
          /\ Answer = [resp EXCEPT !.http = "GET", !.body = Answer.body,
                                   !.contentLength = Answer.contentLength]
      BY <2>4, AnswerTyped
    <3>2. /\ resp'.fi = resp.fi /\ resp'.range = resp.range
          /\ resp'.didResume = resp.didResume
          /\ resp'.canResume = resp.canResume
          /\ resp'.transfer = resp.transfer /\ resp'.done = resp.done
          /\ resp'.err = resp.err /\ resp'.http = "GET"
          /\ resp'.body = Answer.body
      BY <1>0, <2>4, <3>1 DEF Response
    <3>3. BodyStart' = BodyStart
      BY <2>2, <3>2 DEF BodyStart
    <3>4. RestFrom(resp.body, BodyStart)'
      BY <2>2, <3>1, <3>2, <3>3 DEF RestFrom
    <3>5. next = "getRequest"
      BY <1>7 DEF GetRequest
    <3>6. Asked'
      BY <2>1, <2>2, <2>4, <3>2, <3>5 DEF Asked, Asking
    <3> QED BY <2>1, <2>2, <2>4, <3>2, <3>4, <3>6
            DEF Files, Asking, Prepared, Received
  <2>5. /\ [resp EXCEPT !.http = "nil"] \in Response
        /\ [resp EXCEPT !.http = "GET"] \in Response
    BY <1>0, Updates
  <2> QED BY <1>7, <2>3, <2>4, <2>5 DEF GetRequest
<1>8. CASE ReadResponse
  <2>1. /\ Asked /\ ~resp.transfer /\ ~resp.done /\ resp.err = "nil"
        /\ next = "readResponse" /\ resp.http # "nil"
    BY <1>8 DEF ReadResponse, Files, Asking, Control
  <2>2. UNCHANGED <<origin, file, routine>> /\ Upto' /\ Whole' = Whole
    BY <1>8 DEF ReadResponse, Files, Upto, Whole
  <2>3. /\ resp'.fi = resp.fi /\ resp'.transfer = resp.transfer
        /\ resp'.range = resp.range /\ resp'.didResume = resp.didResume
        /\ resp'.http = resp.http
        /\ resp'.contentLength = resp.contentLength
        /\ resp'.body = resp.body /\ resp'.err = resp.err
        /\ resp'.done = resp.done
    BY <1>8, <1>f DEF ReadResponse
  <2>4. CASE next' = "statFileInfo" /\ resp.http = "HEAD"
    <3>1. resp'.canResume => origin.servesRanges
      BY <1>8, <1>f, <2>4 DEF ReadResponse, KeepsRanges
    <3>2. Asked'
      BY <2>1, <2>2, <2>3, <2>4, <3>1 DEF Asked, Asking
    <3> QED BY <2>1, <2>2, <2>3, <2>4, <3>2
            DEF Files, Asking, Prepared, Received
  <2>5. CASE next' = "openWriter" /\ resp.http = "GET"
    <3>1. resp'.canResume = resp.canResume
      BY <1>8, <1>f, <2>5 DEF ReadResponse
    <3>2. Asked'
      BY <2>1, <2>2, <2>3, <2>5, <3>1 DEF Asked, Asking
    <3>3. RestFrom(resp.body, BodyStart)'
      BY <2>1, <2>2, <2>3, <2>5 DEF Files, Received, RestFrom, BodyStart
    <3> QED BY <2>1, <2>2, <2>3, <2>5, <3>2, <3>3
            DEF Files, Asking, Prepared, Received
  <2>6. resp.http \in {"HEAD", "GET"}
    BY <1>0, <2>1 DEF Response
  <2> QED BY <1>8, <2>1, <2>4, <2>5, <2>6 DEF ReadResponse
<1>9. CASE OpenWriter
  BY <1>9, <1>0, <1>f DEF OpenWriter, FailWith, Files, Upto, Asked, Asking,
     Prepared, Received, Whole, Control, BodyStart, RestFrom
<1>10. CASE CopyFile
  <2>1. UNCHANGED <<origin, resp, routine>> /\ Whole' = Whole
    BY <1>10 DEF CopyFile, Whole
  <2>2. CASE resp.done
    BY <1>10, <2>1, <2>2 DEF CopyFile, Files, Upto, Asking, Prepared, Received
  <2>3. CASE ~resp.done
    <3>1. Prepared /\ resp.transfer /\ next' = "copy" /\ resp.err = "nil"
      BY <1>10, <2>3 DEF CopyFile, Prepared, Control
    <3>2. RestFrom(resp.body, BodyStart)
      BY <3>1 DEF Files, Received
    <3>3. file' = IF resp.fi # Nil /\ ~resp.didResume THEN <<>> ELSE file
      BY <1>10, <2>3, <3>1 DEF CopyFile
    <3>4. file' # Absent /\ Len(file') = BodyStart
      BY <1>0, <3>1, <3>3, PreparedStart
    <3>5. Upto'
      BY <1>0, <2>1, <3>3 DEF Upto, Files
    <3>6. RestFrom(resp.body, Len(file))'
      BY <2>1, <3>2, <3>4 DEF RestFrom
    <3> QED BY <2>1, <2>3, <3>1, <3>4, <3>5, <3>6
            DEF Files, Asking, Prepared, Received
  <2> QED BY <2>2, <2>3
<1>11. CASE CopyBytes
  <2>1. /\ next = "copy" /\ resp.body # <<>> /\ ~resp.done
        /\ UNCHANGED <<origin, routine>> /\ Whole' = Whole
    BY <1>11 DEF CopyBytes, FailWith, Control, Whole
  <2>2. Upto /\ file # Absent /\ RestFrom(resp.body, Len(file))
    BY <2>1 DEF Files
  <2>3. ASSUME NEW e \in {"failed", "noSpace"},
               FailWith(resp, e), UNCHANGED file
        PROVE  Files'
    BY <1>0, <2>1, <2>2, <2>3
       DEF FailWith, Files, Upto, Asking, Prepared, Received, Response
  <2>4. CASE /\ file' = Append(file, Head(resp.body))
             /\ resp' = [resp EXCEPT !.body = Tail(@), !.n = @ + 1]
             /\ next' = "copy"
    <3>1. resp.body \in Seq(Nat) /\ file \in Seq(Nat)
      BY <1>0 DEF Response, Contents
    <3>2. /\ Head(resp.body) = resp.body[1]
          /\ Len(resp.body) \in Nat \ {0}
          /\ Len(Tail(resp.body)) = Len(resp.body) - 1
          /\ \A i \in 1..Len(Tail(resp.body)) :
               Tail(resp.body)[i] = resp.body[i + 1]
      BY <2>1, <3>1, HeadTailProperties
    <3>3. Head(resp.body) = Len(file) + 1 /\ Len(file) + 1 <= origin.size
      BY <1>0, <2>2, <3>1, <3>2 DEF RestFrom
    <3>4. /\ Len(file') = Len(file) + 1
          /\ \A i \in 1..Len(file') : file'[i] = i
      BY <2>2, <2>4, <3>1, <3>3, AppendProperties DEF Upto
    <3>5. file' # Absent
      BY <3>1, <3>4 DEF Absent
    <3>6. resp'.body = Tail(resp.body) /\ resp'.done = resp.done
      BY <1>0, <2>4 DEF Response
    <3>7. RestFrom(resp.body, Len(file))'
      BY <1>0, <2>1, <2>2, <3>1, <3>2, <3>3, <3>4, <3>6 DEF RestFrom
    <3>8. Upto'
      BY <2>1, <3>3, <3>4 DEF Upto
    <3> QED BY <2>1, <2>4, <3>5, <3>6, <3>7, <3>8
            DEF Files, Asking, Prepared, Received
  <2> QED BY <1>11, <2>3, <2>4 DEF CopyBytes
<1>12. CASE CopyBreaks \/ CopyEnds \/ AfterCopy
  BY <1>12, <1>0, UptoWhole DEF CopyBreaks, CopyEnds, AfterCopy, FailWith,
     Files, Upto, Asking, Prepared, Received, Whole, Response, Control,
     RestFrom
<1> QED BY <1>1, <1>2, <1>3, <1>4, <1>5, <1>6, <1>7, <1>8, <1>9, <1>10, <1>11,
           <1>12 DEF Next, Step

-----------------------------------------------------------------------------
\* All attempts go to one origin.
LEMMA OriginStays ==
  ASSUME [Next]_vars
  PROVE  UNCHANGED origin
BY DEF Next, Step, vars, Do, DoReturns, Cancel, Interrupted, Close,
   CloseResponse, StatFileInfo, ValidateLocal, HeadRequest, GetRequest,
   ReadResponse, OpenWriter, CopyFile, CopyBytes, CopyBreaks, CopyEnds,
   AfterCopy, Finished, FailWith, GoOn

\* The strengthening of the properties is an inductive invariant.
THEOREM GrabInvariant == Spec => []GrabInv
<1>1. ASSUME Init PROVE GrabInv
  <2>1. TypeOK
    BY <1>1, GrabAssumption
       DEF Init, TypeOK, NewResponse, Response, Contents, Absent, Places
  <2>2. Control
    BY <1>1 DEF Init, Control, Prepared, Asking, NewResponse
  <2>3. Files
    BY <1>1 DEF Init, Files, Upto, Prepared, Asking, Received, NewResponse
  <2> QED BY <2>1, <2>2, <2>3 DEF GrabInv
<1>2. ASSUME GrabInv, [Next]_vars PROVE GrabInv'
  <2>1. TypeOK' /\ Control'
    BY <1>2, TypeNext, ControlNext DEF GrabInv
  <2>2. KeepsRanges(origin)' => KeepsRanges(origin)
    BY <1>2, OriginStays
  <2>3. KeepsRanges(origin)' => Files'
    BY <1>2, <2>1, <2>2, FilesNext DEF GrabInv
  <2> QED BY <2>1, <2>3 DEF GrabInv
<1> QED BY <1>1, <1>2, PTL DEF Spec

\* Every variable has its type.
THEOREM GrabTyped == Spec => []TypeOK
<1>1. GrabInv => TypeOK
  BY DEF GrabInv
<1> QED BY <1>1, GrabInvariant, PTL

\* None of the package's "developer error" panics happens: closeResponse closes
\* Done once, and no state function is called before what it needs was received.
THEOREM NoPanic == Spec => []NoDeveloperError
<1>1. GrabInv => NoDeveloperError
  BY DEF GrabInv, Control, NoDeveloperError
<1> QED BY <1>1, GrabInvariant, PTL

\* However often the file is resumed, restarted and given up, it holds the first
\* blocks of the origin's file, if the origin serves the ranges the probe found.
THEOREM FilesArePrefixes == Spec => []OnlyPrefixes
<1>1. ASSUME GrabInv, KeepsRanges(origin), file # Absent
      PROVE  IsPrefix(file, Whole)
  <2>1. /\ TypeOK /\ Upto
        /\ file \in Seq(Nat) /\ Len(file) \in Nat
    BY <1>1 DEF GrabInv, Files, TypeOK, Contents
  <2>2. /\ origin.size \in Nat
        /\ Whole \in Seq(Nat) /\ Len(Whole) = origin.size
        /\ \A i \in 1..origin.size : Whole[i] = i
    BY <2>1, WholeFacts DEF Contents
  <2>3. /\ Len(file) <= origin.size
        /\ \A i \in 1..Len(file) : file[i] = i /\ Whole[i] = i
    BY <1>1, <2>1, <2>2 DEF Upto
  <2> DEFINE a == SubSeq(file, 1, Len(file))
             b == SubSeq(Whole, 1, Len(file))
  <2>4. /\ a \in Seq(Nat) /\ Len(a) = Len(file)
        /\ \A i \in 1..Len(file) : a[i] = file[i]
    BY <2>1, <2>3, SubSeqProperties, Z3
  <2>5. /\ b \in Seq(Nat) /\ Len(b) = Len(file)
        /\ \A i \in 1..Len(file) : b[i] = Whole[i]
    BY <2>1, <2>2, <2>3, SubSeqProperties, Z3
  <2> HIDE DEF a, b
  <2>6. a = b
    BY <2>1, <2>3, <2>4, <2>5, SeqEqual
  <2> QED BY <2>2, <2>3, <2>6 DEF IsPrefix, a, b
<1>2. GrabInv => OnlyPrefixes
  BY <1>1 DEF OnlyPrefixes
<1> QED BY <1>2, GrabInvariant, PTL

\* An attempt that ends without an error leaves the whole file, whatever was
\* left by the attempts before it, if the origin is honest.
THEOREM SuccessDeliversWhole == Spec => []SuccessIsWhole
<1>1. GrabInv => SuccessIsWhole
  BY DEF GrabInv, Files, SuccessIsWhole, Honest
<1> QED BY <1>1, GrabInvariant, PTL

-----------------------------------------------------------------------------
\* What the attempt says of its size and progress, by each place of the chain.
Counted ==
  /\ Asking \/ Prepared =>
       /\ resp.n = 0
       /\ resp.resumed = IF resp.range = Nil THEN 0 ELSE resp.range
  /\ Asking /\ resp.http = "HEAD" /\ next = "readResponse" => resp.range = Nil
  /\ next \in {"statFileInfo", "validateLocal"} =>
       resp.range = Nil /\ (resp.http # "nil" => resp.size = resp.contentLength)
  /\ next = "headRequest" => resp.range = Nil
  /\ next = "readResponse" /\ resp.http = "GET" /\ resp.contentLength # Nil =>
       resp.contentLength = origin.size - BodyStart /\ origin.sendsLength
  /\ /\ next \in {"openWriter", "copy", "copied"} \/ Prepared
     /\ resp.size # Nil
     => resp.size = origin.size /\ origin.sendsLength
  /\ next \in {"copy", "copied"} => BytesComplete = Len(file)
  /\ (next = "closeResponse" \/ resp.done) /\ resp.err = "nil" =>
       resp.size = Len(file) /\ BytesComplete = Len(file)

\* Every step keeps it.
LEMMA CountedNext ==
  ASSUME TypeOK, TypeOK', Control, Control', KeepsRanges(origin), Files, Files',
         Counted, [Next]_vars
  PROVE  Counted'
<1> USE DEF GoOn, At
<1>0. /\ resp \in Response /\ file \in Contents
      /\ origin.size \in Nat
      /\ UNCHANGED origin
  BY WholeFacts, OriginStays DEF TypeOK, Contents
<1>f. /\ DOMAIN resp =
           {"http", "contentLength", "body", "fi", "range", "optionsKnown",
            "canResume", "didResume", "transfer", "n", "size", "resumed",
            "err", "done", "cancelled"}
      /\ Len(file) \in Nat
      /\ {resp.fi, resp.range, resp.contentLength, resp.size}
           \subseteq Nat \cup {Nil}
      /\ resp.n \in Nat /\ resp.resumed \in Nat
      /\ resp.http \in {"nil", "HEAD", "GET"}
  BY <1>0 DEF Response, Contents
<1>1. CASE Do
  BY <1>1 DEF Do, NewResponse, Counted, Asking, Prepared
<1>2. CASE DoReturns \/ Cancel \/ Finished \/ UNCHANGED vars
  BY <1>2, <1>f DEF DoReturns, Cancel, Finished, vars, Counted, Asking,
     Prepared, BodyStart, BytesComplete
<1>3. CASE Interrupted \/ Close
  BY <1>3, <1>f DEF Interrupted, Close, CloseResponse, Counted, Asking,
     Prepared, BytesComplete, Control
<1>4. CASE StatFileInfo
  BY <1>4, <1>f DEF StatFileInfo, FailWith, Counted, Asking, Prepared,
     Control
<1>5. CASE ValidateLocal
  <2>1. /\ resp.fi # Nil /\ resp.fi = Len(file) /\ ~resp.done
        /\ resp.range = Nil /\ resp.n = 0 /\ resp.resumed = 0
        /\ resp.http # "nil" => resp.size = resp.contentLength
        /\ resp.err = "nil" /\ UNCHANGED <<file, routine>>
    BY <1>5, <1>f DEF ValidateLocal, FailWith, Counted, Asking, Prepared,
       Control, Files, Asked
  <2>2. CASE next' = "headRequest" /\ UNCHANGED resp
    BY <2>1, <2>2 DEF Counted, Asking, Prepared
  <2>3. CASE /\ ExpectedSize = resp.fi /\ ExpectedSize # 0
             /\ resp' = [resp EXCEPT !.didResume = TRUE, !.resumed = resp.fi]
             /\ next' = "closeResponse"
    <3>1. resp.size = Len(file)
      BY <2>1, <2>3 DEF ExpectedSize
    <3>2. /\ resp'.n = 0 /\ resp'.resumed = Len(file)
          /\ resp'.size = Len(file) /\ ~resp'.done
      BY <1>f, <2>1, <2>3, <3>1
    <3>3. BytesComplete' = Len(file)
      BY <1>f, <3>2 DEF BytesComplete
    <3> QED BY <2>1, <2>3, <3>2, <3>3 DEF Counted, Asking, Prepared
  <2>4. CASE FailWith(resp, "failed")
    <3>1. resp'.err = "failed" /\ ~resp'.done
      BY <1>f, <2>1, <2>4 DEF FailWith
    <3> QED BY <2>4, <3>1 DEF FailWith, Counted, Asking, Prepared
  <2>5. CASE /\ resp' = [resp EXCEPT !.range = resp.fi, !.didResume = TRUE,
                                     !.resumed = resp.fi]
             /\ next' = "getRequest"
    <3>1. /\ resp'.n = 0 /\ resp'.resumed = resp.fi /\ resp'.range = resp.fi
          /\ ~resp'.done
      BY <1>f, <2>1, <2>5
    <3> QED BY <2>1, <2>5, <3>1 DEF Counted, Asking, Prepared
  <2> QED BY <1>5, <2>2, <2>3, <2>4, <2>5 DEF ValidateLocal
<1>6. CASE HeadRequest
  BY <1>6, <1>f DEF HeadRequest, FailWith, Counted, Asking, Prepared, Control
<1>7. CASE GetRequest
  <2>1. /\ resp.n = 0 /\ ~resp.done
        /\ resp.resumed = IF resp.range = Nil THEN 0 ELSE resp.range
    BY <1>7 DEF GetRequest, Counted, Asking, Control
  <2>2. ASSUME NEW r \in Response, r.done = resp.done, FailWith(r, "failed")
        PROVE  Counted'
    <3>1. resp'.err = "failed" /\ ~resp'.done
      BY <2>1, <2>2 DEF FailWith, Response
    <3> QED BY <2>2, <3>1 DEF FailWith, Counted, Asking, Prepared
  <2>3. CASE resp' = Answer /\ next' = "readResponse"
    <3>1. /\ resp'.n = resp.n /\ resp'.resumed = resp.resumed
          /\ resp'.range = resp.range /\ resp'.done = resp.done
          /\ resp'.http = "GET"
          /\ resp'.contentLength =
               IF origin.sendsLength THEN origin.size - BodyStart ELSE Nil
      BY <1>f, <2>3 DEF Answer
    <3>2. BodyStart' = BodyStart
      BY <1>0, <3>1 DEF BodyStart
    <3> QED BY <1>0, <2>1, <2>3, <3>1, <3>2 DEF Counted, Asking, Prepared
  <2>4. /\ [resp EXCEPT !.http = "nil"] \in Response
        /\ [resp EXCEPT !.http = "GET"] \in Response
        /\ [resp EXCEPT !.http = "nil"].done = resp.done
        /\ [resp EXCEPT !.http = "GET"].done = resp.done
    BY <1>0, <1>f, Updates
  <2> QED BY <1>7, <2>2, <2>3, <2>4 DEF GetRequest
<1>8. CASE ReadResponse
  <2>1. /\ next = "readResponse" /\ ~resp.done /\ resp.http # "nil"
        /\ resp.n = 0 /\ Asked
        /\ resp.resumed = IF resp.range = Nil THEN 0 ELSE resp.range
        /\ resp.http = "HEAD" => resp.range = Nil
        /\ resp.http = "GET" /\ resp.contentLength # Nil =>
             /\ resp.contentLength = origin.size - BodyStart
             /\ origin.sendsLength
    BY <1>8 DEF ReadResponse, Counted, Asking, Control, Files
  <2>2. /\ resp'.n = resp.n /\ resp'.resumed = resp.resumed
        /\ resp'.range = resp.range /\ resp'.done = resp.done
        /\ resp'.http = resp.http /\ resp'.contentLength = resp.contentLength
        /\ resp'.size = SizeUnsafe
    BY <1>8, <1>f, <2>1 DEF ReadResponse
  <2>3. CASE next' = "statFileInfo" /\ resp.http = "HEAD"
    <3>1. SizeUnsafe = resp.contentLength
      BY <1>f, <2>1, <2>3 DEF SizeUnsafe
    <3> QED BY <2>1, <2>2, <2>3, <3>1 DEF Counted, Asking, Prepared
  <2>4. CASE next' = "openWriter" /\ resp.http = "GET"
    <3>1. BodyStart = resp.resumed
      BY <2>1 DEF Asked, BodyStart
    <3>2. SizeUnsafe # Nil => SizeUnsafe = origin.size /\ origin.sendsLength
      BY <1>0, <1>f, <2>1, <2>4, <3>1 DEF SizeUnsafe
    <3> QED BY <1>0, <2>1, <2>2, <2>4, <3>2 DEF Counted, Asking, Prepared
  <2> QED BY <1>8, <1>f, <2>1, <2>3, <2>4 DEF ReadResponse
<1>9. CASE OpenWriter
  BY <1>9, <1>f DEF OpenWriter, FailWith, Counted, Asking, Prepared, Control
<1>10. CASE CopyFile
  BY <1>10, <1>f, PreparedStart DEF CopyFile, Counted, Asking, Prepared,
     BytesComplete, BodyStart, Control, Files, Asked
<1>11. CASE CopyBytes
  <2>1. /\ next = "copy" /\ ~resp.done /\ BytesComplete = Len(file)
        /\ resp.size # Nil => resp.size = origin.size /\ origin.sendsLength
    BY <1>11 DEF CopyBytes, Counted, Control
  <2>2. ASSUME NEW e \in {"failed", "noSpace"}, FailWith(resp, e)
        PROVE  Counted'
    <3>1. resp'.err # "nil" /\ ~resp'.done
      BY <1>f, <2>1, <2>2 DEF FailWith
    <3> QED BY <2>2, <3>1 DEF FailWith, Counted, Asking, Prepared
  <2>3. CASE /\ file' = Append(file, Head(resp.body))
             /\ resp' = [resp EXCEPT !.body = Tail(@), !.n = @ + 1]
             /\ next' = "copy"
    <3>1. Len(file') = Len(file) + 1
      BY <1>0, <2>3 DEF TypeOK, Contents
    <3>2. /\ resp'.n = resp.n + 1 /\ resp'.resumed = resp.resumed
          /\ resp'.size = resp.size /\ ~resp'.done
      BY <1>f, <2>1, <2>3
    <3>3. BytesComplete' = Len(file')
      BY <1>f, <2>1, <3>1, <3>2 DEF BytesComplete
    <3> QED BY <1>0, <2>1, <2>3, <3>2, <3>3 DEF Counted, Asking, Prepared
  <2> QED BY <1>11, <2>2, <2>3 DEF CopyBytes
<1>12. CASE CopyBreaks \/ CopyEnds
  BY <1>12, <1>f DEF CopyBreaks, CopyEnds, FailWith, Counted, Asking, Prepared,
     BytesComplete, Control
<1>13. CASE AfterCopy
  <2>1. origin.sendsLength => origin.framesBody
    BY GrabAssumption DEF TypeOK
  <2>2. next = "copied" /\ origin.framesBody => Len(file) = origin.size
    BY <1>13, WholeFacts DEF AfterCopy, Files, Control
  <2> QED BY <1>13, <1>f, <2>1, <2>2 DEF AfterCopy, FailWith, Counted, Asking,
          Prepared, BytesComplete, Control
<1> QED BY <1>1, <1>2, <1>3, <1>4, <1>5, <1>6, <1>7, <1>8, <1>9, <1>10, <1>11,
           <1>12, <1>13 DEF Next, Step

\* The Size and BytesComplete of a response are true of the file, at each turn
\* of the copy and after every success, if the origin serves the ranges found.
THEOREM ProgressIsTrue == Spec => []ProgressIsReal
<1> DEFINE Inv == KeepsRanges(origin) => Counted
<1>1. ASSUME Init PROVE Inv
  BY <1>1 DEF Init, NewResponse, Counted, Asking, Prepared
<1>2. ASSUME GrabInv, GrabInv', Inv, [Next]_vars PROVE Inv'
  BY <1>2, OriginStays, CountedNext DEF GrabInv
<1>3. Inv => ProgressIsReal
  BY DEF Counted, ProgressIsReal
<1> QED BY <1>1, <1>2, <1>3, GrabInvariant, PTL DEF Spec

-----------------------------------------------------------------------------
\* What else is needed to see the attempts as Transfer's.
SeenInv ==
  /\ next # "returned" => routine # "none"
  /\ Asking => routine = "caller"
  /\ next = "returned" /\ routine = "copier" => resp.done
  /\ next = "openWriter" => resp.http = "GET"
  /\ next \in {"copy", "copied"} => resp.transfer
  /\ resp.transfer => resp.http = "GET" /\ file # Absent
  /\ next = "validateLocal" => file # Absent
  /\ next = "closeResponse" /\ resp.err = "nil" => file # Absent
  /\ Honest(origin) /\ resp.transfer /\ resp.err = "noSpace" => file # Whole
  /\ routine = "none" => ~resp.done /\ ~resp.transfer

\* No byte is taken for the mark of a file that does not exist.
RealBytes == \A i \in 1..Len(resp.body) : resp.body[i] # 0

AllInv == GrabInv /\ SeenInv /\ RealBytes

\* Every step receives and keeps bytes of the origin's file only.
LEMMA RealBytesNext ==
  ASSUME TypeOK, RealBytes, [Next]_vars
  PROVE  RealBytes'
<1> USE DEF GoOn, At
<1>0. /\ resp \in Response /\ resp.body \in Seq(Nat)
      /\ origin.size \in Nat
  BY WholeFacts DEF TypeOK, Response, Contents
<1>1. ASSUME resp'.body = resp.body PROVE RealBytes'
  BY <1>1 DEF RealBytes
<1>2. CASE Do
  BY <1>2 DEF Do, NewResponse, RealBytes
<1>3. CASE DoReturns \/ Cancel \/ Finished \/ UNCHANGED vars
  BY <1>0, <1>1, <1>3 DEF DoReturns, Cancel, Finished, vars, Response
<1>4. CASE Interrupted \/ Close
  BY <1>0, <1>1, <1>4 DEF Interrupted, Close, CloseResponse, Response
<1>5. CASE StatFileInfo \/ ValidateLocal
  BY <1>0, <1>1, <1>5 DEF StatFileInfo, ValidateLocal, FailWith, Response
<1>6. CASE HeadRequest
  BY <1>0, <1>1, <1>6 DEF HeadRequest, FailWith, Response
<1>7. CASE GetRequest
  <2>1. CASE resp' = Answer /\ (BodyStart > 0 => BodyStart < origin.size)
    <3>1. RestFrom(Answer.body, BodyStart) /\ BodyStart \in Nat
      BY <1>0, <2>1, AnswerTyped
    <3> QED BY <2>1, <3>1 DEF RestFrom, RealBytes
  <2> QED BY <1>0, <1>1, <1>7, <2>1 DEF GetRequest, FailWith, Response
<1>8. CASE ReadResponse \/ OpenWriter
  BY <1>0, <1>1, <1>8 DEF ReadResponse, OpenWriter, FailWith, Response
<1>9. CASE CopyFile \/ CopyBreaks \/ CopyEnds \/ AfterCopy
  BY <1>0, <1>1, <1>9
     DEF CopyFile, CopyBreaks, CopyEnds, AfterCopy, FailWith, Response
<1>10. CASE CopyBytes
  <2>1. CASE resp' = [resp EXCEPT !.body = Tail(@), !.n = @ + 1]
    <3>1. resp'.body = Tail(resp.body) /\ resp.body # <<>>
      BY <1>0, <1>10, <2>1 DEF CopyBytes, Response
    <3> QED BY <1>0, <3>1 DEF RealBytes
  <2> QED BY <1>0, <1>1, <1>10, <2>1 DEF CopyBytes, FailWith, Response
<1> QED BY <1>2, <1>3, <1>4, <1>5, <1>6, <1>7, <1>8, <1>9, <1>10 DEF Next, Step

\* Every step keeps it.
LEMMA SeenNext ==
  ASSUME AllInv, GrabInv', [Next]_vars
  PROVE  SeenInv'
<1> USE DEF GoOn, At, AllInv, GrabInv
<1>0. /\ resp \in Response /\ file \in Contents
      /\ <<>> # Absent
      /\ origin.size \in Nat
      /\ Len(Whole) = origin.size
      /\ \A i \in 1..origin.size : Whole[i] = i
  BY WholeFacts DEF TypeOK, Absent
<1>1. CASE Do
  BY <1>1 DEF Do, NewResponse, SeenInv, Asking
<1>2. CASE DoReturns \/ Cancel \/ Finished \/ UNCHANGED vars
  BY <1>2, <1>0 DEF DoReturns, Cancel, Finished, vars, SeenInv, Asking, Whole,
     Response
<1>3. CASE Interrupted \/ Close
  BY <1>3, <1>0 DEF Interrupted, Close, CloseResponse, SeenInv, Asking, Whole,
     Response, Control
<1>4. CASE StatFileInfo \/ ValidateLocal
  BY <1>4, <1>0 DEF StatFileInfo, ValidateLocal, FailWith, SeenInv, Asking,
     Whole, Response, Control
<1>5. CASE HeadRequest
  BY <1>5, <1>0 DEF HeadRequest, FailWith, SeenInv, Asking, Whole, Response,
     Control
<1>6. CASE GetRequest
  BY <1>6, <1>0, AnswerTyped DEF GetRequest, FailWith, SeenInv, Asking, Whole,
     Response, Control
<1>7. CASE ReadResponse
  BY <1>7, <1>0 DEF ReadResponse, SeenInv, Asking, Whole, Response, Control
<1>8. CASE OpenWriter
  BY <1>8, <1>0 DEF OpenWriter, FailWith, SeenInv, Asking, Whole, Response,
     Control
<1>9. CASE CopyFile
  BY <1>9, <1>0 DEF CopyFile, SeenInv, Asking, Whole, Response, Control,
     Prepared
<1>10. CASE CopyBytes
  <2>1. resp.body # <<>> /\ resp.transfer
    BY <1>10 DEF CopyBytes, SeenInv
  <2>2. ASSUME Honest(origin) PROVE file # Whole
    <3>1. RestFrom(resp.body, Len(file))
      BY <1>10, <2>2 DEF CopyBytes, Files, Honest
    <3>2. Len(file) # origin.size
      BY <1>0, <2>1, <3>1, EmptySeq DEF RestFrom, Response, Contents
    <3> QED BY <1>0, <3>2
  <2>3. CASE file' = Append(file, Head(resp.body))
    <3>1. Head(resp.body) \in Nat /\ Head(resp.body) # 0
      BY <1>0, <2>1, EmptySeq DEF RealBytes, Response, Contents
    <3>2. /\ Len(file') = Len(file) + 1
          /\ file'[Len(file) + 1] = Head(resp.body)
      BY <1>0, <2>3, <3>1 DEF Contents
    <3>3. file' # Absent
      <4>1. CASE Len(file) = 0
        <5>1. file'[1] # 0
          BY <3>1, <3>2, <4>1
        <5> QED BY <5>1 DEF Absent
      <4>2. CASE Len(file) # 0
        <5>1. Len(file') # 1
          BY <1>0, <3>2, <4>2 DEF Contents
        <5> QED BY <5>1 DEF Absent
      <4> QED BY <4>1, <4>2
    <3> QED BY <1>10, <1>0, <2>1, <2>2, <2>3, <3>3
            DEF CopyBytes, FailWith, SeenInv, Asking, Whole, Response, Control
  <2>4. CASE UNCHANGED file
    BY <1>10, <1>0, <2>1, <2>2, <2>4
       DEF CopyBytes, FailWith, SeenInv, Asking, Whole, Response, Control
  <2> QED BY <1>10, <2>3, <2>4 DEF CopyBytes
<1>11. CASE CopyBreaks \/ CopyEnds \/ AfterCopy
  BY <1>11, <1>0 DEF CopyBreaks, CopyEnds, AfterCopy, FailWith, SeenInv,
     Asking, Whole, Response, Control
<1> QED BY <1>1, <1>2, <1>3, <1>4, <1>5, <1>6, <1>7, <1>8, <1>9, <1>10, <1>11
        DEF Next, Step

\* The closing of a response is the end of an attempt.
LEMMA Closing ==
  ASSUME AllInv, NEW r \in Response, CloseResponse(r), UNCHANGED file,
         routine # "none", ~resp.done, ~r.done,
         r.http = resp.http, r.transfer = resp.transfer,
         r.err = "failed" \/ (next = "closeResponse" /\ r.err = resp.err)
  PROVE  Seen!Next
<1>1. /\ resp' = [r EXCEPT !.fi = Nil, !.done = TRUE, !.cancelled = TRUE]
      /\ UNCHANGED <<origin, routine, file>>
  BY DEF CloseResponse, GoOn
<1>2. /\ resp'.done /\ resp'.err = r.err /\ resp'.http = resp.http
      /\ resp'.transfer = resp.transfer
      /\ r.err \in {"nil", "failed", "noSpace"}
  BY <1>1 DEF Response
<1>3. /\ Whole # Absent /\ Whole' = Whole
      /\ Honest(origin)' = Honest(origin)
  BY <1>1, WholeFacts DEF AllInv, GrabInv, Absent, Whole
<1>4. Phase' = "done" /\ Outcome = "nil"
  BY <1>1, <1>2 DEF Phase, Outcome
<1>5. CASE resp.transfer
  <2>1. Phase = "copying"
    BY <1>5 DEF Phase
  <2>2. file # Absent /\ Outcome' = r.err
    BY <1>2, <1>5 DEF Outcome, AllInv, SeenInv
  <2>3. Honest(origin) /\ r.err = "nil" => file = Whole
    BY DEF AllInv, GrabInv, Files, Honest
  <2>4. Honest(origin) /\ r.err = "noSpace" => file # Whole
    BY <1>5 DEF AllInv, SeenInv
  <2>5. Stored' = IF file = Whole THEN "complete" ELSE "partial"
    BY <1>1, <1>3, <1>4, <2>2 DEF Stored
  <2> QED BY <1>2, <1>3, <1>4, <2>1, <2>2, <2>3, <2>4, <2>5
          DEF Seen!Next, Seen!TransferEnds
<1>6. CASE ~resp.transfer
  <2>1. Phase = "idle"
    BY <1>6 DEF Phase
  <2>2. Stored' = Stored
    BY <1>1, <1>3, <1>4, <2>1 DEF Stored
  <2>3. CASE r.err = "nil"
    <3>1. file # Absent /\ (Honest(origin) => file = Whole)
      BY <2>3 DEF AllInv, GrabInv, SeenInv, Files, Honest
    <3>2. /\ Stored # "absent" /\ (Honest(origin) => Stored = "complete")
          /\ Outcome' = "nil"
      BY <1>2, <1>3, <2>1, <2>3, <3>1 DEF Stored, Outcome
    <3> QED BY <1>3, <1>4, <2>1, <2>2, <3>2
            DEF Seen!Next, Seen!DoFindsWholeFile
  <2>4. CASE r.err # "nil"
    <3>1. Outcome' \in {"noResponse", "failed", "noSpace"}
      BY <1>2, <2>4 DEF Outcome
    <3> QED BY <1>3, <1>4, <2>1, <2>2, <3>1
            DEF Seen!Next, Seen!DoFails, Seen!Failures
  <2> QED BY <2>3, <2>4
<1> QED BY <1>5, <1>6

\* Every step of the attempts is one of Transfer, or none.
LEMMA SeenStep ==
  ASSUME AllInv, GrabInv', SeenInv', [Next]_vars
  PROVE  [Seen!Next]_Seen!vars
<1> USE DEF GoOn, At, GrabInv
<1>0. /\ resp \in Response /\ resp' \in Response
      /\ Honest(origin)' = Honest(origin)
  BY OriginStays DEF AllInv, TypeOK
<1>1. ASSUME UNCHANGED <<origin, file, routine>>,
             resp'.done = resp.done, resp'.transfer = resp.transfer,
             resp.done => resp'.err = resp.err /\ resp'.http = resp.http
      PROVE  UNCHANGED Seen!vars
  BY <1>0, <1>1 DEF Phase, Outcome, Stored, Seen!vars, Whole
<1>2. CASE Do
  <2>1. ~resp.transfer \/ resp.done
    BY <1>2 DEF Do, AllInv, TypeOK, SeenInv
  <2>2. Phase' = "idle" /\ Outcome' = "nil"
    BY <1>2 DEF Do, NewResponse, Phase, Outcome
  <2>3. Stored' = Stored
    BY <1>2, <2>1, <2>2 DEF Do, Stored, Phase, Whole
  <2>4. CASE resp.done
    BY <1>0, <2>2, <2>3, <2>4 DEF Phase, Seen!Next, Seen!Drop
  <2>5. CASE ~resp.done
    BY <1>0, <2>1, <2>2, <2>3, <2>5 DEF Phase, Outcome, Seen!vars
  <2> QED BY <2>4, <2>5
<1>3. CASE DoReturns
  BY <1>0, <1>3 DEF DoReturns, Phase, Outcome, Stored, Seen!vars, Whole
<1>4. CASE Cancel \/ Finished \/ UNCHANGED vars
  BY <1>0, <1>1, <1>4 DEF Cancel, Finished, vars, Response
<1>5. CASE Interrupted
  <2>1. CASE resp.done
    BY <1>1, <1>5, <2>1 DEF Interrupted
  <2>2. CASE ~resp.done
    <3> DEFINE r == [resp EXCEPT !.err = "failed"]
    <3>1. /\ r \in Response /\ r.http = resp.http /\ r.done = resp.done
          /\ r.transfer = resp.transfer /\ r.err = "failed"
      BY <1>0 DEF Response
    <3>2. CloseResponse(r) /\ UNCHANGED file /\ next # "returned"
      BY <1>5, <2>2 DEF Interrupted
    <3> HIDE DEF r
    <3> QED BY <2>2, <3>1, <3>2, Closing DEF AllInv, SeenInv
  <2> QED BY <2>1, <2>2
<1>6. CASE Close
  <2>1. /\ next = "closeResponse" /\ CloseResponse(resp) /\ UNCHANGED file
        /\ ~resp.done
    BY <1>6 DEF Close, AllInv, Control
  <2> QED BY <1>0, <2>1, Closing DEF AllInv, SeenInv
<1>7. CASE StatFileInfo \/ ValidateLocal
  BY <1>0, <1>1, <1>7
     DEF StatFileInfo, ValidateLocal, FailWith, Response, AllInv, Control
<1>8. CASE HeadRequest
  BY <1>0, <1>1, <1>8 DEF HeadRequest, FailWith, Response, AllInv, Control
<1>9. CASE GetRequest
  BY <1>0, <1>1, <1>9, AnswerTyped
     DEF GetRequest, FailWith, Response, AllInv, Control
<1>10. CASE ReadResponse
  BY <1>0, <1>1, <1>10 DEF ReadResponse, Response, AllInv, Control
<1>11. CASE OpenWriter
  <2>1. ASSUME NEW e, FailWith(resp, e), UNCHANGED file
        PROVE  UNCHANGED Seen!vars
    BY <1>0, <1>1, <1>11, <2>1 DEF OpenWriter, FailWith, Response, AllInv,
       Control
  <2>2. CASE resp' = [resp EXCEPT !.transfer = TRUE] /\ next' = "returned"
    <3>1. ~resp.transfer /\ ~resp.done /\ routine = "caller" /\ resp.err = "nil"
      BY <1>11 DEF OpenWriter, AllInv, Control, Asking, SeenInv
    <3>2. resp'.transfer /\ resp'.done = resp.done
      BY <1>0, <2>2 DEF Response
    <3>3. UNCHANGED routine
      BY <1>11 DEF OpenWriter, FailWith
    <3>4. file' # Absent
      BY <3>2 DEF SeenInv
    <3>5. /\ Phase = "idle" /\ Phase' = "copying"
          /\ Outcome' = Outcome /\ Stored' = "partial"
      BY <3>1, <3>2, <3>3, <3>4 DEF Phase, Outcome, Stored
    <3> QED BY <1>0, <3>5 DEF Seen!Next, Seen!DoStartsTransfer
  <2> QED BY <1>11, <2>1, <2>2 DEF OpenWriter
<1>12. CASE CopyFile \/ CopyBytes
  <2>1. CASE resp.done
    BY <1>1, <1>12, <2>1 DEF CopyFile, CopyBytes, AllInv, Control
  <2>2. CASE ~resp.done
    <3>1. /\ resp.transfer /\ routine # "none"
          /\ resp'.transfer /\ ~resp'.done /\ UNCHANGED routine
      BY <1>0, <1>12, <2>2 DEF CopyFile, CopyBytes, FailWith, Response, AllInv,
         Control, Prepared, SeenInv
    <3>2. file # Absent /\ file' # Absent
      BY <3>1 DEF AllInv, SeenInv
    <3> QED BY <1>0, <2>2, <3>1, <3>2 DEF Phase, Outcome, Stored, Seen!vars
  <2> QED BY <2>1, <2>2
<1>13. CASE CopyBreaks \/ CopyEnds \/ AfterCopy
  BY <1>0, <1>1, <1>13 DEF CopyBreaks, CopyEnds, AfterCopy, FailWith, Response,
     AllInv, Control
<1> QED BY <1>2, <1>3, <1>4, <1>5, <1>6, <1>7, <1>8, <1>9, <1>10, <1>11, <1>12,
           <1>13 DEF Next, Step

\* The attempts implement Transfer, whatever the origin: startDownload sees no
\* more of grab than that an attempt fails, finds a file it takes for whole, or
\* starts a transfer; what ends without an error is the whole file if the origin
\* is honest.
THEOREM GrabImplementsTransfer == Spec => ImplementsTransfer
<1>1. ASSUME Init PROVE SeenInv /\ RealBytes /\ Seen!Init
  <2>1. Honest(origin) \in BOOLEAN
    BY DEF Honest, KeepsRanges
  <2> QED BY <1>1, <2>1 DEF Init, NewResponse, SeenInv, RealBytes, Asking,
          Seen!Init, Phase, Outcome, Stored
<1>2. ASSUME GrabInv, GrabInv', SeenInv, RealBytes, [Next]_vars
      PROVE  SeenInv' /\ RealBytes' /\ [Seen!Next]_Seen!vars
  <2>1. AllInv /\ TypeOK
    BY <1>2 DEF AllInv, GrabInv
  <2>2. RealBytes' /\ SeenInv'
    BY <1>2, <2>1, RealBytesNext, SeenNext
  <2> QED BY <1>2, <2>1, <2>2, SeenStep
<1> QED BY <1>1, <1>2, GrabInvariant, PTL
        DEF Spec, ImplementsTransfer, Seen!Spec
=============================================================================
