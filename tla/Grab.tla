-------------------------------- MODULE Grab --------------------------------
(***************************************************************************)
(* One file fetched by the grab package (grab/client.go, response.go,      *)
(* transfer.go) in one attempt or several, as startDownload retries it.    *)
(* An attempt is a chain of state functions which Client.run calls one     *)
(* after the other: up to openWriter in the goroutine that called Do, from *)
(* copyFile on in the copy goroutine.                                      *)
(*                                                                         *)
(* A file is the sequence of its bytes.  The origin's file is <<1, 2, ...>>, *)
(* a byte being known by its place, and read and written one at a time.  The *)
(* file fetched belongs to this task alone.                                *)
(* SavePath names no directory, and the Request has the fields NewRequest  *)
(* gives it: no Size, NoResume, NoStore, SkipExisting or hooks.            *)
(***************************************************************************)
EXTENDS Integers, SequencesExt

CONSTANTS
  Origins,     \* the origins the file may come from
  MaxAttempts  \* bound on the number of calls of Do

Origin ==
  [size : Nat,              \* the bytes of its file
   sendsLength : BOOLEAN,   \* its responses have a Content-Length
   servesRanges : BOOLEAN,  \* it answers a Range request with that range
   advertises : BOOLEAN,    \* its responses have Accept-Ranges: bytes
   probed : BOOLEAN,        \* Client.CanResume: what the probe made of it
   framesBody : BOOLEAN]    \* a body that breaks off is not taken for a whole

ASSUME GrabAssumption ==
  /\ Origins \subseteq Origin
  /\ \A o \in Origins : o.sendsLength => o.framesBody
  /\ MaxAttempts \in Nat

\* What checkOriginResumeSupport may find when it asks for bytes=0-0: an origin
\* that advertises ranges is believed, and so is a body of one byte, be it the
\* range, the file or what came of it.  A read that fails finds no ranges, and
\* quick tasks are not probed.
OneByte(o) ==
  \/ o.size >= 1 /\ (o.servesRanges \/ ~o.framesBody)
  \/ o.size = 1

Probe(o) == {FALSE, o.advertises \/ OneByte(o)}

\* An origin that serves ranges if the probe said so.
KeepsRanges(o) == o.probed => o.servesRanges

\* And one whose bodies do not end early unnoticed, either.
Honest(o) == KeepsRanges(o) /\ o.framesBody

VARIABLES
  origin,    \* where the file comes from
  attempts,  \* history: the number of calls of Do
  file,      \* the bytes at SavePath, or Absent
  routine,   \* the goroutine the attempt runs in
  next,      \* the state function run calls next, or where that one is
  resp       \* the Response

vars == <<origin, attempts, file, routine, next, resp>>

Nil    == -1
Absent == <<0>>  \* no file: byte 0 belongs to no file

StateFuncs ==
  {"statFileInfo", "validateLocal", "headRequest", "getRequest",
   "readResponse", "openWriter", "copyFile", "closeResponse"}

\* Beside the state functions: copyFile's loop, and what it does after it.
Places == StateFuncs \cup {"copy", "copied", "returned", "panicked"}

Contents == Seq(Nat)

Response ==
  [http : {"nil", "HEAD", "GET"},   \* HTTPResponse, by its request's method
   contentLength : Nat \cup {Nil},  \* its ContentLength
   body : Contents,                   \* what is left of its Body
   fi : Nat \cup {Nil},             \* the size in the FileInfo, if any
   range : Nat \cup {Nil},          \* where the GET's Range starts, if any
   optionsKnown : BOOLEAN,
   canResume : BOOLEAN,
   didResume : BOOLEAN,
   transfer : BOOLEAN,              \* whether transfer is set
   n : Nat,                         \* its N(), 0 without one
   size : Nat \cup {Nil},           \* sizeUnsafe
   resumed : Nat,                   \* bytesResumed
   err : {"nil", "failed", "noSpace"},
   done : BOOLEAN,                  \* whether Done is closed
   cancelled : BOOLEAN]             \* whether ctx is done

NewResponse ==
  [http |-> "nil", contentLength |-> Nil, body |-> <<>>, fi |-> Nil,
   range |-> Nil, optionsKnown |-> FALSE, canResume |-> FALSE,
   didResume |-> FALSE, transfer |-> FALSE, n |-> 0, size |-> 0,
   resumed |-> 0, err |-> "nil", done |-> FALSE,
   cancelled |-> FALSE]

Whole == [i \in 1..origin.size |-> i]

TypeOK ==
  /\ origin \in Origins
  /\ attempts \in 0..MaxAttempts
  /\ file \in Contents
  /\ routine \in {"none", "caller", "copier"}
  /\ next \in Places
  /\ resp \in Response

Init ==
  /\ origin \in Origins
  /\ origin.probed \in Probe(origin)
  /\ attempts = 0
  /\ file = Absent
  /\ routine = "none"
  /\ next = "returned"
  /\ resp = NewResponse

-----------------------------------------------------------------------------
(***************************************************************************)
(* Do, run and closeResponse.                                              *)
(***************************************************************************)

\* startDownload calls Do, for the first time or after an attempt ended.
Do ==
  /\ next = "returned"
  /\ routine # "caller"
  /\ attempts < MaxAttempts
  /\ attempts' = attempts + 1
  /\ routine' = "caller"
  /\ next' = "statFileInfo"
  /\ resp' = NewResponse
  /\ UNCHANGED <<origin, file>>

\* The chain of the caller's goroutine has ended: Do starts the copy goroutine.
DoReturns ==
  /\ next = "returned"
  /\ routine = "caller"
  /\ routine' = "copier"
  /\ next' = "copyFile"
  /\ UNCHANGED <<origin, attempts, file, resp>>

\* The attempt is given up from outside: its context is done.
Cancel ==
  /\ routine # "none"
  /\ ~resp.cancelled
  /\ resp' = [resp EXCEPT !.cancelled = TRUE]
  /\ UNCHANGED <<origin, attempts, file, routine, next>>

\* run is about to call f, or f is at its next look at the context.
At(f) == next = f /\ ~resp.cancelled

GoOn(f) == next' = f /\ UNCHANGED <<origin, attempts, routine>>

\* closeResponse on the response r.
CloseResponse(r) ==
  IF r.done THEN GoOn("panicked") /\ resp' = r
  ELSE /\ resp' = [r EXCEPT !.fi = Nil, !.done = TRUE, !.cancelled = TRUE]
       /\ GoOn("returned")

\* run without its look at IsComplete.
InterruptedCloses ==
  /\ next \notin {"returned", "panicked"}
  /\ resp.cancelled
  /\ CloseResponse([resp EXCEPT !.err = "failed"])
  /\ UNCHANGED file

\* run finds the context done: it returns, or closes the response.
Interrupted ==
  /\ next \notin {"returned", "panicked"}
  /\ resp.cancelled
  /\ IF resp.done THEN GoOn("returned") /\ UNCHANGED resp
     ELSE CloseResponse([resp EXCEPT !.err = "failed"])
  /\ UNCHANGED file

Close ==
  /\ At("closeResponse")
  /\ CloseResponse(resp)
  /\ UNCHANGED file

\* A state function stores the error e and has the response closed.
FailWith(r, e) ==
  /\ resp' = [r EXCEPT !.err = e]
  /\ GoOn("closeResponse")

-----------------------------------------------------------------------------
(***************************************************************************)
(* The state functions of the caller's goroutine.                          *)
(***************************************************************************)

StatFileInfo ==
  /\ At("statFileInfo")
  /\ \/ FailWith(resp, "failed")
     \/ file = Absent /\ GoOn("headRequest") /\ UNCHANGED resp
     \/ /\ file # Absent
        /\ resp' = [resp EXCEPT !.fi = Len(file)]
        /\ GoOn("validateLocal")
  /\ UNCHANGED file

\* The size to compare with: 0 when no response has been received yet.
ExpectedSize == IF resp.http = "nil" THEN 0 ELSE resp.contentLength

\* A range is asked for that starts one byte late.
ValidateLocalSkips ==
  /\ At("validateLocal")
  /\ IF ExpectedSize = 0 THEN GoOn("headRequest") /\ UNCHANGED resp
     ELSE IF ExpectedSize = resp.fi
     THEN /\ resp' = [resp EXCEPT !.didResume = TRUE, !.resumed = resp.fi]
          /\ GoOn("closeResponse")
     ELSE IF ExpectedSize \in 0..(resp.fi - 1)
     THEN FailWith(resp, "failed")
     ELSE IF resp.canResume
     THEN /\ resp' = [resp EXCEPT !.range = resp.fi + 1, !.didResume = TRUE,
                                  !.resumed = resp.fi]
          /\ GoOn("getRequest")
     ELSE GoOn("headRequest") /\ UNCHANGED resp
  /\ UNCHANGED file

\* A range is asked for that starts at the length of the rest.
ValidateLocalMixesUp ==
  /\ At("validateLocal")
  /\ IF resp.canResume /\ ExpectedSize \notin 0..resp.fi
     THEN /\ resp' = [resp EXCEPT !.range = ExpectedSize - resp.fi,
                                  !.didResume = TRUE]
          /\ GoOn("getRequest")
     ELSE GoOn("headRequest") /\ UNCHANGED resp
  /\ UNCHANGED file

ValidateLocal ==
  /\ At("validateLocal")
  /\ IF ExpectedSize = 0 THEN GoOn("headRequest") /\ UNCHANGED resp
     ELSE IF ExpectedSize = resp.fi
     THEN /\ resp' = [resp EXCEPT !.didResume = TRUE, !.resumed = resp.fi]
          /\ GoOn("closeResponse")
     ELSE IF ExpectedSize \in 0..(resp.fi - 1)
     THEN FailWith(resp, "failed")
     ELSE IF resp.canResume
     THEN /\ resp' = [resp EXCEPT !.range = resp.fi, !.didResume = TRUE,
                                  !.resumed = resp.fi]
          /\ GoOn("getRequest")
     ELSE GoOn("headRequest") /\ UNCHANGED resp
  /\ UNCHANGED file

\* The HEAD request is not remembered.
HeadRequestForgets ==
  /\ At("headRequest")
  /\ \/ /\ resp.fi = Nil
        /\ GoOn("getRequest")
        /\ UNCHANGED resp
     \/ /\ resp.fi # Nil
        /\ resp' = [resp EXCEPT !.http = "HEAD",
                      !.contentLength =
                         IF origin.sendsLength THEN origin.size ELSE Nil]
        /\ GoOn("readResponse")
  /\ UNCHANGED file

\* At most one HEAD request is made, and only for a file that exists.  It may
\* fail, or have a bad status: then the file is fetched from its start.
HeadRequest ==
  /\ At("headRequest")
  /\ LET known == [resp EXCEPT !.optionsKnown = TRUE] IN
     \/ /\ resp.optionsKnown \/ resp.fi = Nil
        /\ resp' = known
        /\ GoOn("getRequest")
     \/ /\ ~resp.optionsKnown /\ resp.fi # Nil
        /\ \/ FailWith([known EXCEPT !.http = "nil"], "failed")
           \/ resp' = [known EXCEPT !.http = "HEAD"] /\ GoOn("getRequest")
           \/ /\ resp' = [known EXCEPT !.http = "HEAD",
                            !.contentLength =
                               IF origin.sendsLength THEN origin.size ELSE Nil]
              /\ GoOn("readResponse")
  /\ UNCHANGED file

\* Where the body of the origin's answer starts.
BodyStart == IF origin.servesRanges /\ resp.range # Nil THEN resp.range ELSE 0

\* The answer to the GET.  A range that starts at the end has a bad status.
Answer ==
  [resp EXCEPT !.http = "GET",
     !.body = SubSeq(Whole, BodyStart + 1, origin.size),
     !.contentLength =
        IF origin.sendsLength THEN origin.size - BodyStart ELSE Nil]

\* getRequest without its look at the status code: an error page has a body.
GetRequestIgnoresStatus ==
  /\ At("getRequest")
  /\ \/ FailWith([resp EXCEPT !.http = "nil"], "failed")
     \/ /\ resp' = [resp EXCEPT !.http = "GET", !.body = <<0>>,
                                !.contentLength = 1]
        /\ GoOn("readResponse")
     \/ resp' = Answer /\ GoOn("readResponse")
  /\ UNCHANGED file

GetRequest ==
  /\ At("getRequest")
  /\ \/ FailWith([resp EXCEPT !.http = "nil"], "failed")
     \/ FailWith([resp EXCEPT !.http = "GET"], "failed")
     \/ /\ BodyStart > 0 => BodyStart < origin.size
        /\ resp' = Answer
        /\ GoOn("readResponse")
  /\ UNCHANGED file

\* The part that is resumed is not counted.
SizeUnsafeOfRest == resp.contentLength

\* A length known is that of the rest, when the file is resumed.
SizeUnsafe ==
  IF resp.contentLength = Nil THEN Nil ELSE resp.contentLength + resp.resumed

\* The answer to the HEAD sends the file through statFileInfo once more.
ReadResponse ==
  /\ At("readResponse")
  /\ IF resp.http = "nil" THEN GoOn("panicked") /\ UNCHANGED resp
     ELSE IF resp.http = "HEAD"
     THEN /\ resp' = [resp EXCEPT !.size = SizeUnsafe,
                                  !.canResume = origin.probed]
          /\ GoOn("statFileInfo")
     ELSE resp' = [resp EXCEPT !.size = SizeUnsafe] /\ GoOn("openWriter")
  /\ UNCHANGED file

\* The file is created if there is none.  Its old contents are kept until the
\* copy begins.
OpenWriter ==
  /\ At("openWriter")
  /\ \/ \E e \in {"failed", "noSpace"} : FailWith(resp, e) /\ UNCHANGED file
     \/ /\ file' = IF file = Absent THEN <<>> ELSE file
        /\ resp' = [resp EXCEPT !.transfer = TRUE]
        /\ GoOn("returned")

-----------------------------------------------------------------------------
(***************************************************************************)
(* copyFile, in the copy goroutine.                                        *)
(***************************************************************************)

\* A file that is resumed is truncated as well.
CopyFileTruncates ==
  /\ At("copyFile")
  /\ resp.transfer
  /\ file' = <<>>
  /\ GoOn("copy")
  /\ UNCHANGED resp

\* Nothing to do if Do closed the response; else the contents of a file that is
\* not resumed go.
CopyFile ==
  /\ At("copyFile")
  /\ IF resp.done THEN GoOn("returned") /\ UNCHANGED file
     ELSE IF ~resp.transfer THEN GoOn("panicked") /\ UNCHANGED file
     ELSE /\ file' = IF resp.fi # Nil /\ ~resp.didResume THEN <<>> ELSE file
          /\ GoOn("copy")
  /\ UNCHANGED resp

\* One turn of transfer.copy: a byte is read and written.
CopyBytes ==
  /\ At("copy")
  /\ resp.body # <<>>
  /\ \/ /\ file' = Append(file, Head(resp.body))
        /\ resp' = [resp EXCEPT !.body = Tail(@), !.n = @ + 1]
        /\ GoOn("copy")
     \/ \E e \in {"failed", "noSpace"} : FailWith(resp, e) /\ UNCHANGED file

\* The body breaks off, which shows only where its end is known.
CopyBreaks ==
  /\ At("copy")
  /\ resp.body # <<>>
  /\ \/ origin.framesBody /\ FailWith(resp, "failed")
     \/ ~origin.framesBody /\ GoOn("copied") /\ UNCHANGED resp
  /\ UNCHANGED file

CopyEnds ==
  /\ At("copy")
  /\ resp.body = <<>>
  /\ GoOn("copied")
  /\ UNCHANGED <<file, resp>>

\* What there is of the file, as reported while it is fetched and after that.
BytesComplete == resp.resumed + resp.n

\* The rest of copyFile: the file's time is set, which may fail, and its size is
\* known now if it was not.
AfterCopy ==
  /\ At("copied")
  /\ \/ FailWith(resp, "failed")
     \/ /\ resp' = [resp EXCEPT !.size = IF @ = Nil THEN BytesComplete ELSE @]
        /\ GoOn("closeResponse")
  /\ UNCHANGED file

-----------------------------------------------------------------------------
Step ==
  \/ DoReturns
  \/ Interrupted
  \/ Close
  \/ StatFileInfo
  \/ ValidateLocal
  \/ HeadRequest
  \/ GetRequest
  \/ ReadResponse
  \/ OpenWriter
  \/ CopyFile
  \/ CopyBytes
  \/ CopyBreaks
  \/ CopyEnds
  \/ AfterCopy

\* The last attempt the bound allows has ended.
Finished ==
  /\ attempts = MaxAttempts
  /\ next = "returned" /\ routine = "copier"
  /\ UNCHANGED vars

Next == Do \/ Cancel \/ Step \/ Finished

Spec == Init /\ [][Next]_vars

\* Both goroutines run, and origins answer or break off.
FairSpec == Spec /\ WF_vars(Step)

-----------------------------------------------------------------------------
(***************************************************************************)
(* Properties.                                                             *)
(***************************************************************************)

\* None of the "developer error" panics of client.go happens, whenever the
\* context is cancelled: no response is closed twice, none is read or copied
\* that was not received.  (Such a panic in the copy goroutine ends the program.
\* The one of mkdirp, about the directory of SavePath, is not modelled.)
NoDeveloperError == next # "panicked"

\* The file holds, at every moment, the first bytes of the origin's file, if
\* the origin serves the ranges the probe found: attempts resume where the last
\* one stopped, or start anew.
OnlyPrefixes ==
  KeepsRanges(origin) /\ file # Absent => IsPrefix(file, Whole)

\* With honest origins an attempt that reports no error leaves the whole file.
SuccessIsWhole ==
  Honest(origin) /\ resp.done /\ resp.err = "nil" => file = Whole

\* Size and BytesComplete, which the monitor's rules and the user's progress are
\* made of, are those of the file: at each turn of the copy what was resumed and
\* what was written add up to it, and after a success both are its length, be it
\* known from the origin, found in place or counted.
ProgressIsReal ==
  KeepsRanges(origin) =>
    /\ next \in {"copy", "copied"} => BytesComplete = Len(file)
    /\ resp.done /\ resp.err = "nil" =>
         resp.size = Len(file) /\ BytesComplete = Len(file)

\* Every call of Do is answered: Done is closed, whatever the file, the origin
\* and the cancellation do.
EveryAttemptEnds == routine = "caller" ~> resp.done

\* What Transfer's phase, err and file are here.
Phase ==
  IF resp.done THEN "done"
  ELSE IF resp.transfer THEN "copying"
  ELSE "idle"

Outcome ==
  IF ~resp.done \/ resp.err = "nil" THEN "nil"
  ELSE IF resp.http = "nil" THEN "noResponse"
  ELSE resp.err

Stored ==
  IF file = Absent THEN "absent"
  ELSE IF Phase = "copying" \/ file # Whole THEN "partial"
  ELSE "complete"

Seen == INSTANCE Transfer
          WITH honest <- Honest(origin), phase <- Phase, err <- Outcome,
               file <- Stored

\* Seen by startDownload, the attempts take the steps of Transfer and no others,
\* whatever the origin.
ImplementsTransfer == Seen!Spec

-----------------------------------------------------------------------------
(***************************************************************************)
(* What the documentation says and the code does not do.                   *)
(***************************************************************************)

\* response.go: DidResume specifies that the file transfer resumed a previously
\* incomplete transfer: what is about to be appended continues the file.
DidResumeMeansResumed ==
  next = "copyFile" /\ resp.transfer /\ resp.didResume =>
    resp.body = SubSeq(Whole, resp.fi + 1, origin.size)
=============================================================================
