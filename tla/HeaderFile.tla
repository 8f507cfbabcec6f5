----------------------------- MODULE HeaderFile -----------------------------
(***************************************************************************)
(* saveHeader, run by the workers for their tasks, and SetIgnoreHeader,    *)
(* run by the library's caller, which share the ignore map under a         *)
(* sync.RWMutex.                                                           *)
(***************************************************************************)
EXTENDS Naturals

CONSTANTS
  Savers,      \* the tasks whose headers are saved
  Setters,     \* goroutines that call SetIgnoreHeader
  Names,       \* header names
  CD,          \* "Content-Disposition"
  IgnoreSets,  \* what they give it
  Answers,     \* the responses' headers
  Absent,      \* no header file; also: no answer
  CutOff,      \* a header file written in part
  Nobody

AnswerType ==
  [names : SUBSET Names,  \* those in the header
   bare  : BOOLEAN,       \* its Content-Disposition has no "filename="
   known : BOOLEAN]       \* GuessFilename finds a name

TextType == [names : SUBSET Names, fileName : BOOLEAN]

ASSUME HeaderAssumption ==
  /\ CD \in Names
  /\ IgnoreSets \subseteq SUBSET Names
  /\ Answers \subseteq AnswerType
  /\ Absent \notin Answers
  /\ Absent \notin TextType
  /\ CutOff \notin TextType
  /\ CutOff # Absent
  /\ Nobody \notin Setters

VARIABLES
  ignore,   \* ignoreHeaderMap
  readers,  \* the savers that hold the read lock
  writer,   \* the setter that holds or waits for the lock, or Nobody
  setting,  \* where each setter is
  saving,   \* where each saver is
  answer,   \* originHeader and originFileName
  left,     \* the names its range has still to come to
  text,     \* what it has written
  file,     \* each task's header file
  before    \* the file before the call: for the properties only

lockVars == <<ignore, readers, writer, setting>>
saveVars == <<saving, answer, left, text, file, before>>
vars     == <<lockVars, saveVars>>

Empty == [names |-> {}, fileName |-> FALSE]

TypeOK ==
  /\ ignore \in SUBSET Names
  /\ readers \subseteq Savers
  /\ writer \in Setters \cup {Nobody}
  /\ setting \in [Setters -> {"idle", "lock", "drain", "unlock"}]
  /\ saving \in [Savers -> {"idle", "create", "rlock", "blocked", "write",
                            "fail", "finish", "remove"}]
  /\ answer \in [Savers -> Answers \cup {Absent}]
  /\ left \in [Savers -> SUBSET Names]
  /\ text \in [Savers -> TextType]
  /\ file \in [Savers -> TextType \cup {Absent, CutOff}]
  /\ before \in [Savers -> TextType \cup {Absent, CutOff}]

Init ==
  /\ ignore = {}
  /\ readers = {}
  /\ writer = Nobody
  /\ setting = [s \in Setters |-> "idle"]
  /\ saving = [w \in Savers |-> "idle"]
  /\ answer = [w \in Savers |-> Absent]
  /\ left = [w \in Savers |-> {}]
  /\ text = [w \in Savers |-> Empty]
  /\ file = [w \in Savers |-> Absent]
  /\ before = [w \in Savers |-> Absent]

-----------------------------------------------------------------------------
\* SetIgnoreHeader
GoSet(s, place) == setting' = [setting EXCEPT ![s] = place]

SetBegins(s) ==
  /\ setting[s] = "idle"
  /\ GoSet(s, "lock")
  /\ UNCHANGED <<ignore, readers, writer, saveVars>>

\* Lock admits one setter at a time and announces it: from now on no saver gets
\* the read lock.
Announce(s) ==
  /\ setting[s] = "lock"
  /\ writer = Nobody
  /\ writer' = s
  /\ GoSet(s, "drain")
  /\ UNCHANGED <<ignore, readers, saveVars>>

\* Lock returns when the last reader has gone.  The map was built before; what
\* is in it matters from now on.
Assign(s) ==
  /\ setting[s] = "drain"
  /\ readers = {}
  /\ ignore' \in IgnoreSets
  /\ GoSet(s, "unlock")
  /\ UNCHANGED <<readers, writer, saveVars>>

Blocked == {w \in Savers : saving[w] = "blocked"}

\* Unlock first admits the savers it has kept waiting, and only then the next
\* setter.
SetReturns(s) ==
  /\ setting[s] = "unlock"
  /\ writer' = Nobody
  /\ readers' = readers \cup Blocked
  /\ saving' = [w \in Savers |->
                 IF w \in Blocked THEN "write" ELSE saving[w]]
  /\ GoSet(s, "idle")
  /\ UNCHANGED <<ignore, answer, left, text, file, before>>

-----------------------------------------------------------------------------
\* saveHeader
GoSave(w, place) == saving' = [saving EXCEPT ![w] = place]

\* The call returns; its variables are gone.
Returns(w) ==
  /\ GoSave(w, "idle")
  /\ answer' = [answer EXCEPT ![w] = Absent]
  /\ left' = [left EXCEPT ![w] = {}]
  /\ text' = [text EXCEPT ![w] = Empty]
  /\ before' = [before EXCEPT ![w] = Absent]

\* startDownload calls it with the header of the answer and the guessed name.
SaveBegins(w) ==
  /\ saving[w] = "idle"
  /\ \E a \in Answers :
       /\ answer' = [answer EXCEPT ![w] = a]
       /\ left' = [left EXCEPT ![w] = a.names]
  /\ before' = [before EXCEPT ![w] = file[w]]
  /\ GoSave(w, "create")
  /\ UNCHANGED <<lockVars, text, file>>

\* genHeaderFile fails, and what an earlier attempt stored stays.
CreateFails(w) ==
  /\ saving[w] = "create"
  /\ Returns(w)
  /\ UNCHANGED <<lockVars, file>>

\* The new text is written over the old one.
CreateKeeps(w) ==
  /\ saving[w] = "create"
  /\ text' = [text EXCEPT ![w] = file[w]]
  /\ file' = [file EXCEPT ![w] = CutOff]
  /\ GoSave(w, "rlock")
  /\ UNCHANGED <<lockVars, answer, left, before>>

\* genHeaderFile truncates it.
Create(w) ==
  /\ saving[w] = "create"
  /\ text' = [text EXCEPT ![w] = Empty]
  /\ file' = [file EXCEPT ![w] = CutOff]
  /\ GoSave(w, "rlock")
  /\ UNCHANGED <<lockVars, answer, left, before>>

\* The ignore map is read without a lock.
RLockForgotten(w) ==
  /\ saving[w] = "rlock"
  /\ GoSave(w, "write")
  /\ UNCHANGED <<lockVars, answer, left, text, file, before>>

RLock(w) ==
  /\ saving[w] = "rlock"
  /\ writer = Nobody
  /\ readers' = readers \cup {w}
  /\ GoSave(w, "write")
  /\ UNCHANGED <<ignore, writer, setting, answer, left, text, file,
                 before>>

RLockBlocks(w) ==
  /\ saving[w] = "rlock"
  /\ writer # Nobody
  /\ GoSave(w, "blocked")
  /\ UNCHANGED <<lockVars, answer, left, text, file, before>>

\* One turn of the range over originHeader; its order is any.
Write(w) ==
  /\ saving[w] = "write"
  /\ \E k \in left[w] :
       /\ left' = [left EXCEPT ![w] = @ \ {k}]
       /\ IF k \in ignore
          THEN UNCHANGED text
          ELSE text' = [text EXCEPT
                 ![w].names = @ \cup {k},
                 ![w].fileName =
                    @ \/ (k = CD /\ (answer[w].known \/ ~answer[w].bare))]
  /\ UNCHANGED <<lockVars, saving, answer, file, before>>

\* The answer has no Content-Disposition: the file name gets one.
OwnName(w) == answer[w].known /\ CD \notin answer[w].names

\* Flush, after the line for the file name: what was buffered is in the file.
Flush(w) ==
  /\ saving[w] = "write"
  /\ left[w] = {}
  /\ file' = [file EXCEPT ![w] =
                IF OwnName(w)
                THEN [names |-> text[w].names \cup {CD}, fileName |-> TRUE]
                ELSE text[w]]
  /\ GoSave(w, "finish")
  /\ UNCHANGED <<lockVars, answer, left, text, before>>

\* A write or the Flush fails; isNeedDelete is set.
WriteFails(w) ==
  /\ saving[w] = "write"
  /\ left[w] \subseteq ignore => left[w] = {}
  /\ GoSave(w, "fail")
  /\ UNCHANGED <<lockVars, answer, left, text, file, before>>

\* The deferred calls of a save that succeeds: RUnlock and Close.
SaveReturns(w) ==
  /\ saving[w] = "finish"
  /\ readers' = readers \ {w}
  /\ Returns(w)
  /\ UNCHANGED <<ignore, writer, setting, file>>

\* Of one that fails: RUnlock and Close, then Remove.
UnlockForgotten(w) ==
  /\ saving[w] = "fail"
  /\ GoSave(w, "remove")
  /\ UNCHANGED <<lockVars, answer, left, text, file, before>>

UnlockFailed(w) ==
  /\ saving[w] = "fail"
  /\ readers' = readers \ {w}
  /\ GoSave(w, "remove")
  /\ UNCHANGED <<ignore, writer, setting, answer, left, text, file,
                 before>>

RemoveForgotten(w) ==
  /\ saving[w] = "remove"
  /\ Returns(w)
  /\ UNCHANGED <<lockVars, file>>

Remove(w) ==
  /\ saving[w] = "remove"
  /\ file' = [file EXCEPT ![w] = Absent]
  /\ Returns(w)
  /\ UNCHANGED lockVars

-----------------------------------------------------------------------------
SetStep(s) == Announce(s) \/ Assign(s) \/ SetReturns(s)

\* The file system may do its part or fail: a step either way.
SaveStep(w) ==
  \/ CreateFails(w) \/ Create(w)
  \/ RLock(w) \/ RLockBlocks(w)
  \/ Write(w) \/ Flush(w) \/ WriteFails(w)
  \/ SaveReturns(w) \/ UnlockFailed(w) \/ Remove(w)

Next ==
  \/ \E s \in Setters : SetBegins(s) \/ SetStep(s)
  \/ \E w \in Savers : SaveBegins(w) \/ SaveStep(w)

Spec == Init /\ [][Next]_vars

\* Goroutines run, and a sync.Mutex hands over to one that has waited too long.
FairSpec ==
  /\ Spec
  /\ \A s \in Setters : WF_vars(SetStep(s)) /\ SF_vars(Announce(s))
  /\ \A w \in Savers : WF_vars(SaveStep(w))

-----------------------------------------------------------------------------
\* What saveHeader leaves when it returns is a whole header file or none,
\* however many writes were made before one failed, and whatever file was there
\* before.
NoHalfFile == \A w \in Savers : saving[w] = "idle" => file[w] # CutOff

\* While a call runs, what counts is the file it found.
Stored == [w \in Savers |-> IF saving[w] = "idle" THEN file[w] ELSE before[w]]

\* saveHeader and SetIgnoreHeader are atomic to each other: a stored file holds
\* what the ignore set of one moment of the call leaves of the answer, although
\* the set is looked up name by name while callers replace it.
Store == INSTANCE HeaderStore WITH file <- Stored, asked <- answer
ImplementsStore == Store!Spec

\* Savers and setters do not keep each other waiting for ever: every call
\* returns, also when others go on calling and when files cannot be written.
EveryCallReturns ==
  /\ \A s \in Setters : setting[s] # "idle" ~> setting[s] = "idle"
  /\ \A w \in Savers : saving[w] # "idle" ~> saving[w] = "idle"
=============================================================================
