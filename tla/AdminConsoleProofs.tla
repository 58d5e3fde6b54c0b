------------------------- MODULE AdminConsoleProofs -------------------------
(***************************************************************************)
(* Theorems about the admin console and the server together, for any       *)
(* number of books and concurrent calls.  That the console uses the server *)
(* rightly holds for every admin and fault; what is proved of links wants  *)
(* that no statement fails under a live call, and what is proved of READY  *)
(* books and of Publishing an admin who waits and refreshes, too.          *)
(***************************************************************************)
EXTENDS PublishingRefinement, ProcessingProofs

LEMMA ConsoleStep == [ConsoleNext]_consoleVars => [Next]_vars
<1> SUFFICES ASSUME [ConsoleNext]_consoleVars
             PROVE  [Next]_vars
  OBVIOUS
<1>1. CASE Admin
  BY <1>1 DEF Admin, Refresh, Create, OpenPage, PutFile, FilePut, FileLost, Press,
     PressInVain,
              Next, Request
<1>2. CASE \E r \in Runs : Serve(r) \/ Cancel(r)
  BY <1>2 DEF Next
<1>3. CASE Crash
  BY <1>3 DEF Next
<1>4. CASE UNCHANGED consoleVars
  BY <1>4 DEF consoleVars, vars
<1> QED
  BY <1>1, <1>2, <1>3, <1>4 DEF ConsoleNext

LEMMA ConsoleInitType == ConsoleInit => ConsoleTypeOK
BY InitType DEF ConsoleInit, ConsoleTypeOK

LEMMA ConsoleNextType ==
    ConsoleTypeOK /\ [ConsoleNext]_consoleVars => ConsoleTypeOK'
<1> SUFFICES ASSUME ConsoleTypeOK, [ConsoleNext]_consoleVars
             PROVE  ConsoleTypeOK'
  OBVIOUS
<1>1. TypeOK'
  BY ConsoleStep, NextType DEF ConsoleTypeOK
<1>2. listed' \in [Books -> Status \cup {"ABSENT"}]
  <2>1. CASE Refresh
    BY <2>1 DEF Refresh, ConsoleTypeOK, TypeOK, Rows
  <2>2. ASSUME NEW b \in Books, Create(b)
        PROVE  listed' \in [Books -> Status \cup {"ABSENT"}]
    BY <2>2 DEF Create, ConsoleTypeOK, Status
  <2>3. CASE UNCHANGED listed
    BY <2>3 DEF ConsoleTypeOK
  <2> QED
    BY <2>1, <2>2, <2>3 DEF ConsoleNext, Admin, OpenPage, PutFile, FilePut, FileLost, Press,
                            PressInVain, consoleVars
<1> QED
  BY <1>1, <1>2 DEF ConsoleTypeOK

\* The catalog and the server keep their types in every step.
THEOREM ConsoleTypes == ConsoleSpec => []ConsoleTypeOK
<1>1. ConsoleInit => ConsoleTypeOK
  BY ConsoleInitType
<1>2. ConsoleTypeOK /\ [ConsoleNext]_consoleVars => ConsoleTypeOK'
  BY ConsoleNextType
<1> QED
  BY <1>1, <1>2, PTL DEF ConsoleSpec

-----------------------------------------------------------------------------
\* Whatever the pages let through is a request the server of Processing knows:
\* what holds of the server holds behind the console.
THEOREM ConsoleUsesProcessing == ConsoleSpec => Spec
<1>1. ConsoleInit => Init
  BY DEF ConsoleInit
<1> QED
  BY <1>1, ConsoleStep, PTL DEF ConsoleSpec, Spec

\* So texts agree until the first fault, however often an admin presses and
\* whatever the listing shows by then ...
THEOREM ConsoleTextsAgree == ConsoleSpec => []TextsAgree
BY ConsoleUsesProcessing, ProcessingTextsAgree

\* ... and no press and no fault takes a transcript from a book that has one.
THEOREM ConsoleKeepsTranscripts == ConsoleSpec => TranscriptKept
BY ConsoleUsesProcessing, ProcessingKeepsTranscripts

-----------------------------------------------------------------------------
(* The invariant behind StatusBackedByAudio and LinkKept: what the catalog *)
(* has listed, and what each call carries, is backed by the S3 link too.   *)

Linked(b) == row[b].cover = "s3"

RowLinked(b) ==
    /\ row[b].status \in Published => Linked(b)
    /\ Linked(b) => object[b] # "none"
    /\ row[b].status = "ABSENT" => ~Linked(b)

BookLinked(b) ==
    /\ RowLinked(b)
    /\ listed[b] \in Published => Linked(b)

\* A call that has been through the callback that saves the link.
PastLink(c) ==
    \/ c.pc \in {"status", "transcribe", "summarize", "save", "reply"}
    \/ c.pc = "data" /\ c.at # "UploadComplete"

CallLinked(c) ==
    \/ c.pc = "idle"
    \/ /\ row[c.book].status # "ABSENT"
       /\ c.url = "s3" => object[c.book] # "none"
       /\ c.stage # "AUDIO" => c.url = "s3" /\ Linked(c.book)
       /\ c.pc \notin {"mark", "upload"} => c.url = "s3"
       /\ PastLink(c) /\ c.ctx = "live" => Linked(c.book)

LinkInv ==
    /\ ConsoleTypeOK
    /\ \A b \in Books : BookLinked(b)
    /\ \A r \in Runs : CallLinked(run[r])

\* Rows, links and objects, once there, stay.
BookStays(b) ==
    /\ row[b].status # "ABSENT" => row'[b].status # "ABSENT"
    /\ Linked(b) => Linked(b)'
    /\ object[b] # "none" => object'[b] # "none"

LEMMA StatementWorks ==
    ASSUME "write" \notin FaultKinds, NEW r, FailsQuietly(r)
    PROVE  run[r].ctx = "cancelled"
BY DEF FailsQuietly, Fault

LEMMA StepStays ==
    ASSUME LinkInv, [Next]_vars, NEW b \in Books
    PROVE  BookStays(b)
<1>1. /\ row \in [Books -> Rows] /\ row[b] \in Rows
      /\ object \in [Books -> Contents \cup {"none"}]
  BY DEF LinkInv, ConsoleTypeOK, TypeOK
<1>2. CASE UNCHANGED <<row, object>>
  BY <1>2 DEF BookStays, Linked
<1>3. ASSUME NEW c \in Books, CreateUploadURL(c)
      PROVE  BookStays(b)
  BY <1>1, <1>3 DEF CreateUploadURL, EnsureStarted, BookStays, Linked, LinkInv,
     BookLinked, RowLinked
<1>4. ASSUME NEW r \in Runs, Upload(r)
      PROVE  BookStays(b)
  BY <1>1, <1>4 DEF Upload, BookStays, Linked, Stored
<1>5. ASSUME NEW r \in Runs, Statement(r)
      PROVE  BookStays(b)
  <2>1. CallLinked(run[r])
    BY DEF LinkInv
  <2>2. CASE Mark(r)
    <3>1. run[r].stage # "ABSENT"
      BY DEF LinkInv, ConsoleTypeOK, TypeOK, CallRecords, Stages
    <3> QED
      BY <1>1, <2>2, <3>1 DEF Mark, BookStays, Linked, Rows
  <2>3. CASE CallbackData(r)
    <3>1. run[r].url = "s3"
      BY <2>1, <2>3 DEF CallbackData, CallLinked
    <3> QED
      BY <1>1, <2>3, <3>1 DEF CallbackData, BookStays, Linked, Rows
  <2>4. CASE CallbackStatus(r)
    BY <1>1, <2>4 DEF CallbackStatus, BookStays, Linked, Rows
  <2>5. CASE Save(r)
    <3>1. run[r].url = "s3"
      BY <2>1, <2>5 DEF Save, CallLinked
    <3> QED
      BY <1>1, <2>5, <3>1 DEF Save, BookStays, Linked, Rows
  <2>6. CASE MarkFails(r) \/ Reply(r)
    BY <1>2, <2>6 DEF MarkFails, Reply
  <2> QED
    BY <1>5, <2>2, <2>3, <2>4, <2>5, <2>6 DEF Statement
<1> QED
  BY <1>2, <1>3, <1>4, <1>5
  DEF Next, Request, GetUploadURL, EnsureStarted, PutBegins, PutEnds, PutBreaks, Accept,
  AcceptNothing, Serve, Pipeline,
      Transcribe, Summarize, PipelineFails, Cancel, Crash, vars

\* A call that is not moved keeps what it relies on.
LEMMA CallStays ==
    ASSUME LinkInv, [Next]_vars, NEW r \in Runs, run'[r] = run[r]
    PROVE  CallLinked(run[r])'
<1>1. CallLinked(run[r]) /\ run[r].book \in Books
  BY DEF LinkInv, ConsoleTypeOK, TypeOK, CallRecords
<1> PICK b \in Books : b = run[r].book
  BY <1>1
<1>2. BookStays(b)
  BY StepStays
<1> QED
  BY <1>1, <1>2 DEF CallLinked, BookStays, Linked, PastLink

LEMMA GotoFields ==
    ASSUME TypeOK, NEW r \in Runs, NEW pc, NEW at, Goto(r, pc, at)
    PROVE  /\ run'[r].pc = pc /\ run'[r].at = at
           /\ run'[r].book = run[r].book /\ run'[r].stage = run[r].stage
           /\ run'[r].url = run[r].url /\ run'[r].ctx = run[r].ctx
           /\ \A s \in Runs : s # r => run'[s] = run[s]
BY DEF Goto, TypeOK, CallRecords

LEMMA StatementMoves ==
    ASSUME "write" \notin FaultKinds, LinkInv, [Next]_vars,
           NEW r \in Runs, Statement(r)
    PROVE  CallLinked(run[r])'
<1>1. TypeOK /\ CallLinked(run[r]) /\ run[r] \in CallRecords
  BY DEF LinkInv, ConsoleTypeOK, TypeOK
<1> PICK b \in Books : b = run[r].book
  BY <1>1 DEF CallRecords
<1>2. BookStays(b) /\ BookLinked(b) /\ row \in [Books -> Rows]
  BY <1>1, StepStays DEF LinkInv, TypeOK
<1>3. ASSUME NEW pc, NEW at, Goto(r, pc, at), run[r].pc # "idle", pc # "idle",
             pc \in {"mark", "upload"} \/ run[r].url = "s3",
             \/ pc \in {"mark", "upload"}
             \/ pc = "data" /\ at = "UploadComplete"
             \/ run[r].ctx # "live"
             \/ Linked(b)'
      PROVE  CallLinked(run[r])'
  <2>1. /\ run'[r].pc = pc /\ run'[r].at = at /\ run'[r].book = b
        /\ run'[r].stage = run[r].stage /\ run'[r].url = run[r].url
        /\ run'[r].ctx = run[r].ctx
    BY <1>1, <1>3, GotoFields
  <2> QED
    BY <1>1, <1>2, <1>3, <2>1 DEF CallLinked, BookStays, PastLink, Linked
<1>4. ASSUME NEW answer, run' = [run EXCEPT ![r] = Idle(answer)]
      PROVE  CallLinked(run[r])'
  <2>1. run'[r].pc = "idle"
    BY <1>1, <1>4 DEF Idle, TypeOK
  <2> QED
    BY <2>1 DEF CallLinked
<1>5. CASE Mark(r)
  <2>1. run[r].stage # "AUDIO" => run[r].url = "s3" /\ Linked(b)
    BY <1>1, <1>5 DEF Mark, CallLinked
  <2>2. run[r].stage # "AUDIO" => Linked(b)'
    BY <1>2, <2>1 DEF BookStays
  <2> QED
    BY <1>3, <1>5, <2>1, <2>2 DEF Mark, BeginStage
<1>6. CASE CallbackData(r)
  <2>1. run[r].url = "s3"
    BY <1>1, <1>6 DEF CallbackData, CallLinked
  <2>2. run[r].ctx = "live" => Linked(b)'
    <3>1. CASE run[r].ctx = "live" /\ OnUrl(r)
      <4>1. row' = [row EXCEPT ![b].cover = run[r].url]
        BY <1>6, <3>1, StatementWorks DEF CallbackData
      <4>2. row[b] \in Rows
        BY <1>2
      <4>3. row'[b] = [row[b] EXCEPT !.cover = run[r].url]
        BY <1>2, <4>1
      <4>4. row'[b].cover = run[r].url
        BY <4>2, <4>3 DEF Rows
      <4> QED
        BY <2>1, <4>4 DEF Linked
    <3>2. CASE run[r].ctx = "live" /\ ~OnUrl(r)
      BY <1>1, <1>2, <1>6, <3>2
      DEF CallbackData, CallLinked, PastLink, OnUrl, BookStays
    <3> QED
      BY <3>1, <3>2
  <2>3. Goto(r, "status", run[r].at)
    BY <1>6 DEF CallbackData
  <2> QED
    BY <1>3, <1>6, <2>1, <2>2, <2>3 DEF CallbackData
<1>7. CASE CallbackStatus(r)
  <2>1. run[r].url = "s3" /\ (run[r].ctx = "live" => Linked(b))
    BY <1>1, <1>7 DEF CallbackStatus, CallLinked, PastLink
  <2> QED
    BY <1>2, <1>3, <1>7, <2>1 DEF CallbackStatus, AfterCallback, BookStays
<1>8. CASE Save(r)
  <2>1. run[r].url = "s3" /\ (run[r].ctx = "live" => Linked(b))
    BY <1>1, <1>8 DEF Save, CallLinked, PastLink
  <2> QED
    BY <1>2, <1>3, <1>8, <2>1 DEF Save, BookStays
<1>9. CASE MarkFails(r) \/ Reply(r)
  BY <1>4, <1>9 DEF MarkFails, Reply
<1> QED
  BY <1>5, <1>6, <1>7, <1>8, <1>9 DEF Statement

LEMMA PipelineMoves ==
    ASSUME LinkInv, [Next]_vars, NEW r \in Runs, Pipeline(r) \/ PipelineFails(r)
    PROVE  CallLinked(run[r])'
<1>1. TypeOK /\ CallLinked(run[r]) /\ run[r] \in CallRecords
  BY DEF LinkInv, ConsoleTypeOK, TypeOK
<1> PICK b \in Books : b = run[r].book
  BY <1>1 DEF CallRecords
<1>2. BookStays(b)
  BY <1>1, StepStays
<1>3. CASE Upload(r)
  <2>1. object'[b] # "none"
    <3>1. object' = [object EXCEPT ![b] = Stored(file[b])] /\ file[b] # "none"
      BY <1>3 DEF Upload
    <3>2. Stored(file[b]) # "none"
      BY <3>1 DEF Stored
    <3>3. object \in [Books -> Contents \cup {"none"}]
      BY <1>1 DEF TypeOK
    <3> QED
      BY <3>1, <3>2, <3>3
  <2>2. run'[r] = [run[r] EXCEPT !.pc = "data", !.at = "UploadComplete",
                                 !.url = "s3"]
    BY <1>1, <1>3 DEF Upload, TypeOK
  <2>3. /\ run'[r].pc = "data" /\ run'[r].at = "UploadComplete"
        /\ run'[r].url = "s3" /\ run'[r].book = b
        /\ run'[r].stage = run[r].stage
    BY <1>1, <2>2 DEF CallRecords
  <2>4. run[r].stage # "AUDIO" => Linked(b)'
    BY <1>1, <1>2, <1>3 DEF Upload, CallLinked, BookStays
  <2>5. row'[b].status # "ABSENT"
    BY <1>1, <1>2, <1>3 DEF Upload, CallLinked, BookStays
  <2> QED
    BY <2>1, <2>3, <2>4, <2>5 DEF CallLinked, PastLink, Linked
<1>4. CASE Transcribe(r)
  <2>1. run'[r] = [run[r] EXCEPT !.pc = "data", !.at = "TranscriptComplete",
                     !.text = TranscriptOf(object[b], run[r].provider)]
    BY <1>1, <1>4 DEF Transcribe, TypeOK
  <2>2. /\ run'[r].pc = "data" /\ run'[r].url = run[r].url /\ run'[r].book = b
        /\ run'[r].stage = run[r].stage /\ run'[r].ctx = run[r].ctx
    BY <1>1, <2>1 DEF CallRecords
  <2> QED
    BY <1>1, <1>2, <1>4, <2>2
    DEF Transcribe, CallLinked, BookStays, PastLink, Linked
<1>5. CASE Summarize(r)
  <2>1. /\ run'[r].pc = "save" /\ run'[r].url = run[r].url /\ run'[r].book = b
        /\ run'[r].stage = run[r].stage /\ run'[r].ctx = run[r].ctx
    BY <1>1, <1>5, GotoFields DEF Summarize
  <2> QED
    BY <1>1, <1>2, <1>5, <2>1
    DEF Summarize, CallLinked, BookStays, PastLink, Linked
<1>6. CASE PipelineFails(r)
  <2>1. run'[r].pc = "idle"
    BY <1>1, <1>6 DEF PipelineFails, Idle, TypeOK
  <2> QED
    BY <2>1 DEF CallLinked
<1> QED
  BY <1>3, <1>4, <1>5, <1>6 DEF Pipeline

LEMMA ServeLinks ==
    ASSUME "write" \notin FaultKinds, LinkInv, NEW r \in Runs, Serve(r),
           NEW s \in Runs
    PROVE  CallLinked(run[s])'
<1>1. [Next]_vars
  BY DEF Next
<1>2. CASE s = r
  BY <1>1, <1>2, StatementMoves, PipelineMoves DEF Serve
<1>3. CASE s # r
  <2>1. run'[s] = run[s]
    BY <1>3
    DEF Serve, Statement, Mark, BeginStage, MarkFails, CallbackData,
        CallbackStatus, AfterCallback, Save, Reply, Pipeline, Upload, Transcribe,
        Summarize, PipelineFails, Goto, LinkInv, ConsoleTypeOK, TypeOK
  <2> QED
    BY <1>1, <2>1, CallStays
<1> QED
  BY <1>2, <1>3

LEMMA FaultLinks ==
    ASSUME LinkInv, Crash \/ \E r \in Runs : Cancel(r), NEW s \in Runs
    PROVE  CallLinked(run[s])'
<1>1. [Next]_vars /\ run \in [Runs -> CallRecords] /\ run[s] \in CallRecords
  BY DEF Next, LinkInv, ConsoleTypeOK, TypeOK
<1>2. CASE run'[s] = run[s]
  BY <1>1, <1>2, CallStays
<1>3. CASE run'[s] = Idle("error")
  BY <1>3 DEF Idle, CallLinked
<1>4. CASE run'[s] = [run[s] EXCEPT !.ctx = "cancelled"]
  <2>1. CallLinked(run[s]) /\ run[s].book \in Books
    BY <1>1 DEF LinkInv, CallRecords
  <2> PICK b \in Books : b = run[s].book
    BY <2>1
  <2>2. BookStays(b)
    BY <1>1, StepStays
  <2>3. /\ run'[s].pc = run[s].pc /\ run'[s].url = run[s].url
        /\ run'[s].book = run[s].book /\ run'[s].stage = run[s].stage
        /\ run'[s].ctx = "cancelled"
    BY <1>1, <1>4 DEF CallRecords
  <2> QED
    BY <2>1, <2>2, <2>3 DEF CallLinked, BookStays, Linked, PastLink
<1>5. run'[s] \in {run[s], Idle("error"), [run[s] EXCEPT !.ctx = "cancelled"]}
  BY <1>1 DEF Crash, Cancel
<1> QED
  BY <1>2, <1>3, <1>4, <1>5

\* The admin never makes the server skip an upload that is still owed.
LEMMA StageLinked ==
    ASSUME LinkInv, NEW b \in Books, NEW stage, MayPress(b),
           stage \in Offered(listed[b]), row[b].status # "ABSENT",
           StageFor(row[b], stage) # "AUDIO"
    PROVE  Linked(b)
<1>1. /\ row[b] \in Rows /\ listed[b] \in Status \cup {"ABSENT"}
      /\ BookLinked(b)
  BY DEF LinkInv, ConsoleTypeOK, TypeOK
<1>2. CASE listed[b] \in Published
  BY <1>1, <1>2 DEF BookLinked
<1>3. CASE listed[b] = "AUDIO"
  BY <1>3 DEF Offered, StageFor, Stages
<1>4. CASE listed[b] = "UNSPECIFIED"
  <2>1. stage = "UNSPECIFIED"
    BY <1>4 DEF Offered
  <2>2. row[b].status \notin {"UNSPECIFIED", "AUDIO"}
    BY <2>1 DEF StageFor, Stages
  <2>3. row[b].status \in Published
    BY <1>1, <2>2 DEF Rows, Status, Stages, Published
  <2> QED
    BY <1>1, <2>3 DEF BookLinked, RowLinked
<1> QED
  BY <1>1, <1>2, <1>3, <1>4 DEF MayPress, Status, Stages, Published

LEMMA AdminLinks ==
    ASSUME LinkInv, Admin, NEW s \in Runs
    PROVE  CallLinked(run[s])'
<1>1. [Next]_vars /\ run \in [Runs -> CallRecords]
  BY ConsoleStep DEF ConsoleNext, LinkInv, ConsoleTypeOK, TypeOK
<1>2. CASE run'[s] = run[s]
  BY <1>1, <1>2, CallStays
<1>3. ASSUME NEW b \in Books, NEW stage \in Stages \cup {NoForce},
             NEW p \in Providers, Press(s, b, stage, p)
      PROVE  CallLinked(run[s])'
  <2>1. /\ run'[s] = NewCall(b, stage, p)
        /\ UNCHANGED <<row, object>>
    BY <1>1, <1>3 DEF Press, Accept
  <2>2. /\ run'[s].pc = "mark" /\ run'[s].book = b
        /\ run'[s].stage = StageFor(row[b], stage)
        /\ run'[s].url = row[b].cover
    BY <2>1 DEF NewCall
  <2>3. BookLinked(b)
    BY DEF LinkInv
  <2>4. StageFor(row[b], stage) # "AUDIO" => Linked(b)
    BY <1>3, StageLinked DEF Press, Accept
  <2>5. row[b].status # "ABSENT"
    BY <1>3 DEF Press, Accept
  <2> QED
    BY <2>1, <2>2, <2>3, <2>4, <2>5
    DEF CallLinked, BookLinked, RowLinked, Linked, PastLink
<1>4. ASSUME NEW b \in Books, NEW stage, PressInVain(s, b, stage)
      PROVE  CallLinked(run[s])'
  <2>1. run'[s].pc = "idle"
    BY <1>1, <1>4 DEF PressInVain, AcceptNothing, Idle
  <2> QED
    BY <2>1 DEF CallLinked
<1> QED
  BY <1>1, <1>2, <1>3, <1>4
  DEF Admin, Refresh, Create, CreateUploadURL, EnsureStarted, OpenPage, GetUploadURL,
  PutFile, PutBegins, FilePut,
      PutEnds, FileLost, PutBreaks, Press, Accept, PressInVain, AcceptNothing, vars

LEMMA StatementLinksRow ==
    ASSUME "write" \notin FaultKinds, LinkInv, NEW r \in Runs, Statement(r),
           NEW b \in Books
    PROVE  RowLinked(b)'
<1>1. /\ TypeOK /\ CallLinked(run[r]) /\ RowLinked(b)
      /\ row \in [Books -> Rows] /\ row[b] \in Rows
      /\ run[r].stage \in Stages
  BY DEF LinkInv, BookLinked, ConsoleTypeOK, TypeOK, CallRecords
<1>2. BookStays(b)
  BY StepStays DEF Next, Serve
<1>3. CASE row'[b] = row[b]
  BY <1>1, <1>2, <1>3 DEF RowLinked, BookStays, Linked
<1>4. ASSUME run[r].book = b, Mark(r)
      PROVE  RowLinked(b)'
  <2>1. row'[b].cover = row[b].cover /\ row'[b].status = run[r].stage
    BY <1>1, <1>4 DEF Mark, Rows
  <2> QED
    BY <1>1, <1>2, <1>4, <2>1
    DEF Mark, CallLinked, RowLinked, BookStays, Linked, Published, Stages
<1>5. ASSUME run[r].book = b, CallbackData(r), row' # row
      PROVE  RowLinked(b)'
  <2>1. run[r].url = "s3" /\ object[b] # "none"
    BY <1>1, <1>5 DEF CallbackData, CallLinked
  <2>2. CASE row' = [row EXCEPT ![b].cover = run[r].url]
    <3>1. row'[b].cover = "s3" /\ row'[b].status = row[b].status
      BY <1>1, <2>1, <2>2 DEF Rows
    <3>2. row[b].status # "ABSENT"
      BY <1>1, <1>5 DEF CallbackData, CallLinked
    <3> QED
      BY <1>2, <2>1, <3>1, <3>2 DEF RowLinked, BookStays, Linked
  <2>3. CASE row' = [row EXCEPT ![b].transcript = run[r].text]
    <3>1. row'[b].cover = row[b].cover /\ row'[b].status = row[b].status
      BY <1>1, <2>3 DEF Rows
    <3> QED
      BY <1>1, <1>2, <3>1 DEF RowLinked, BookStays, Linked
  <2> QED
    BY <1>5, <2>2, <2>3 DEF CallbackData
<1>6. ASSUME run[r].book = b, CallbackStatus(r), row' # row
      PROVE  RowLinked(b)'
  <2>1. row'[b].cover = row[b].cover /\ row'[b].status \in Published
    BY <1>1, <1>6 DEF CallbackStatus, Rows, Published
  <2>2. Linked(b)
    BY <1>1, <1>6 DEF CallbackStatus, Succeeds, FailsQuietly, CallLinked, PastLink
  <2> QED
    BY <1>1, <1>2, <2>1, <2>2 DEF RowLinked, BookStays, Linked, Published
<1>7. ASSUME run[r].book = b, Save(r), row' # row
      PROVE  RowLinked(b)'
  <2>1. run[r].url = "s3" /\ object[b] # "none"
    BY <1>1, <1>7 DEF Save, CallLinked
  <2>2. row'[b].cover = "s3" /\ row'[b].status = "READY"
    BY <1>1, <1>7, <2>1 DEF Save
  <2> QED
    BY <1>2, <2>1, <2>2 DEF RowLinked, BookStays, Linked
<1>8. \/ row'[b] = row[b]
      \/ row' # row /\ run[r].book = b /\ ~MarkFails(r) /\ ~Reply(r)
  BY <1>1 DEF Statement, Mark, MarkFails, CallbackData, CallbackStatus, Save, Reply
<1> QED
  BY <1>3, <1>4, <1>5, <1>6, <1>7, <1>8 DEF Statement

LEMMA BookLinks ==
    ASSUME "write" \notin FaultKinds, LinkInv, [ConsoleNext]_consoleVars,
           NEW b \in Books
    PROVE  BookLinked(b)'
<1>1. BookLinked(b) /\ BookStays(b) /\ ConsoleTypeOK
  BY ConsoleStep, StepStays DEF LinkInv
<1>2. RowLinked(b)'
  <2>1. CASE UNCHANGED row
    BY <1>1, <2>1 DEF BookLinked, RowLinked, BookStays, Linked
  <2>2. ASSUME NEW c \in Books, Create(c)
        PROVE  RowLinked(b)'
    <3>1. CASE c = b
      <4>1. row'[b].cover = "upload" /\ row'[b].status = "UNSPECIFIED"
        BY <1>1, <2>2, <3>1
        DEF Create, CreateUploadURL, EnsureStarted, ConsoleTypeOK, TypeOK, Rows
      <4> QED
        BY <4>1 DEF RowLinked, Linked, Published
    <3>2. CASE c # b
      <4>1. row'[b] = row[b] /\ object' = object
        BY <1>1, <2>2, <3>2 DEF Create, CreateUploadURL, EnsureStarted, ConsoleTypeOK,
           TypeOK
      <4> QED
        BY <1>1, <4>1 DEF BookLinked, RowLinked, Linked
    <3> QED
      BY <3>1, <3>2
  <2>3. ASSUME NEW r \in Runs, Statement(r)
        PROVE  RowLinked(b)'
    BY <2>3, StatementLinksRow
  <2> QED
    BY <2>1, <2>2, <2>3
    DEF ConsoleNext, Admin, Refresh, OpenPage, GetUploadURL, EnsureStarted, PutFile,
    PutBegins, FilePut, PutEnds,
        FileLost, PutBreaks, Press,
        Accept, PressInVain, AcceptNothing, Serve, Pipeline, Upload, Transcribe,
        Summarize, PipelineFails, Cancel, Crash, consoleVars, vars
<1>3. listed'[b] \in Published => Linked(b)'
  <2>1. CASE Refresh
    <3>1. listed'[b] \in {row[b].status, "ABSENT"} /\ UNCHANGED vars
      BY <2>1 DEF Refresh
    <3> QED
      BY <1>1, <3>1 DEF vars, BookLinked, RowLinked, Linked, Published
  <2>2. ASSUME NEW c \in Books, Create(c)
        PROVE  listed'[b] \in Published => Linked(b)'
    BY <1>1, <2>2
    DEF Create, ConsoleTypeOK, BookLinked, BookStays, Published
  <2>3. CASE UNCHANGED listed
    BY <1>1, <2>3 DEF BookLinked, BookStays
  <2> QED
    BY <2>1, <2>2, <2>3
    DEF ConsoleNext, Admin, OpenPage, PutFile, FilePut, FileLost, Press, PressInVain,
    consoleVars
<1> QED
  BY <1>2, <1>3 DEF BookLinked

LEMMA LinkInit == ConsoleInit => LinkInv
<1> SUFFICES ASSUME ConsoleInit
             PROVE  LinkInv
  OBVIOUS
<1>1. ConsoleTypeOK
  BY ConsoleInitType
<1>2. \A b \in Books : BookLinked(b)
  BY DEF ConsoleInit, Init, NoRow, BookLinked, RowLinked, Linked, Published
<1>3. \A r \in Runs : CallLinked(run[r])
  BY DEF ConsoleInit, Init, Idle, CallLinked
<1> QED
  BY <1>1, <1>2, <1>3 DEF LinkInv

LEMMA LinkNext ==
    ASSUME "write" \notin FaultKinds, LinkInv, [ConsoleNext]_consoleVars
    PROVE  LinkInv'
<1>1. ConsoleTypeOK'
  BY ConsoleNextType DEF LinkInv
<1>2. ASSUME NEW b \in Books
      PROVE  BookLinked(b)'
  BY BookLinks
<1>3. ASSUME NEW s \in Runs
      PROVE  CallLinked(run[s])'
  <2>1. CASE Admin
    BY <2>1, AdminLinks
  <2>2. ASSUME NEW r \in Runs, Serve(r)
        PROVE  CallLinked(run[s])'
    BY <2>2, ServeLinks
  <2>3. CASE Crash \/ \E r \in Runs : Cancel(r)
    BY <2>3, FaultLinks
  <2>4. CASE UNCHANGED consoleVars
    BY <2>4, ConsoleStep, CallStays DEF consoleVars
  <2> QED
    BY <2>1, <2>2, <2>3, <2>4 DEF ConsoleNext
<1> QED
  BY <1>1, <1>2, <1>3 DEF LinkInv

\* A status past AUDIO is backed by the S3 link and the object, whatever
\* calls run at once, crash or lose their client, as long as no statement
\* fails under a live call.
THEOREM ConsoleStatusBacked ==
    ASSUME "write" \notin FaultKinds
    PROVE  ConsoleSpec => []StatusBackedByAudio
<1>1. ConsoleInit => LinkInv
  BY LinkInit
<1>2. LinkInv /\ [ConsoleNext]_consoleVars => LinkInv'
  BY LinkNext
<1>3. LinkInv => StatusBackedByAudio
  BY DEF LinkInv, BookLinked, RowLinked, Linked, StatusBackedByAudio
<1> QED
  BY <1>1, <1>2, <1>3, PTL DEF ConsoleSpec

\* Once the row holds the S3 link, no step puts the upload path back.
THEOREM ConsoleKeepsLinks ==
    ASSUME "write" \notin FaultKinds
    PROVE  ConsoleSpec => LinkKept
<1>1. ConsoleInit => LinkInv
  BY LinkInit
<1>2. LinkInv /\ [ConsoleNext]_consoleVars => LinkInv'
  BY LinkNext
<1>3. LinkInv /\ [ConsoleNext]_consoleVars
        => [\A b \in Books : row[b].cover = "s3" => row'[b].cover = "s3"]_consoleVars
  BY ConsoleStep, StepStays DEF BookStays, Linked
<1> QED
  BY <1>1, <1>2, <1>3, PTL DEF ConsoleSpec, LinkKept

-----------------------------------------------------------------------------
(* What an admin who waits and refreshes can rely on: each call has its    *)
(* book for itself, and as long as its client is there the row shows how   *)
(* far it has come.                                                        *)

RowText(b) == \E p \in Providers : row[b].transcript = TranscriptOf(object[b], p)

BookRight(b) ==
    /\ row[b].status # "ABSENT" => row[b].cover # "none"
    /\ object[b] \in Audio \cup {"none"}
    /\ row[b].status \in {"SUMMARY", "READY"} => RowText(b)
    /\ row[b].status = "READY" => row[b].description = Describe(row[b].transcript)

OneCall ==
    \A r, s \in Runs :
        Active(r) /\ Active(s) /\ run[r].book = run[s].book => r = s

\* The states the pipeline may have reported last at each step of a call.
Placed(c) ==
    /\ c.pc \in {"mark", "upload"} => c.at = "Start"
    /\ c.pc \in {"data", "status"} => c.at \in {"UploadComplete", "TranscriptStarted",
                                               "TranscriptComplete", "SummaryStart"}
    /\ c.pc = "transcribe" => c.at = "TranscriptStarted"
    /\ c.pc = "summarize" => c.at = "SummaryStart"
    /\ c.pc \in {"save", "reply"} => c.at = "Done"

\* The status of the row while the call is past its mark and not cancelled.
Shown(c) ==
    CASE c.pc = "reply" -> "READY"
      [] c.pc # "reply" /\ c.at \in {"Start", "UploadComplete"} -> "AUDIO"
      [] c.pc # "reply" /\ c.at \in {"TranscriptStarted", "TranscriptComplete"} -> "TRANSCRIPT"
      [] OTHER -> "SUMMARY"

HasText(c) == c.at \in {"TranscriptComplete", "SummaryStart", "Done"}

MarkRight(c) ==
    /\ row[c.book].status # "ABSENT"
    /\ PhaseOf(c.stage) <= PhaseOf(row[c.book].status)
    /\ c.stage = "SUMMARY" => c.text = row[c.book].transcript

LiveRight(c) ==
    /\ row[c.book].status = Shown(c)
    /\ HasText(c) =>
          /\ \E p \in Providers : c.text = TranscriptOf(object[c.book], p)
          /\ \/ c.pc = "data" /\ c.at = "TranscriptComplete"
             \/ c.text = row[c.book].transcript

CallRight(c) ==
    \/ c.pc = "idle"
    \/ /\ Placed(c)
       /\ c.pc \in {"mark", "upload"} /\ c.stage = "AUDIO" => file[c.book] \in Audio
       /\ c.pc = "upload" => c.stage = "AUDIO" /\ row[c.book].status = "AUDIO"
       /\ c.pc = "mark" => MarkRight(c)
       /\ c.pc # "mark" /\ c.ctx = "live" => LiveRight(c)

PublishInv ==
    /\ LinkInv
    /\ OneCall
    /\ \A b \in Books : BookRight(b)
    /\ \A r \in Runs : CallRight(run[r])
    /\ AnsweredMeansReady

\* The admin waits for each call, reloads the catalog before a button is
\* pressed, and no statement fails under a live call.
Patient == Waits /\ Refreshes /\ "write" \notin FaultKinds

LEMMA Phases ==
    /\ PhaseOf("ABSENT") = 0
    /\ PhaseOf("UNSPECIFIED") = 1 /\ PhaseOf("AUDIO") = 1
    /\ PhaseOf("TRANSCRIPT") = 2 /\ PhaseOf("SUMMARY") = 3 /\ PhaseOf("READY") = 4
BY DEF PhaseOf

LEMMA RowTypes ==
    ASSUME PublishInv
    PROVE  /\ TypeOK /\ row \in [Books -> Rows] /\ run \in [Runs -> CallRecords]
           /\ object \in [Books -> Contents \cup {"none"}]
           /\ file \in [Books -> Contents \cup {"none", "writing"}]
           /\ \A b \in Books : row[b] \in Rows
           /\ \A r \in Runs : run[r] \in CallRecords /\ run[r].book \in Books
BY DEF PublishInv, LinkInv, ConsoleTypeOK, TypeOK, CallRecords

\* Fields that an update of a row sets and leaves alone.
LEMMA RowFields ==
    ASSUME TypeOK, NEW b \in Books, NEW v
    PROVE  /\ LET new == [row EXCEPT ![b].status = v][b]
              IN  /\ new.status = v /\ new.cover = row[b].cover
                  /\ new.transcript = row[b].transcript
                  /\ new.description = row[b].description
           /\ LET new == [row EXCEPT ![b].cover = v][b]
              IN  /\ new.status = row[b].status /\ new.cover = v
                  /\ new.transcript = row[b].transcript
                  /\ new.description = row[b].description
           /\ LET new == [row EXCEPT ![b].transcript = v][b]
              IN  /\ new.status = row[b].status /\ new.cover = row[b].cover
                  /\ new.transcript = v
                  /\ new.description = row[b].description
<1>1. row[b] \in Rows /\ row \in [Books -> Rows]
  BY DEF TypeOK
<1> QED
  BY <1>1 DEF Rows

LEMMA GotoKeeps ==
    ASSUME TypeOK, NEW r \in Runs, NEW pc, NEW at, Goto(r, pc, at)
    PROVE  run'[r].text = run[r].text /\ run'[r].answer = run[r].answer
BY DEF Goto, TypeOK, CallRecords

LEMMA IdleCall ==
    ASSUME TypeOK, NEW r \in Runs, NEW answer, run' = [run EXCEPT ![r] = Idle(answer)]
    PROVE  /\ run'[r].pc = "idle" /\ run'[r].answer = answer
           /\ \A s \in Runs \ {r} : run'[s] = run[s]
BY DEF TypeOK, Idle

\* A book and a call that nothing is done about.
LEMMA BookUntouched ==
    ASSUME NEW b \in Books, BookRight(b), row'[b] = row[b], object'[b] = object[b]
    PROVE  BookRight(b)'
BY DEF BookRight, RowText

LEMMA CallUntouched ==
    ASSUME NEW s \in Runs, CallRight(run[s]), run'[s] = run[s],
           NEW b \in Books, b = run[s].book, row'[b] = row[b], object'[b] = object[b],
           file[b] \in Audio => file'[b] \in Audio
    PROVE  CallRight(run[s])'
BY DEF CallRight, Placed, MarkRight, LiveRight, Shown, HasText

\* What a call works on is its own.
LEMMA ServeFrame ==
    ASSUME TypeOK, NEW r \in Runs, Serve(r)
    PROVE  /\ file' = file
           /\ \A s \in Runs : s # r => run'[s] = run[s]
           /\ \A b \in Books : b # run[r].book => row'[b] = row[b] /\ object'[b] = object[b]
BY DEF Serve, Statement, Mark, BeginStage, MarkFails, CallbackData, CallbackStatus,
       AfterCallback, Save, Reply, Pipeline, Upload, Transcribe, Summarize,
       PipelineFails, Goto, TypeOK

-----------------------------------------------------------------------------
(* Each statement leaves its book and its call right. *)

LEMMA MarkStep ==
    ASSUME PublishInv, NEW r \in Runs, Mark(r), NEW b \in Books, b = run[r].book
    PROVE  BookRight(b)' /\ CallRight(run[r])'
<1>1. /\ TypeOK /\ row[b] \in Rows /\ run[r] \in CallRecords /\ run[r].stage \in Stages
      /\ row[b].status \in Status \cup {"ABSENT"}
  BY RowTypes DEF CallRecords, Rows
<1>2. /\ CallRight(run[r]) /\ BookRight(b) /\ run[r].pc = "mark"
      /\ run[r].ctx = "live"
  BY DEF PublishInv, Mark, Succeeds
<1>3. /\ row'[b].status = run[r].stage
      /\ row'[b].cover = row[b].cover /\ row'[b].transcript = row[b].transcript
      /\ row'[b].description = row[b].description
      /\ object' = object /\ file' = file
  BY <1>1, RowFields DEF Mark
<1>4. MarkRight(run[r])
  BY <1>2 DEF CallRight
<1>5. run[r].stage = "SUMMARY" => RowText(b)
  BY <1>1, <1>2, <1>4, Phases DEF MarkRight, BookRight, Status, Stages
<1>6. BookRight(b)'
  BY <1>1, <1>2, <1>3, <1>4, <1>5 DEF BookRight, RowText, MarkRight, Stages
<1>7. ASSUME NEW pc, NEW at, Goto(r, pc, at)
      PROVE  /\ run'[r].pc = pc /\ run'[r].at = at /\ run'[r].book = b
             /\ run'[r].stage = run[r].stage /\ run'[r].ctx = "live"
             /\ run'[r].text = run[r].text
  BY <1>1, <1>2, <1>7, GotoFields, GotoKeeps
<1>8. CASE run[r].stage = "AUDIO"
  <2>1. Goto(r, "upload", "Start") /\ file[b] \in Audio
    BY <1>2, <1>8 DEF Mark, BeginStage, CallRight
  <2>2. /\ run'[r].pc = "upload" /\ run'[r].at = "Start" /\ run'[r].book = b
        /\ run'[r].stage = "AUDIO"
    BY <1>7, <1>8, <2>1
  <2>3. LiveRight(run[r])'
    BY <1>3, <1>8, <2>2 DEF LiveRight, Shown, HasText
  <2> QED
    BY <1>3, <1>6, <1>8, <2>1, <2>2, <2>3 DEF CallRight, Placed
<1>9. CASE run[r].stage = "TRANSCRIPT"
  <2>1. Goto(r, "data", "TranscriptStarted")
    BY <1>9 DEF Mark, BeginStage
  <2> QED
    BY <1>3, <1>6, <1>7, <1>9, <2>1 DEF CallRight, Placed, LiveRight, Shown, HasText
<1>10. CASE run[r].stage = "SUMMARY"
  <2>1. Goto(r, "data", "SummaryStart")
    BY <1>10 DEF Mark, BeginStage
  <2>2. run[r].text = row[b].transcript
    BY <1>4, <1>10 DEF MarkRight
  <2>3. \E p \in Providers : run[r].text = TranscriptOf(object[b], p)
    BY <1>5, <1>10, <2>2 DEF RowText
  <2>4. /\ run'[r].pc = "data" /\ run'[r].at = "SummaryStart" /\ run'[r].book = b
        /\ run'[r].text = run[r].text
    BY <1>7, <2>1
  <2>5. LiveRight(run[r])'
    BY <1>3, <1>10, <2>2, <2>3, <2>4 DEF LiveRight, Shown, HasText
  <2> QED
    BY <1>6, <2>4, <2>5 DEF CallRight, Placed
<1> QED
  BY <1>1, <1>6, <1>8, <1>9, <1>10 DEF Stages

LEMMA DataStep ==
    ASSUME Patient, PublishInv, NEW r \in Runs, CallbackData(r),
           NEW b \in Books, b = run[r].book
    PROVE  BookRight(b)' /\ CallRight(run[r])'
<1>1. TypeOK /\ row[b] \in Rows /\ run[r] \in CallRecords
  BY RowTypes
<1>2. /\ CallRight(run[r]) /\ BookRight(b) /\ run[r].pc = "data" /\ Placed(run[r])
      /\ run[r].url = "s3"
  BY DEF PublishInv, CallbackData, CallRight, LinkInv, CallLinked
<1>3. /\ run'[r].pc = "status" /\ run'[r].at = run[r].at /\ run'[r].book = b
      /\ run'[r].stage = run[r].stage /\ run'[r].ctx = run[r].ctx
      /\ run'[r].text = run[r].text /\ object' = object /\ file' = file
  BY <1>1, GotoFields, GotoKeeps DEF CallbackData
<1>4. CASE run[r].ctx # "live"
  <2>1. row' = row
    BY <1>4 DEF CallbackData, Succeeds
  <2> QED
    BY <1>2, <1>3, <1>4, <2>1 DEF BookRight, RowText, CallRight, Placed
<1>5. CASE run[r].ctx = "live" /\ OnUrl(r)
  <2>1. row' = [row EXCEPT ![b].cover = run[r].url]
    BY <1>5, StatementWorks DEF CallbackData, Patient
  <2>2. /\ row'[b].status = row[b].status /\ row'[b].cover = run[r].url
        /\ row'[b].transcript = row[b].transcript
        /\ row'[b].description = row[b].description
    BY <1>1, <2>1, RowFields
  <2>3. LiveRight(run[r])
    BY <1>2, <1>5 DEF CallRight
  <2>4. BookRight(b)'
    BY <1>2, <1>3, <2>2 DEF BookRight, RowText
  <2>5. run[r].at \notin {"TranscriptComplete", "SummaryStart", "Done", "Start"}
    BY <1>5 DEF OnUrl
  <2> QED
    BY <1>2, <1>3, <1>5, <2>2, <2>3, <2>4, <2>5
    DEF CallRight, Placed, LiveRight, Shown, HasText
<1>6. CASE run[r].ctx = "live" /\ ~OnUrl(r)
  <2>1. row' = [row EXCEPT ![b].transcript = run[r].text]
    BY <1>6, StatementWorks DEF CallbackData, Patient
  <2>2. /\ row'[b].status = row[b].status /\ row'[b].cover = row[b].cover
        /\ row'[b].transcript = run[r].text
        /\ row'[b].description = row[b].description
    BY <1>1, <2>1, RowFields
  <2>3. run[r].at \in {"TranscriptComplete", "SummaryStart"} /\ LiveRight(run[r])
    BY <1>2, <1>6 DEF OnUrl, Placed, CallRight
  <2>4. /\ row[b].status # "READY"
        /\ \E p \in Providers : run[r].text = TranscriptOf(object[b], p)
    BY <1>2, <2>3 DEF LiveRight, HasText, Shown
  <2>5. BookRight(b)'
    BY <1>2, <1>3, <2>2, <2>4 DEF BookRight, RowText
  <2> QED
    BY <1>2, <1>3, <1>6, <2>2, <2>3, <2>4, <2>5
    DEF CallRight, Placed, LiveRight, Shown, HasText
<1> QED
  BY <1>4, <1>5, <1>6

LEMMA StatusStep ==
    ASSUME Patient, PublishInv, NEW r \in Runs, CallbackStatus(r),
           NEW b \in Books, b = run[r].book
    PROVE  BookRight(b)' /\ CallRight(run[r])'
<1>1. TypeOK /\ row[b] \in Rows /\ run[r] \in CallRecords
  BY RowTypes
<1>2. /\ CallRight(run[r]) /\ BookRight(b) /\ run[r].pc = "status" /\ Placed(run[r])
  BY DEF PublishInv, CallbackStatus, CallRight
<1>3. ASSUME NEW pc, NEW at, Goto(r, pc, at)
      PROVE  /\ run'[r].pc = pc /\ run'[r].at = at /\ run'[r].book = b
             /\ run'[r].stage = run[r].stage /\ run'[r].ctx = run[r].ctx
             /\ run'[r].text = run[r].text
  BY <1>1, <1>3, GotoFields, GotoKeeps
<1>4. PICK pc, at : /\ Goto(r, pc, at)
                    /\ \/ run[r].at = "UploadComplete" /\ pc = "data" /\ at = "TranscriptStarted"
                       \/ /\ run[r].at = "TranscriptStarted"
                          /\ pc = "transcribe" /\ at = "TranscriptStarted"
                       \/ run[r].at = "TranscriptComplete" /\ pc = "data" /\ at = "SummaryStart"
                       \/ run[r].at = "SummaryStart" /\ pc = "summarize" /\ at = "SummaryStart"
  BY DEF CallbackStatus, AfterCallback
<1>5. /\ run'[r].pc = pc /\ run'[r].at = at /\ run'[r].book = b
      /\ run'[r].stage = run[r].stage /\ run'[r].ctx = run[r].ctx
      /\ run'[r].text = run[r].text /\ object' = object /\ file' = file
  BY <1>3, <1>4 DEF CallbackStatus
<1>6. CASE run[r].ctx # "live"
  <2>1. row' = row
    BY <1>6 DEF CallbackStatus, Succeeds
  <2> QED
    BY <1>2, <1>4, <1>5, <1>6, <2>1 DEF BookRight, RowText, CallRight, Placed
<1>7. CASE run[r].ctx = "live"
  <2>1. row' = [row EXCEPT ![b].status = IF OnUrl(r) THEN "TRANSCRIPT" ELSE "SUMMARY"]
    BY <1>7, StatementWorks DEF CallbackStatus, Patient
  <2>2. /\ row'[b].status = (IF OnUrl(r) THEN "TRANSCRIPT" ELSE "SUMMARY")
        /\ row'[b].cover = row[b].cover /\ row'[b].transcript = row[b].transcript
        /\ row'[b].description = row[b].description
    BY <1>1, <2>1, RowFields
  <2>3. LiveRight(run[r])
    BY <1>2, <1>7 DEF CallRight
  <2>4. ~OnUrl(r) => /\ run[r].text = row[b].transcript
                     /\ \E p \in Providers : run[r].text = TranscriptOf(object[b], p)
    BY <1>2, <1>4, <2>3 DEF LiveRight, HasText, OnUrl
  <2>5. row[b].status # "ABSENT"
    BY <1>2, <2>3 DEF LiveRight, Shown
  <2>6. BookRight(b)'
    BY <1>2, <1>5, <2>2, <2>4, <2>5 DEF BookRight, RowText
  <2>7. CASE OnUrl(r)
    BY <1>2, <1>4, <1>5, <1>7, <2>2, <2>6, <2>7
    DEF CallRight, Placed, LiveRight, Shown, HasText, OnUrl
  <2>8. CASE ~OnUrl(r)
    BY <1>2, <1>4, <1>5, <1>7, <2>2, <2>4, <2>6, <2>8
    DEF CallRight, Placed, LiveRight, Shown, HasText, OnUrl
  <2> QED
    BY <2>7, <2>8
<1> QED
  BY <1>6, <1>7

LEMMA SaveStep ==
    ASSUME Patient, PublishInv, NEW r \in Runs, Save(r), NEW b \in Books, b = run[r].book
    PROVE  BookRight(b)' /\ CallRight(run[r])'
<1>1. TypeOK /\ row[b] \in Rows /\ run[r] \in CallRecords /\ row \in [Books -> Rows]
  BY RowTypes
<1>2. /\ CallRight(run[r]) /\ BookRight(b) /\ run[r].pc = "save" /\ Placed(run[r])
      /\ run[r].url = "s3"
  BY DEF PublishInv, Save, CallRight, LinkInv, CallLinked
<1>3. /\ run'[r].pc = "reply" /\ run'[r].at = "Done" /\ run'[r].book = b
      /\ run'[r].stage = run[r].stage /\ run'[r].ctx = run[r].ctx
      /\ run'[r].text = run[r].text /\ object' = object /\ file' = file
  BY <1>1, GotoFields, GotoKeeps DEF Save
<1>4. CASE run[r].ctx # "live"
  <2>1. row' = row
    BY <1>4 DEF Save, Succeeds
  <2> QED
    BY <1>2, <1>3, <1>4, <2>1 DEF BookRight, RowText, CallRight, Placed
<1>5. CASE run[r].ctx = "live"
  <2>1. row'[b] = [status |-> "READY", cover |-> run[r].url,
                   transcript |-> run[r].text,
                   description |-> Describe(run[r].text)]
    BY <1>1, <1>5, StatementWorks DEF Save, Patient
  <2>2. \E p \in Providers : run[r].text = TranscriptOf(object[b], p)
    BY <1>2, <1>5 DEF CallRight, LiveRight, HasText, Placed
  <2>3. BookRight(b)'
    BY <1>2, <1>3, <2>1, <2>2 DEF BookRight, RowText
  <2> QED
    BY <1>3, <1>5, <2>1, <2>2, <2>3
    DEF CallRight, Placed, LiveRight, Shown, HasText
<1> QED
  BY <1>4, <1>5

LEMMA PipelineStep ==
    ASSUME PublishInv, NEW r \in Runs, Pipeline(r), NEW b \in Books, b = run[r].book
    PROVE  BookRight(b)' /\ CallRight(run[r])'
<1>1. /\ TypeOK /\ row[b] \in Rows /\ run[r] \in CallRecords
      /\ object \in [Books -> Contents \cup {"none"}] /\ run[r].provider \in Providers
  BY RowTypes DEF CallRecords
<1>2. /\ CallRight(run[r]) /\ BookRight(b) /\ run[r].pc \notin {"idle", "mark"}
      /\ Placed(run[r]) /\ row' = row /\ file' = file
  BY DEF PublishInv, Pipeline, Upload, Transcribe, Summarize, CallRight
<1>3. CASE Upload(r)
  <2>1. /\ run'[r].pc = "data" /\ run'[r].at = "UploadComplete" /\ run'[r].book = b
        /\ run'[r].stage = run[r].stage /\ run'[r].ctx = run[r].ctx
    BY <1>1, <1>3 DEF Upload, CallRecords, TypeOK
  <2>2. row[b].status = "AUDIO" /\ file[b] \in Audio
    BY <1>2, <1>3 DEF Upload, CallRight
  <2>3. object'[b] \in Audio
    <3>1. object'[b] = Stored(file[b]) /\ Stored(file[b]) = file[b]
      BY <1>1, <1>3, <2>2, ProcessingAssumption DEF Upload, Stored
    <3> QED
      BY <2>2, <3>1
  <2>4. BookRight(b)'
    BY <1>2, <2>2, <2>3 DEF BookRight
  <2> QED
    BY <1>2, <2>1, <2>2, <2>4 DEF CallRight, Placed, LiveRight, Shown, HasText
<1>4. CASE Transcribe(r)
  <2>1. /\ run'[r].pc = "data" /\ run'[r].at = "TranscriptComplete" /\ run'[r].book = b
        /\ run'[r].stage = run[r].stage /\ run'[r].ctx = run[r].ctx
        /\ run'[r].text = TranscriptOf(object[b], run[r].provider) /\ object' = object
    BY <1>1, <1>4 DEF Transcribe, CallRecords, TypeOK
  <2>2. run[r].pc = "transcribe" /\ run[r].at = "TranscriptStarted"
    BY <1>2, <1>4 DEF Transcribe, Placed
  <2>3. BookRight(b)'
    BY <1>2, <2>1 DEF BookRight, RowText
  <2> QED
    BY <1>1, <1>2, <2>1, <2>2, <2>3 DEF CallRight, Placed, LiveRight, Shown, HasText
<1>5. CASE Summarize(r)
  <2>1. /\ run'[r].pc = "save" /\ run'[r].at = "Done" /\ run'[r].book = b
        /\ run'[r].stage = run[r].stage /\ run'[r].ctx = run[r].ctx
        /\ run'[r].text = run[r].text /\ object' = object
    BY <1>1, <1>5, GotoFields, GotoKeeps DEF Summarize
  <2>2. run[r].pc = "summarize" /\ run[r].at = "SummaryStart"
    BY <1>2, <1>5 DEF Summarize, Placed
  <2>3. BookRight(b)'
    BY <1>2, <2>1 DEF BookRight, RowText
  <2> QED
    BY <1>2, <2>1, <2>2, <2>3 DEF CallRight, Placed, LiveRight, Shown, HasText
<1> QED
  BY <1>3, <1>4, <1>5 DEF Pipeline

\* What the page lets through is a call that its book is ready for.
LEMMA PressStep ==
    ASSUME Patient, PublishInv, NEW r \in Runs, NEW b \in Books,
           NEW stage \in Stages \cup {NoForce}, NEW p \in Providers,
           Press(r, b, stage, p)
    PROVE  CallRight(run[r])' /\ run'[r].book = b /\ run'[r].answer = "none"
<1>1. /\ row[b] \in Rows /\ run \in [Runs -> CallRecords] /\ BookRight(b)
      /\ row[b].status \in Status \cup {"ABSENT"}
  BY RowTypes DEF PublishInv, Rows
<1>2. /\ listed[b] = row[b].status /\ row[b].status # "ABSENT"
      /\ stage \in Offered(listed[b]) /\ FileSent(b, stage)
      /\ StageFor(row[b], stage) # "NOTHING"
      /\ UNCHANGED <<row, file, object>>
  BY DEF Press, MayPress, Patient, Accept
<1>3. /\ run'[r].pc = "mark" /\ run'[r].book = b /\ run'[r].at = "Start"
      /\ run'[r].stage = StageFor(row[b], stage)
      /\ run'[r].text = row[b].transcript /\ run'[r].answer = "none"
  BY <1>1 DEF Press, Accept, NewCall
<1>4. row[b].cover # "none"
  BY <1>1, <1>2 DEF BookRight
<1>5. StageFor(row[b], stage) = "AUDIO" => file[b] \in Audio
  <2>1. CASE stage \in {"UNSPECIFIED", "AUDIO"}
    BY <1>2, <2>1 DEF FileSent, SendsFile
  <2>2. CASE stage \in {"TRANSCRIPT", "SUMMARY"}
    BY <1>4, <2>2 DEF StageFor, Stages
  <2> QED
    BY <2>1, <2>2 DEF Stages, NoForce
<1>6. PhaseOf(StageFor(row[b], stage)) <= PhaseOf(row[b].status)
  <2>1. CASE row[b].status = "READY"
    BY <1>2, <2>1, Phases DEF StageFor, Stages
  <2>2. CASE row[b].status = "UNSPECIFIED"
    BY <1>2, <2>2, Phases DEF StageFor, Stages, Offered
  <2>3. CASE row[b].status = "AUDIO"
    BY <1>2, <2>3, Phases DEF StageFor, Stages, Offered
  <2>4. CASE row[b].status = "TRANSCRIPT"
    BY <1>2, <1>4, <2>4, Phases DEF StageFor, Stages, Offered
  <2>5. CASE row[b].status = "SUMMARY"
    BY <1>2, <1>4, <2>5, Phases DEF StageFor, Stages, Offered
  <2> QED
    BY <1>1, <1>2, <2>1, <2>2, <2>3, <2>4, <2>5 DEF Status, Stages
<1>7. MarkRight(run[r])'
  BY <1>2, <1>3, <1>6 DEF MarkRight, PhaseOf
<1> QED
  BY <1>2, <1>3, <1>5, <1>7 DEF CallRight, Placed

\* A fresh listing of a READY book offers a stage to force.
LEMMA NeverInVain ==
    ASSUME Patient, PublishInv, NEW r, NEW b \in Books,
           NEW stage \in Stages \cup {NoForce}
    PROVE  ~PressInVain(r, b, stage)
<1> SUFFICES ASSUME PressInVain(r, b, stage)
             PROVE  FALSE
  OBVIOUS
<1>1. /\ listed[b] = row[b].status /\ row[b].status # "ABSENT"
      /\ stage \in Offered(listed[b]) /\ StageFor(row[b], stage) = "NOTHING"
      /\ row[b].status \in Status \cup {"ABSENT"}
  BY RowTypes DEF PressInVain, MayPress, Patient, AcceptNothing, Rows
<1>2. CASE row[b].status = "READY"
  BY <1>1, <1>2 DEF Offered, StageFor, Stages
<1>3. CASE row[b].status # "READY"
  BY <1>1, <1>3 DEF Offered, StageFor, Stages, Status
<1> QED
  BY <1>2, <1>3

\* A call with a book of its own.
LEMMA OthersElsewhere ==
    ASSUME PublishInv, NEW r \in Runs, NEW s \in Runs, r # s, Active(r), Active(s)
    PROVE  run[s].book # run[r].book
BY DEF PublishInv, OneCall

\* A call that is served leaves the other books and their calls right.
LEMMA ServeStep ==
    ASSUME Patient, PublishInv, NEW r \in Runs, Serve(r)
    PROVE  /\ \A b \in Books : BookRight(b)'
           /\ \A s \in Runs : CallRight(run[s])'
<1>1. TypeOK /\ run[r].book \in Books /\ Active(r)
  BY RowTypes
  DEF Serve, Statement, Mark, MarkFails, CallbackData, CallbackStatus, Save, Reply,
      Pipeline, Upload, Transcribe, Summarize, PipelineFails, Active
<1> PICK b \in Books : b = run[r].book
  BY <1>1
<1>2. BookRight(b)' /\ CallRight(run[r])'
  <2>1. CASE MarkFails(r) \/ Reply(r) \/ PipelineFails(r)
    <3>1. row' = row /\ object' = object /\ run'[r].pc = "idle"
      BY <1>1, <2>1, IdleCall DEF MarkFails, Reply, PipelineFails
    <3>2. BookRight(b)
      BY DEF PublishInv
    <3> QED
      BY <3>1, <3>2, BookUntouched DEF CallRight
  <2> QED
    BY <2>1, MarkStep, DataStep, StatusStep, SaveStep, PipelineStep DEF Serve, Statement
<1>3. ASSUME NEW c \in Books, c # b
      PROVE  BookRight(c)'
  BY <1>1, <1>3, ServeFrame, BookUntouched DEF PublishInv
<1>4. ASSUME NEW s \in Runs, s # r
      PROVE  CallRight(run[s])'
  <2>1. run'[s] = run[s] /\ CallRight(run[s]) /\ file' = file /\ run[s].book \in Books
    BY <1>1, <1>4, ServeFrame, RowTypes DEF PublishInv
  <2>2. CASE Active(s)
    <3>1. run[s].book # b
      BY <1>1, <1>4, <2>2, OthersElsewhere
    <3>2. row'[run[s].book] = row[run[s].book] /\ object'[run[s].book] = object[run[s].book]
      BY <1>1, <2>1, <3>1, ServeFrame
    <3> QED
      BY <2>1, <3>2, CallUntouched
  <2>3. CASE ~Active(s)
    BY <2>1, <2>3 DEF Active, CallRight
  <2> QED
    BY <2>2, <2>3
<1> QED
  BY <1>2, <1>3, <1>4

\* A call that is cancelled or ended by a restart promises less, not more.
LEMMA FaultStep ==
    ASSUME PublishInv, Crash \/ \E r \in Runs : Cancel(r)
    PROVE  /\ \A b \in Books : BookRight(b)'
           /\ \A s \in Runs : CallRight(run[s])'
<1>1. TypeOK /\ row' = row /\ object' = object
  BY RowTypes DEF Crash, Cancel
<1>2. ASSUME NEW b \in Books
      PROVE  BookRight(b)'
  BY <1>1, BookUntouched DEF PublishInv
<1>3. ASSUME NEW s \in Runs
      PROVE  CallRight(run[s])'
  <2>1. CallRight(run[s]) /\ run[s].book \in Books /\ run[s] \in CallRecords
    BY RowTypes DEF PublishInv
  <2>2. CASE Crash
    <3>1. run'[s].pc = "idle"
      BY <1>1, <2>2 DEF Crash, Idle, Active, TypeOK
    <3> QED
      BY <3>1 DEF CallRight
  <2>3. ASSUME NEW r \in Runs, Cancel(r), r # s
        PROVE  CallRight(run[s])'
    <3>1. run'[s] = run[s] /\ file' = file
      BY <1>1, <2>3 DEF Cancel, TypeOK
    <3> QED
      BY <1>1, <2>1, <3>1, CallUntouched
  <2>4. CASE Cancel(s)
    <3>1. /\ run'[s].pc = run[s].pc /\ run'[s].at = run[s].at
          /\ run'[s].book = run[s].book /\ run'[s].stage = run[s].stage
          /\ run'[s].text = run[s].text /\ run'[s].ctx = "cancelled" /\ file' = file
      BY <1>1, <2>1, <2>4 DEF Cancel, CallRecords, TypeOK
    <3> QED
      BY <1>1, <2>1, <3>1 DEF CallRight, Placed, MarkRight
  <2> QED
    BY <2>2, <2>3, <2>4
<1> QED
  BY <1>2, <1>3

\* No button takes the file or the row from under a call.
LEMMA AdminStep ==
    ASSUME Patient, PublishInv, Admin
    PROVE  /\ \A b \in Books : BookRight(b)'
           /\ \A s \in Runs : CallRight(run[s])'
<1>1. /\ TypeOK /\ \A b \in Books : BookRight(b) /\ row[b] \in Rows
      /\ \A s \in Runs : CallRight(run[s]) /\ run[s].book \in Books
      /\ file \in [Books -> Contents \cup {"none", "writing"}] /\ row \in [Books -> Rows]
  BY RowTypes DEF PublishInv
<1>2. CASE \E r \in Runs, b \in Books, stage \in Stages \cup {NoForce} :
             \/ \E p \in Providers : Press(r, b, stage, p)
             \/ PressInVain(r, b, stage)
  <2> PICK r \in Runs, b \in Books, stage \in Stages \cup {NoForce}, p \in Providers :
        Press(r, b, stage, p)
    BY <1>2, NeverInVain
  <2>1. UNCHANGED <<row, file, object>> /\ \A s \in Runs : s # r => run'[s] = run[s]
    BY <1>1 DEF Press, Accept, TypeOK
  <2> QED
    BY <1>1, <2>1, PressStep, BookUntouched, CallUntouched
<1>3. ASSUME NEW b \in Books, Create(b)
      PROVE  /\ \A c \in Books : BookRight(c)'
             /\ \A s \in Runs : CallRight(run[s])'
  <2>1. /\ row[b].status = "ABSENT" /\ UNCHANGED <<file, object, run>>
        /\ \A c \in Books : c # b => row'[c] = row[c]
        /\ row'[b].status = "UNSPECIFIED" /\ row'[b].cover = "upload"
    BY <1>1, <1>3 DEF Create, CreateUploadURL, Rows
  <2>2. BookRight(b)'
    BY <1>1, <2>1 DEF BookRight
  <2>3. ASSUME NEW s \in Runs
        PROVE  CallRight(run[s])'
    <3>1. CASE run[s].pc = "idle"
      BY <2>1, <3>1 DEF CallRight
    <3>2. CASE run[s].pc # "idle"
      <4>1. run[s].book # b
        BY <2>1, <3>2 DEF PublishInv, LinkInv, CallLinked
      <4> QED
        BY <1>1, <2>1, <4>1, CallUntouched
    <3> QED
      BY <3>1, <3>2
  <2> QED
    BY <1>1, <2>1, <2>2, <2>3, BookUntouched
<1>4. ASSUME UNCHANGED <<row, object, run>>,
             \A s \in Runs : file[run[s].book] \in Audio /\ Active(s)
                             => file'[run[s].book] \in Audio
      PROVE  /\ \A c \in Books : BookRight(c)'
             /\ \A s \in Runs : CallRight(run[s])'
  <2>1. ASSUME NEW s \in Runs
        PROVE  CallRight(run[s])'
    <3>1. CASE Active(s)
      BY <1>1, <1>4, <3>1, CallUntouched
    <3>2. CASE ~Active(s)
      BY <1>4, <3>2 DEF Active, CallRight
    <3> QED
      BY <3>1, <3>2
  <2> QED
    BY <1>1, <1>4, <2>1, BookUntouched
<1>5. CASE Refresh \/ \E b \in Books : OpenPage(b)
  BY <1>4, <1>5 DEF Refresh, OpenPage, GetUploadURL, vars
<1>6. ASSUME NEW b \in Books, PutFile(b)
      PROVE  /\ \A c \in Books : BookRight(c)'
             /\ \A s \in Runs : CallRight(run[s])'
  <2>1. /\ UNCHANGED <<row, object, run>> /\ \A c \in Books : c # b => file'[c] = file[c]
        /\ \A s \in Runs : Active(s) => run[s].book # b
    BY <1>1, <1>6 DEF PutFile, PutBegins, MayPress, Patient, Working
  <2> QED
    BY <1>1, <1>4, <2>1
<1>7. ASSUME NEW b \in Books, FileLost(b) \/ \E a \in Audio : FilePut(b, a)
      PROVE  /\ \A c \in Books : BookRight(c)'
             /\ \A s \in Runs : CallRight(run[s])'
  <2>1. /\ UNCHANGED <<row, object, run>> /\ \A c \in Books : c # b => file'[c] = file[c]
        /\ file[b] = "writing" /\ "writing" \notin Audio
    BY <1>1, <1>7, ProcessingAssumption DEF FileLost, FilePut, PutEnds, PutBreaks
  <2> QED
    BY <1>1, <1>4, <2>1
<1> QED
  BY <1>2, <1>3, <1>5, <1>6, <1>7 DEF Admin

-----------------------------------------------------------------------------
(* A book never has two calls, and a call never a wrong answer. *)

\* A step that gives no call a book leaves the calls apart.
LEMMA CallsApart ==
    ASSUME PublishInv,
           \A s \in Runs : Active(s)' => Active(s) /\ run'[s].book = run[s].book
    PROVE  OneCall'
BY DEF PublishInv, OneCall

\* A served call stays on its book and is answered with an error or READY.
LEMMA ServeOwn ==
    ASSUME PublishInv, NEW r \in Runs, Serve(r)
    PROVE  /\ Active(r)
           /\ Active(r)' => run'[r].book = run[r].book
           /\ run'[r].answer \in {"none", "error", "READY"}
<1>1. /\ TypeOK /\ run[r] \in CallRecords /\ run \in [Runs -> CallRecords]
      /\ run[r].answer \in {"none", "error", "READY"} /\ CallRight(run[r])
  BY RowTypes DEF PublishInv, AnsweredMeansReady
<1>2. ASSUME NEW pc, NEW at, Goto(r, pc, at)
      PROVE  run'[r].book = run[r].book /\ run'[r].answer = run[r].answer
  BY <1>1, <1>2, GotoFields, GotoKeeps
<1>3. CASE Mark(r) \/ CallbackData(r) \/ CallbackStatus(r) \/ Save(r) \/ Summarize(r)
  BY <1>1, <1>2, <1>3
  DEF Mark, BeginStage, CallbackData, CallbackStatus, AfterCallback, Save, Summarize,
      Active
<1>4. CASE MarkFails(r) \/ PipelineFails(r)
  BY <1>1, <1>4, IdleCall DEF MarkFails, PipelineFails, Active
<1>5. CASE Reply(r)
  <2>1. Active(r)
    BY <1>5 DEF Reply, Active
  <2>2. run[r].ctx = "live" => row[run[r].book].status = "READY"
    BY <1>1, <1>5 DEF Reply, CallRight, LiveRight, Shown
  <2> QED
    BY <1>1, <1>5, <2>1, <2>2, IdleCall DEF Reply, Active
<1>6. CASE Upload(r) \/ Transcribe(r)
  <2>1. CASE Upload(r)
    BY <1>1, <2>1 DEF Upload, CallRecords, Active
  <2>2. CASE Transcribe(r)
    BY <1>1, <2>2 DEF Transcribe, CallRecords, Active
  <2> QED
    BY <1>6, <2>1, <2>2
<1> QED
  BY <1>3, <1>4, <1>5, <1>6 DEF Serve, Statement, Pipeline

LEMMA ServeApart ==
    ASSUME PublishInv, NEW r \in Runs, Serve(r)
    PROVE  OneCall' /\ AnsweredMeansReady'
<1>1. \A s \in Runs : s # r => run'[s] = run[s]
  BY RowTypes, ServeFrame
<1>2. OneCall'
  BY <1>1, ServeOwn, CallsApart DEF Active
<1>3. AnsweredMeansReady'
  BY <1>1, ServeOwn DEF PublishInv, AnsweredMeansReady
<1> QED
  BY <1>2, <1>3

LEMMA FaultApart ==
    ASSUME PublishInv, Crash \/ \E r \in Runs : Cancel(r)
    PROVE  OneCall' /\ AnsweredMeansReady'
<1>1. ASSUME NEW s \in Runs
      PROVE  /\ Active(s)' => Active(s) /\ run'[s].book = run[s].book
             /\ run'[s].answer \in {"none", "error", "READY"}
  <2>1. /\ run \in [Runs -> CallRecords] /\ run[s] \in CallRecords
        /\ run[s].answer \in {"none", "error", "READY"}
    BY RowTypes DEF PublishInv, AnsweredMeansReady
  <2>2. CASE run'[s] = run[s]
    BY <2>1, <2>2 DEF Active
  <2>3. CASE run'[s] = Idle("error")
    BY <2>3 DEF Idle, Active
  <2>4. CASE run'[s] = [run[s] EXCEPT !.ctx = "cancelled"]
    BY <2>1, <2>4 DEF CallRecords, Active
  <2>5. run'[s] \in {run[s], Idle("error"), [run[s] EXCEPT !.ctx = "cancelled"]}
    BY <2>1 DEF Crash, Cancel
  <2> QED
    BY <2>2, <2>3, <2>4, <2>5
<1>2. OneCall'
  BY <1>1, CallsApart
<1> QED
  BY <1>1, <1>2 DEF AnsweredMeansReady

\* Only a press gives a call a book, and no call works on it then.
LEMMA AdminApart ==
    ASSUME Patient, PublishInv, Admin
    PROVE  OneCall' /\ AnsweredMeansReady'
<1>1. CASE run' = run
  <2>1. OneCall'
    BY <1>1, CallsApart DEF Active
  <2> QED
    BY <1>1, <2>1 DEF PublishInv, AnsweredMeansReady
<1>2. ASSUME NEW r \in Runs, NEW b \in Books, NEW stage \in Stages \cup {NoForce},
             NEW p \in Providers, Press(r, b, stage, p)
      PROVE  OneCall' /\ AnsweredMeansReady'
  <2>1. /\ \A s \in Runs : s # r => run'[s] = run[s]
        /\ run'[r].book = b /\ run'[r].answer = "none"
    BY <1>2, RowTypes, PressStep DEF Press, Accept
  <2>2. \A s \in Runs : Active(s) => run[s].book # b
    BY <1>2 DEF Press, MayPress, Patient, Working
  <2>3. ASSUME NEW s \in Runs, NEW t \in Runs, Active(s)', Active(t)',
               run'[s].book = run'[t].book
        PROVE  s = t
    BY <2>1, <2>2, <2>3 DEF PublishInv, OneCall, Active
  <2> QED
    BY <2>1, <2>3 DEF OneCall, PublishInv, AnsweredMeansReady
<1> QED
  BY <1>1, <1>2, NeverInVain
  DEF Admin, Refresh, Create, CreateUploadURL, OpenPage, GetUploadURL, PutFile,
      PutBegins, FilePut, PutEnds, FileLost, PutBreaks, vars

\* The invariant holds at the start and through every step of the console.
LEMMA PublishInit == ConsoleInit => PublishInv
<1> SUFFICES ASSUME ConsoleInit
             PROVE  PublishInv
  OBVIOUS
<1>1. LinkInv
  BY LinkInit
<1>2. \A r \in Runs : run[r].pc = "idle" /\ run[r].answer = "none"
  BY DEF ConsoleInit, Init, Idle
<1>3. \A b \in Books : row[b] = NoRow /\ object[b] = "none"
  BY DEF ConsoleInit, Init
<1> QED
  BY <1>1, <1>2, <1>3
  DEF PublishInv, OneCall, Active, BookRight, NoRow, CallRight, AnsweredMeansReady

LEMMA PublishNext ==
    ASSUME Patient, PublishInv, [ConsoleNext]_consoleVars
    PROVE  PublishInv'
<1>1. LinkInv'
  BY LinkNext DEF PublishInv, Patient
<1>2. /\ OneCall' /\ AnsweredMeansReady'
      /\ \A b \in Books : BookRight(b)'
      /\ \A r \in Runs : CallRight(run[r])'
  <2>1. CASE Admin
    BY <2>1, AdminStep, AdminApart
  <2>2. ASSUME NEW r \in Runs, Serve(r)
        PROVE  /\ OneCall' /\ AnsweredMeansReady'
               /\ \A b \in Books : BookRight(b)'
               /\ \A s \in Runs : CallRight(run[s])'
    BY <2>2, ServeStep, ServeApart
  <2>3. CASE Crash \/ \E r \in Runs : Cancel(r)
    BY <2>3, FaultStep, FaultApart
  <2>4. CASE UNCHANGED consoleVars
    BY <2>4
    DEF consoleVars, PublishInv, OneCall, Active, AnsweredMeansReady, BookRight, RowText,
        CallRight, Placed, MarkRight, LiveRight, Shown, HasText
  <2> QED
    BY <2>1, <2>2, <2>3, <2>4 DEF ConsoleNext
<1> QED
  BY <1>1, <1>2 DEF PublishInv

\* A READY book is one piece of work, however often and from whichever stage
\* it has been made again, with crashes and lost clients on the way: a resume
\* never joins the transcript of one audio to the link of another.
THEOREM ConsoleReadyIsConsistent ==
    ASSUME Patient
    PROVE  ConsoleSpec => []ReadyIsConsistent
<1>1. ConsoleInit => PublishInv
  BY PublishInit
<1>2. PublishInv /\ [ConsoleNext]_consoleVars => PublishInv'
  BY PublishNext
<1>3. PublishInv => ReadyIsConsistent
  BY DEF PublishInv, LinkInv, BookLinked, RowLinked, Linked, Published, BookRight,
     RowText, ReadyIsConsistent
<1> QED
  BY <1>1, <1>2, <1>3, PTL DEF ConsoleSpec

\* CompleteUpload answers such an admin with an error or with a READY book,
\* never with nothing and never with a book left on the way.
THEOREM ConsoleAnswersReady ==
    ASSUME Patient
    PROVE  ConsoleSpec => []AnsweredMeansReady
<1>1. ConsoleInit => PublishInv
  BY PublishInit
<1>2. PublishInv /\ [ConsoleNext]_consoleVars => PublishInv'
  BY PublishNext
<1>3. PublishInv => AnsweredMeansReady
  BY DEF PublishInv
<1> QED
  BY <1>1, <1>2, <1>3, PTL DEF ConsoleSpec

-----------------------------------------------------------------------------
(* The rows and objects seen as the books of Publishing.                   *)

Shelf == [b \in Books |-> BookOf(b)]

\* What shows of a row with this status.
Face(status, audio, text, summary) ==
    LET phase == PhaseOf(status)
    IN  [phase   |-> phase,
         audio   |-> IF phase >= 2 THEN <<audio>> ELSE <<>>,
         text    |-> IF phase >= 3 THEN <<text>> ELSE <<>>,
         summary |-> IF phase >= 4 THEN summary ELSE <<>>]

LEMMA Faces ==
    ASSUME NEW status, NEW a, NEW t, NEW s
    PROVE  /\ status = "ABSENT" => Face(status, a, t, s) = P!Stage(0, <<>>, <<>>, <<>>)
           /\ status \in {"UNSPECIFIED", "AUDIO"}
                 => Face(status, a, t, s) = P!Stage(1, <<>>, <<>>, <<>>)
           /\ status = "TRANSCRIPT"
                 => Face(status, a, t, s) = P!Stage(2, <<a>>, <<>>, <<>>)
           /\ status = "SUMMARY"
                 => Face(status, a, t, s) = P!Stage(3, <<a>>, <<t>>, <<>>)
           /\ status = "READY" => Face(status, a, t, s) = P!Stage(4, <<a>>, <<t>>, s)
BY Phases DEF Face, P!Stage

LEMMA FaceOfBook ==
    ASSUME NEW b \in Books
    PROVE  /\ BookOf(b) = Face(row[b].status, object[b], row[b].transcript,
                               row[b].description)
           /\ BookOf(b)' = Face(row'[b].status, object'[b], row'[b].transcript,
                                row'[b].description)
BY DEF BookOf, Face, PhaseOf

\* What shows of a book, before a step and after it.
LEMMA Shows ==
    ASSUME NEW b \in Books
    PROVE  /\ row[b].status = "ABSENT" => BookOf(b) = P!Stage(0, <<>>, <<>>, <<>>)
           /\ row[b].status \in {"UNSPECIFIED", "AUDIO"}
                 => BookOf(b) = P!Stage(1, <<>>, <<>>, <<>>)
           /\ row[b].status = "TRANSCRIPT"
                 => BookOf(b) = P!Stage(2, <<object[b]>>, <<>>, <<>>)
           /\ row[b].status = "SUMMARY"
                 => BookOf(b) = P!Stage(3, <<object[b]>>, <<row[b].transcript>>, <<>>)
           /\ row'[b].status \in {"UNSPECIFIED", "AUDIO"}
                 => BookOf(b)' = P!Stage(1, <<>>, <<>>, <<>>)
           /\ row'[b].status = "TRANSCRIPT"
                 => BookOf(b)' = P!Stage(2, <<object'[b]>>, <<>>, <<>>)
           /\ row'[b].status = "SUMMARY"
                 => BookOf(b)' = P!Stage(3, <<object'[b]>>, <<row'[b].transcript>>, <<>>)
           /\ row'[b].status = "READY"
                 => BookOf(b)' = P!Stage(4, <<object'[b]>>, <<row'[b].transcript>>,
                                            row'[b].description)
<1>1. /\ BookOf(b) = Face(row[b].status, object[b], row[b].transcript,
                          row[b].description)
      /\ BookOf(b)' = Face(row'[b].status, object'[b], row'[b].transcript,
                           row'[b].description)
  BY FaceOfBook
<1>2. /\ row[b].status = "ABSENT" => BookOf(b) = P!Stage(0, <<>>, <<>>, <<>>)
      /\ row[b].status \in {"UNSPECIFIED", "AUDIO"}
            => BookOf(b) = P!Stage(1, <<>>, <<>>, <<>>)
      /\ row[b].status = "TRANSCRIPT"
            => BookOf(b) = P!Stage(2, <<object[b]>>, <<>>, <<>>)
      /\ row[b].status = "SUMMARY"
            => BookOf(b) = P!Stage(3, <<object[b]>>, <<row[b].transcript>>, <<>>)
  BY <1>1, Faces
<1>3. /\ row'[b].status \in {"UNSPECIFIED", "AUDIO"}
            => BookOf(b)' = P!Stage(1, <<>>, <<>>, <<>>)
      /\ row'[b].status = "TRANSCRIPT"
            => BookOf(b)' = P!Stage(2, <<object'[b]>>, <<>>, <<>>)
      /\ row'[b].status = "SUMMARY"
            => BookOf(b)' = P!Stage(3, <<object'[b]>>, <<row'[b].transcript>>, <<>>)
      /\ row'[b].status = "READY"
            => BookOf(b)' = P!Stage(4, <<object'[b]>>, <<row'[b].transcript>>,
                                       row'[b].description)
  BY <1>1, Faces
<1> QED
  BY <1>2, <1>3

\* A step that changes what shows of one book.
LEMMA ShelfStep ==
    ASSUME NEW b \in Books, NEW v, BookOf(b)' = v,
           \A c \in Books : c # b => row'[c] = row[c] /\ object'[c] = object[c]
    PROVE  Shelf' = [Shelf EXCEPT ![b] = v]
<1>1. \A c \in Books : c # b => BookOf(c)' = BookOf(c)
  BY FaceOfBook
<1> QED
  BY <1>1 DEF Shelf

LEMMA ShelfKept ==
    ASSUME \A c \in Books : BookOf(c)' = BookOf(c)
    PROVE  [P!Next]_Shelf
BY DEF Shelf

LEMMA ShelfUntouched ==
    ASSUME row' = row, object' = object
    PROVE  [P!Next]_Shelf
BY FaceOfBook, ShelfKept

\* The abstract step each change of a face stands for.
LEMMA ShowsCreate ==
    ASSUME NEW b \in Books, Create(b), TypeOK
    PROVE  [P!Next]_Shelf
<1>1. /\ row[b].status = "ABSENT" /\ row'[b].status = "UNSPECIFIED" /\ object' = object
      /\ \A c \in Books : c # b => row'[c] = row[c]
  BY DEF Create, CreateUploadURL, TypeOK, Rows
<1>2. BookOf(b) = P!Stage(0, <<>>, <<>>, <<>>) /\ BookOf(b)' = P!Stage(1, <<>>, <<>>, <<>>)
  BY <1>1, Shows
<1>3. P!Create(b)
  BY <1>1, <1>2, ShelfStep DEF P!Create, P!Absent, P!New, P!Stage, Shelf
<1> QED
  BY <1>3 DEF P!Next

\* The status of the chosen stage takes the book back, or nothing shows.
LEMMA ShowsMark ==
    ASSUME PublishInv, NEW r \in Runs, Mark(r)
    PROVE  [P!Next]_Shelf
<1>1. TypeOK /\ run[r].book \in Books /\ run[r].stage \in Stages
  BY RowTypes DEF CallRecords
<1> PICK b \in Books : b = run[r].book
  BY <1>1
<1>2. /\ row[b].status \in Status /\ MarkRight(run[r])
  BY RowTypes DEF PublishInv, Mark, CallRight, MarkRight, Rows
<1>3. /\ row'[b].status = run[r].stage
      /\ row'[b].transcript = row[b].transcript
      /\ row'[b].description = row[b].description
      /\ object' = object
      /\ \A c \in Books : c # b => row'[c] = row[c]
  BY <1>1, RowFields DEF Mark, TypeOK
<1>4. CASE BookOf(b)' = BookOf(b)
  <2>1. \A c \in Books : BookOf(c)' = BookOf(c)
    BY <1>3, <1>4, FaceOfBook
  <2> QED
    BY <2>1, ShelfKept
<1>5. CASE BookOf(b)' # BookOf(b)
  <2>1. \A status \in Status : PhaseOf(status) \in 1..4
    BY Phases DEF Status, Stages
  <2>2. /\ PhaseOf(run[r].stage) <= PhaseOf(row[b].status)
        /\ PhaseOf(run[r].stage) \in 1..3
    BY <1>1, <1>2, Phases DEF MarkRight, Stages
  <2>3. /\ BookOf(b) = Face(row[b].status, object[b], row[b].transcript,
                            row[b].description)
        /\ BookOf(b)' = Face(run[r].stage, object[b], row[b].transcript,
                             row[b].description)
    BY <1>3, FaceOfBook
  <2>4. PhaseOf(run[r].stage) # PhaseOf(row[b].status)
    BY <1>5, <2>3 DEF Face
  <2>5. /\ BookOf(b).phase = PhaseOf(row[b].status)
        /\ BookOf(b)' =
              P!Stage(PhaseOf(run[r].stage),
                IF PhaseOf(run[r].stage) >= 2 THEN BookOf(b).audio ELSE <<>>,
                IF PhaseOf(run[r].stage) >= 3 THEN BookOf(b).text ELSE <<>>,
                <<>>)
    BY <1>1, <1>2, <2>1, <2>2, <2>3, <2>4 DEF Face, P!Stage
  <2>6. P!Redo(b, PhaseOf(run[r].stage))
    BY <1>2, <1>3, <2>1, <2>2, <2>4, <2>5, ShelfStep
    DEF P!Redo, P!Stored, P!Transcribed, Shelf
  <2> QED
    BY <2>2, <2>6 DEF P!Next, P!New, P!Transcribed
<1> QED
  BY <1>4, <1>5

\* The transcript is stored while it does not show yet, or stays the same.
LEMMA ShowsData ==
    ASSUME Patient, PublishInv, NEW r \in Runs, CallbackData(r)
    PROVE  [P!Next]_Shelf
<1>1. TypeOK /\ run[r].book \in Books
  BY RowTypes
<1> PICK b \in Books : b = run[r].book
  BY <1>1
<1>2. /\ CallRight(run[r]) /\ run[r].pc = "data" /\ Placed(run[r]) /\ object' = object
  BY DEF PublishInv, CallbackData, CallRight
<1>3. CASE run[r].ctx # "live"
  BY <1>2, <1>3, ShelfUntouched DEF CallbackData, Succeeds
<1>4. CASE run[r].ctx = "live"
  <2>1. row' = IF OnUrl(r) THEN [row EXCEPT ![b].cover = run[r].url]
                           ELSE [row EXCEPT ![b].transcript = run[r].text]
    BY <1>4, StatementWorks DEF CallbackData, Patient
  <2>2. \A c \in Books : c # b => row'[c] = row[c]
    BY <1>1, <2>1 DEF TypeOK
  <2>3. CASE OnUrl(r)
    BY <1>1, <1>2, <2>1, <2>2, <2>3, RowFields, FaceOfBook, ShelfKept
  <2>4. CASE ~OnUrl(r)
    <3>1. /\ row'[b].status = row[b].status /\ row'[b].transcript = run[r].text
          /\ row'[b].description = row[b].description
      BY <1>1, <2>1, <2>4, RowFields
    <3>2. run[r].at \in {"TranscriptComplete", "SummaryStart"} /\ LiveRight(run[r])
      BY <1>2, <1>4, <2>4 DEF OnUrl, Placed, CallRight
    <3>3. CASE run[r].at = "TranscriptComplete"
      <4>1. row[b].status = "TRANSCRIPT"
        BY <1>2, <3>2, <3>3 DEF LiveRight, Shown
      <4> QED
        <5>1. BookOf(b)' = BookOf(b)
          BY <1>2, <3>1, <4>1, Shows
        <5>2. \A c \in Books : c # b => BookOf(c)' = BookOf(c)
          BY <1>2, <2>2, FaceOfBook
        <5> QED
          BY <5>1, <5>2, ShelfKept
    <3>4. CASE run[r].at = "SummaryStart"
      <4>1. run[r].text = row[b].transcript
        BY <3>2, <3>4 DEF LiveRight, HasText
      <4> QED
        BY <1>2, <2>2, <3>1, <4>1, FaceOfBook, ShelfKept
    <3> QED
      BY <3>2, <3>3, <3>4
  <2> QED
    BY <2>3, <2>4
<1> QED
  BY <1>3, <1>4

\* The status makes the stored audio, or the transcript, show.
LEMMA ShowsStatus ==
    ASSUME Patient, PublishInv, NEW r \in Runs, CallbackStatus(r)
    PROVE  [P!Next]_Shelf
<1>1. TypeOK /\ run[r].book \in Books
  BY RowTypes
<1> PICK b \in Books : b = run[r].book
  BY <1>1
<1>2. /\ CallRight(run[r]) /\ BookRight(b) /\ run[r].pc = "status" /\ object' = object
      /\ Placed(run[r]) /\ object[b] # "none"
  BY DEF PublishInv, CallbackStatus, CallRight, LinkInv, CallLinked
<1>3. CASE run[r].ctx # "live"
  BY <1>2, <1>3, ShelfUntouched DEF CallbackStatus, Succeeds
<1>4. CASE run[r].ctx = "live"
  <2>1. row' = [row EXCEPT ![b].status = IF OnUrl(r) THEN "TRANSCRIPT" ELSE "SUMMARY"]
    BY <1>4, StatementWorks DEF CallbackStatus, Patient
  <2>2. /\ \A c \in Books : c # b => row'[c] = row[c]
        /\ row'[b].status = (IF OnUrl(r) THEN "TRANSCRIPT" ELSE "SUMMARY")
        /\ row'[b].transcript = row[b].transcript
        /\ row'[b].description = row[b].description
    BY <1>1, <2>1, RowFields DEF TypeOK
  <2>3. LiveRight(run[r])
    BY <1>2, <1>4 DEF CallRight
  <2>4. CASE run[r].at \in {"TranscriptStarted", "SummaryStart"}
    <3>1. row'[b].status = row[b].status
      BY <1>2, <2>2, <2>3, <2>4 DEF LiveRight, Shown, OnUrl
    <3> QED
      BY <1>2, <2>2, <3>1, FaceOfBook, ShelfKept
  <2>5. CASE run[r].at = "UploadComplete"
    <3>1. row[b].status = "AUDIO" /\ row'[b].status = "TRANSCRIPT" /\ object[b] \in Audio
      BY <1>2, <2>2, <2>3, <2>5 DEF LiveRight, Shown, OnUrl, BookRight
    <3>2. /\ BookOf(b) = P!Stage(1, <<>>, <<>>, <<>>)
          /\ BookOf(b)' = P!Stage(2, <<object[b]>>, <<>>, <<>>)
      BY <1>2, <3>1, Shows
    <3>3. P!Store(b, object[b])
      BY <1>2, <2>2, <3>2, ShelfStep DEF P!Store, P!New, P!Stored, P!Stage, Shelf
    <3> QED
      BY <3>1, <3>3 DEF P!Next
  <2>6. CASE run[r].at = "TranscriptComplete"
    <3>1. /\ row[b].status = "TRANSCRIPT" /\ row'[b].status = "SUMMARY"
          /\ RowText(b)
      BY <1>2, <2>2, <2>3, <2>6 DEF LiveRight, Shown, OnUrl, HasText, RowText
    <3>2. object[b] \in Audio
      BY <1>2 DEF BookRight
    <3> DEFINE t == row[b].transcript
    <3>3. /\ BookOf(b) = P!Stage(2, <<object[b]>>, <<>>, <<>>)
          /\ BookOf(b)' = P!Stage(3, <<object[b]>>, <<t>>, <<>>)
      BY <1>2, <2>2, <3>1, Shows
    <3>4. t \in {TranscriptOf(object[b], p) : p \in Providers}
      BY <3>1 DEF RowText
    <3>5. P!Transcribe(b, object[b], t)
      BY <1>2, <2>2, <3>2, <3>3, <3>4, ShelfStep
      DEF P!Transcribe, P!Stored, P!Transcribed, P!Stage, Shelf
    <3> QED
      BY <3>2, <3>4, <3>5 DEF P!Next
  <2> QED
    BY <1>2, <2>4, <2>5, <2>6 DEF Placed
<1> QED
  BY <1>3, <1>4

\* The outcome completes the book with the description of its transcript.
LEMMA ShowsSave ==
    ASSUME Patient, PublishInv, NEW r \in Runs, Save(r)
    PROVE  [P!Next]_Shelf
<1>1. TypeOK /\ run[r].book \in Books
  BY RowTypes
<1> PICK b \in Books : b = run[r].book
  BY <1>1
<1>2. /\ CallRight(run[r]) /\ run[r].pc = "save" /\ Placed(run[r]) /\ object' = object
  BY DEF PublishInv, Save, CallRight
<1>3. CASE run[r].ctx # "live"
  BY <1>2, <1>3, ShelfUntouched DEF Save, Succeeds
<1>4. CASE run[r].ctx = "live"
  <2>1. /\ row'[b] = [status |-> "READY", cover |-> run[r].url,
                      transcript |-> run[r].text,
                      description |-> Describe(run[r].text)]
        /\ \A c \in Books : c # b => row'[c] = row[c]
    BY <1>1, <1>4, StatementWorks DEF Save, Patient, TypeOK
  <2>2. row[b].status = "SUMMARY" /\ run[r].text = row[b].transcript
    BY <1>2, <1>4 DEF CallRight, LiveRight, Shown, HasText, Placed
  <2> DEFINE t == row[b].transcript
  <2>3. BookOf(b) = P!Stage(3, <<object[b]>>, <<t>>, <<>>)
    BY <2>2, Shows
  <2>4. BookOf(b)' = P!Stage(4, <<object[b]>>, <<t>>, <<t>>)
    <3>1. /\ row'[b].status = "READY" /\ row'[b].transcript = t
          /\ row'[b].description = <<t>>
      BY <2>1, <2>2 DEF Describe
    <3> QED
      BY <1>2, <3>1, Shows
  <2>5. P!Summarize(b)
    BY <1>2, <2>1, <2>3, <2>4, ShelfStep
    DEF P!Summarize, P!Transcribed, P!Ready, P!Stage, Shelf
  <2> QED
    BY <2>5 DEF P!Next
<1> QED
  BY <1>3, <1>4

\* A new object is stored while none shows.
LEMMA ShowsUpload ==
    ASSUME PublishInv, NEW r \in Runs, Upload(r)
    PROVE  [P!Next]_Shelf
<1>1. TypeOK /\ run[r].book \in Books
  BY RowTypes
<1> PICK b \in Books : b = run[r].book
  BY <1>1
<1>2. /\ row[b].status = "AUDIO" /\ row' = row
      /\ \A c \in Books : c # b => object'[c] = object[c]
  BY <1>1 DEF PublishInv, Upload, CallRight, TypeOK
<1>3. BookOf(b)' = BookOf(b)
  BY <1>2, Shows
<1>4. \A c \in Books : c # b => BookOf(c)' = BookOf(c)
  BY <1>2, FaceOfBook
<1> QED
  BY <1>3, <1>4, ShelfKept

\* Every step of the console is a step of Publishing or shows nothing.
LEMMA ShowsStep ==
    ASSUME Patient, PublishInv, [ConsoleNext]_consoleVars
    PROVE  [P!Next]_Shelf
<1>1. CASE row' = row /\ object' = object
  BY <1>1, ShelfUntouched
<1>2. ASSUME NEW b \in Books, Create(b)
      PROVE  [P!Next]_Shelf
  BY <1>2, ShowsCreate, RowTypes
<1>3. ASSUME NEW r \in Runs, Serve(r)
      PROVE  [P!Next]_Shelf
  BY <1>1, <1>3, ShowsMark, ShowsData, ShowsStatus, ShowsSave, ShowsUpload
  DEF Serve, Statement, MarkFails, Reply, Pipeline, Transcribe, Summarize, PipelineFails
<1> QED
  BY <1>1, <1>2, <1>3
  DEF ConsoleNext, Admin, Refresh, OpenPage, GetUploadURL, PutFile, PutBegins, FilePut,
      PutEnds, FileLost, PutBreaks, Press, Accept, PressInVain, AcceptNothing, Cancel,
      Crash, consoleVars, vars

\* For such an admin CompleteUpload implements Publishing: a row goes through
\* the phases of a book one at a time, each made from the one before, and
\* only a forced stage takes it back; crashes and lost clients change nothing.
THEOREM ConsolePublishes ==
    ASSUME Patient
    PROVE  ConsoleSpec => Publishes
<1>1. ConsoleInit => P!Init
  <2> SUFFICES ASSUME ConsoleInit
               PROVE  P!Init
    OBVIOUS
  <2>1. \A b \in Books : row[b].status = "ABSENT"
    BY DEF ConsoleInit, Init, NoRow
  <2>2. \A b \in Books : BookOf(b) = P!Stage(0, <<>>, <<>>, <<>>)
    BY <2>1, Shows
  <2> QED
    BY <2>2 DEF P!Init, P!Absent
<1>2. ConsoleInit => PublishInv
  BY PublishInit
<1>3. PublishInv /\ [ConsoleNext]_consoleVars => PublishInv'
  BY PublishNext
<1>4. PublishInv /\ [ConsoleNext]_consoleVars => [P!Next]_[b \in Books |-> BookOf(b)]
  BY ShowsStep DEF Shelf
<1> QED
  BY <1>1, <1>2, <1>3, <1>4, PTL DEF ConsoleSpec, Publishes, P!Spec
=============================================================================
