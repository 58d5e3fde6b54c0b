-------------------------- MODULE ProcessingProofs --------------------------
(***************************************************************************)
(* Theorems about the server of module Processing, for any number of       *)
(* books, calls, contents and faults.                                      *)
(***************************************************************************)
EXTENDS Processing, TLAPS

-----------------------------------------------------------------------------
(* Typing *)

LEMMA IdleType ==
    ASSUME NEW answer \in Answers
    PROVE  Idle(answer) \in CallRecords
BY ProcessingAssumption DEF Idle, CallRecords, Stages, PipelineStates, Texts

LEMMA StageForType ==
    ASSUME NEW rec, NEW force
    PROVE  StageFor(rec, force) \in Stages \cup {"NOTHING"}
BY DEF StageFor, Stages

LEMMA TranscriptOfType ==
    ASSUME NEW a \in Contents, NEW p \in Providers
    PROVE  TranscriptOf(a, p) \in Texts
BY DEF TranscriptOf, Texts

LEMMA FaultType ==
    ASSUME TypeOK, NEW kind, Fault(kind)
    PROVE  faults' \in 0..MaxFaults
BY ProcessingAssumption DEF Fault, TypeOK

LEMMA StatementFaultType ==
    ASSUME TypeOK, NEW r, Succeeds(r) \/ FailsQuietly(r)
    PROVE  faults' \in 0..MaxFaults
BY FaultType DEF Succeeds, FailsQuietly, TypeOK

\* Moving a call on keeps it a call record.
LEMMA GotoType ==
    ASSUME TypeOK, NEW r \in Runs,
           NEW pc \in {"mark", "upload", "data", "status", "transcribe",
                       "summarize", "save", "reply"},
           NEW at \in PipelineStates, Goto(r, pc, at)
    PROVE  run' \in [Runs -> CallRecords]
<1>1. run[r] \in CallRecords
  BY DEF TypeOK
<1>2. [run[r] EXCEPT !.pc = pc, !.at = at] \in CallRecords
  BY <1>1 DEF CallRecords
<1> QED
  BY <1>2 DEF TypeOK, Goto

LEMMA BeginStageType ==
    ASSUME TypeOK, NEW r \in Runs, BeginStage(r)
    PROVE  run' \in [Runs -> CallRecords]
BY GotoType DEF BeginStage, PipelineStates

LEMMA AfterCallbackType ==
    ASSUME TypeOK, NEW r \in Runs, AfterCallback(r)
    PROVE  run' \in [Runs -> CallRecords]
BY GotoType DEF AfterCallback, PipelineStates

LEMMA NewCallType ==
    ASSUME TypeOK, NEW b \in Books, NEW force, NEW p \in Providers,
           StageFor(row[b], force) # "NOTHING"
    PROVE  NewCall(b, force, p) \in CallRecords
<1>1. row[b] \in Rows
  BY DEF TypeOK
<1> QED
  BY <1>1, StageForType DEF NewCall, CallRecords, Rows, PipelineStates, Answers

LEMMA RequestType ==
    ASSUME TypeOK, Request
    PROVE  TypeOK'
<1>1. ASSUME NEW b \in Books, CreateUploadURL(b)
      PROVE  TypeOK'
  <2>1. row[b] \in Rows
    BY DEF TypeOK
  <2>2. [row[b] EXCEPT !.status = "UNSPECIFIED", !.cover = "upload"] \in Rows
    BY <2>1 DEF Rows, Status
  <2>3. row' \in [Books -> Rows]
    BY <1>1, <2>2 DEF CreateUploadURL, EnsureStarted, TypeOK
  <2> QED
    BY <1>1, <2>3 DEF CreateUploadURL, EnsureStarted, TypeOK
<1>2. ASSUME NEW b \in Books, PutBegins(b)
      PROVE  TypeOK'
  BY <1>2 DEF PutBegins, TypeOK, Contents
<1>3. ASSUME NEW b \in Books, NEW a \in Audio, PutEnds(b, a)
      PROVE  TypeOK'
  BY <1>3 DEF PutEnds, TypeOK, Contents
<1>6. ASSUME NEW b \in Books, GetUploadURL(b)
      PROVE  TypeOK'
  BY <1>6 DEF GetUploadURL, EnsureStarted, TypeOK
<1>7. ASSUME NEW b \in Books, PutBreaks(b)
      PROVE  TypeOK'
  BY <1>7, FaultType DEF PutBreaks, TypeOK, Contents
<1>4. ASSUME NEW r \in Runs, NEW b \in Books, NEW force, NEW p \in Providers,
             Accept(r, b, force, p)
      PROVE  TypeOK'
  BY <1>4, NewCallType DEF Accept, TypeOK
<1>5. ASSUME NEW r \in Runs, NEW b \in Books, NEW force,
             AcceptNothing(r, b, force)
      PROVE  TypeOK'
  BY <1>5, IdleType DEF AcceptNothing, TypeOK, Answers
<1> QED
  BY <1>1, <1>2, <1>3, <1>4, <1>5, <1>6, <1>7 DEF Request

LEMMA StatementType ==
    ASSUME TypeOK, NEW r \in Runs, Statement(r)
    PROVE  TypeOK'
<1> DEFINE b == run[r].book
<1>1. run[r] \in CallRecords
  BY DEF TypeOK
<1>2. b \in Books /\ row[b] \in Rows
  BY <1>1 DEF CallRecords, TypeOK
<1>3. CASE Mark(r)
  <2>1. [row[b] EXCEPT !.status = run[r].stage] \in Rows
    BY <1>1, <1>2 DEF Rows, CallRecords, Status
  <2>2. row' \in [Books -> Rows]
    BY <1>2, <1>3, <2>1 DEF Mark, TypeOK
  <2> QED
    BY <1>3, <2>2, BeginStageType, StatementFaultType DEF Mark, TypeOK
<1>4. CASE MarkFails(r)
  BY <1>4, IdleType, StatementFaultType DEF MarkFails, TypeOK, Answers
<1>5. CASE CallbackData(r)
  <2>1. [row[b] EXCEPT !.cover = run[r].url] \in Rows
    BY <1>1, <1>2 DEF Rows, CallRecords
  <2>2. [row[b] EXCEPT !.transcript = run[r].text] \in Rows
    BY <1>1, <1>2 DEF Rows, CallRecords
  <2>3. row' \in [Books -> Rows]
    BY <1>2, <1>5, <2>1, <2>2 DEF CallbackData, TypeOK
  <2>4. run' \in [Runs -> CallRecords]
    BY <1>1, <1>5, GotoType DEF CallbackData, CallRecords
  <2> QED
    BY <1>5, <2>3, <2>4, StatementFaultType DEF CallbackData, TypeOK
<1>6. CASE CallbackStatus(r)
  <2>1. \A s \in Status : [row[b] EXCEPT !.status = s] \in Rows
    BY <1>2 DEF Rows
  <2>2. row' \in [Books -> Rows]
    BY <1>2, <1>6, <2>1 DEF CallbackStatus, TypeOK, Status, Stages
  <2> QED
    BY <1>6, <2>2, AfterCallbackType, StatementFaultType
    DEF CallbackStatus, TypeOK
<1>7. CASE Save(r)
  <2>1. [status |-> "READY", cover |-> run[r].url, transcript |-> run[r].text,
         description |-> Describe(run[r].text)] \in Rows
    BY <1>1 DEF Rows, CallRecords, Status, Descriptions
  <2>2. row' \in [Books -> Rows]
    BY <1>2, <1>7, <2>1 DEF Save, TypeOK
  <2>3. run' \in [Runs -> CallRecords]
    BY <1>7, GotoType DEF Save, PipelineStates
  <2> QED
    BY <1>7, <2>2, <2>3, StatementFaultType DEF Save, TypeOK
<1>8. CASE Reply(r)
  <2>1. row[b].status \in Answers
    BY <1>2 DEF Rows, Answers
  <2>2. run' \in [Runs -> CallRecords]
    BY <1>8, <2>1, IdleType DEF Reply, TypeOK, Answers
  <2> QED
    BY <1>8, <2>2 DEF Reply, TypeOK
<1> QED
  BY <1>3, <1>4, <1>5, <1>6, <1>7, <1>8 DEF Statement

LEMMA PipelineType ==
    ASSUME TypeOK, NEW r \in Runs, Pipeline(r) \/ PipelineFails(r)
    PROVE  TypeOK'
<1> DEFINE b == run[r].book
<1>1. run[r] \in CallRecords
  BY DEF TypeOK
<1>2. b \in Books
  BY <1>1 DEF CallRecords
<1>3. CASE Upload(r)
  <2>1. [run[r] EXCEPT !.pc = "data", !.at = "UploadComplete", !.url = "s3"]
           \in CallRecords
    BY <1>1 DEF CallRecords, PipelineStates
  <2>2. run' \in [Runs -> CallRecords]
    BY <1>3, <2>1 DEF Upload, TypeOK
  <2>3. Stored(file[b]) \in Contents
    BY <1>2, <1>3 DEF Upload, TypeOK, Stored, Contents
  <2>4. object' \in [Books -> Contents \cup {"none"}]
    BY <1>2, <1>3, <2>3 DEF Upload, TypeOK
  <2> QED
    BY <1>3, <2>2, <2>4 DEF Upload, TypeOK
<1>4. CASE Transcribe(r)
  <2>1. TranscriptOf(object[b], run[r].provider) \in Texts
    BY <1>1, <1>2, <1>4, TranscriptOfType DEF Transcribe, TypeOK, CallRecords
  <2>2. [run[r] EXCEPT !.pc = "data", !.at = "TranscriptComplete",
           !.text = TranscriptOf(object[b], run[r].provider)] \in CallRecords
    BY <1>1, <2>1 DEF CallRecords, PipelineStates
  <2>3. run' \in [Runs -> CallRecords]
    BY <1>4, <2>2 DEF Transcribe, TypeOK
  <2> QED
    BY <1>4, <2>3 DEF Transcribe, TypeOK
<1>5. CASE Summarize(r)
  BY <1>5, GotoType DEF Summarize, TypeOK, PipelineStates
<1>6. CASE PipelineFails(r)
  BY <1>6, IdleType DEF PipelineFails, TypeOK, Answers
<1> QED
  BY <1>3, <1>4, <1>5, <1>6 DEF Pipeline

LEMMA CancelType ==
    ASSUME TypeOK, NEW r \in Runs, Cancel(r)
    PROVE  TypeOK'
<1>1. run[r] \in CallRecords
  BY DEF TypeOK
<1>2. [run[r] EXCEPT !.ctx = "cancelled"] \in CallRecords
  BY <1>1 DEF CallRecords
<1>3. run' \in [Runs -> CallRecords]
  BY <1>2 DEF Cancel, TypeOK
<1> QED
  BY <1>3, FaultType DEF Cancel, TypeOK

LEMMA CrashType ==
    ASSUME TypeOK, Crash
    PROVE  TypeOK'
<1>1. run' \in [Runs -> CallRecords]
  BY IdleType DEF Crash, TypeOK, Answers
<1>2. file' \in [Books -> Contents \cup {"none", "writing"}]
  BY DEF Crash, Stored, TypeOK, Contents
<1> QED
  BY <1>1, <1>2, FaultType DEF Crash, TypeOK

LEMMA InitType == Init => TypeOK
<1> SUFFICES ASSUME Init
             PROVE  TypeOK
  OBVIOUS
<1>1. NoRow \in Rows
  BY DEF NoRow, Rows, Texts, Descriptions
<1>2. Idle("none") \in CallRecords
  BY IdleType DEF Answers
<1>3. row \in [Books -> Rows] /\ run \in [Runs -> CallRecords]
  BY <1>1, <1>2 DEF Init
<1>4. /\ file \in [Books -> Contents \cup {"none", "writing"}]
      /\ object \in [Books -> Contents \cup {"none"}]
  BY DEF Init
<1>5. listening \in BOOLEAN
  BY DEF Init
<1>6. faults \in 0..MaxFaults
  BY ProcessingAssumption DEF Init
<1> QED
  BY <1>3, <1>4, <1>5, <1>6 DEF TypeOK

LEMMA NextType == TypeOK /\ [Next]_vars => TypeOK'
<1> SUFFICES ASSUME TypeOK, [Next]_vars
             PROVE  TypeOK'
  OBVIOUS
<1>1. CASE Request
  BY <1>1, RequestType
<1>2. ASSUME NEW r \in Runs, Serve(r)
      PROVE  TypeOK'
  BY <1>2, StatementType, PipelineType DEF Serve
<1>3. ASSUME NEW r \in Runs, Cancel(r)
      PROVE  TypeOK'
  BY <1>3, CancelType
<1>4. CASE Crash
  BY <1>4, CrashType
<1>5. CASE UNCHANGED vars
  BY <1>5 DEF TypeOK, vars
<1> QED
  BY <1>1, <1>2, <1>3, <1>4, <1>5 DEF Next

\* Rows, files, objects and calls keep their types under every request,
\* statement, pipeline step and fault.
THEOREM ProcessingTypes == Spec => []TypeOK
<1>1. Init => TypeOK
  BY InitType
<1>2. TypeOK /\ [Next]_vars => TypeOK'
  BY NextType
<1> QED
  BY <1>1, <1>2, PTL DEF Spec

-----------------------------------------------------------------------------
(* Description and transcript under interleaving.  The invariant adds to   *)
(* TextsAgree that before the first fault no request is cancelled: a       *)
(* cancelled call could store a transcript and then be kept from taking    *)
(* READY back.                                                             *)

TextsAgreeAt(b) ==
    \/ row[b].status # "READY"
    \/ row[b].description = Describe(row[b].transcript)
    \/ \E r \in Runs : BetweenTextAndStatus(r, b)

Undisturbed ==
    /\ TypeOK
    /\ \A r \in Runs : run[r].ctx = "live"
    /\ \A b \in Books : TextsAgreeAt(b)

TextsInv == TypeOK /\ (faults = 0 => Undisturbed)

\* A step of a call that is not between its two statements takes no other
\* call out of there.
LEMMA StillBetween ==
    ASSUME TypeOK, NEW r \in Runs, NEW call, NEW b \in Books,
           run' = [run EXCEPT ![r] = call], run[r].pc # "status",
           \E s \in Runs : BetweenTextAndStatus(s, b)
    PROVE  \E s \in Runs : BetweenTextAndStatus(s, b)'
<1>1. PICK s \in Runs : BetweenTextAndStatus(s, b)
  OBVIOUS
<1>2. s # r
  BY <1>1 DEF BetweenTextAndStatus
<1>3. run'[s] = run[s]
  BY <1>2 DEF TypeOK
<1>4. BetweenTextAndStatus(s, b)'
  BY <1>1, <1>3 DEF BetweenTextAndStatus, OnUrl
<1> QED
  BY <1>4

\* So a step that leaves the three columns alone leaves the agreement.
LEMMA AgreementKept ==
    ASSUME Undisturbed, NEW r \in Runs, NEW call, NEW b \in Books,
           run' = [run EXCEPT ![r] = call], run[r].pc # "status",
           \/ row'[b].status # "READY"
           \/ /\ row'[b].status = row[b].status
              /\ row'[b].description = row[b].description
              /\ row'[b].transcript = row[b].transcript
    PROVE  TextsAgreeAt(b)'
<1>1. TextsAgreeAt(b)
  BY DEF Undisturbed
<1> QED
  BY <1>1, StillBetween DEF TextsAgreeAt, Undisturbed

LEMMA StatementAgrees ==
    ASSUME faults = 0, faults' = 0, Undisturbed, NEW r \in Runs, Statement(r),
           NEW b \in Books
    PROVE  TextsAgreeAt(b)'
<1>1. run[r] \in CallRecords /\ run[r].book \in Books /\ run[r].ctx = "live"
  BY DEF Undisturbed, TypeOK, CallRecords
<1>2. row[b] \in Rows /\ row \in [Books -> Rows] /\ run \in [Runs -> CallRecords]
  BY DEF Undisturbed, TypeOK
<1>3. ~FailsQuietly(r)
  BY <1>1 DEF FailsQuietly, Fault
<1>4. CASE Mark(r)
  <2>1. \E call : run' = [run EXCEPT ![r] = call]
    BY <1>4 DEF Mark, BeginStage, Goto
  <2>2. row'[b].status # "READY" \/ row'[b] = row[b]
    BY <1>1, <1>2, <1>4 DEF Mark, CallRecords, Stages, Rows
  <2> QED
    BY <1>4, <2>1, <2>2, AgreementKept DEF Mark
<1>5. CASE MarkFails(r)
  BY <1>3, <1>5 DEF MarkFails
<1>6. CASE CallbackData(r) /\ OnUrl(r)
  <2>1. \E call : run' = [run EXCEPT ![r] = call]
    BY <1>6 DEF CallbackData, Goto
  <2>2. row' = [row EXCEPT ![run[r].book].cover = run[r].url]
    BY <1>3, <1>6 DEF CallbackData
  <2>3. /\ row'[b].status = row[b].status
        /\ row'[b].description = row[b].description
        /\ row'[b].transcript = row[b].transcript
    BY <1>2, <2>2 DEF Rows
  <2> QED
    BY <1>6, <2>1, <2>3, AgreementKept DEF CallbackData
<1>7. CASE CallbackData(r) /\ ~OnUrl(r)
  <2>1. run' = [run EXCEPT ![r] = [run[r] EXCEPT !.pc = "status",
                                                 !.at = run[r].at]]
    BY <1>7 DEF CallbackData, Goto
  <2>2. run'[r].pc = "status" /\ run'[r].at = run[r].at
        /\ run'[r].book = run[r].book
    BY <1>1, <1>2, <2>1 DEF CallRecords
  <2>3. CASE b = run[r].book
    <3>1. BetweenTextAndStatus(r, b)'
      BY <1>7, <2>2, <2>3 DEF BetweenTextAndStatus, OnUrl
    <3> QED
      BY <3>1 DEF TextsAgreeAt
  <2>4. CASE b # run[r].book
    <3>1. row'[b] = row[b]
      BY <1>1, <1>2, <1>3, <1>7, <2>4 DEF CallbackData
    <3> QED
      BY <1>7, <2>1, <3>1, AgreementKept DEF CallbackData
  <2> QED
    BY <2>3, <2>4
<1>8. CASE CallbackStatus(r)
  <2>1. CASE b = run[r].book
    <3>1. row'[b].status # "READY"
      BY <1>2, <1>3, <1>8, <2>1 DEF CallbackStatus, Rows
    <3> QED
      BY <3>1 DEF TextsAgreeAt
  <2>2. CASE b # run[r].book
    <3>1. row'[b] = row[b]
      BY <1>1, <1>2, <1>3, <1>8, <2>2 DEF CallbackStatus
    <3>2. \A s \in Runs : s # r => run'[s] = run[s]
      BY <1>2, <1>8 DEF CallbackStatus, AfterCallback, Goto
    <3>3. ASSUME NEW s \in Runs, BetweenTextAndStatus(s, b)
          PROVE  BetweenTextAndStatus(s, b)'
      <4>1. s # r
        BY <2>2, <3>3 DEF BetweenTextAndStatus
      <4> QED
        BY <3>2, <3>3, <4>1 DEF BetweenTextAndStatus, OnUrl
    <3>4. TextsAgreeAt(b)
      BY DEF Undisturbed
    <3> QED
      BY <3>1, <3>3, <3>4 DEF TextsAgreeAt
  <2> QED
    BY <2>1, <2>2
<1>9. CASE Save(r)
  <2>1. CASE b = run[r].book
    <3>1. row'[b] = [status |-> "READY", cover |-> run[r].url,
                     transcript |-> run[r].text,
                     description |-> Describe(run[r].text)]
      BY <1>2, <1>3, <1>9, <2>1 DEF Save
    <3> QED
      BY <3>1 DEF TextsAgreeAt
  <2>2. CASE b # run[r].book
    <3>1. row'[b] = row[b]
      BY <1>1, <1>2, <1>3, <1>9, <2>2 DEF Save
    <3>2. \E call : run' = [run EXCEPT ![r] = call]
      BY <1>9 DEF Save, Goto
    <3> QED
      BY <1>9, <3>1, <3>2, AgreementKept DEF Save
  <2> QED
    BY <2>1, <2>2
<1>10. CASE Reply(r)
  <2>1. \E call : run' = [run EXCEPT ![r] = call]
    BY <1>10 DEF Reply
  <2> QED
    BY <1>10, <2>1, AgreementKept DEF Reply
<1> QED
  BY <1>4, <1>5, <1>6, <1>7, <1>8, <1>9, <1>10 DEF Statement

LEMMA PipelineAgrees ==
    ASSUME Undisturbed, NEW r \in Runs, Pipeline(r) \/ PipelineFails(r),
           NEW b \in Books
    PROVE  TextsAgreeAt(b)'
<1>1. row' = row
  BY DEF Pipeline, Upload, Transcribe, Summarize, PipelineFails
<1>2. run[r].pc # "status"
  BY DEF Pipeline, Upload, Transcribe, Summarize, PipelineFails
<1>3. \E call : run' = [run EXCEPT ![r] = call]
  BY DEF Pipeline, Upload, Transcribe, Summarize, PipelineFails, Goto
<1> QED
  BY <1>1, <1>2, <1>3, AgreementKept

LEMMA RequestAgrees ==
    ASSUME Undisturbed, Request, NEW b \in Books
    PROVE  TextsAgreeAt(b)'
<1>1. TextsAgreeAt(b) /\ row \in [Books -> Rows]
  BY DEF Undisturbed, TypeOK
<1>2. ASSUME NEW c \in Books, CreateUploadURL(c)
      PROVE  TextsAgreeAt(b)'
  <2>1. CASE b = c
    BY <1>1, <1>2, <2>1 DEF CreateUploadURL, EnsureStarted, TextsAgreeAt, Rows
  <2>2. CASE b # c
    <3>1. row'[b] = row[b] /\ run' = run
      BY <1>1, <1>2, <2>2 DEF CreateUploadURL, EnsureStarted
    <3> QED
      BY <1>1, <3>1 DEF TextsAgreeAt, BetweenTextAndStatus, OnUrl
  <2> QED
    BY <2>1, <2>2
<1>3. CASE row' = row /\ run' = run
  BY <1>1, <1>3 DEF TextsAgreeAt, BetweenTextAndStatus, OnUrl
<1>4. ASSUME NEW r \in Runs, NEW call, run[r].pc = "idle", row' = row,
             run' = [run EXCEPT ![r] = call]
      PROVE  TextsAgreeAt(b)'
  BY <1>4, AgreementKept
<1> QED
  BY <1>2, <1>3, <1>4
  DEF Request, GetUploadURL, EnsureStarted, PutBegins, PutEnds, PutBreaks, Accept,
  AcceptNothing, Active

LEMMA StaysLive ==
    ASSUME faults = 0, faults' = 0, Undisturbed, Next, NEW s \in Runs
    PROVE  run'[s].ctx = "live"
<1>1. run \in [Runs -> CallRecords] /\ run[s].ctx = "live"
  BY DEF Undisturbed, TypeOK
<1>2. \A answer : Idle(answer).ctx = "live"
  BY DEF Idle
<1>3. CASE Request
  <2>1. CASE run' = run
    BY <1>1, <2>1
  <2>2. ASSUME NEW r \in Runs, NEW b \in Books, NEW force, NEW p \in Providers,
               Accept(r, b, force, p)
        PROVE  run'[s].ctx = "live"
    <3>1. NewCall(b, force, p).ctx = "live"
      BY DEF NewCall
    <3> QED
      BY <1>1, <2>2, <3>1 DEF Accept
  <2>3. ASSUME NEW r \in Runs, NEW b \in Books, NEW force,
               AcceptNothing(r, b, force)
        PROVE  run'[s].ctx = "live"
    BY <1>1, <1>2, <2>3 DEF AcceptNothing
  <2> QED
    BY <1>3, <2>1, <2>2, <2>3
    DEF Request, CreateUploadURL, EnsureStarted, GetUploadURL, PutBegins, PutEnds, PutBreaks
<1>4. ASSUME NEW r \in Runs, Serve(r)
      PROVE  run'[s].ctx = "live"
  <2>1. run[r] \in CallRecords /\ run[r].ctx = "live"
    BY DEF Undisturbed, TypeOK
  <2>2. ASSUME NEW pc, NEW at, Goto(r, pc, at)
        PROVE  run'[s].ctx = "live"
    <3>1. [run[r] EXCEPT !.pc = pc, !.at = at].ctx = "live"
      BY <2>1 DEF CallRecords
    <3> QED
      BY <1>1, <2>2, <3>1 DEF Goto
  <2>3. ASSUME NEW answer, run' = [run EXCEPT ![r] = Idle(answer)]
        PROVE  run'[s].ctx = "live"
    BY <1>1, <1>2, <2>3
  <2>4. CASE Statement(r)
    BY <2>2, <2>3, <2>4
    DEF Statement, Mark, BeginStage, MarkFails, CallbackData, CallbackStatus,
        AfterCallback, Save, Reply
  <2>5. CASE Upload(r)
    <3>1. [run[r] EXCEPT !.pc = "data", !.at = "UploadComplete",
                         !.url = "s3"].ctx = "live"
      BY <2>1 DEF CallRecords
    <3> QED
      BY <1>1, <2>5, <3>1 DEF Upload
  <2>6. CASE Transcribe(r)
    <3>1. [run[r] EXCEPT !.pc = "data", !.at = "TranscriptComplete",
             !.text = TranscriptOf(object[run[r].book], run[r].provider)].ctx
            = "live"
      BY <2>1 DEF CallRecords
    <3> QED
      BY <1>1, <2>6, <3>1 DEF Transcribe
  <2>7. CASE Summarize(r)
    BY <2>2, <2>7 DEF Summarize
  <2>8. CASE PipelineFails(r)
    BY <2>3, <2>8 DEF PipelineFails
  <2> QED
    BY <1>4, <2>4, <2>5, <2>6, <2>7, <2>8 DEF Serve, Pipeline
<1>5. ~Crash /\ \A r \in Runs : ~Cancel(r)
  BY DEF Crash, Cancel, Fault
<1> QED
  BY <1>3, <1>4, <1>5 DEF Next

LEMMA FaultsStay == TypeOK /\ [Next]_vars /\ faults' = 0 => faults = 0
<1> SUFFICES ASSUME TypeOK, [Next]_vars, faults' = 0
             PROVE  faults = 0
  OBVIOUS
<1>1. faults \in Nat
  BY DEF TypeOK
<1>2. ASSUME NEW kind, Fault(kind)
      PROVE  FALSE
  BY <1>1, <1>2 DEF Fault
<1>3. ASSUME NEW r \in Runs, Serve(r)
      PROVE  faults' = faults
  BY <1>2, <1>3
  DEF Serve, Statement, Mark, MarkFails, CallbackData, CallbackStatus, Save, Reply,
      Succeeds, FailsQuietly, Pipeline, Upload, Transcribe, Summarize, PipelineFails
<1>4. ~Crash /\ (\A r \in Runs : ~Cancel(r)) /\ (\A b \in Books : ~PutBreaks(b))
  BY <1>2 DEF Crash, Cancel, PutBreaks
<1>5. CASE Request
  BY <1>4, <1>5
  DEF Request, CreateUploadURL, EnsureStarted, GetUploadURL, PutBegins, PutEnds, Accept,
  AcceptNothing
<1>6. CASE UNCHANGED vars
  BY <1>6 DEF vars
<1> QED
  BY <1>3, <1>4, <1>5, <1>6 DEF Next

\* Until a server crashes, a client is lost or a statement fails, the texts of a
\* READY book agree whatever calls are made for it, in whatever order their
\* statements run and wherever their pipelines fail.
THEOREM ProcessingTextsAgree == Spec => []TextsAgree
<1>1. Init => TextsInv
  <2> SUFFICES ASSUME Init
               PROVE  TextsInv
    OBVIOUS
  <2>1. \A r \in Runs : run[r].ctx = "live"
    BY DEF Init, Idle
  <2>2. \A b \in Books : TextsAgreeAt(b)
    BY DEF Init, TextsAgreeAt, NoRow
  <2> QED
    BY <2>1, <2>2, InitType DEF TextsInv, Undisturbed
<1>2. TextsInv /\ [Next]_vars => TextsInv'
  <2> SUFFICES ASSUME TextsInv, [Next]_vars
               PROVE  TextsInv'
    OBVIOUS
  <2>1. TypeOK'
    BY NextType DEF TextsInv
  <2>2. ASSUME faults' = 0
        PROVE  Undisturbed'
    <3>1. faults = 0 /\ Undisturbed
      BY <2>2, FaultsStay DEF TextsInv
    <3>2. CASE Next
      <4>1. ~Crash /\ \A r \in Runs : ~Cancel(r)
        BY <2>2, <3>1 DEF Crash, Cancel, Fault
      <4>2. \A b \in Books : TextsAgreeAt(b)'
        BY <2>2, <3>1, <3>2, <4>1, RequestAgrees, StatementAgrees, PipelineAgrees
        DEF Next, Serve
      <4> QED
        BY <2>1, <2>2, <3>1, <3>2, <4>2, StaysLive DEF Undisturbed
    <3>3. CASE UNCHANGED vars
      BY <2>1, <3>1, <3>3
      DEF Undisturbed, TextsAgreeAt, BetweenTextAndStatus, OnUrl, vars
    <3> QED
      BY <3>2, <3>3
  <2> QED
    BY <2>1, <2>2 DEF TextsInv
<1>3. TextsInv => TextsAgree
  BY DEF TextsInv, Undisturbed, TextsAgree, TextsAgreeAt
<1> QED
  BY <1>1, <1>2, <1>3, PTL DEF Spec

-----------------------------------------------------------------------------
(* Transcripts of buyers.  A call that is going to write a transcript has  *)
(* one in hand: it was read from the row or made from audio that is not    *)
(* silent.                                                                 *)

HoldsText(r) ==
    /\ run[r].pc = "mark" /\ run[r].stage = "SUMMARY" => run[r].text # NoText
    /\ run[r].pc \in {"data", "status"} /\ ~OnUrl(r) => run[r].text # NoText
    /\ run[r].pc \in {"summarize", "save"} => run[r].text # NoText

HoldInv ==
    /\ TypeOK
    /\ Silent = {} => \A r \in Runs : HoldsText(r)

LEMMA SummaryHasText ==
    ASSUME NEW rec, NEW force, StageFor(rec, force) = "SUMMARY"
    PROVE  rec.transcript # NoText
BY DEF StageFor

\* What HoldsText says of another state of a call.
Holding(call) ==
    /\ call.pc = "mark" /\ call.stage = "SUMMARY" => call.text # NoText
    /\ \/ call.pc \notin {"data", "status"}
       \/ call.at \in {"UploadComplete", "TranscriptStarted"}
       \/ call.text # NoText
    /\ call.pc \in {"summarize", "save"} => call.text # NoText

LEMMA CallHolds ==
    ASSUME Silent = {}, HoldInv, NEW r \in Runs, NEW call,
           Holding(call), run' = [run EXCEPT ![r] = call], NEW s \in Runs
    PROVE  HoldsText(s)'
<1>1. run \in [Runs -> CallRecords] /\ HoldsText(s)
  BY DEF HoldInv, TypeOK
<1>2. run'[s] = IF s = r THEN call ELSE run[s]
  BY <1>1
<1> QED
  BY <1>1, <1>2 DEF HoldsText, Holding, OnUrl

LEMMA IdleHolds == ASSUME NEW answer PROVE Holding(Idle(answer))
BY DEF Holding, Idle

LEMMA ServeHolds ==
    ASSUME Silent = {}, HoldInv, NEW r \in Runs, Serve(r), NEW s \in Runs
    PROVE  HoldsText(s)'
<1>1. run[r] \in CallRecords /\ HoldsText(r)
  BY DEF HoldInv, TypeOK
<1>2. ASSUME NEW pc, NEW at, Goto(r, pc, at), pc # "mark",
             \/ pc \notin {"data", "status", "summarize", "save"}
             \/ pc \in {"data", "status"}
                /\ at \in {"UploadComplete", "TranscriptStarted"}
             \/ run[r].text # NoText
      PROVE  HoldsText(s)'
  <2> DEFINE call == [run[r] EXCEPT !.pc = pc, !.at = at]
  <2>1. call.pc = pc /\ call.at = at /\ call.text = run[r].text
    BY <1>1 DEF CallRecords
  <2>2. Holding(call)
    BY <1>2, <2>1 DEF Holding
  <2>3. run' = [run EXCEPT ![r] = call]
    BY <1>2 DEF Goto
  <2> HIDE DEF call
  <2> QED
    BY <2>2, <2>3, CallHolds
<1>3. ASSUME NEW answer, run' = [run EXCEPT ![r] = Idle(answer)]
      PROVE  HoldsText(s)'
  BY <1>3, IdleHolds, CallHolds
<1>4. CASE Mark(r)
  BY <1>1, <1>2, <1>4 DEF Mark, BeginStage, HoldsText
<1>5. CASE MarkFails(r)
  BY <1>3, <1>5 DEF MarkFails
<1>6. CASE CallbackData(r)
  BY <1>1, <1>2, <1>6 DEF CallbackData, HoldsText, OnUrl
<1>7. CASE CallbackStatus(r)
  BY <1>1, <1>2, <1>7 DEF CallbackStatus, AfterCallback, HoldsText, OnUrl
<1>8. CASE Save(r)
  BY <1>2, <1>8 DEF Save
<1>9. CASE Reply(r)
  BY <1>3, <1>9 DEF Reply
<1>10. CASE Upload(r)
  <2> DEFINE call == [run[r] EXCEPT !.pc = "data", !.at = "UploadComplete",
                                    !.url = "s3"]
  <2>1. Holding(call)
    BY <1>1 DEF Holding, CallRecords
  <2>2. run' = [run EXCEPT ![r] = call]
    BY <1>10 DEF Upload
  <2> HIDE DEF call
  <2> QED
    BY <2>1, <2>2, CallHolds
<1>11. CASE Transcribe(r)
  <2> DEFINE text == TranscriptOf(object[run[r].book], run[r].provider)
             call == [run[r] EXCEPT !.pc = "data", !.at = "TranscriptComplete",
                                    !.text = text]
  <2>1. text # NoText
    BY DEF TranscriptOf, NoText
  <2>2. call.pc = "data" /\ call.text = text
    BY <1>1 DEF CallRecords
  <2>3. Holding(call)
    BY <2>1, <2>2 DEF Holding
  <2>4. run' = [run EXCEPT ![r] = call]
    BY <1>11 DEF Transcribe
  <2> HIDE DEF call
  <2> QED
    BY <2>3, <2>4, CallHolds
<1>12. CASE Summarize(r)
  <2>1. Goto(r, "save", "Done")
    BY <1>12 DEF Summarize
  <2>2. run[r].text # NoText
    BY <1>1, <1>12 DEF Summarize, HoldsText
  <2> QED
    BY <1>2, <2>1, <2>2
<1>13. CASE PipelineFails(r)
  BY <1>3, <1>13 DEF PipelineFails
<1> QED
  BY <1>4, <1>5, <1>6, <1>7, <1>8, <1>9, <1>10, <1>11, <1>12, <1>13
  DEF Serve, Statement, Pipeline

LEMMA RequestHolds ==
    ASSUME Silent = {}, HoldInv, Request, NEW s \in Runs
    PROVE  HoldsText(s)'
<1>1. CASE run' = run
  BY <1>1 DEF HoldInv, HoldsText, OnUrl
<1>2. ASSUME NEW r \in Runs, NEW b \in Books, NEW force, NEW p \in Providers,
             Accept(r, b, force, p)
      PROVE  HoldsText(s)'
  <2>1. Holding(NewCall(b, force, p))
    BY SummaryHasText DEF Holding, NewCall
  <2> QED
    BY <1>2, <2>1, CallHolds DEF Accept
<1>3. ASSUME NEW r \in Runs, NEW b \in Books, NEW force,
             AcceptNothing(r, b, force)
      PROVE  HoldsText(s)'
  BY <1>3, IdleHolds, CallHolds DEF AcceptNothing
<1> QED
  BY <1>1, <1>2, <1>3 DEF Request, CreateUploadURL, EnsureStarted, GetUploadURL,
     PutBegins, PutEnds, PutBreaks

LEMMA FaultHolds ==
    ASSUME Silent = {}, HoldInv, Crash \/ \E r \in Runs : Cancel(r),
           NEW s \in Runs
    PROVE  HoldsText(s)'
<1>1. HoldsText(s) /\ run \in [Runs -> CallRecords]
  BY DEF HoldInv, TypeOK
<1>2. CASE Crash
  <2>1. run'[s] = Idle("error") \/ run'[s] = run[s]
    BY <1>2 DEF Crash
  <2>2. Idle("error").pc = "idle"
    BY DEF Idle
  <2> QED
    BY <1>1, <2>1, <2>2 DEF HoldsText, OnUrl
<1>3. ASSUME NEW r \in Runs, Cancel(r)
      PROVE  HoldsText(s)'
  <2>1. /\ run'[s].pc = run[s].pc /\ run'[s].at = run[s].at
        /\ run'[s].stage = run[s].stage /\ run'[s].text = run[s].text
    <3>1. run[r] \in CallRecords
      BY <1>1
    <3> QED
      BY <1>1, <1>3, <3>1 DEF Cancel, CallRecords
  <2> QED
    BY <1>1, <2>1 DEF HoldsText, OnUrl
<1> QED
  BY <1>2, <1>3

LEMMA HoldInvStep == HoldInv /\ [Next]_vars => HoldInv'
<1> SUFFICES ASSUME HoldInv, [Next]_vars
             PROVE  HoldInv'
  OBVIOUS
<1>1. TypeOK'
  BY NextType DEF HoldInv
<1>2. ASSUME Silent = {}, NEW s \in Runs
      PROVE  HoldsText(s)'
  <2>1. CASE Next
    BY <1>2, <2>1, RequestHolds, ServeHolds, FaultHolds DEF Next
  <2>2. CASE UNCHANGED vars
    BY <1>2, <2>2 DEF HoldInv, HoldsText, OnUrl, vars
  <2> QED
    BY <2>1, <2>2
<1> QED
  BY <1>1, <1>2 DEF HoldInv

LEMMA StepKeepsTranscript ==
    ASSUME Silent = {}, HoldInv, Next, NEW b \in Books,
           row[b].transcript # NoText
    PROVE  row'[b].transcript # NoText
<1>1. row \in [Books -> Rows] /\ row[b] \in Rows
  BY DEF HoldInv, TypeOK
<1>2. CASE row' = row
  BY <1>2
<1>3. ASSUME NEW c \in Books, CreateUploadURL(c)
      PROVE  row'[b].transcript # NoText
  <2>1. row'[b].transcript = row[b].transcript
    BY <1>1, <1>3 DEF CreateUploadURL, EnsureStarted, Rows
  <2> QED
    BY <2>1
<1>4. ASSUME NEW r \in Runs, Statement(r)
      PROVE  row'[b].transcript # NoText
  <2>1. HoldsText(r) /\ run[r] \in CallRecords
    BY DEF HoldInv, TypeOK
  <2>2. CASE Mark(r)
    BY <1>1, <2>2 DEF Mark, Rows
  <2>3. CASE CallbackData(r)
    <3>1. CASE OnUrl(r)
      BY <1>1, <2>3, <3>1 DEF CallbackData, Rows
    <3>2. CASE ~OnUrl(r)
      <4>1. run[r].text # NoText
        BY <2>1, <2>3, <3>2 DEF CallbackData, HoldsText
      <4> QED
        BY <1>1, <2>3, <3>2, <4>1 DEF CallbackData, Rows
    <3> QED
      BY <3>1, <3>2
  <2>4. CASE CallbackStatus(r)
    BY <1>1, <2>4 DEF CallbackStatus, Rows
  <2>5. CASE Save(r)
    <3>1. run[r].text # NoText
      BY <2>1, <2>5 DEF Save, HoldsText
    <3> QED
      BY <1>1, <2>5, <3>1 DEF Save, Rows
  <2>6. CASE MarkFails(r) \/ Reply(r)
    BY <1>2, <2>6 DEF MarkFails, Reply
  <2> QED
    BY <1>4, <2>2, <2>3, <2>4, <2>5, <2>6 DEF Statement
<1> QED
  BY <1>2, <1>3, <1>4
  DEF Next, Request, GetUploadURL, EnsureStarted, PutBegins, PutEnds, PutBreaks, Accept,
  AcceptNothing, Serve, Pipeline,
      Upload, Transcribe, Summarize, PipelineFails, Cancel, Crash

\* When no content is silent, no number of calls, failures and faults takes
\* the transcript from a book that has one.
THEOREM ProcessingKeepsTranscripts == Spec => TranscriptKept
<1>1. Init => HoldInv
  <2> SUFFICES ASSUME Init
               PROVE  HoldInv
    OBVIOUS
  <2>1. \A r \in Runs : HoldsText(r)
    BY DEF Init, Idle, HoldsText
  <2> QED
    BY <2>1, InitType DEF HoldInv
<1>2. HoldInv /\ [Next]_vars => HoldInv'
  BY HoldInvStep
<1>3. HoldInv /\ [Next]_vars =>
        [Silent = {} =>
           \A b \in Books :
              row[b].transcript # NoText => row'[b].transcript # NoText]_row
  BY StepKeepsTranscript DEF vars
<1> QED
  BY <1>1, <1>2, <1>3, PTL DEF Spec, TranscriptKept
=============================================================================
