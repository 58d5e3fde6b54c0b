----------------------------- MODULE Processing -----------------------------
(***************************************************************************)
(* The server side of publishing an audiobook: the row of table            *)
(* audiobooks, the uploaded file, the object in S3, and the CompleteUpload *)
(* calls (backend/internal/shop/shop.go) that drive a book through         *)
(* upload -> transcript -> summary -> ready with the AI pipeline           *)
(* (backend/internal/aihelper/pipeline.go).                                *)
(*                                                                         *)
(* Every SQL statement of a call is a step of its own: other calls, a lost *)
(* client, a failed statement or a restart of the server may come between  *)
(* any two of them.  The statements of UpdateAudiobookAI are one step, for *)
(* they run in one transaction.                                            *)
(***************************************************************************)
EXTENDS Naturals

CONSTANTS
    Books,       \* audiobook ids
    Runs,        \* CompleteUpload calls the server may be serving at a time
    Audio,       \* contents an admin may upload
    Silent,      \* the contents whose transcript is the empty string
    Providers,   \* AI providers a request may name
    FaultKinds,  \* which faults may happen: "crash", "cancel", "write"
    MaxFaults    \* how many of them (a bound of the model)

ASSUME ProcessingAssumption ==
    /\ Books # {} /\ Providers # {}
    /\ Silent \subseteq Audio
    /\ Providers \subseteq {"LOCAL", "AWS"}
    /\ FaultKinds \subseteq {"crash", "cancel", "write"}
    /\ MaxFaults \in Nat
    /\ Audio \cap {"none", "writing", "partial"} = {}

VARIABLES
    row,      \* row[b]: the row of b in table audiobooks
    file,     \* file[b]: the file the upload endpoint keeps for b
    object,   \* object[b]: the object of b in the S3 bucket
    listening,   \* the upload endpoint accepts PUTs
    run,      \* run[r]: the call served in slot r
    faults    \* faults so far

vars == <<row, file, object, listening, run, faults>>

-----------------------------------------------------------------------------
(* Values *)

Stages == {"AUDIO", "TRANSCRIPT", "SUMMARY"}

Status == {"UNSPECIFIED", "READY"} \cup Stages

\* The enum value a request carries when it forces no stage.
NoForce == "UNSPECIFIED"

Contents == Audio \cup {"partial"}

\* What a reader finds in a file: a part of it while it is being written.
Stored(f) == IF f = "writing" THEN "partial" ELSE f

\* "" and NULL read the same (sql.NullString.String), so both are NoText.
NoText == <<>>

TranscriptOf(a, p) == IF a \in Silent THEN NoText ELSE <<a, p>>

Texts == {NoText} \cup (Contents \X Providers)

\* ai_description and the rows of audiobook_categories are written together
\* and only together; both stand as the transcript they were made from.
NoDescription == <<>>

Describe(t) == <<t>>

Descriptions == {NoDescription} \cup {Describe(t) : t \in Texts}

Rows == [status : Status \cup {"ABSENT"}, cover : {"none", "upload", "s3"},
         transcript : Texts, description : Descriptions]

NoRow == [status |-> "ABSENT", cover |-> "none",
          transcript |-> NoText, description |-> NoDescription]

\* The states the pipeline reports to the callback of CompleteUpload.
PipelineStates == {"Start", "UploadComplete", "TranscriptStarted",
                   "TranscriptComplete", "SummaryStart", "Done"}

Answers == {"none", "error", "empty", "ABSENT"} \cup Status

CallRecords ==
    [pc : {"idle", "mark", "upload", "data", "status", "transcribe",
           "summarize", "save", "reply"},
     book : Books, provider : Providers, stage : Stages, at : PipelineStates,
     url : {"none", "upload", "s3"}, text : Texts,
     ctx : {"live", "cancelled"}, answer : Answers]

TypeOK ==
    /\ row \in [Books -> Rows]
    /\ file \in [Books -> Contents \cup {"none", "writing"}]
    /\ listening \in BOOLEAN
    /\ object \in [Books -> Contents \cup {"none"}]
    /\ run \in [Runs -> CallRecords]
    /\ faults \in 0..MaxFaults

-----------------------------------------------------------------------------
Idle(answer) ==
    [pc |-> "idle", book |-> CHOOSE b \in Books : TRUE,
     provider |-> CHOOSE p \in Providers : TRUE, stage |-> "AUDIO",
     at |-> "Start", url |-> "none", text |-> NoText, ctx |-> "live",
     answer |-> answer]

Active(r) == run[r].pc # "idle"

Init ==
    /\ row = [b \in Books |-> NoRow]
    /\ file = [b \in Books |-> "none"]
    /\ object = [b \in Books |-> "none"]
    /\ listening = FALSE
    /\ run = [r \in Runs |-> Idle("none")]
    /\ faults = 0

Fault(kind) ==
    /\ kind \in FaultKinds
    /\ faults < MaxFaults
    /\ faults' = faults + 1

-----------------------------------------------------------------------------
(* Rows and files *)

\* Both requests start the endpoint if it is not running: it lives in the
\* process of the server and nothing else starts it.
EnsureStarted == listening' = TRUE

CreateUploadURL(b) ==
    /\ row[b].status = "ABSENT"
    /\ row' = [row EXCEPT ![b].status = "UNSPECIFIED", ![b].cover = "upload"]
    /\ EnsureStarted
    /\ UNCHANGED <<file, object, run, faults>>

\* Mutant: the URL is given out with no thought of the endpoint.
GetUploadURLOnly(b) ==
    /\ row[b].status # "ABSENT"
    /\ UNCHANGED vars

GetUploadURL(b) ==
    /\ row[b].status # "ABSENT"
    /\ EnsureStarted
    /\ UNCHANGED <<row, file, object, run, faults>>

\* os.Create empties the file before the body is copied into it.  There is one
\* PUT for a book at a time (a bound of the model).
PutBegins(b) ==
    /\ row[b].status # "ABSENT"
    /\ listening
    /\ file[b] # "writing"
    /\ file' = [file EXCEPT ![b] = "writing"]
    /\ UNCHANGED <<row, object, run, faults, listening>>

PutEnds(b, a) ==
    /\ file[b] = "writing"
    /\ file' = [file EXCEPT ![b] = a]
    /\ UNCHANGED <<row, object, run, faults, listening>>

\* The client goes away: what has been written so far stays.
PutBreaks(b) ==
    /\ file[b] = "writing"
    /\ Fault("cancel")
    /\ file' = [file EXCEPT ![b] = "partial"]
    /\ UNCHANGED <<row, object, run, listening>>

-----------------------------------------------------------------------------
(* CompleteUpload: choosing where to start *)

\* Mutant: an old transcript spares the transcription.
StageForSparing(rec, force) ==
    LET status == IF force \in Stages THEN force ELSE rec.status
    IN  IF status \in {"UNSPECIFIED", "AUDIO"} \/ rec.cover = "none"
          THEN "AUDIO"
        ELSE IF status = "TRANSCRIPT" /\ rec.transcript = NoText
          THEN "TRANSCRIPT"
        ELSE IF status \in {"TRANSCRIPT", "SUMMARY"} THEN "SUMMARY" ELSE "NOTHING"

\* The stage a call starts at, from the row it has read and the status the
\* request forces; NOTHING is the fall through past the three branches.
StageFor(rec, force) ==
    LET status == IF force \in Stages THEN force ELSE rec.status
    IN  IF status \in {"UNSPECIFIED", "AUDIO"} \/ rec.cover = "none"
          THEN "AUDIO"
        ELSE IF status = "TRANSCRIPT" \/ rec.transcript = NoText
          THEN "TRANSCRIPT"
        ELSE IF status = "SUMMARY" THEN "SUMMARY" ELSE "NOTHING"

\* Mutants: the transcript, or the link, of the row is not passed on.
NewCallUntranscribed(b, force, p) ==
    [pc |-> "mark", book |-> b, provider |-> p,
     stage |-> StageFor(row[b], force), at |-> "Start", url |-> row[b].cover,
     text |-> NoText, ctx |-> "live", answer |-> "none"]

NewCallUnlinked(b, force, p) ==
    [pc |-> "mark", book |-> b, provider |-> p,
     stage |-> StageFor(row[b], force), at |-> "Start", url |-> "upload",
     text |-> row[b].transcript, ctx |-> "live", answer |-> "none"]

\* What a call takes from its request and from the row as it reads it; it
\* goes by this copy of the link and the transcript to the end.
NewCall(b, force, p) ==
    [pc |-> "mark", book |-> b, provider |-> p,
     stage |-> StageFor(row[b], force), at |-> "Start", url |-> row[b].cover,
     text |-> row[b].transcript, ctx |-> "live", answer |-> "none"]

\* Mutant: it is not checked that a branch fits.
AcceptAny(r, b, force, p) ==
    /\ ~Active(r)
    /\ row[b].status # "ABSENT"
    /\ run' = [run EXCEPT ![r] = NewCall(b, force, p)]
    /\ UNCHANGED <<row, file, object, faults, listening>>

Accept(r, b, force, p) ==
    /\ ~Active(r)
    /\ row[b].status # "ABSENT"
    /\ StageFor(row[b], force) # "NOTHING"
    /\ run' = [run EXCEPT ![r] = NewCall(b, force, p)]
    /\ UNCHANGED <<row, file, object, faults, listening>>

\* No branch fits: the call returns neither a response nor an error.
AcceptNothing(r, b, force) ==
    /\ ~Active(r)
    /\ row[b].status # "ABSENT"
    /\ StageFor(row[b], force) = "NOTHING"
    /\ run' = [run EXCEPT ![r] = Idle("empty")]
    /\ UNCHANGED <<row, file, object, faults, listening>>

-----------------------------------------------------------------------------
(* Statements.  Each is one UPDATE under the context of the request: it    *)
(* fails when the context is cancelled, or when the database fails it.     *)

Succeeds(r) == run[r].ctx = "live" /\ UNCHANGED faults

FailsQuietly(r) ==
    \/ run[r].ctx = "cancelled" /\ UNCHANGED faults
    \/ run[r].ctx = "live" /\ Fault("write")

\* The call goes on at pc; at is the state the pipeline reports next or has
\* reported last.
Goto(r, pc, at) ==
    run' = [run EXCEPT ![r] = [run[r] EXCEPT !.pc = pc, !.at = at]]

BeginStage(r) ==
    \/ run[r].stage = "AUDIO" /\ Goto(r, "upload", "Start")
    \/ run[r].stage = "TRANSCRIPT" /\ Goto(r, "data", "TranscriptStarted")
    \/ run[r].stage = "SUMMARY" /\ Goto(r, "data", "SummaryStart")

\* Mutant: the row keeps its status while the first stage runs.
MarkSilently(r) ==
    /\ run[r].pc = "mark"
    /\ Succeeds(r)
    /\ BeginStage(r)
    /\ UNCHANGED <<row, file, object, listening>>

\* The status of the chosen stage; a failure of this one ends the call.
Mark(r) ==
    /\ run[r].pc = "mark"
    /\ Succeeds(r)
    /\ row' = [row EXCEPT ![run[r].book].status = run[r].stage]
    /\ BeginStage(r)
    /\ UNCHANGED <<file, object, listening>>

MarkFails(r) ==
    /\ run[r].pc = "mark"
    /\ FailsQuietly(r)
    /\ run' = [run EXCEPT ![r] = Idle("error")]
    /\ UNCHANGED <<row, file, object, listening>>

OnUrl(r) == run[r].at \in {"UploadComplete", "TranscriptStarted"}

\* ContinueTranscript of the AWS provider refuses a URL that is not in S3,
\* before it reports TranscriptStarted.
UrlRefused(r) ==
    run[r].at = "TranscriptStarted" /\ run[r].provider = "AWS" /\ run[r].url # "s3"

\* Mutant: the link is not saved before the end.
CallbackDataTextOnly(r) ==
    /\ run[r].pc = "data"
    /\ ~UrlRefused(r)
    /\ Goto(r, "status", run[r].at)
    /\ Succeeds(r)
    /\ row' = IF OnUrl(r) THEN row
              ELSE [row EXCEPT ![run[r].book].transcript = run[r].text]
    /\ UNCHANGED <<file, object, listening>>

\* First statement of the callback: the URL or the transcript.
CallbackData(r) ==
    /\ run[r].pc = "data"
    /\ ~UrlRefused(r)
    /\ Goto(r, "status", run[r].at)
    /\ \/ /\ Succeeds(r)
          /\ row' = IF OnUrl(r)
                    THEN [row EXCEPT ![run[r].book].cover = run[r].url]
                    ELSE [row EXCEPT ![run[r].book].transcript = run[r].text]
       \/ FailsQuietly(r) /\ UNCHANGED row
    /\ UNCHANGED <<file, object, listening>>

\* Where the pipeline goes on when the callback has returned.
AfterCallback(r) ==
    \/ run[r].at = "UploadComplete" /\ Goto(r, "data", "TranscriptStarted")
    \/ run[r].at = "TranscriptStarted" /\ Goto(r, "transcribe", "TranscriptStarted")
    \/ run[r].at = "TranscriptComplete" /\ Goto(r, "data", "SummaryStart")
    \/ run[r].at = "SummaryStart" /\ Goto(r, "summarize", "SummaryStart")

\* Mutant: a status that could not be written is sent again.
CallbackStatusRetried(r) ==
    /\ run[r].pc = "status"
    /\ \/ /\ Succeeds(r)
          /\ AfterCallback(r)
          /\ row' = [row EXCEPT ![run[r].book].status =
                        IF OnUrl(r) THEN "TRANSCRIPT" ELSE "SUMMARY"]
       \/ FailsQuietly(r) /\ UNCHANGED <<row, run>>
    /\ UNCHANGED <<file, object, listening>>

\* Second statement of the callback: the status.
CallbackStatus(r) ==
    /\ run[r].pc = "status"
    /\ AfterCallback(r)
    /\ \/ /\ Succeeds(r)
          /\ row' = [row EXCEPT ![run[r].book].status =
                        IF OnUrl(r) THEN "TRANSCRIPT" ELSE "SUMMARY"]
       \/ FailsQuietly(r) /\ UNCHANGED row
    /\ UNCHANGED <<file, object, listening>>

\* Mutant: the transcript is left as the callbacks have stored it.
SaveSummary(r) ==
    /\ run[r].pc = "save"
    /\ Succeeds(r)
    /\ Goto(r, "reply", "Done")
    /\ row' = [row EXCEPT ![run[r].book].status = "READY",
                          ![run[r].book].description = Describe(run[r].text)]
    /\ UNCHANGED <<file, object, listening>>

\* UpdateAudiobookAI: the whole outcome in one transaction.
Save(r) ==
    /\ run[r].pc = "save"
    /\ Goto(r, "reply", "Done")
    /\ \/ /\ Succeeds(r)
          /\ row' = [row EXCEPT ![run[r].book] =
                [status |-> "READY", cover |-> run[r].url,
                 transcript |-> run[r].text,
                 description |-> Describe(run[r].text)]]
       \/ FailsQuietly(r) /\ UNCHANGED row
    /\ UNCHANGED <<file, object, listening>>

\* The book in the response is read once more after the update.
Reply(r) ==
    /\ run[r].pc = "reply"
    /\ run' = [run EXCEPT ![r] =
          Idle(IF run[r].ctx = "live" THEN row[run[r].book].status ELSE "error")]
    /\ UNCHANGED <<row, file, object, faults, listening>>

-----------------------------------------------------------------------------
(* The pipeline: file storage and AI services *)

\* What there is of the file is uploaded, be it complete or not.
Upload(r) ==
    /\ run[r].pc = "upload"
    /\ file[run[r].book] # "none"
    /\ object' = [object EXCEPT ![run[r].book] = Stored(file[run[r].book])]
    /\ run' = [run EXCEPT ![r] =
          [run[r] EXCEPT !.pc = "data", !.at = "UploadComplete", !.url = "s3"]]
    /\ UNCHANGED <<row, file, faults, listening>>

\* The path of the upload endpoint means nothing to the AI worker.
Transcribe(r) ==
    /\ run[r].pc = "transcribe"
    /\ run[r].url = "s3"
    /\ object[run[r].book] # "none"
    /\ run' = [run EXCEPT ![r] =
          [run[r] EXCEPT !.pc = "data", !.at = "TranscriptComplete",
             !.text = TranscriptOf(object[run[r].book], run[r].provider)]]
    /\ UNCHANGED <<row, file, object, faults, listening>>

Summarize(r) ==
    /\ run[r].pc = "summarize"
    /\ Goto(r, "save", "Done")
    /\ UNCHANGED <<row, file, object, faults, listening>>

\* Mutant: an error that is not returned.
PipelineFailsUnseen(r) ==
    /\ run[r].pc \in {"upload", "transcribe", "summarize"}
    /\ run' = [run EXCEPT ![r] = Idle(row[run[r].book].status)]
    /\ UNCHANGED <<row, file, object, faults, listening>>

\* A step of the pipeline fails: the call returns its error and the row
\* stays as the callbacks have left it.
PipelineFails(r) ==
    /\ \/ run[r].pc \in {"upload", "transcribe", "summarize"}
       \/ /\ run[r].pc = "data"
          /\ run[r].provider = "AWS"
          /\ run[r].at \in {"TranscriptStarted", "SummaryStart"}
    /\ run' = [run EXCEPT ![r] = Idle("error")]
    /\ UNCHANGED <<row, file, object, faults, listening>>

-----------------------------------------------------------------------------
(* Faults *)

\* The client goes away: the context of its request is cancelled, while the
\* pipeline, which runs under context.Background(), goes on.
Cancel(r) ==
    /\ Active(r)
    /\ run[r].ctx = "live"
    /\ Fault("cancel")
    /\ run' = [run EXCEPT ![r] = [run[r] EXCEPT !.ctx = "cancelled"]]
    /\ UNCHANGED <<row, file, object, listening>>

\* The server stops and starts again: calls, a PUT on its way and the upload
\* endpoint are gone; tables, files and objects stay.
Crash ==
    /\ Fault("crash")
    /\ run' = [r \in Runs |-> IF Active(r) THEN Idle("error") ELSE run[r]]
    /\ file' = [b \in Books |-> Stored(file[b])]
    /\ listening' = FALSE
    /\ UNCHANGED <<row, object>>

-----------------------------------------------------------------------------
Statement(r) ==
    \/ Mark(r)
    \/ MarkFails(r)
    \/ CallbackData(r)
    \/ CallbackStatus(r)
    \/ Save(r)
    \/ Reply(r)

Pipeline(r) == Upload(r) \/ Transcribe(r) \/ Summarize(r)

Serve(r) == Statement(r) \/ Pipeline(r) \/ PipelineFails(r)

\* An admin of the API: any request, any forced stage, at any time.
Request ==
    \/ \E b \in Books : \/ CreateUploadURL(b) \/ GetUploadURL(b)
                        \/ PutBegins(b) \/ PutBreaks(b)
    \/ \E b \in Books, a \in Audio : PutEnds(b, a)
    \/ \E r \in Runs, b \in Books, force \in Stages \cup {NoForce} :
          \/ \E p \in Providers : Accept(r, b, force, p)
          \/ AcceptNothing(r, b, force)

Next ==
    \/ Request
    \/ \E r \in Runs : Serve(r) \/ Cancel(r)
    \/ Crash

Spec == Init /\ [][Next]_vars

\* Every call the server has accepted is carried on: each statement and each
\* AI call ends, for it has a time limit or a result.
Fairness == \A r \in Runs : WF_vars(Serve(r))

FairSpec == Spec /\ Fairness

-----------------------------------------------------------------------------
(* Properties that hold whatever admins request and however many calls     *)
(* work on one book at a time.                                             *)

\* A call that has stored a transcript and not yet said so in the status.
BetweenTextAndStatus(r, b) ==
    /\ run[r].pc = "status"
    /\ run[r].book = b
    /\ ~OnUrl(r)

\* The description of a READY book was made from the transcript stored with
\* it, however CompleteUpload calls interleave, but for the moment between
\* the two statements of a callback.  A fault may part the two for good.
TextsAgree ==
    faults = 0 =>
        \A b \in Books :
            \/ row[b].status # "READY"
            \/ row[b].description = Describe(row[b].transcript)
            \/ \E r \in Runs : BetweenTextAndStatus(r, b)

\* Buyers keep the transcript they paid for: once a book has one, no resumed,
\* repeated, interleaved or failed CompleteUpload leaves it without.
TranscriptKept ==
    [][Silent = {} =>
         \A b \in Books :
            row[b].transcript # NoText => row'[b].transcript # NoText]_row

\* Every CompleteUpload call ends, with an answer or an error.
CallsEnd == \A r \in Runs : Active(r) ~> ~Active(r)
=============================================================================
