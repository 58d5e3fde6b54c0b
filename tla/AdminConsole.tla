---------------------------- MODULE AdminConsole ----------------------------
(***************************************************************************)
(* The admin's side of publishing a book, composed with the server of      *)
(* module Processing: the catalog page that lists the books and their      *)
(* status (frontend/lib/pages/shop/shop_catalog.dart) and the page that    *)
(* uploads a file and fires CompleteUpload (create_audiobook.dart).        *)
(*                                                                         *)
(* The page sends the status the catalog last listed as the stage to force,*)
(* and offers a choice of stage only for a book listed as READY, so of the *)
(* requests the server would take only some are ever made.                 *)
(***************************************************************************)
EXTENDS Processing, FiniteSets

CONSTANTS
    Waits,      \* the admin starts nothing for a book while a call works on it
    Refreshes,  \* the admin reloads the catalog before pressing a button
    PageSize    \* the books a listing has at most, and there is no next page

ASSUME ConsoleAssumption ==
    Waits \in BOOLEAN /\ Refreshes \in BOOLEAN /\ PageSize \in Nat

VARIABLE listed   \* listed[b]: the status the catalog last showed for b

consoleVars == <<row, file, object, listening, run, faults, listed>>

ConsoleTypeOK ==
    /\ TypeOK
    /\ listed \in [Books -> Status \cup {"ABSENT"}]

ConsoleInit ==
    /\ Init
    /\ listed = [b \in Books |-> "ABSENT"]

-----------------------------------------------------------------------------
Working(b) == \E r \in Runs : Active(r) /\ run[r].book = b

\* What keeps the admin from a button: the page is busy until the call has
\* answered or 180 seconds have passed, and the catalog shows what it loaded.
MayPress(b) ==
    /\ listed[b] # "ABSENT"
    /\ Waits => ~Working(b)
    /\ Refreshes => listed[b] = row[b].status

Present == {b \in Books : row[b].status # "ABSENT"}

\* ListAudiobooks: all books, or the newest, whichever these are.
ListAudiobooks ==
    IF Cardinality(Present) <= PageSize
    THEN {Present}
    ELSE {some \in SUBSET Present : Cardinality(some) = PageSize}

\* The catalog is loaded again.
Refresh ==
    /\ \E page \in ListAudiobooks :
          listed' = [b \in Books |-> IF b \in page THEN row[b].status ELSE "ABSENT"]
    /\ UNCHANGED vars

\* The first form: a row is made and the page goes on to upload for it.
Create(b) ==
    /\ CreateUploadURL(b)
    /\ listed' = [listed EXCEPT ![b] = "UNSPECIFIED"]

\* Mutant: every stage is offered for every book.
OfferedAlways(status) == Stages

\* The stages the buttons of the page send for a book with this listing.
Offered(status) == IF status = "READY" THEN Stages ELSE {status}

\* A file is put again only before a call that starts from the audio.
SendsFile(stage) == stage \in {"UNSPECIFIED", "AUDIO"}

\* The page lets the admin pick a file for a book that has not been worked on
\* or is offered as a choice of stages; for any other the button is dead.
Picks(status) == status \in {"UNSPECIFIED", "READY"}

\* What a press of the stage's button needs before it calls CompleteUpload.
FileSent(b, stage) ==
    SendsFile(stage) => Picks(listed[b]) /\ file[b] \in Audio

\* The page of a listed book is opened, which asks for its upload URL.
OpenPage(b) ==
    /\ listed[b] # "ABSENT"
    /\ GetUploadURL(b)
    /\ UNCHANGED listed

PutFile(b) ==
    /\ MayPress(b)
    /\ Picks(listed[b])
    /\ PutBegins(b)
    /\ UNCHANGED listed

FilePut(b, a) ==
    /\ PutEnds(b, a)
    /\ UNCHANGED listed

FileLost(b) ==
    /\ PutBreaks(b)
    /\ UNCHANGED listed

\* The button: CompleteUpload is called once the PUT, if there is one, has
\* been answered with success.
Press(r, b, stage, p) ==
    /\ MayPress(b)
    /\ stage \in Offered(listed[b])
    /\ FileSent(b, stage)
    /\ Accept(r, b, stage, p)
    /\ UNCHANGED listed

PressInVain(r, b, stage) ==
    /\ MayPress(b)
    /\ stage \in Offered(listed[b])
    /\ FileSent(b, stage)
    /\ AcceptNothing(r, b, stage)
    /\ UNCHANGED listed

Admin ==
    \/ Refresh
    \/ \E b \in Books : Create(b) \/ OpenPage(b) \/ PutFile(b) \/ FileLost(b)
    \/ \E b \in Books, a \in Audio : FilePut(b, a)
    \/ \E r \in Runs, b \in Books, stage \in Stages \cup {NoForce} :
          \/ \E p \in Providers : Press(r, b, stage, p)
          \/ PressInVain(r, b, stage)

ConsoleNext ==
    \/ Admin
    \/ \E r \in Runs : (Serve(r) \/ Cancel(r)) /\ UNCHANGED listed
    \/ Crash /\ UNCHANGED listed

ConsoleSpec == ConsoleInit /\ [][ConsoleNext]_consoleVars

-----------------------------------------------------------------------------
(* Safety *)

Published == {"TRANSCRIPT", "SUMMARY", "READY"}

\* A status past AUDIO is a promise: the audio is in S3 and the row holds
\* its link, so whatever resumes the book can go on from there.
StatusBackedByAudio ==
    \A b \in Books :
        row[b].status \in Published =>
            /\ row[b].cover = "s3"
            /\ object[b] # "none"

\* Buyers can always download: once the row holds the S3 link, no resume or
\* repetition of a step, failed or not, puts the upload path back.
LinkKept ==
    [][\A b \in Books : row[b].cover = "s3" => row'[b].cover = "s3"]_consoleVars

\* A READY book is one piece of work: its transcript is of the very audio
\* its link leads to, and its description is of that transcript.
ReadyIsConsistent ==
    \A b \in Books :
        row[b].status = "READY" =>
            /\ object[b] \in Audio
            /\ \E p \in Providers : row[b].transcript = TranscriptOf(object[b], p)
            /\ row[b].description = Describe(row[b].transcript)

\* A call that is answered without an error has made its book READY.
AnsweredMeansReady ==
    \A r \in Runs : run[r].answer \in {"none", "error", "READY"}

-----------------------------------------------------------------------------
(* Liveness: the admin resumes, and the AI services answer sooner or later.*)

Resume(b) ==
    \E r \in Runs, p \in Providers : Press(r, b, listed[b], p)

\* AWS asks its services for something before it reports a stage begun, LOCAL
\* after; strong fairness of what follows says they do not fail for ever.
ConsoleFairness ==
    /\ \A r \in Runs :
          /\ WF_consoleVars(Serve(r) /\ UNCHANGED listed)
          /\ \A at \in {"TranscriptStarted", "SummaryStart"} :
                SF_consoleVars(CallbackData(r) /\ run[r].at = at /\ UNCHANGED listed)
          /\ SF_consoleVars(Upload(r) /\ UNCHANGED listed)
          /\ SF_consoleVars(Transcribe(r) /\ UNCHANGED listed)
          /\ SF_consoleVars(Summarize(r) /\ UNCHANGED listed)
    /\ WF_consoleVars(Refresh)
    /\ \A b \in Books :
          /\ WF_consoleVars(OpenPage(b))
          /\ SF_consoleVars(PutFile(b))
          /\ WF_consoleVars(\E a \in Audio : FilePut(b, a))
          /\ SF_consoleVars(Resume(b))

FairConsoleSpec == ConsoleSpec /\ ConsoleFairness

\* A new book gets its file and its first call, though a restart of the server
\* takes the upload endpoint with it (blobstore_http.go 41-99).
FileArrives ==
    \A b \in Books : row[b].status = "UNSPECIFIED" ~> row[b].status # "UNSPECIFIED"

\* A book that has got past its upload becomes READY if the admin goes on
\* resuming it, wherever calls break off.
ResumeCompletes ==
    \A b \in Books : row[b].status \in Published ~> row[b].status = "READY"

\* The same of every book, as README.md:51 has it: whichever step breaks, the
\* admin can come back later and press resume.
AlwaysResumable ==
    \A b \in Books : row[b].status # "ABSENT" ~> row[b].status = "READY"
=============================================================================
