---------------------------- MODULE Transcription ----------------------------
(***************************************************************************)
(* From the link of a stored recording to its transcript: ContinueTranscript *)
(* with both providers (backend/internal/aihelper/pipeline.go 268-361,     *)
(* 509-586, ailocal.go 94-160).  The calls run side by side with the jobs  *)
(* of Amazon Transcribe, which go on whether anyone waits for them or not, *)
(* and all the jobs of a book write to one object.                         *)
(***************************************************************************)
EXTENDS Naming

CONSTANTS
    Books,
    Names,      \* file names an admin may send
    Calls,      \* the calls of ContinueTranscript there ever are
    Subject,    \* Subject[c]: the book of call c
    Jobs,       \* job names there are to draw
    NoJob,
    MaxPolls,   \* polls that fit in the time limit of waitTranscribe
    MaxUploads  \* how often a recording is stored (a bound of the model)

ASSUME TranscriptionAssumption ==
    /\ Books # {}
    /\ Names \subseteq Seq(STRING)
    /\ Subject \in [Calls -> Books]
    /\ NoJob \notin Jobs
    /\ MaxPolls \in Nat
    /\ MaxUploads \in Nat

VARIABLES
    keys,       \* keys[b]: the names the recording of b goes by
    takes,      \* takes[b]: how many recordings of b have been stored
    audio,      \* audio[b]: the object under the key of b's recording
    output,     \* output[b]: the object under the key of b's transcript
    job,        \* job[j]: the transcription job of that name
    call,       \* call[c]
    rivals      \* rivals[c]: the other jobs for the book of c that have been
                \* under way since c's own job began (a history variable)

bucketVars == <<keys, takes, audio, output>>
vars == <<keys, takes, audio, output, job, call, rivals>>

\* A recording is told by its number, 0 for none; a transcript by its job and by the recording it was made from.
Content == [job : Jobs \cup {NoJob}, take : 0..MaxUploads]

Recording(n) == [job |-> NoJob, take |-> n]

Nothing == Recording(0)

Job == [state : {"none", "queued", "running", "completed", "failed"},
        book : Books, take : 0..MaxUploads]

Call == [pc : {"idle", "asked", "start", "wait", "locate", "read", "done", "failed"},
         job : Jobs \cup {NoJob},
         first : 0..MaxUploads,   \* recordings stored when the call began
         polls : 0..MaxPolls,
         text : Content]

TypeOK ==
    /\ \A b \in Books : keys[b].name \in Names
    /\ takes \in [Books -> 0..MaxUploads]
    /\ audio \in [Books -> Content]
    /\ output \in [Books -> Content]
    /\ job \in [Jobs -> Job]
    /\ call \in [Calls -> Call]
    /\ rivals \in [Calls -> SUBSET Jobs]

Init ==
    /\ \E name \in [Books -> Names] : keys = [b \in Books |-> Keys(name[b])]
    /\ takes = [b \in Books |-> 0]
    /\ audio = [b \in Books |-> Nothing]
    /\ output = [b \in Books |-> Nothing]
    /\ job = [j \in Jobs |-> [state |-> "none", book |-> CHOOSE b \in Books : TRUE,
                              take |-> 0]]
    /\ call = [c \in Calls |-> [pc |-> "idle", job |-> NoJob, first |-> 0,
                                polls |-> 0, text |-> Nothing]]
    /\ rivals = [c \in Calls |-> {}]

-----------------------------------------------------------------------------
(* The bucket *)

\* Another CompleteUpload call stores the recording (anew).
Store(b) ==
    /\ Uploadable(keys[b])
    /\ takes[b] < MaxUploads
    /\ takes' = [takes EXCEPT ![b] = @ + 1]
    /\ audio' = [audio EXCEPT ![b] = Recording(takes[b] + 1)]
    /\ UNCHANGED <<keys, output, job, call, rivals>>

\* What lies under the key of the audio is a recording.
Recorded(b) == audio[b].job = NoJob /\ audio[b].take > 0

\* What lies under the key of the transcript.
Transcript(b) == IF Overwrites(keys[b]) THEN audio[b] ELSE output[b]

-----------------------------------------------------------------------------
(* The jobs of the transcription service *)

UnderWay(j) == job[j].state \in {"queued", "running"}

\* The service fetches the recording when it gets to the job.
JobRuns(j) ==
    /\ job[j].state = "queued"
    /\ Readable(keys[job[j].book])
    /\ Recorded(job[j].book)
    /\ job' = [job EXCEPT ![j].state = "running", ![j].take = audio[job[j].book].take]
    /\ UNCHANGED <<bucketVars, call, rivals>>

JobCompletes(j) ==
    LET b == job[j].book
        transcript == [job |-> j, take |-> job[j].take]
    IN  /\ job[j].state = "running"
        /\ job' = [job EXCEPT ![j].state = "completed"]
        /\ IF Overwrites(keys[b])
             THEN audio' = [audio EXCEPT ![b] = transcript] /\ UNCHANGED output
             ELSE output' = [output EXCEPT ![b] = transcript] /\ UNCHANGED audio
        /\ UNCHANGED <<keys, takes, call, rivals>>

\* There is no recording, or it is none the service can make out.
JobFails(j) ==
    /\ UnderWay(j)
    /\ job' = [job EXCEPT ![j].state = "failed"]
    /\ UNCHANGED <<bucketVars, call, rivals>>

-----------------------------------------------------------------------------
(* ContinueTranscript *)

Active(c) == call[c].pc \notin {"idle", "done", "failed"}

Ends(c, pc) ==
    /\ call' = [call EXCEPT ![c].pc = pc]
    /\ UNCHANGED <<bucketVars, job, rivals>>

\* A LOCAL call asks the AI worker, an AWS call starts a job.
Begin(c) ==
    /\ call[c].pc = "idle"
    /\ takes[Subject[c]] > 0
    /\ \E pc \in {"asked", "start"} :
          call' = [call EXCEPT ![c].pc = pc, ![c].first = takes[Subject[c]]]
    /\ UNCHANGED <<bucketVars, job, rivals>>

\* The worker fetches the recording by its link; no one else sees its text.
WorkerAnswers(c) ==
    /\ call[c].pc = "asked"
    /\ Fetchable(keys[Subject[c]])
    /\ Recorded(Subject[c])
    /\ call' = [call EXCEPT ![c].pc = "done", ![c].text = audio[Subject[c]]]
    /\ UNCHANGED <<bucketVars, job, rivals>>

\* Ten minutes have passed, the worker is gone or its answer is an error.
WorkerFails(c) == call[c].pc = "asked" /\ Ends(c, "failed")

\* The link can be parsed and the drawn name is free; a name in use is refused
\* by the service.
StartJob(c, j) ==
    /\ call[c].pc = "start"
    /\ keys[Subject[c]].parses
    /\ job[j].state = "none"
    /\ job' = [job EXCEPT ![j] = [state |-> "queued", book |-> Subject[c], take |-> 0]]
    /\ call' = [call EXCEPT ![c].pc = "wait", ![c].job = j]
    /\ rivals' = [d \in Calls |->
          IF d = c
            THEN {i \in Jobs : UnderWay(i) /\ job[i].book = Subject[c]}
          ELSE IF Subject[d] = Subject[c] /\ call[d].pc \in {"wait", "locate", "read"}
            THEN rivals[d] \cup {j}
          ELSE rivals[d]]
    /\ UNCHANGED bucketVars

StartFails(c) == call[c].pc = "start" /\ Ends(c, "failed")

\* Mutants: the limit is not looked at; a failed job is taken for an ended one;
\* the limit starts anew.
PollPastLimit(c) ==
    /\ call[c].pc = "wait"
    /\ LET state == job[call[c].job].state
       IN  call' = [call EXCEPT
              ![c].polls = @ + 1,
              ![c].pc = CASE state = "completed" -> "locate"
                          [] state = "failed"    -> "failed"
                          [] OTHER               -> "wait"]
    /\ UNCHANGED <<bucketVars, job, rivals>>

PollAnyEnd(c) ==
    /\ call[c].pc = "wait"
    /\ call[c].polls < MaxPolls
    /\ LET state == job[call[c].job].state
       IN  call' = [call EXCEPT
              ![c].polls = @ + 1,
              ![c].pc = IF state \in {"completed", "failed"} THEN "locate" ELSE "wait"]
    /\ UNCHANGED <<bucketVars, job, rivals>>

PollForEver(c) ==
    /\ call[c].pc = "wait"
    /\ LET state == job[call[c].job].state
       IN  call' = [call EXCEPT
              ![c].pc = CASE state = "completed" -> "locate"
                          [] state = "failed"    -> "failed"
                          [] OTHER               -> "wait"]
    /\ UNCHANGED <<bucketVars, job, rivals>>

Poll(c) ==
    /\ call[c].pc = "wait"
    /\ call[c].polls < MaxPolls
    /\ LET state == job[call[c].job].state
       IN  call' = [call EXCEPT
              ![c].polls = @ + 1,
              ![c].pc = CASE state = "completed" -> "locate"
                          [] state = "failed"    -> "failed"
                          [] OTHER               -> "wait"]
    /\ UNCHANGED <<bucketVars, job, rivals>>

\* The limit is looked at before each poll; the job is not stopped.
TimeOut(c) ==
    /\ call[c].pc = "wait"
    /\ call[c].polls = MaxPolls
    /\ Ends(c, "failed")

\* The service names the object of the job.
Locate(c) == call[c].pc = "locate" /\ Ends(c, "read")

Read(c) ==
    /\ call[c].pc = "read"
    /\ Transcript(Subject[c]).job # NoJob
    /\ call' = [call EXCEPT ![c].pc = "done", ![c].text = Transcript(Subject[c])]
    /\ UNCHANGED <<bucketVars, job, rivals>>

\* What lies there is no JSON.
ReadFails(c) ==
    /\ call[c].pc = "read"
    /\ Transcript(Subject[c]).job = NoJob
    /\ Ends(c, "failed")

\* A request to the service or to the bucket fails.
RequestFails(c) == call[c].pc \in {"wait", "locate", "read"} /\ Ends(c, "failed")

\* The server stops; calls are not taken up again, jobs go on.
Crash ==
    /\ call' = [c \in Calls |->
          IF Active(c) THEN [call[c] EXCEPT !.pc = "failed"] ELSE call[c]]
    /\ UNCHANGED <<bucketVars, job, rivals>>

-----------------------------------------------------------------------------
CallStep(c) ==
    \/ WorkerAnswers(c)
    \/ WorkerFails(c)
    \/ \E j \in Jobs : StartJob(c, j)
    \/ StartFails(c)
    \/ Poll(c)
    \/ TimeOut(c)
    \/ Locate(c)
    \/ Read(c)
    \/ ReadFails(c)

Next ==
    \/ \E b \in Books : Store(b)
    \/ \E j \in Jobs : JobRuns(j) \/ JobCompletes(j) \/ JobFails(j)
    \/ \E c \in Calls : Begin(c) \/ CallStep(c) \/ RequestFails(c)
    \/ Crash

Spec == Init /\ [][Next]_vars

\* The requests of a call are answered, by the worker at the latest with the
\* end of its time limit, and the sleep between two polls ends.  Nothing is
\* asked of the jobs, one may hang, and no call is ended by lucky failures.
FairSpec == Spec /\ \A c \in Calls : WF_vars(CallStep(c))

-----------------------------------------------------------------------------
(***************************************************************************)
(* The transcript a call hands on was made by its own job, or by one that  *)
(* was under way for the same book beside it: jobs left behind by calls    *)
(* that timed out, or by a server that stopped, still write to the object  *)
(* all jobs of the book share (pipeline.go 338, 353).  With no such job it *)
(* is a transcript of the recording the call began with, or a later one.   *)
(***************************************************************************)
TextIsOwn ==
    \A c \in Calls :
        call[c].pc = "done" =>
            /\ call[c].text.job \in rivals[c] \cup {call[c].job}
            /\ rivals[c] = {} => call[c].text.take >= call[c].first

(***************************************************************************)
(* No transcript is written over the recording it was made from, unless    *)
(* the admin's file was itself called .json (pipeline.go 338).             *)
(***************************************************************************)
AudioKept ==
    \A b \in Books :
        audio[b].job # NoJob =>
            LET n == keys[b].name IN n # <<>> /\ Last(TrimSpace(n)) = ".json"

(***************************************************************************)
(* Which names a book can be published under.  With the local worker, just *)
(* those in which nothing means something else in a URL, or nothing at all *)
(* in a header: one with #, ? or an escape is written under another name   *)
(* than is opened.  Through Amazon those with a bare per cent sign are     *)
(* lost, too: the server makes a link of them that it cannot parse         *)
(* (shop.go 243, 294, pipeline.go 484, 506, 761).                          *)
(***************************************************************************)
Plain(n, marks) ==
    /\ Solid(n) # {}
    /\ \A i \in DOMAIN n : n[i] \notin marks
    /\ ~Unfit(TrimSpace(n))

NamesSurvive ==
    \A b \in Books :
        /\ Uploadable(keys[b]) /\ Fetchable(keys[b])
              <=> Plain(keys[b].name, {"#", "?", "%41", "^G"})
        /\ Uploadable(keys[b]) /\ Readable(keys[b])
              <=> Plain(keys[b].name, {"#", "?", "%41", "^G", "%"})

(***************************************************************************)
(* Every call ends, even one whose job never does (pipeline.go 528-548).   *)
(***************************************************************************)
TranscriptionsEnd ==
    \A c \in Calls : Active(c) ~> ~Active(c)
=============================================================================
