------------------------- MODULE TranscriptionProofs -------------------------
(***************************************************************************)
(* Proofs for module Transcription: its types, that a call hands on the    *)
(* transcript of its own job unless another job for the book was under way *)
(* beside it, whatever the number of books, calls, jobs and polls, and     *)
(* what becomes of the names of files, however long they are.              *)
(***************************************************************************)
EXTENDS Transcription, SequenceTheorems, WellFoundedInduction, TLAPS

\* A transcript is the work of a job for its book that has completed.
ContentOK(b, x) ==
    x.job # NoJob =>
        /\ job[x.job].state = "completed"
        /\ job[x.job].book = b
        /\ x.take = job[x.job].take

BookOK(b) ==
    /\ ContentOK(b, audio[b])
    /\ ContentOK(b, output[b])
    /\ audio[b].job = NoJob => audio[b].take = takes[b]

Waiting(c) == call[c].pc \in {"wait", "locate", "read"}

\* What a call knows of its job, and how the jobs that may still write to the
\* transcript of its book are all its rivals.
WaitOK(c) ==
    /\ call[c].job \in Jobs
    /\ job[call[c].job].state # "none"
    /\ job[call[c].job].book = Subject[c]
    /\ job[call[c].job].state \in {"running", "completed"} =>
          job[call[c].job].take >= call[c].first
    /\ \A j \in Jobs : UnderWay(j) /\ job[j].book = Subject[c] =>
          j \in rivals[c] \cup {call[c].job}
    /\ call[c].pc # "wait" => job[call[c].job].state = "completed"
    /\ job[call[c].job].state = "completed" =>
          Transcript(Subject[c]).job \in rivals[c] \cup {call[c].job, NoJob}

DoneOK(c) ==
    /\ call[c].text.job \in rivals[c] \cup {call[c].job}
    /\ rivals[c] = {} => call[c].text.take >= call[c].first

CallOK(c) ==
    /\ call[c].first <= takes[Subject[c]]
    /\ call[c].pc \in {"idle", "asked", "start"} => call[c].job = NoJob
    /\ Waiting(c) => WaitOK(c)
    /\ call[c].pc = "done" => DoneOK(c)

OwnInv ==
    /\ TypeOK
    /\ \A b \in Books : BookOK(b)
    /\ \A c \in Calls : CallOK(c)

-----------------------------------------------------------------------------
LEMMA ContentTypes ==
    /\ \A n \in 0..MaxUploads : Recording(n) \in Content
    /\ Nothing \in Content
BY TranscriptionAssumption DEF Recording, Nothing, Content

LEMMA InitType == Init => TypeOK
<1> SUFFICES ASSUME Init
             PROVE  TypeOK
  OBVIOUS
<1>1. \A b \in Books : keys[b].name \in Names
  BY DEF Init, Keys
<1>2. takes \in [Books -> 0..MaxUploads]
  BY TranscriptionAssumption DEF Init
<1>3. audio \in [Books -> Content] /\ output \in [Books -> Content]
  BY ContentTypes DEF Init
<1>4. call \in [Calls -> Call]
  BY ContentTypes, TranscriptionAssumption DEF Init, Call
<1>5. rivals \in [Calls -> SUBSET Jobs]
  BY DEF Init
<1>6. job \in [Jobs -> Job]
  BY TranscriptionAssumption DEF Init, Job
<1> QED
  BY <1>1, <1>2, <1>3, <1>4, <1>5, <1>6 DEF TypeOK

\* What the steps of a call that only change its pc do.
LEMMA EndsType ==
    ASSUME TypeOK, NEW c \in Calls, NEW pc, Ends(c, pc),
           pc \in {"locate", "read", "failed"}
    PROVE  TypeOK'
<1>1. call[c] \in Call
  BY DEF TypeOK
<1>2. [call[c] EXCEPT !.pc = pc] \in Call
  BY <1>1 DEF Call
<1>3. call' \in [Calls -> Call]
  BY <1>2 DEF Ends, TypeOK
<1> QED
  BY <1>3 DEF Ends, TypeOK, bucketVars

LEMMA BucketType ==
    ASSUME TypeOK, NEW b \in Books, Store(b)
    PROVE  TypeOK'
<1>1. takes[b] \in 0..MaxUploads /\ takes[b] + 1 \in 0..MaxUploads
  BY TranscriptionAssumption DEF Store, TypeOK
<1>2. takes' \in [Books -> 0..MaxUploads]
  BY <1>1 DEF Store, TypeOK
<1>3. audio' \in [Books -> Content]
  BY <1>1, ContentTypes DEF Store, TypeOK
<1> QED
  BY <1>2, <1>3 DEF Store, TypeOK

LEMMA JobType ==
    ASSUME TypeOK, NEW j \in Jobs, JobRuns(j) \/ JobCompletes(j) \/ JobFails(j)
    PROVE  TypeOK'
<1>1. job[j] \in Job /\ job[j].book \in Books
  BY DEF TypeOK, Job
<1>2. CASE JobRuns(j)
  <2>1. audio[job[j].book].take \in 0..MaxUploads
    BY <1>1 DEF TypeOK, Content
  <2>2. [job[j] EXCEPT !.state = "running", !.take = audio[job[j].book].take] \in Job
    BY <1>1, <2>1 DEF Job
  <2>3. job' \in [Jobs -> Job]
    BY <1>2, <2>2 DEF JobRuns, TypeOK
  <2> QED
    BY <1>2, <2>3 DEF JobRuns, TypeOK, bucketVars
<1>3. CASE JobCompletes(j)
  <2>1. [job[j] EXCEPT !.state = "completed"] \in Job
    BY <1>1 DEF Job
  <2>2. job' \in [Jobs -> Job]
    BY <1>3, <2>1 DEF JobCompletes, TypeOK
  <2>3. [job |-> j, take |-> job[j].take] \in Content
    BY <1>1 DEF Content, Job
  <2>4. audio' \in [Books -> Content] /\ output' \in [Books -> Content]
    BY <1>3, <2>3 DEF JobCompletes, TypeOK
  <2> QED
    BY <1>3, <2>2, <2>4 DEF JobCompletes, TypeOK
<1>4. CASE JobFails(j)
  <2>1. [job[j] EXCEPT !.state = "failed"] \in Job
    BY <1>1 DEF Job
  <2>2. job' \in [Jobs -> Job]
    BY <1>4, <2>1 DEF JobFails, TypeOK
  <2> QED
    BY <1>4, <2>2 DEF JobFails, TypeOK, bucketVars
<1> QED
  BY <1>2, <1>3, <1>4

LEMMA PollFacts ==
    ASSUME TypeOK, NEW c \in Calls, Poll(c)
    PROVE  \E pc \in {"locate", "failed", "wait"} :
              /\ call' = [call EXCEPT ![c] =
                            [call[c] EXCEPT !.polls = call[c].polls + 1, !.pc = pc]]
              /\ pc = "locate" => job[call[c].job].state = "completed"
BY DEF Poll, TypeOK, Call

LEMMA CallType ==
    ASSUME TypeOK, NEW c \in Calls, Begin(c) \/ CallStep(c) \/ RequestFails(c)
    PROVE  TypeOK'
<1>1. call[c] \in Call /\ Subject[c] \in Books
  BY TranscriptionAssumption DEF TypeOK
<1>2. CASE Begin(c)
  <2>1. takes[Subject[c]] \in 0..MaxUploads
    BY <1>1 DEF TypeOK
  <2>2. \A pc \in {"asked", "start"} :
           [call[c] EXCEPT !.pc = pc, !.first = takes[Subject[c]]] \in Call
    BY <1>1, <2>1 DEF Call
  <2>3. call' \in [Calls -> Call]
    BY <1>2, <2>2 DEF Begin, TypeOK
  <2> QED
    BY <1>2, <2>3 DEF Begin, TypeOK, bucketVars
<1>3. CASE WorkerAnswers(c)
  <2>1. audio[Subject[c]] \in Content
    BY <1>1 DEF TypeOK
  <2>2. [call[c] EXCEPT !.pc = "done", !.text = audio[Subject[c]]] \in Call
    BY <1>1, <2>1 DEF Call
  <2>3. call' \in [Calls -> Call]
    BY <1>3, <2>2 DEF WorkerAnswers, TypeOK
  <2> QED
    BY <1>3, <2>3 DEF WorkerAnswers, TypeOK, bucketVars
<1>4. ASSUME NEW j \in Jobs, StartJob(c, j)
      PROVE  TypeOK'
  <2>1. [state |-> "queued", book |-> Subject[c], take |-> 0] \in Job
    BY <1>1, TranscriptionAssumption DEF Job
  <2>2. job' \in [Jobs -> Job]
    BY <1>4, <2>1 DEF StartJob, TypeOK
  <2>3. [call[c] EXCEPT !.pc = "wait", !.job = j] \in Call
    BY <1>1 DEF Call
  <2>4. call' \in [Calls -> Call]
    BY <1>4, <2>3 DEF StartJob, TypeOK
  <2>5. rivals' \in [Calls -> SUBSET Jobs]
    BY <1>4 DEF StartJob, TypeOK
  <2> QED
    BY <1>4, <2>2, <2>4, <2>5 DEF StartJob, TypeOK, bucketVars
<1>5. CASE Poll(c)
  <2> PICK pc \in {"locate", "failed", "wait"} :
         call' = [call EXCEPT ![c] = [call[c] EXCEPT !.polls = call[c].polls + 1,
                                                     !.pc = pc]]
    BY <1>5, PollFacts
  <2>1. call[c].polls + 1 \in 0..MaxPolls
    BY <1>1, <1>5, TranscriptionAssumption DEF Poll, Call
  <2>2. [call[c] EXCEPT !.polls = call[c].polls + 1, !.pc = pc] \in Call
    BY <1>1, <2>1 DEF Call
  <2>3. call' \in [Calls -> Call]
    BY <2>2 DEF TypeOK
  <2> QED
    BY <1>5, <2>3 DEF Poll, TypeOK, bucketVars
<1>6. CASE Read(c)
  <2>1. Transcript(Subject[c]) \in Content
    BY <1>1 DEF TypeOK, Transcript
  <2>2. [call[c] EXCEPT !.pc = "done", !.text = Transcript(Subject[c])] \in Call
    BY <1>1, <2>1 DEF Call
  <2>3. call' \in [Calls -> Call]
    BY <1>6, <2>2 DEF Read, TypeOK
  <2> QED
    BY <1>6, <2>3 DEF Read, TypeOK, bucketVars
<1>7. CASE \/ WorkerFails(c) \/ StartFails(c) \/ TimeOut(c) \/ Locate(c)
           \/ ReadFails(c) \/ RequestFails(c)
  BY <1>7, EndsType
  DEF WorkerFails, StartFails, TimeOut, Locate, ReadFails, RequestFails
<1> QED
  BY <1>2, <1>3, <1>4, <1>5, <1>6, <1>7 DEF CallStep

LEMMA CrashType == TypeOK /\ Crash => TypeOK'
<1> SUFFICES ASSUME TypeOK, Crash
             PROVE  TypeOK'
  OBVIOUS
<1>1. \A c \in Calls : call[c] \in Call
  BY DEF TypeOK
<1>2. \A c \in Calls : [call[c] EXCEPT !.pc = "failed"] \in Call
  BY <1>1 DEF Call
<1>3. call' \in [Calls -> Call]
  BY <1>1, <1>2 DEF Crash
<1> QED
  BY <1>3 DEF Crash, TypeOK, bucketVars

LEMMA NextType == TypeOK /\ [Next]_vars => TypeOK'
<1> SUFFICES ASSUME TypeOK, [Next]_vars
             PROVE  TypeOK'
  OBVIOUS
<1>1. CASE UNCHANGED vars
  BY <1>1 DEF vars, TypeOK
<1> QED
  BY <1>1, BucketType, JobType, CallType, CrashType DEF Next

\* The state has its types, for any books, calls, jobs and limits.
THEOREM TranscriptionTypes == Spec => []TypeOK
BY InitType, NextType, PTL DEF Spec

-----------------------------------------------------------------------------
LEMMA OwnInvFacts ==
    ASSUME OwnInv
    PROVE  /\ TypeOK
           /\ \A b \in Books : BookOK(b) /\ audio[b] \in Content /\ output[b] \in Content
           /\ \A b \in Books : takes[b] \in 0..MaxUploads
           /\ \A j \in Jobs : job[j] \in Job
           /\ \A c \in Calls : CallOK(c) /\ call[c] \in Call /\ Subject[c] \in Books
BY TranscriptionAssumption DEF OwnInv, TypeOK

LEMMA InitOwn == Init => OwnInv
<1> SUFFICES ASSUME Init
             PROVE  OwnInv
  OBVIOUS
<1>1. TypeOK
  BY InitType
<1>2. ASSUME NEW b \in Books
      PROVE  BookOK(b)
  BY DEF Init, BookOK, ContentOK, Nothing, Recording
<1>3. ASSUME NEW c \in Calls
      PROVE  CallOK(c)
  BY TranscriptionAssumption DEF Init, CallOK, Waiting
<1> QED
  BY <1>1, <1>2, <1>3 DEF OwnInv

\* Books and calls a step does not touch.
LEMMA BooksStay ==
    ASSUME OwnInv, UNCHANGED <<bucketVars, job>>
    PROVE  \A b \in Books : BookOK(b)'
BY OwnInvFacts DEF BookOK, ContentOK, bucketVars

LEMMA CallStays ==
    ASSUME OwnInv, UNCHANGED <<bucketVars, job>>, NEW c \in Calls,
           call'[c] = call[c], rivals'[c] = rivals[c]
    PROVE  CallOK(c)'
BY OwnInvFacts
DEF CallOK, Waiting, WaitOK, DoneOK, UnderWay, Transcript, bucketVars

LEMMA StoreOwn ==
    ASSUME OwnInv, TypeOK', NEW b \in Books, Store(b)
    PROVE  OwnInv'
<1>1. /\ takes[b] \in Nat
      /\ takes' = [takes EXCEPT ![b] = takes[b] + 1]
      /\ audio' = [audio EXCEPT ![b] = [job |-> NoJob, take |-> takes[b] + 1]]
      /\ UNCHANGED <<keys, output, job, call, rivals>>
  BY OwnInvFacts, TranscriptionAssumption DEF Store, Recording
<1>2. ASSUME NEW a \in Books
      PROVE  BookOK(a)'
  BY <1>1, OwnInvFacts DEF BookOK, ContentOK, TypeOK
<1>3. ASSUME NEW c \in Calls
      PROVE  CallOK(c)'
  <2>1. call[c].first <= takes'[Subject[c]]
    BY <1>1, OwnInvFacts, TranscriptionAssumption DEF CallOK, TypeOK, Call
  <2>2. \/ Transcript(Subject[c])' = Transcript(Subject[c])
        \/ Transcript(Subject[c])'.job = NoJob
    BY <1>1, OwnInvFacts DEF Transcript, TypeOK
  <2> QED
    BY <1>1, <2>1, <2>2, OwnInvFacts DEF CallOK, Waiting, WaitOK, DoneOK, UnderWay
<1> QED
  BY <1>2, <1>3 DEF OwnInv

LEMMA JobRunsOwn ==
    ASSUME OwnInv, TypeOK', NEW j \in Jobs, JobRuns(j)
    PROVE  OwnInv'
<1> DEFINE b == job[j].book
<1>1. /\ job[j].state = "queued" /\ b \in Books
      /\ audio[b].job = NoJob /\ audio[b].take = takes[b]
      /\ UNCHANGED <<keys, takes, audio, output, call, rivals>>
  BY OwnInvFacts DEF JobRuns, Recorded, bucketVars, Job, BookOK
<1>2. /\ job'[j] = [state |-> "running", book |-> b, take |-> takes[b]]
      /\ \A i \in Jobs \ {j} : job'[i] = job[i]
  BY <1>1, OwnInvFacts DEF JobRuns, TypeOK, Job
<1>3. ASSUME NEW a \in Books
      PROVE  BookOK(a)'
  <2>1. ASSUME NEW x \in Content, ContentOK(a, x)
        PROVE  ContentOK(a, x)'
    BY <1>1, <1>2, <2>1 DEF ContentOK, Content
  <2> QED
    BY <1>1, <2>1, OwnInvFacts DEF BookOK, ContentOK
<1>4. ASSUME NEW c \in Calls
      PROVE  CallOK(c)'
  <2>1. CallOK(c) /\ call[c].first \in Nat
    BY OwnInvFacts DEF Call
  <2>2. Transcript(Subject[c])' = Transcript(Subject[c])
    BY <1>1 DEF Transcript
  <2>3. ASSUME Waiting(c)
        PROVE  WaitOK(c)'
    <3>1. WaitOK(c)
      BY <2>1, <2>3 DEF CallOK
    <3>2. \A i \in Jobs : /\ UnderWay(i)' <=> UnderWay(i)
                          /\ job'[i].book = job[i].book
      BY <1>1, <1>2 DEF UnderWay
    <3>3. call[c].job = j => takes[b] >= call[c].first
      BY <2>1, <3>1 DEF WaitOK, CallOK
    <3>4. /\ job'[call[c].job].state # "none"
          /\ job'[call[c].job].state \in {"running", "completed"} =>
                job'[call[c].job].take >= call[c].first
          /\ call[c].pc # "wait" => job'[call[c].job].state = "completed"
          /\ job'[call[c].job].state = "completed" =>
                job[call[c].job].state = "completed"
      BY <1>1, <1>2, <3>1, <3>3 DEF WaitOK
    <3> QED
      BY <1>1, <2>2, <3>1, <3>2, <3>4 DEF WaitOK
  <2> QED
    BY <1>1, <2>1, <2>3 DEF CallOK, Waiting, DoneOK
<1> QED
  BY <1>3, <1>4 DEF OwnInv

LEMMA JobCompletesOwn ==
    ASSUME OwnInv, TypeOK', NEW j \in Jobs, JobCompletes(j)
    PROVE  OwnInv'
<1> PICK b \in Books : b = job[j].book
  BY OwnInvFacts DEF Job
<1> PICK t \in Content : t = [job |-> j, take |-> job[j].take]
  BY OwnInvFacts DEF Job, Content
<1>1. /\ job[j].state = "running"
      /\ UNCHANGED <<keys, takes, call, rivals>>
  BY OwnInvFacts DEF JobCompletes, Job
<1>2. /\ job'[j] = [state |-> "completed", book |-> b, take |-> job[j].take]
      /\ \A i \in Jobs \ {j} : job'[i] = job[i]
  BY <1>1, OwnInvFacts DEF JobCompletes, TypeOK, Job
<1>3. /\ audio' = audio \/ audio' = [audio EXCEPT ![b] = t]
      /\ output' = output \/ output' = [output EXCEPT ![b] = t]
  BY DEF JobCompletes
<1>4. Transcript(b)' = t /\ \A a \in Books \ {b} : Transcript(a)' = Transcript(a)
  BY <1>1, OwnInvFacts DEF JobCompletes, Transcript, TypeOK
<1>5. ASSUME NEW a \in Books
      PROVE  BookOK(a)'
  <2>1. ASSUME NEW x \in Content, ContentOK(a, x)
        PROVE  ContentOK(a, x)'
    BY <1>1, <1>2, <2>1 DEF ContentOK, Content
  <2>2. a = b => ContentOK(a, t)'
    BY <1>1, <1>2 DEF ContentOK
  <2>3. ContentOK(a, audio[a])' /\ ContentOK(a, output[a])'
    <3>1. audio'[a] = audio[a] \/ (a = b /\ audio'[a] = t)
      BY <1>1, <1>3, OwnInvFacts DEF TypeOK
    <3>2. output'[a] = output[a] \/ (a = b /\ output'[a] = t)
      BY <1>1, <1>3, OwnInvFacts DEF TypeOK
    <3>3. ContentOK(a, audio[a]) /\ ContentOK(a, output[a])
      BY OwnInvFacts DEF BookOK
    <3>4. \A x \in Content : x = audio'[a] => ContentOK(a, x)'
      BY <2>1, <2>2, <3>1, <3>3, OwnInvFacts
    <3>5. \A x \in Content : x = output'[a] => ContentOK(a, x)'
      BY <2>1, <2>2, <3>2, <3>3, OwnInvFacts
    <3>6. audio'[a] \in Content /\ output'[a] \in Content
      BY DEF TypeOK
    <3> QED
      BY <3>4, <3>5, <3>6 DEF ContentOK
  <2>4. audio'[a].job = NoJob => audio'[a] = audio[a]
    BY <1>1, <1>3, OwnInvFacts, TranscriptionAssumption DEF TypeOK
  <2> QED
    BY <1>1, <2>3, <2>4, OwnInvFacts DEF BookOK
<1>6. ASSUME NEW c \in Calls
      PROVE  CallOK(c)'
  <2>1. CallOK(c)
    BY OwnInvFacts
  <2>2. ASSUME Waiting(c)
        PROVE  WaitOK(c)'
    <3>1. WaitOK(c)
      BY <2>1, <2>2 DEF CallOK
    <3>2. \A i \in Jobs : /\ UnderWay(i)' => UnderWay(i)
                          /\ job'[i].book = job[i].book
      BY <1>1, <1>2 DEF UnderWay
    <3>3. /\ job'[call[c].job].state # "none"
          /\ job'[call[c].job].state \in {"running", "completed"} =>
                job'[call[c].job].take >= call[c].first
          /\ call[c].pc # "wait" => job'[call[c].job].state = "completed"
      BY <1>1, <1>2, <3>1 DEF WaitOK
    <3>4. job'[call[c].job].state = "completed" =>
             Transcript(Subject[c])'.job \in rivals[c] \cup {call[c].job, NoJob}
      <4>1. CASE Subject[c] = b
        <5>1. j \in rivals[c] \cup {call[c].job}
          BY <1>1, <3>1, <4>1 DEF WaitOK, UnderWay
        <5> QED
          BY <1>4, <4>1, <5>1
      <4>2. CASE Subject[c] # b
        <5>1. call[c].job # j
          BY <3>1, <4>2 DEF WaitOK
        <5>2. job'[call[c].job] = job[call[c].job]
          BY <1>2, <3>1, <5>1 DEF WaitOK
        <5>3. Transcript(Subject[c])' = Transcript(Subject[c])
          BY <1>4, <4>2, OwnInvFacts
        <5> QED
          BY <3>1, <5>2, <5>3 DEF WaitOK
      <4> QED
        BY <4>1, <4>2
    <3> QED
      BY <1>1, <3>1, <3>2, <3>3, <3>4 DEF WaitOK
  <2> QED
    BY <1>1, <2>1, <2>2 DEF CallOK, Waiting, DoneOK
<1> QED
  BY <1>5, <1>6 DEF OwnInv

LEMMA JobFailsOwn ==
    ASSUME OwnInv, TypeOK', NEW j \in Jobs, JobFails(j)
    PROVE  OwnInv'
<1>1. UnderWay(j) /\ UNCHANGED <<keys, takes, audio, output, call, rivals>>
  BY DEF JobFails, bucketVars
<1>2. /\ job'[j] = [state |-> "failed", book |-> job[j].book, take |-> job[j].take]
      /\ \A i \in Jobs \ {j} : job'[i] = job[i]
  BY OwnInvFacts DEF JobFails, TypeOK, Job
<1>3. ASSUME NEW a \in Books
      PROVE  BookOK(a)'
  <2>1. ASSUME NEW x \in Content, ContentOK(a, x)
        PROVE  ContentOK(a, x)'
    BY <1>1, <1>2, <2>1 DEF ContentOK, Content, UnderWay
  <2> QED
    BY <1>1, <2>1, OwnInvFacts DEF BookOK, ContentOK
<1>4. ASSUME NEW c \in Calls
      PROVE  CallOK(c)'
  <2>1. CallOK(c)
    BY OwnInvFacts
  <2>2. Transcript(Subject[c])' = Transcript(Subject[c])
    BY <1>1 DEF Transcript
  <2>3. ASSUME Waiting(c)
        PROVE  WaitOK(c)'
    <3>1. WaitOK(c)
      BY <2>1, <2>3 DEF CallOK
    <3>2. \A i \in Jobs : /\ UnderWay(i)' => UnderWay(i)
                          /\ job'[i].book = job[i].book
      BY <1>2 DEF UnderWay
    <3>3. /\ job'[call[c].job].state # "none"
          /\ job'[call[c].job].state \in {"running", "completed"} =>
                job'[call[c].job].take >= call[c].first
          /\ call[c].pc # "wait" => job'[call[c].job].state = "completed"
          /\ job'[call[c].job].state = "completed" =>
                job[call[c].job].state = "completed"
      BY <1>1, <1>2, <3>1 DEF WaitOK, UnderWay
    <3> QED
      BY <1>1, <2>2, <3>1, <3>2, <3>3 DEF WaitOK
  <2> QED
    BY <1>1, <2>1, <2>3 DEF CallOK, Waiting, DoneOK
<1> QED
  BY <1>3, <1>4 DEF OwnInv

\* A step that ends a call without a transcript.
LEMMA FailOwn ==
    ASSUME OwnInv, TypeOK', NEW c \in Calls, Ends(c, "failed")
    PROVE  OwnInv'
<1>1. /\ UNCHANGED <<bucketVars, job, rivals>>
      /\ call'[c] = [call[c] EXCEPT !.pc = "failed"]
      /\ \A d \in Calls \ {c} : call'[d] = call[d]
  BY OwnInvFacts DEF Ends, TypeOK
<1>2. call'[c].pc = "failed" /\ call'[c].first = call[c].first
  BY <1>1, OwnInvFacts DEF Call
<1>3. CallOK(c)'
  BY <1>1, <1>2, OwnInvFacts DEF CallOK, Waiting, bucketVars
<1> QED
  BY <1>1, <1>3, BooksStay, CallStays DEF OwnInv

LEMMA CrashOwn ==
    ASSUME OwnInv, TypeOK', Crash
    PROVE  OwnInv'
<1>1. UNCHANGED <<bucketVars, job, rivals>>
  BY DEF Crash
<1>2. ASSUME NEW c \in Calls
      PROVE  CallOK(c)'
  <2>1. CASE Active(c)
    <3>1. call'[c] = [call[c] EXCEPT !.pc = "failed"]
      BY <2>1 DEF Crash
    <3>2. call'[c].pc = "failed" /\ call'[c].first = call[c].first
      BY <3>1, OwnInvFacts DEF Call
    <3> QED
      BY <1>1, <3>2, OwnInvFacts DEF CallOK, Waiting, bucketVars
  <2>2. CASE ~Active(c)
    BY <1>1, <2>2, CallStays DEF Crash
  <2> QED
    BY <2>1, <2>2
<1> QED
  BY <1>1, <1>2, BooksStay DEF OwnInv

LEMMA BeginOwn ==
    ASSUME OwnInv, TypeOK', NEW c \in Calls, Begin(c)
    PROVE  OwnInv'
<1>1. /\ UNCHANGED <<bucketVars, job, rivals>>
      /\ \A d \in Calls \ {c} : call'[d] = call[d]
  BY DEF Begin, TypeOK
<1>2. /\ call'[c].pc \in {"asked", "start"} /\ call'[c].job = call[c].job
      /\ call'[c].first = takes[Subject[c]] /\ call[c].pc = "idle"
  BY OwnInvFacts DEF Begin, TypeOK, Call
<1>3. CallOK(c)'
  BY <1>1, <1>2, OwnInvFacts DEF CallOK, Waiting, bucketVars
<1> QED
  BY <1>1, <1>3, BooksStay, CallStays DEF OwnInv

LEMMA WorkerAnswersOwn ==
    ASSUME OwnInv, TypeOK', NEW c \in Calls, WorkerAnswers(c)
    PROVE  OwnInv'
<1>1. /\ UNCHANGED <<bucketVars, job, rivals>>
      /\ \A d \in Calls \ {c} : call'[d] = call[d]
  BY DEF WorkerAnswers, TypeOK
<1>2. /\ call'[c].pc = "done" /\ call'[c].job = call[c].job
      /\ call'[c].first = call[c].first /\ call'[c].text = audio[Subject[c]]
      /\ call[c].pc = "asked" /\ audio[Subject[c]].job = NoJob
  BY OwnInvFacts DEF WorkerAnswers, Recorded, TypeOK, Call
<1>3. /\ call[c].job = NoJob /\ call[c].first <= takes[Subject[c]]
      /\ audio[Subject[c]].take = takes[Subject[c]]
  BY <1>2, OwnInvFacts DEF CallOK, BookOK
<1>4. CallOK(c)'
  BY <1>1, <1>2, <1>3 DEF CallOK, Waiting, DoneOK, bucketVars
<1> QED
  BY <1>1, <1>4, BooksStay, CallStays DEF OwnInv

LEMMA StartJobOwn ==
    ASSUME OwnInv, TypeOK', NEW c \in Calls, NEW j \in Jobs, StartJob(c, j)
    PROVE  OwnInv'
<1>1. /\ UNCHANGED bucketVars
      /\ call[c].pc = "start" /\ job[j].state = "none"
      /\ job'[j] = [state |-> "queued", book |-> Subject[c], take |-> 0]
      /\ \A i \in Jobs \ {j} : job'[i] = job[i]
      /\ \A d \in Calls \ {c} : call'[d] = call[d]
  BY DEF StartJob, TypeOK, OwnInv
<1>2. /\ call'[c].pc = "wait" /\ call'[c].job = j /\ call'[c].first = call[c].first
  BY OwnInvFacts DEF StartJob, TypeOK, Call
<1>3. /\ rivals'[c] = {i \in Jobs : UnderWay(i) /\ job[i].book = Subject[c]}
      /\ \A d \in Calls \ {c} :
            rivals'[d] = IF Subject[d] = Subject[c] /\ Waiting(d)
                         THEN rivals[d] \cup {j} ELSE rivals[d]
  BY DEF StartJob, Waiting
<1>4. ASSUME NEW b \in Books
      PROVE  BookOK(b)'
  BY <1>1, OwnInvFacts DEF BookOK, ContentOK, Content, bucketVars
<1>5. CallOK(c)'
  BY <1>1, <1>2, <1>3, OwnInvFacts
  DEF CallOK, Waiting, WaitOK, UnderWay, bucketVars
<1>6. ASSUME NEW d \in Calls \ {c}
      PROVE  CallOK(d)'
  <2>1. CallOK(d) /\ call'[d] = call[d] /\ takes' = takes
    BY <1>1, OwnInvFacts DEF bucketVars
  <2>2. Transcript(Subject[d])' = Transcript(Subject[d])
    BY <1>1 DEF Transcript, bucketVars
  <2>3. CASE Waiting(d)
    <3>1. WaitOK(d)
      BY <2>1, <2>3 DEF CallOK
    <3>2. call[d].job # j /\ job'[call[d].job] = job[call[d].job]
      BY <1>1, <3>1 DEF WaitOK
    <3>3. \A i \in Jobs : UnderWay(i)' /\ job'[i].book = Subject[d] =>
             i \in rivals'[d] \cup {call[d].job}
      <4>1. ASSUME NEW i \in Jobs \ {j}, UnderWay(i)', job'[i].book = Subject[d]
            PROVE  i \in rivals'[d] \cup {call[d].job}
        <5>1. UnderWay(i) /\ job[i].book = Subject[d]
          BY <1>1, <4>1 DEF UnderWay
        <5>2. i \in rivals[d] \cup {call[d].job}
          BY <3>1, <5>1 DEF WaitOK
        <5> QED
          BY <1>3, <5>2
      <4>2. job'[j].book = Subject[d] => j \in rivals'[d]
        <5>1. job'[j].book = Subject[c]
          BY <1>1
        <5>2. Subject[d] = Subject[c] => rivals'[d] = rivals[d] \cup {j}
          BY <1>3, <2>3
        <5> QED
          BY <5>1, <5>2
      <4> QED
        BY <4>1, <4>2
    <3>4. rivals[d] \subseteq rivals'[d]
      BY <1>3
    <3>5. WaitOK(d)'
      BY <2>1, <2>2, <3>1, <3>2, <3>3, <3>4 DEF WaitOK
    <3> QED
      BY <2>1, <2>3, <3>5 DEF CallOK, Waiting
  <2>4. CASE ~Waiting(d)
    BY <1>3, <2>1, <2>4 DEF CallOK, Waiting, DoneOK
  <2> QED
    BY <2>3, <2>4
<1> QED
  BY <1>4, <1>5, <1>6 DEF OwnInv

\* A call that goes on with a job that is under way or has completed.
LEMMA WaitsOnOwn ==
    ASSUME OwnInv, TypeOK', NEW c \in Calls, Waiting(c),
           UNCHANGED <<bucketVars, job, rivals>>,
           \A d \in Calls \ {c} : call'[d] = call[d],
           call'[c].job = call[c].job, call'[c].first = call[c].first,
           call'[c].pc \in {"wait", "locate", "read", "failed"},
           call'[c].pc \in {"locate", "read"} => job[call[c].job].state = "completed"
    PROVE  OwnInv'
<1>1. CallOK(c) /\ WaitOK(c)
  BY OwnInvFacts DEF CallOK
<1>2. Transcript(Subject[c])' = Transcript(Subject[c])
  BY DEF Transcript, bucketVars
<1>3. Waiting(c)' => WaitOK(c)'
  BY <1>1, <1>2 DEF WaitOK, Waiting, UnderWay, bucketVars
<1>4. CallOK(c)'
  BY <1>1, <1>3 DEF CallOK, Waiting, bucketVars
<1> QED
  BY <1>4, BooksStay, CallStays DEF OwnInv

LEMMA PollOwn ==
    ASSUME OwnInv, TypeOK', NEW c \in Calls, Poll(c)
    PROVE  OwnInv'
<1> PICK pc \in {"locate", "failed", "wait"} :
       /\ call' = [call EXCEPT ![c] =
                     [call[c] EXCEPT !.polls = call[c].polls + 1, !.pc = pc]]
       /\ pc = "locate" => job[call[c].job].state = "completed"
  BY OwnInvFacts, PollFacts
<1>1. call'[c] = [call[c] EXCEPT !.polls = call[c].polls + 1, !.pc = pc]
  BY OwnInvFacts DEF TypeOK
<1>2. call'[c].job = call[c].job /\ call'[c].first = call[c].first /\ call'[c].pc = pc
  <2>1. call[c] \in Call
    BY OwnInvFacts
  <2> QED
    BY <1>1, <2>1 DEF Call
<1>3. \A d \in Calls \ {c} : call'[d] = call[d]
  <2>1. call \in [Calls -> Call]
    BY OwnInvFacts DEF TypeOK
  <2> QED
    BY <2>1
<1>4. call[c].pc = "wait" /\ UNCHANGED <<bucketVars, job, rivals>>
  BY DEF Poll
<1>5. Waiting(c)
  BY <1>4 DEF Waiting
<1>6. /\ call'[c].pc \in {"wait", "locate", "read", "failed"}
      /\ call'[c].pc \in {"locate", "read"} => job[call[c].job].state = "completed"
  BY <1>2
<1> QED
  BY <1>2, <1>3, <1>4, <1>5, <1>6, WaitsOnOwn

LEMMA LocateOwn ==
    ASSUME OwnInv, TypeOK', NEW c \in Calls, Locate(c)
    PROVE  OwnInv'
<1>1. /\ UNCHANGED <<bucketVars, job, rivals>>
      /\ \A d \in Calls \ {c} : call'[d] = call[d]
      /\ call[c].pc = "locate"
  BY DEF Locate, Ends, TypeOK
<1>2. /\ call'[c].job = call[c].job /\ call'[c].first = call[c].first
      /\ call'[c].pc = "read"
  BY OwnInvFacts DEF Locate, Ends, TypeOK, Call
<1>3. Waiting(c) /\ job[call[c].job].state = "completed"
  BY <1>1, OwnInvFacts DEF CallOK, Waiting, WaitOK
<1> QED
  BY <1>1, <1>2, <1>3, WaitsOnOwn

LEMMA ReadOwn ==
    ASSUME OwnInv, TypeOK', NEW c \in Calls, Read(c)
    PROVE  OwnInv'
<1> PICK t \in Content : t = Transcript(Subject[c])
  BY OwnInvFacts DEF Transcript
<1>1. /\ UNCHANGED <<bucketVars, job, rivals>>
      /\ \A d \in Calls \ {c} : call'[d] = call[d]
      /\ call[c].pc = "read" /\ t.job # NoJob
  BY DEF Read, TypeOK
<1>2. /\ call'[c].job = call[c].job /\ call'[c].first = call[c].first
      /\ call'[c].pc = "done" /\ call'[c].text = t
  BY OwnInvFacts DEF Read, TypeOK, Call
<1>3. WaitOK(c) /\ CallOK(c)
  BY <1>1, OwnInvFacts DEF CallOK, Waiting
<1>4. t.job \in rivals[c] \cup {call[c].job}
  BY <1>1, <1>3 DEF WaitOK
<1>5. t.job = call[c].job => t.take >= call[c].first
  <2>1. ContentOK(Subject[c], t)
    BY OwnInvFacts DEF BookOK, Transcript
  <2> QED
    BY <1>1, <1>3, <2>1 DEF ContentOK, WaitOK
<1>6. CallOK(c)'
  BY <1>1, <1>2, <1>3, <1>4, <1>5 DEF CallOK, Waiting, DoneOK, bucketVars
<1> QED
  BY <1>1, <1>6, BooksStay, CallStays DEF OwnInv

LEMMA NextOwn == OwnInv /\ [Next]_vars => OwnInv'
<1> SUFFICES ASSUME OwnInv, [Next]_vars
             PROVE  OwnInv'
  OBVIOUS
<1>1. TypeOK'
  BY NextType DEF OwnInv
<1>2. CASE UNCHANGED vars
  <2>1. UNCHANGED <<bucketVars, job>> /\ UNCHANGED <<call, rivals>>
    BY <1>2 DEF vars, bucketVars
  <2> QED
    BY <1>1, <2>1, BooksStay, CallStays DEF OwnInv
<1>3. ASSUME NEW c \in Calls, Begin(c) \/ CallStep(c) \/ RequestFails(c)
      PROVE  OwnInv'
  <2>1. CASE \/ WorkerFails(c) \/ StartFails(c) \/ TimeOut(c)
             \/ ReadFails(c) \/ RequestFails(c)
    BY <1>1, <2>1, FailOwn DEF WorkerFails, StartFails, TimeOut, ReadFails, RequestFails
  <2> QED
    BY <1>1, <1>3, <2>1, BeginOwn, WorkerAnswersOwn, StartJobOwn, PollOwn, LocateOwn,
       ReadOwn DEF CallStep
<1> QED
  BY <1>1, <1>2, <1>3, StoreOwn, JobRunsOwn, JobCompletesOwn, JobFailsOwn, CrashOwn
  DEF Next

\* A call hands on the transcript of its own job, made from the recording it
\* began with or a later one, unless a job some other call left behind or runs
\* beside it writes to the same object.
THEOREM TranscriptionTextIsOwn == Spec => []TextIsOwn
<1>1. OwnInv => TextIsOwn
  BY DEF OwnInv, CallOK, DoneOK, TextIsOwn
<1> QED
  BY <1>1, InitOwn, NextOwn, PTL DEF Spec

-----------------------------------------------------------------------------
(* What the operators of module Naming do to a name, however long it is.   *)

LEMMA MinOf ==
    ASSUME NEW S \in SUBSET Nat, S # {}
    PROVE  /\ Min(S) \in S
           /\ \A i \in S : Min(S) <= i
<1>1. PICK x \in S : \A y \in S : ~ (<<y, x>> \in OpToRel(<, Nat))
  BY NatLessThanWellFounded, WFMin
<1>2. ASSUME NEW y \in S
      PROVE  x <= y
  <2> DEFINE pair == <<y, x>>
  <2>1. pair \in Nat \X Nat /\ pair[1] = y /\ pair[2] = x
    OBVIOUS
  <2>2. pair \notin OpToRel(<, Nat)
    BY <1>1
  <2> HIDE DEF pair
  <2>3. ~ (pair[1] < pair[2])
    BY <2>1, <2>2 DEF OpToRel
  <2> QED
    BY <2>1, <2>3
<1> QED
  BY <1>2 DEF Min

LEMMA MaxOf ==
    ASSUME NEW n \in Nat, NEW S \in SUBSET (1..n), S # {}
    PROVE  /\ Max(S) \in S
           /\ \A i \in S : i <= Max(S)
<1> DEFINE T == {n - i : i \in S}
<1>1. \A i \in S : n - i \in Nat /\ n - i \in T
  OBVIOUS
<1>2. T \in SUBSET Nat /\ T # {}
  BY <1>1
<1>3. \A m \in T : \E x \in S : m = n - x
  OBVIOUS
<1> HIDE DEF T
<1>4. PICK m \in T : \A i \in T : m <= i
  BY <1>2, MinOf
<1>5. PICK x \in S : m = n - x
  BY <1>3
<1>6. \A i \in S : i <= x
  <2> TAKE i \in S
  <2>1. m <= n - i
    BY <1>1, <1>4
  <2> QED
    BY <1>5, <2>1
<1> QED
  BY <1>6 DEF Max

\* A name is trimmed to what is between its first and its last character that
\* is no space.
LEMMA TrimFacts ==
    ASSUME NEW S, NEW n \in Seq(S)
    PROVE  /\ TrimSpace(n) \in Seq(S)
           /\ \A i \in Solid(n) : \E k \in DOMAIN TrimSpace(n) : TrimSpace(n)[k] = n[i]
           /\ \A k \in DOMAIN TrimSpace(n) : \E i \in DOMAIN n : TrimSpace(n)[k] = n[i]
           /\ TrimSpace(n) # <<>> <=> Solid(n) # {}
<1>1. Solid(n) \in SUBSET (DOMAIN n)
  BY DEF Solid
<1>2. CASE Solid(n) = {}
  <2>1. TrimSpace(n) = <<>>
    BY <1>2 DEF TrimSpace
  <2> QED
    BY <1>2, <2>1
<1>3. CASE Solid(n) # {}
  <2> DEFINE solid == Solid(n)
  <2>1. solid \in SUBSET (1..Len(n)) /\ solid \in SUBSET Nat /\ solid # {}
    BY <1>1, <1>3
  <2>2. TrimSpace(n) = SubSeq(n, Min(solid), Max(solid))
    BY <1>3 DEF TrimSpace
  <2> HIDE DEF solid
  <2>3. /\ Min(solid) \in solid /\ \A i \in solid : Min(solid) <= i
        /\ Max(solid) \in solid /\ \A i \in solid : i <= Max(solid)
    <3>1. Len(n) \in Nat
      OBVIOUS
    <3> QED
      BY Zenon, <2>1, <3>1, MinOf, MaxOf
  <2> PICK lo, hi \in 1..Len(n) : lo = Min(solid) /\ hi = Max(solid)
    BY <2>1, <2>3
  <2>4. lo <= hi /\ \A i \in solid : lo <= i /\ i <= hi
    BY <2>3
  <2>5. \A i \in lo..hi : n[i] \in S
    OBVIOUS
  <2>6. /\ TrimSpace(n) \in Seq(S)
        /\ Len(TrimSpace(n)) = hi - lo + 1
        /\ \A k \in 1..(hi - lo + 1) : TrimSpace(n)[k] = n[lo + k - 1]
    BY <2>2, <2>4, <2>5, SubSeqProperties
  <2>7. DOMAIN TrimSpace(n) = 1..(hi - lo + 1)
    BY <2>6
  <2>8. ASSUME NEW i \in solid
        PROVE  \E k \in DOMAIN TrimSpace(n) : TrimSpace(n)[k] = n[i]
    <3>1. i \in Nat /\ lo <= i /\ i <= hi
      BY <2>1, <2>4
    <3>2. i - lo + 1 \in 1..(hi - lo + 1) /\ lo + (i - lo + 1) - 1 = i
      BY <3>1
    <3> QED
      BY <2>6, <2>7, <3>2
  <2>9. ASSUME NEW k \in DOMAIN TrimSpace(n)
        PROVE  \E i \in DOMAIN n : TrimSpace(n)[k] = n[i]
    <3>1. k \in 1..(hi - lo + 1)
      BY <2>7
    <3>2. lo + k - 1 \in DOMAIN n
      BY <2>4, <3>1
    <3> QED
      BY <2>6, <3>1, <3>2
  <2>10. TrimSpace(n) # <<>>
    BY <2>4, <2>6
  <2> QED
    BY <1>3, <2>6, <2>8, <2>9, <2>10 DEF solid
<1> QED
  BY <1>2, <1>3

\* Characters that mean something in a URL or a path, save for the separators,
\* are no spaces and come out of Plainly as they are, and nothing else as they.
Meant == {"#", "?", "%41", "%", "^G", ".", ".json"}

LEMMA MeantIsSolid == \A n : \A i \in DOMAIN n : n[i] \in Meant => i \in Solid(n)
BY Zenon DEF Meant, Solid

LEMMA MeantIsKept == \A c : \A x \in Meant : Plainly(c) = x <=> c = x
<1> TAKE c
<1> TAKE x \in Meant
<1>1. Plainly(x) = x
  BY Zenon DEF Meant, Plainly
<1>2. ASSUME Plainly(c) = x
      PROVE  c = x
  BY Zenon, <1>2 DEF Meant, Plainly
<1> QED
  BY <1>1, <1>2

\* The key has the characters of the trimmed name, of which some are made plain.
LEMMA SanitizeFacts ==
    ASSUME NEW S, NEW n \in Seq(S)
    PROVE  /\ Sanitize(n) \in Seq(S \cup {"_"})
           /\ Len(Sanitize(n)) = Len(TrimSpace(n))
           /\ \A i \in 1..Len(TrimSpace(n)) :
                 Sanitize(n)[i] = Plainly(TrimSpace(n)[i])
<1>1. TrimSpace(n) \in Seq(S)
  BY TrimFacts
<1>2. Sanitize(n) = [i \in DOMAIN TrimSpace(n) |-> Plainly(TrimSpace(n)[i])]
  BY DEF Sanitize
<1> DEFINE t == TrimSpace(n)
           T == S \cup {"_"}
<1>3. \A x \in S : Plainly(x) \in T
  BY Zenon DEF Plainly
<1> HIDE DEF t, T
<1>4. t \in Seq(S) /\ Sanitize(n) = [i \in 1..Len(t) |-> Plainly(t[i])]
  BY <1>1, <1>2 DEF t
<1>5. \A i \in 1..Len(t) : Plainly(t[i]) \in T
  BY <1>3, <1>4
<1>6. Sanitize(n) \in Seq(T) /\ Len(Sanitize(n)) = Len(t)
  BY <1>4, <1>5
<1>7. \A i \in 1..Len(t) : Sanitize(n)[i] = Plainly(t[i])
  BY <1>4
<1> QED
  BY Zenon, <1>6, <1>7 DEF t, T

\* A key comes through a URL as it is exactly if no character of it means
\* something else there.
LEMMA ThroughURLFacts ==
    ASSUME NEW S, NEW key \in Seq(S)
    PROVE  /\ ThroughURL(key) \in Seq(S \cup {"A"})
           /\ ThroughURL(key) = key <=>
                 \A i \in 1..Len(key) : key[i] \notin {"#", "?", "%41"}
<1> DEFINE marks == {i \in DOMAIN key : key[i] \in {"#", "?"}}
           path  == IF marks = {} THEN key ELSE SubSeq(key, 1, Min(marks) - 1)
           read  == [i \in DOMAIN path |-> IF path[i] = "%41" THEN "A" ELSE path[i]]
<1>1. ThroughURL(key) = read
  BY DEF ThroughURL, Decode, Cut
<1>2. /\ path \in Seq(S)
      /\ marks = {} => path = key
      /\ marks # {} => Len(path) < Len(key)
  <2>1. CASE marks = {}
    BY <2>1
  <2>2. CASE marks # {}
    <3>1. marks \in SUBSET Nat /\ marks \in SUBSET (1..Len(key))
      OBVIOUS
    <3> HIDE DEF marks
    <3>2. Min(marks) \in marks
      BY <2>2, <3>1, MinOf
    <3> PICK m \in 1..Len(key) : m = Min(marks)
      BY <3>1, <3>2
    <3>3. m - 1 \in Int /\ \A i \in 1..(m - 1) : key[i] \in S
      OBVIOUS
    <3>4. /\ SubSeq(key, 1, m - 1) \in Seq(S)
          /\ Len(SubSeq(key, 1, m - 1)) = IF 1 <= m - 1 THEN m - 1 - 1 + 1 ELSE 0
      BY <3>3, SubSeqProperties
    <3>5. Len(SubSeq(key, 1, m - 1)) < Len(key)
      BY <3>4
    <3> QED
      BY <2>2, <3>4, <3>5
  <2> QED
    BY <2>1, <2>2
<1> HIDE DEF path
<1>3. read \in Seq(S \cup {"A"}) /\ Len(read) = Len(path)
  <2>1. \A i \in 1..Len(path) : (IF path[i] = "%41" THEN "A" ELSE path[i]) \in S \cup {"A"}
    BY <1>2
  <2>2. read = [i \in 1..Len(path) |-> IF path[i] = "%41" THEN "A" ELSE path[i]]
    BY <1>2
  <2> QED
    BY <1>2, <2>1, <2>2
<1>4. ASSUME \A i \in 1..Len(key) : key[i] \notin {"#", "?", "%41"}
      PROVE  read = key
  <2>1. marks = {}
    BY <1>4
  <2>2. path = key
    BY <1>2, <2>1
  <2>3. read = [i \in 1..Len(key) |-> key[i]]
    BY <1>4, <2>2
  <2> QED
    BY <2>3
<1>5. ASSUME read = key, NEW i \in 1..Len(key)
      PROVE  key[i] \notin {"#", "?", "%41"}
  <2>1. path = key
    BY <1>2, <1>3, <1>5
  <2>2. marks = {}
    BY <1>2, <2>1
  <2>3. key[i] \notin {"#", "?"}
    BY <2>2
  <2>4. read[i] # "%41"
    BY <2>1
  <2> QED
    BY <1>5, <2>3, <2>4
<1> QED
  BY <1>1, <1>3, <1>4, <1>5

LEMMA IsDots ==
    ASSUME NEW S, NEW s \in Seq(S)
    PROVE  /\ s = <<>> <=> Len(s) = 0
           /\ s = <<".">> <=> Len(s) = 1 /\ s[1] = "."
           /\ s = <<".", ".">> <=> Len(s) = 2 /\ s[1] = "." /\ s[2] = "."
<1>1. s = <<>> <=> Len(s) = 0
  BY EmptySeq
<1>2. ASSUME Len(s) = 1, s[1] = "."
      PROVE  s = <<".">>
  BY <1>2
<1>3. ASSUME Len(s) = 2, s[1] = ".", s[2] = "."
      PROVE  s = <<".", ".">>
  BY <1>3
<1> QED
  BY <1>1, <1>2, <1>3

LEMMA UnfitIsKept ==
    ASSUME NEW S, NEW n \in Seq(S)
    PROVE  Unfit(Sanitize(n)) <=> Unfit(TrimSpace(n))
<1> DEFINE k == Sanitize(n)
           t == TrimSpace(n)
           T == S \cup {"_"}
<1>1. t \in Seq(S) /\ k \in Seq(T) /\ Len(k) = Len(t)
  BY Zenon, TrimFacts, SanitizeFacts
<1>2. \A i \in 1..Len(t) : k[i] = Plainly(t[i])
  BY SanitizeFacts
<1>3. "." \in Meant
  BY DEF Meant
<1> HIDE DEF k, t, T
<1>4. \A i \in 1..Len(t) : k[i] = "." <=> t[i] = "."
  BY <1>2, <1>3, MeantIsKept
<1>5. Unfit(k) <=> Unfit(t)
  <2>1. /\ k = <<>> <=> Len(k) = 0
        /\ k = <<".">> <=> Len(k) = 1 /\ k[1] = "."
        /\ k = <<".", ".">> <=> Len(k) = 2 /\ k[1] = "." /\ k[2] = "."
    BY Zenon, <1>1, IsDots
  <2>2. /\ t = <<>> <=> Len(t) = 0
        /\ t = <<".">> <=> Len(t) = 1 /\ t[1] = "."
        /\ t = <<".", ".">> <=> Len(t) = 2 /\ t[1] = "." /\ t[2] = "."
    BY Zenon, <1>1, IsDots
  <2>3. /\ Len(t) = 1 => (k[1] = "." <=> t[1] = ".")
        /\ Len(t) = 2 => (k[1] = "." <=> t[1] = ".") /\ (k[2] = "." <=> t[2] = ".")
    BY <1>4
  <2>4. /\ k = <<>> <=> t = <<>>
        /\ k = <<".">> <=> t = <<".">>
        /\ k = <<".", ".">> <=> t = <<".", ".">>
    BY Zenon, <1>1, <2>1, <2>2, <2>3
  <2> QED
    BY Zenon, <2>4 DEF Unfit
<1> QED
  BY Zenon, <1>5 DEF k, t

\* A character of the name that means something is in the key, and no other is.
LEMMA MarksAreKept ==
    ASSUME NEW S, NEW n \in Seq(S), NEW marks \in SUBSET Meant
    PROVE  (\A i \in 1..Len(Sanitize(n)) : Sanitize(n)[i] \notin marks)
             <=> \A i \in DOMAIN n : n[i] \notin marks
<1> DEFINE k == Sanitize(n)
           t == TrimSpace(n)
<1>1. DOMAIN t = 1..Len(t) /\ Len(k) = Len(t)
  <2>1. t \in Seq(S) /\ Len(k) = Len(t)
    BY TrimFacts, SanitizeFacts
  <2> HIDE DEF t, k
  <2> QED
    BY <2>1
<1>2. \A i \in 1..Len(t) : k[i] = Plainly(t[i])
  BY SanitizeFacts
<1>3. \A i \in Solid(n) : \E j \in DOMAIN t : t[j] = n[i]
  BY TrimFacts
<1>4. \A j \in DOMAIN t : \E i \in DOMAIN n : t[j] = n[i]
  BY TrimFacts
<1> HIDE DEF k, t
<1>6. ASSUME NEW x \in marks
      PROVE  (\E i \in 1..Len(k) : k[i] = x) <=> \E i \in DOMAIN n : n[i] = x
  <2>1. x \in Meant
    OBVIOUS
  <2>2. \A i \in 1..Len(t) : k[i] = x <=> t[i] = x
    BY <1>2, <2>1, MeantIsKept
  <2>3. \A i \in DOMAIN n : n[i] = x => i \in Solid(n)
    BY <2>1, MeantIsSolid
  <2> QED
    BY Zenon, <1>1, <1>3, <1>4, <2>2, <2>3
<1>7. (\A i \in 1..Len(k) : k[i] \notin marks) <=> \A i \in DOMAIN n : n[i] \notin marks
  BY Zenon, <1>6
<1> QED
  BY Zenon, <1>7 DEF k

\* A key that means nothing else in a URL is what the worker asks for, and one
\* without a per cent sign is parsed; a key that has no mark is parsed only then.
LEMMA FetchFacts ==
    ASSUME NEW S, NEW key \in Seq(S), \A i \in 1..Len(key) : key[i] \notin {"#", "?", "%41"}
    PROVE  /\ Cut(key) = key
           /\ Decode(Cut(key)) = key
           /\ Refused(key) <=> \E i \in 1..Len(key) : key[i] = "%"
<1>1. Cut(key) = key
  <2>1. {i \in DOMAIN key : key[i] \in {"#", "?"}} = {}
    OBVIOUS
  <2> QED
    BY Zenon, <2>1 DEF Cut
<1>2. Decode(Cut(key)) = key
  BY Zenon, ThroughURLFacts DEF ThroughURL
<1>3. ASSUME NEW i \in DOMAIN key
      PROVE  "?" \notin {key[j] : j \in 1..(i - 1)}
  <2>1. \A j \in 1..(i - 1) : j \in 1..Len(key)
    OBVIOUS
  <2>2. \A j \in 1..(i - 1) : key[j] # "?"
    BY Zenon, <2>1
  <2> QED
    BY Zenon, <2>2
<1>4. DOMAIN key = 1..Len(key)
  OBVIOUS
<1>5. Refused(key) <=> \E i \in DOMAIN key : key[i] = "%"
  BY Zenon, <1>3 DEF Refused
<1> QED
  BY Zenon, <1>1, <1>2, <1>4, <1>5

\* The names by which a recording is written, opened, stored and fetched are
\* one, and it can be stored, exactly for a name without one of these characters;
\* through Amazon a per cent sign, which the link is refused for, is one, too.
LEMMA PlainSurvives ==
    ASSUME NEW S, NEW n \in Seq(S)
    PROVE  /\ Uploadable(Keys(n)) /\ Fetchable(Keys(n)) <=> Plain(n, {"#", "?", "%41", "^G"})
           /\ Uploadable(Keys(n)) /\ Readable(Keys(n)) <=> Plain(n, {"#", "?", "%41", "^G", "%"})
<1> DEFINE k == Sanitize(n)
           clear == \A i \in 1..Len(k) : k[i] \notin {"#", "?", "%41"}
<1>1. k \in Seq(S \cup {"_"})
  BY SanitizeFacts
<1>2. ThroughURL(k) = k <=> clear
  BY Zenon, <1>1, ThroughURLFacts
<1>3. Uploadable(Keys(n)) <=> clear /\ ~Unfit(k) /\ Sendable(k)
  BY Zenon, <1>2 DEF Uploadable, Keys, Written, Opened
<1>4. clear => Fetchable(Keys(n))
  <2>1. clear => Cut(k) = k /\ Decode(Cut(k)) = k
    BY Zenon, <1>1, FetchFacts
  <2> QED
    BY Zenon, <2>1 DEF Fetchable, Keys, Fetched, Stored
<1>5. clear => (Readable(Keys(n)) <=> \A i \in 1..Len(k) : k[i] \notin {"%"})
  <2>1. clear => (Refused(k) <=> \E i \in 1..Len(k) : k[i] = "%")
    BY Zenon, <1>1, FetchFacts
  <2> QED
    BY Zenon, <1>2, <2>1 DEF Readable, Keys, Linked, Stored
<1>6. Sendable(k) <=> \A i \in 1..Len(k) : k[i] \notin {"^G"}
  <2>1. DOMAIN k = 1..Len(k)
    BY Zenon, <1>1, LenProperties
  <2> QED
    BY Zenon, <2>1 DEF Sendable
<1>7. \A marks \in SUBSET Meant :
         (\A i \in 1..Len(k) : k[i] \notin marks) <=> \A i \in DOMAIN n : n[i] \notin marks
  BY Zenon, MarksAreKept
<1>8. /\ clear <=> \A i \in DOMAIN n : n[i] \notin {"#", "?", "%41"}
      /\ Sendable(k) <=> \A i \in DOMAIN n : n[i] \notin {"^G"}
      /\ (\A i \in 1..Len(k) : k[i] \notin {"%"}) <=> \A i \in DOMAIN n : n[i] \notin {"%"}
  <2>1. {"#", "?", "%41"} \in SUBSET Meant /\ {"^G"} \in SUBSET Meant /\ {"%"} \in SUBSET Meant
    BY DEF Meant
  <2> HIDE DEF k
  <2> QED
    BY Zenon, <1>6, <1>7, <2>1
<1>9. Unfit(k) <=> Unfit(TrimSpace(n))
  BY UnfitIsKept
<1>10. Solid(n) = {} => Unfit(TrimSpace(n))
  BY TrimFacts DEF Unfit
<1> HIDE DEF k, clear
<1>11. Plain(n, {"#", "?", "%41", "^G"}) <=> clear /\ Sendable(k) /\ ~Unfit(k)
  BY Zenon, <1>8, <1>9, <1>10 DEF Plain
<1>12. Plain(n, {"#", "?", "%41", "^G", "%"})
         <=> clear /\ Sendable(k) /\ ~Unfit(k) /\ \A i \in 1..Len(k) : k[i] \notin {"%"}
  BY Zenon, <1>8, <1>9, <1>10 DEF Plain
<1> QED
  BY Zenon, <1>3, <1>4, <1>5, <1>11, <1>12

LEMMA StemIsSeq ==
    ASSUME NEW S, NEW key \in Seq(S)
    PROVE  Stem(key) \in Seq(S)
<1>1. CASE Dots(key) = {}
  BY <1>1 DEF Stem
<1>2. CASE Dots(key) # {}
  <2>1. Dots(key) \in SUBSET (1..Len(key)) /\ Len(key) \in Nat
    BY DEF Dots
  <2>2. Max(Dots(key)) \in 1..Len(key)
    BY Zenon, <1>2, <2>1, MaxOf
  <2> PICK m \in 1..Len(key) : m = Max(Dots(key))
    BY <2>2
  <2>3. m - 1 \in Int /\ \A i \in 1..(m - 1) : key[i] \in S
    OBVIOUS
  <2> QED
    BY <1>2, <2>3, SubSeqProperties DEF Stem
<1> QED
  BY <1>1, <1>2

\* The transcript has the key of the recording only if that is called .json.
LEMMA OnlyJsonOverwrites ==
    ASSUME NEW S, NEW n \in Seq(S), Overwrites(Keys(n))
    PROVE  n # <<>> /\ Last(TrimSpace(n)) = ".json"
<1> DEFINE k == Sanitize(n)
           t == TrimSpace(n)
           s == Stem(Linked(n))
           T == S \cup {"_"}
           U == T \cup {"A"}
<1>1. t \in Seq(S) /\ k \in Seq(T) /\ Len(k) = Len(t)
  BY Zenon, TrimFacts, SanitizeFacts
<1>2. \A i \in 1..Len(t) : k[i] = Plainly(t[i])
  BY SanitizeFacts
<1>3. s \in Seq(U)
  <2>1. Linked(n) \in Seq(U)
    BY Zenon, <1>1, ThroughURLFacts DEF Linked, Stored
  <2> QED
    BY Zenon, <2>1, StemIsSeq
<1>4. k = Append(s, ".json")
  BY Zenon DEF Overwrites, Keys, TranscriptKey, Stored
<1>5. \A j \in DOMAIN t : \E i \in DOMAIN n : t[j] = n[i]
  BY TrimFacts
<1>6. ".json" \in Meant
  BY DEF Meant
<1> HIDE DEF k, t, s, T, U
<1>7. Len(k) = Len(s) + 1 /\ Len(s) \in Nat /\ k[Len(s) + 1] = ".json"
  BY <1>3, <1>4
<1>8. t[Len(t)] = ".json"
  BY <1>1, <1>2, <1>6, <1>7, MeantIsKept
<1>9. n # <<>>
  <2>1. 1 \in 1..Len(t)
    BY <1>1, <1>7
  <2>2. DOMAIN t = 1..Len(t)
    BY Zenon, <1>1, LenProperties
  <2>3. DOMAIN n # {}
    BY Zenon, <1>5, <2>1, <2>2
  <2> QED
    BY <2>3
<1> QED
  BY Zenon, <1>8, <1>9 DEF t, Last

-----------------------------------------------------------------------------
\* The names of a book are made from the one the admin sent and never change.
KeysOK == \A b \in Books : keys[b].name \in Seq(STRING) /\ keys[b] = Keys(keys[b].name)

\* A transcript lies where the recording does only if the keys are the same.
AudioOK == \A b \in Books : audio[b].job # NoJob => Overwrites(keys[b])

NamesInv == TypeOK /\ KeysOK /\ AudioOK

LEMMA NamesInit == Init => NamesInv
<1> SUFFICES ASSUME Init
             PROVE  NamesInv
  OBVIOUS
<1>1. TypeOK
  BY InitType
<1>2. KeysOK
  <2>1. \A n : Keys(n).name = n
    BY DEF Keys
  <2>2. PICK name \in [Books -> Names] : keys = [b \in Books |-> Keys(name[b])]
    BY DEF Init
  <2>3. \A b \in Books : name[b] \in Seq(STRING) /\ keys[b] = Keys(name[b])
    BY <2>2, TranscriptionAssumption
  <2> QED
    BY <2>1, <2>3 DEF KeysOK
<1>3. AudioOK
  BY DEF Init, AudioOK, Nothing, Recording
<1> QED
  BY <1>1, <1>2, <1>3 DEF NamesInv

LEMMA NamesNext == NamesInv /\ [Next]_vars => NamesInv'
<1> SUFFICES ASSUME NamesInv, [Next]_vars
             PROVE  NamesInv'
  OBVIOUS
<1>1. TypeOK'
  BY NextType DEF NamesInv
<1>2. keys' = keys
  BY DEF Next, Store, JobRuns, JobCompletes, JobFails, Begin, CallStep, WorkerAnswers,
         WorkerFails, StartJob, StartFails, Poll, TimeOut, Locate, Read, ReadFails,
         RequestFails, Crash, Ends, vars, bucketVars
<1>3. AudioOK'
  <2>1. ASSUME NEW b \in Books, Store(b)
        PROVE  AudioOK'
    BY <2>1 DEF Store, Recording, NamesInv, TypeOK, AudioOK
  <2>2. ASSUME NEW j \in Jobs, JobCompletes(j)
        PROVE  AudioOK'
    BY <2>2 DEF JobCompletes, NamesInv, TypeOK, AudioOK
  <2>3. CASE UNCHANGED audio
    BY <1>2, <2>3 DEF NamesInv, AudioOK
  <2> QED
    BY <2>1, <2>2, <2>3
       DEF Next, JobRuns, JobFails, Begin, CallStep, WorkerAnswers,
           WorkerFails, StartJob, StartFails, Poll, TimeOut, Locate, Read, ReadFails,
           RequestFails, Crash, Ends, vars, bucketVars
<1> QED
  BY <1>1, <1>2, <1>3 DEF NamesInv, KeysOK

\* Whatever the names and however the jobs run, a transcript comes to lie over
\* a recording only if the admin's file was called .json.
THEOREM TranscriptionAudioKept == Spec => []AudioKept
<1>1. NamesInv => AudioKept
  <2> SUFFICES ASSUME NamesInv, NEW b \in Books, audio[b].job # NoJob
               PROVE  keys[b].name # <<>> /\ Last(TrimSpace(keys[b].name)) = ".json"
    BY Zenon DEF AudioKept
  <2> DEFINE n == keys[b].name
  <2>1. n \in Seq(STRING) /\ Overwrites(Keys(n))
    BY DEF NamesInv, KeysOK, AudioOK
  <2> HIDE DEF n
  <2>2. n # <<>> /\ Last(TrimSpace(n)) = ".json"
    BY Zenon, <2>1, OnlyJsonOverwrites
  <2> QED
    BY Zenon, <2>2 DEF n
<1> QED
  BY <1>1, NamesInit, NamesNext, PTL DEF Spec

\* Of all names, however long, just those that mean nothing else in a URL and
\* something in a header can be stored and fetched, and of these through Amazon
\* just those without a bare per cent sign.
THEOREM TranscriptionNamesSurvive == Spec => []NamesSurvive
<1>1. NamesInv => NamesSurvive
  <2> SUFFICES ASSUME NamesInv, NEW b \in Books
               PROVE  /\ Uploadable(keys[b]) /\ Fetchable(keys[b])
                            <=> Plain(keys[b].name, {"#", "?", "%41", "^G"})
                      /\ Uploadable(keys[b]) /\ Readable(keys[b])
                            <=> Plain(keys[b].name, {"#", "?", "%41", "^G", "%"})
    BY Zenon DEF NamesSurvive
  <2> DEFINE n == keys[b].name
  <2>1. n \in Seq(STRING) /\ keys[b] = Keys(n)
    BY DEF NamesInv, KeysOK
  <2> HIDE DEF n
  <2>2. /\ Uploadable(Keys(n)) /\ Fetchable(Keys(n)) <=> Plain(n, {"#", "?", "%41", "^G"})
        /\ Uploadable(Keys(n)) /\ Readable(Keys(n)) <=> Plain(n, {"#", "?", "%41", "^G", "%"})
    BY Zenon, <2>1, PlainSurvives
  <2> QED
    BY Zenon, <2>1, <2>2 DEF n
<1> QED
  BY <1>1, NamesInit, NamesNext, PTL DEF Spec
=============================================================================
