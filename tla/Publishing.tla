----------------------------- MODULE Publishing -----------------------------
(***************************************************************************)
(* What publishing an audiobook promises, without servers, calls or rows:  *)
(* a book goes upload -> transcript -> summary -> ready, one phase at a    *)
(* time, each phase working on what the one before it has produced, and an *)
(* admin may take it back to an earlier phase to do the rest again.        *)
(***************************************************************************)
EXTENDS Naturals

CONSTANTS
    Books,    \* audiobook ids
    Audio,    \* contents an admin may upload
    TextsOf   \* TextsOf[a]: the transcripts content a may be given

VARIABLE book   \* book[b]: the phase of b, and what there is of it by then

Absent == 0
New == 1
Stored == 2
Transcribed == 3
Ready == 4

\* audio, text and summary hold what is there, or nothing, as <<>>.
Stage(phase, audio, text, summary) ==
    [phase |-> phase, audio |-> audio, text |-> text, summary |-> summary]

Init == book = [b \in Books |-> Stage(Absent, <<>>, <<>>, <<>>)]

Create(b) ==
    /\ book[b].phase = Absent
    /\ book' = [book EXCEPT ![b] = Stage(New, <<>>, <<>>, <<>>)]

Store(b, a) ==
    /\ book[b].phase = New
    /\ book' = [book EXCEPT ![b] = Stage(Stored, <<a>>, <<>>, <<>>)]

Transcribe(b, a, t) ==
    /\ book[b].phase = Stored
    /\ book[b].audio = <<a>>
    /\ t \in TextsOf[a]
    /\ book' = [book EXCEPT ![b] = Stage(Transcribed, <<a>>, <<t>>, <<>>)]

Summarize(b) ==
    /\ book[b].phase = Transcribed
    /\ book' = [book EXCEPT ![b] =
          Stage(Ready, book[b].audio, book[b].text, book[b].text)]

\* Back to an earlier phase, keeping what that phase had produced.
Redo(b, phase) ==
    /\ phase < book[b].phase
    /\ book' = [book EXCEPT ![b] =
          Stage(phase,
                IF phase >= Stored THEN book[b].audio ELSE <<>>,
                IF phase >= Transcribed THEN book[b].text ELSE <<>>,
                <<>>)]

Next ==
    \E b \in Books :
        \/ Create(b)
        \/ \E a \in Audio : Store(b, a) \/ \E t \in TextsOf[a] : Transcribe(b, a, t)
        \/ Summarize(b)
        \/ \E phase \in New..Transcribed : Redo(b, phase)

Spec == Init /\ [][Next]_book
=============================================================================
