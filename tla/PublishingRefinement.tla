------------------------ MODULE PublishingRefinement ------------------------
(***************************************************************************)
(* How the rows, files and calls of Processing, driven by an admin who     *)
(* waits for each call and reloads the catalog, implement Publishing.      *)
(***************************************************************************)
EXTENDS AdminConsole

\* The phase of Publishing that a row's status stands for.
PhaseOf(status) ==
    CASE status = "ABSENT"                   -> 0
      [] status \in {"UNSPECIFIED", "AUDIO"} -> 1
      [] status = "TRANSCRIPT"               -> 2
      [] status = "SUMMARY"                  -> 3
      [] status = "READY"                    -> 4

\* What a row shows in its phase: what a later step has prepared in advance,
\* or an earlier pass has left behind, does not count.
BookOf(b) ==
    LET phase == PhaseOf(row[b].status)
    IN  [phase   |-> phase,
         audio   |-> IF phase >= 2 THEN <<object[b]>> ELSE <<>>,
         text    |-> IF phase >= 3 THEN <<row[b].transcript>> ELSE <<>>,
         summary |-> IF phase >= 4 THEN row[b].description ELSE <<>>]

P == INSTANCE Publishing WITH
        TextsOf <- [a \in Audio |-> {TranscriptOf(a, p) : p \in Providers}],
        book <- [b \in Books |-> BookOf(b)]

\* A row only ever goes through the phases of a book, one at a time, and
\* never shows the work of one pass beside that of another.
Publishes == P!Spec
=============================================================================
