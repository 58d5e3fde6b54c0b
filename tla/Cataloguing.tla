----------------------------- MODULE Cataloguing -----------------------------
(***************************************************************************)
(* What UpdateAudiobookAI promises CompleteUpload and the readers of a     *)
(* book (backend/internal/storage/database.go 328-376): it is applied as a *)
(* whole or not at all, at one moment, to its own book alone, and once.    *)
(***************************************************************************)
CONSTANTS Books, Updates, BookOf, None,
          Rows   \* Rows[u]: the rows of categories that update u is to write

VARIABLES
    shown,    \* shown[b]: whose description book b has, and its categories
    applied   \* the updates that took place

cataloguingVars == <<shown, applied>>

Init ==
    /\ shown = [b \in Books |-> [of |-> None, categories |-> {}]]
    /\ applied = {}

Apply(u) ==
    /\ u \notin applied
    /\ applied' = applied \cup {u}
    /\ shown' = [shown EXCEPT ![BookOf[u]] = [of |-> u, categories |-> Rows[u]]]

Next == \E u \in Updates : Apply(u)

Spec == Init /\ [][Next]_cataloguingVars
=============================================================================
