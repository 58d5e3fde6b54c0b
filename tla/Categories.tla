----------------------------- MODULE Categories -----------------------------
(***************************************************************************)
(* The last statement group of CompleteUpload: what the answer of the AI   *)
(* service says (backend/internal/aihelper/pipeline.go) is written with    *)
(* UpdateAudiobookAI (backend/internal/storage/database.go).               *)
(*                                                                         *)
(* One transaction updates the row of the book, deletes the links to its   *)
(* categories and inserts new ones, but each label is looked for and made  *)
(* by statements on another connection, which commit by themselves and     *)
(* wait for locks on their own: InnoDB does not see that the transaction   *)
(* waits with them.  At the default isolation the DELETE locks the gaps    *)
(* around the links of its book, where links of other books may have to go.*)
(***************************************************************************)
EXTENDS Naturals, Sequences, FiniteSets

CONSTANTS
    Books,
    Updates,   \* the calls of UpdateAudiobookAI there ever are
    BookOf,    \* BookOf[u]: the book u is about
    Answer,    \* Answer[u]: what the AI service answered to u's CompleteUpload
    Labels,    \* labels that are not blank
    Blank,
    None

\* fenced: in a code fence or with prose around it; mistyped: an object with a
\* list where one new category is expected; garbled: no JSON object.
Forms == {"object", "fenced", "mistyped", "garbled"}

ASSUME CategoriesAssumption ==
    /\ BookOf \in [Updates -> Books]
    /\ Answer \in [Updates -> [form : Forms, labels : Seq(Labels \cup {Blank})]]
    /\ Blank \notin Labels
    /\ None \notin Updates

-----------------------------------------------------------------------------
(* From the answer to the links *)

\* stripToJSON takes off fences and prose.
Stripped(form) == IF form = "fenced" THEN "object" ELSE form

\* The fields of a mistyped answer that fit are kept; for a garbled one the
\* envelope around it is read instead, which is JSON and has no such field.
\* Either way the error is dropped.  A new category is not passed on.
Understood(answer) ==
    IF Stripped(answer.form) = "garbled" THEN <<>> ELSE answer.labels

\* Mutant: blank labels are linked as well.
LinkedBlank(u, i) ==
    LET labels == Understood(Answer[u])
    IN  IF i <= Len(labels) THEN <<labels[i]>> ELSE <<>>

\* What the i-th label of the answer adds to the links: a blank one gets no
\* link and no position.
Linked(u, i) ==
    LET labels == Understood(Answer[u])
    IN  IF i <= Len(labels) /\ labels[i] # Blank THEN <<labels[i]>> ELSE <<>>

\* CompleteUpload passes on three labels.
Kept(u) == Linked(u, 1) \o Linked(u, 2) \o Linked(u, 3)

\* The first n links of u: rows <<position, label>> of audiobook_categories.
LinkRows(u, n) == {<<i, Kept(u)[i]>> : i \in 1..n}

-----------------------------------------------------------------------------
VARIABLES
    author,   \* author[b]: the update that wrote what row b holds, or None
    links,    \* links[b]: committed rows of audiobook_categories
    types,    \* labels in audiobook_category_types
    update

categoryVars == <<author, links, types, update>>

Links == (Nat \ {0}) \X Labels

\* row, delete: the statement it is at; look: the label it looks for; make: the
\* label it inserts, not having found it; link: the link it inserts.
\* done: links inserted; gone: links deleted; awaits: the updates whose locks
\* the link has to wait for.
Update == [pc : {"idle", "row", "delete", "look", "make", "link", "committed", "aborted"},
           done : Nat, gone : SUBSET Links, awaits : SUBSET Updates]

TypeOK ==
    /\ author \in [Books -> Updates \cup {None}]
    /\ links \in [Books -> SUBSET Links]
    /\ types \subseteq Labels
    /\ update \in [Updates -> Update]
    /\ \A u \in Updates : update[u].done <= Len(Kept(u))
    /\ \A u \in Updates :
          update[u].pc \in {"make", "link"} => update[u].done < Len(Kept(u))

Init ==
    /\ author = [b \in Books |-> None]
    /\ links = [b \in Books |-> {}]
    /\ types = {}
    /\ update = [u \in Updates |-> [pc |-> "idle", done |-> 0, gone |-> {}, awaits |-> {}]]

-----------------------------------------------------------------------------
(* Locks *)

HoldsRow(u) == update[u].pc \in {"delete", "look", "make", "link"}

Open(u) == update[u].pc = "row" \/ HoldsRow(u)

HoldsGaps(u) == update[u].pc \in {"look", "make", "link"}

\* A link holds its label in share mode until the transaction ends.
HoldsLabel(u, l) == HoldsGaps(u) /\ \E i \in 1..update[u].done : Kept(u)[i] = l

NextLabel(u) == Kept(u)[update[u].done + 1]

\* The transactions that u waits for, itself or in its label statement.
RowHolders(u) == {v \in Updates \ {u} : HoldsRow(v) /\ BookOf[v] = BookOf[u]}

Blockers(u) ==
    CASE update[u].pc = "row"  -> RowHolders(u)
      [] update[u].pc = "link" -> {v \in update[u].awaits : Open(v)}
      [] OTHER -> {}

LabelBlockers(u) ==
    IF update[u].pc = "make" THEN {v \in Updates : HoldsLabel(v, NextLabel(u))} ELSE {}

\* InnoDB looks for rings of transactions; it does not know that the
\* transaction of a call waits while the label statement of the call does.
Deadlocked(u) ==
    \E ring \in SUBSET Updates :
        /\ u \in ring
        /\ \A v \in ring : Blockers(v) \cap ring # {}

-----------------------------------------------------------------------------
At(u, pc) == update[u].pc = pc

Goes(u, pc) == update' = [update EXCEPT ![u].pc = pc]

Begin(u) ==
    /\ At(u, "idle")
    /\ Goes(u, "row")
    /\ UNCHANGED <<author, links, types>>

\* Mutant: the row is updated through the pool, in no transaction.
UpdateRowOutside(u) ==
    /\ At(u, "row")
    /\ RowHolders(u) = {}
    /\ author' = [author EXCEPT ![BookOf[u]] = u]
    /\ Goes(u, "delete")
    /\ UNCHANGED <<links, types>>

UpdateRow(u) ==
    /\ At(u, "row")
    /\ RowHolders(u) = {}
    /\ Goes(u, "delete")
    /\ UNCHANGED <<author, links, types>>

\* Mutant: the links are deleted through the pool, in no transaction.
DeleteLinksOutside(u) ==
    /\ At(u, "delete")
    /\ links' = [links EXCEPT ![BookOf[u]] = {}]
    /\ update' = [update EXCEPT ![u].pc = "look", ![u].gone = links[BookOf[u]]]
    /\ UNCHANGED <<author, types>>

\* Gap locks do not keep each other out.
DeleteLinks(u) ==
    /\ At(u, "delete")
    /\ update' = [update EXCEPT ![u].pc = "look", ![u].gone = links[BookOf[u]]]
    /\ UNCHANGED <<author, links, types>>

\* The statement for the next link is sent; which gaps its place is in depends
\* on the rows in between, so it waits for any of those that hold some.
AsksForLink(u) ==
    \E others \in SUBSET {v \in Updates \ {u} : HoldsGaps(v)} :
        update' = [update EXCEPT ![u].pc = "link", ![u].awaits = others]

FindLabel(u) ==
    /\ At(u, "look")
    /\ update[u].done < Len(Kept(u))
    /\ NextLabel(u) \in types
    /\ AsksForLink(u)
    /\ UNCHANGED <<author, links, types>>

MissLabel(u) ==
    /\ At(u, "look")
    /\ update[u].done < Len(Kept(u))
    /\ NextLabel(u) \notin types
    /\ Goes(u, "make")
    /\ UNCHANGED <<author, links, types>>

\* INSERT ... ON DUPLICATE KEY UPDATE: if another call has made the label in
\* the meantime its row is written, which nobody's link may hold.
MakeLabel(u) ==
    /\ At(u, "make")
    /\ LabelBlockers(u) = {}
    /\ types' = types \cup {NextLabel(u)}
    /\ AsksForLink(u)
    /\ UNCHANGED <<author, links>>

InsertLink(u) ==
    /\ At(u, "link")
    /\ Blockers(u) = {}
    /\ update' = [update EXCEPT ![u].pc = "look", ![u].awaits = {}, ![u].done = @ + 1]
    /\ UNCHANGED <<author, links, types>>

\* Mutant: what fails for a label ends the loop, but not the transaction.
CommitEarly(u) ==
    /\ At(u, "look")
    /\ author' = [author EXCEPT ![BookOf[u]] = u]
    /\ links' = [links EXCEPT ![BookOf[u]] = (@ \ update[u].gone) \cup LinkRows(u, update[u].done)]
    /\ Goes(u, "committed")
    /\ UNCHANGED types

Commit(u) ==
    /\ At(u, "look")
    /\ update[u].done = Len(Kept(u))
    /\ author' = [author EXCEPT ![BookOf[u]] = u]
    /\ links' = [links EXCEPT ![BookOf[u]] = (@ \ update[u].gone) \cup LinkRows(u, update[u].done)]
    /\ Goes(u, "committed")
    /\ UNCHANGED types

\* A statement fails, the client is gone, server or MySQL stops: the
\* transaction is rolled back; labels already made stay.
Abort(u) ==
    /\ Open(u)
    /\ Goes(u, "aborted")
    /\ UNCHANGED <<author, links, types>>

Victim(u) == Deadlocked(u) /\ Abort(u)

\* Mutant: a statement whose wait for a lock timed out is sent again.
TimeOutRetries(u) ==
    /\ Blockers(u) \cup LabelBlockers(u) # {}
    /\ UNCHANGED categoryVars

\* innodb_lock_wait_timeout ends a wait that lasts, of whichever connection;
\* its error makes the call give up.
TimeOut(u) == Blockers(u) \cup LabelBlockers(u) # {} /\ Abort(u)

-----------------------------------------------------------------------------
Step(u) ==
    \/ UpdateRow(u)
    \/ DeleteLinks(u)
    \/ FindLabel(u)
    \/ MissLabel(u)
    \/ MakeLabel(u)
    \/ InsertLink(u)
    \/ Commit(u)

Next == \E u \in Updates : Begin(u) \/ Step(u) \/ Abort(u) \/ Victim(u) \/ TimeOut(u)

Spec == Init /\ [][Next]_categoryVars

\* A statement that no lock stops ends, and waits are limited.
FairSpec ==
    /\ Spec
    /\ \A u \in Updates : WF_categoryVars(Step(u)) /\ WF_categoryVars(TimeOut(u))

-----------------------------------------------------------------------------
(***************************************************************************)
(* The categories of a book and its description, transcript, link and      *)
(* status come from one and the same answer, however updates of the book   *)
(* interleave and wherever they break off (database.go 328-376).           *)
(***************************************************************************)
OneAuthor ==
    \A b \in Books :
        links[b] = IF author[b] = None THEN {}
                   ELSE LinkRows(author[b], Len(Kept(author[b])))

\* What readers see of the tables once a transaction has committed.
Shown ==
    INSTANCE Cataloguing WITH
        Rows    <- [u \in Updates |-> LinkRows(u, Len(Kept(u)))],
        shown   <- [b \in Books |-> [of |-> author[b], categories |-> links[b]]],
        applied <- {u \in Updates : update[u].pc = "committed"}

(***************************************************************************)
(* The dozen statements of an update on two connections act as one: every  *)
(* change a reader can see is one update, whole, of its own book, and none *)
(* takes place twice or comes back over a later one (database.go 328-376). *)
(***************************************************************************)
AppliedWhole == Shown!Spec

(***************************************************************************)
(* No update waits for ever, though some of its statements run on another  *)
(* connection than those that hold its locks (database.go 362, 884-917).   *)
(***************************************************************************)
UpdatesEnd == \A u \in Updates : Open(u) ~> ~Open(u)
=============================================================================
