-------------------------- MODULE CategoriesProofs --------------------------
(***************************************************************************)
(* Theorems about the update that ends a publishing, for any books, calls  *)
(* and answers of the AI service.                                          *)
(***************************************************************************)
EXTENDS Catalog, TLAPS

LEMMA KeptType == \A u \in Updates : Kept(u) \in Seq(Labels)
<1> SUFFICES ASSUME NEW u \in Updates
             PROVE  Kept(u) \in Seq(Labels)
  OBVIOUS
<1>1. ASSUME NEW i \in 1..3
      PROVE  Linked(u, i) \in Seq(Labels)
  <2> DEFINE labels == Understood(Answer[u])
  <2>1. labels \in Seq(Labels \cup {Blank})
    BY CategoriesAssumption DEF Understood
  <2> HIDE DEF labels
  <2>2. Linked(u, i) = IF i <= Len(labels) /\ labels[i] # Blank THEN <<labels[i]>> ELSE <<>>
    BY DEF Linked, labels
  <2>3. CASE i <= Len(labels) /\ labels[i] # Blank
    <3>1. labels[i] \in Labels
      BY <2>1, <2>3
    <3> QED
      BY <2>2, <2>3, <3>1
  <2>4. CASE ~(i <= Len(labels) /\ labels[i] # Blank)
    BY <2>2, <2>4
  <2> QED
    BY <2>3, <2>4
<1>2. Linked(u, 1) \in Seq(Labels) /\ Linked(u, 2) \in Seq(Labels) /\ Linked(u, 3) \in Seq(Labels)
  BY <1>1
<1> QED
  BY <1>2 DEF Kept

LEMMA LinkRowsType ==
  \A u \in Updates : \A n \in 0..Len(Kept(u)) : LinkRows(u, n) \in SUBSET Links
<1> SUFFICES ASSUME NEW u \in Updates, NEW n \in 0..Len(Kept(u)), NEW i \in 1..n
             PROVE  <<i, Kept(u)[i]>> \in Links
  BY DEF LinkRows
<1>1. Kept(u) \in Seq(Labels)
  BY KeptType
<1>2. i \in 1..Len(Kept(u))
  BY <1>1
<1> QED
  BY <1>1, <1>2 DEF Links

LEMMA LenKept == \A u \in Updates : Len(Kept(u)) \in Nat
BY KeptType

LEMMA BookOfType == \A u \in Updates : BookOf[u] \in Books
BY CategoriesAssumption

LEMMA InitType == Init => TypeOK
BY LenKept DEF Init, TypeOK, Update

UpdatesOK ==
    /\ update \in [Updates -> Update]
    /\ \A u \in Updates :
          /\ update[u].done <= Len(Kept(u))
          /\ update[u].pc \in {"make", "link"} => update[u].done < Len(Kept(u))

\* An update that becomes another well-typed record leaves all well-typed.
LEMMA Becomes ==
  ASSUME UpdatesOK, NEW u \in Updates, NEW rec \in Update,
         update' = [update EXCEPT ![u] = rec],
         rec.done <= Len(Kept(u)),
         rec.pc \in {"make", "link"} => rec.done < Len(Kept(u))
  PROVE  UpdatesOK'
<1> USE DEF UpdatesOK
<1>1. update' \in [Updates -> Update]
  OBVIOUS
<1>2. ASSUME NEW v \in Updates
      PROVE  /\ update'[v].done <= Len(Kept(v))
             /\ update'[v].pc \in {"make", "link"} => update'[v].done < Len(Kept(v))
  BY <1>2
<1>3. \A v \in Updates : Kept(v)' = Kept(v)
  BY DEF Kept, Linked, Understood, Stripped
<1> QED
  BY <1>1, <1>2, <1>3

LEMMA Moves ==
  ASSUME UpdatesOK, NEW u \in Updates,
         NEW pc \in {"row", "delete", "look", "make", "committed", "aborted"}, Goes(u, pc),
         pc = "make" => update[u].done < Len(Kept(u))
  PROVE  UpdatesOK'
<1> DEFINE rec == [update[u] EXCEPT !.pc = pc]
<1>1. update[u] \in Update /\ update[u].done <= Len(Kept(u))
  BY DEF UpdatesOK
<1>2. rec \in Update /\ rec.done = update[u].done /\ rec.pc = pc
  BY <1>1 DEF Update
<1>3. update' = [update EXCEPT ![u] = rec]
  BY DEF Goes
<1> HIDE DEF rec
<1> QED
  BY <1>1, <1>2, <1>3, Becomes

LEMMA AsksType ==
  ASSUME UpdatesOK, NEW u \in Updates, AsksForLink(u), update[u].done < Len(Kept(u))
  PROVE  UpdatesOK'
<1>1. PICK others \in SUBSET Updates :
             update' = [update EXCEPT ![u].pc = "link", ![u].awaits = others]
  BY DEF AsksForLink
<1> DEFINE rec == [update[u] EXCEPT !.pc = "link", !.awaits = others]
<1>2. update[u] \in Update /\ update[u].done <= Len(Kept(u))
  BY DEF UpdatesOK
<1>3. rec \in Update /\ rec.done = update[u].done
  BY <1>2 DEF Update
<1>4. update' = [update EXCEPT ![u] = rec]
  BY <1>1
<1> HIDE DEF rec
<1> QED
  BY <1>2, <1>3, <1>4, Becomes

LEMMA NextType == TypeOK /\ [Next]_categoryVars => TypeOK'
<1> SUFFICES ASSUME TypeOK, [Next]_categoryVars
             PROVE  TypeOK'
  OBVIOUS
<1> DEFINE TablesOK == /\ author \in [Books -> Updates \cup {None}]
                       /\ links \in [Books -> SUBSET Links]
                       /\ types \subseteq Labels
<1>1. TablesOK /\ UpdatesOK
  BY DEF TypeOK, UpdatesOK
<1>2. SUFFICES TablesOK' /\ UpdatesOK'
  BY DEF TypeOK, UpdatesOK
<1> USE BookOfType, LenKept DEF At
<1>3. ASSUME NEW u \in Updates, Begin(u) \/ UpdateRow(u) \/ MissLabel(u) \/ Abort(u)
      PROVE  TablesOK' /\ UpdatesOK'
  <2>1. TablesOK'
    BY <1>1, <1>3 DEF Begin, UpdateRow, MissLabel, Abort
  <2>2. UpdatesOK'
    BY <1>1, <1>3, Moves DEF Begin, UpdateRow, MissLabel, Abort
  <2> QED
    BY <2>1, <2>2
<1>4. ASSUME NEW u \in Updates, DeleteLinks(u)
      PROVE  TablesOK' /\ UpdatesOK'
  <2> DEFINE found == links[BookOf[u]]
             rec == [update[u] EXCEPT !.pc = "look", !.gone = found]
  <2>1. found \in SUBSET Links
    BY <1>1
  <2>2. update' = [update EXCEPT ![u] = rec] /\ TablesOK'
    BY <1>1, <1>4 DEF DeleteLinks
  <2>3. update[u] \in Update /\ update[u].done <= Len(Kept(u))
    BY <1>1 DEF UpdatesOK
  <2> HIDE DEF found
  <2>4. rec \in Update /\ rec.done = update[u].done /\ rec.pc = "look"
    BY <2>1, <2>3 DEF Update
  <2> HIDE DEF rec
  <2> QED
    BY <1>1, <2>2, <2>3, <2>4, Becomes
<1>5. ASSUME NEW u \in Updates, FindLabel(u)
      PROVE  TablesOK' /\ UpdatesOK'
  BY <1>1, <1>5, AsksType DEF FindLabel
<1>6. ASSUME NEW u \in Updates, MakeLabel(u)
      PROVE  TablesOK' /\ UpdatesOK'
  <2>1. update[u].done \in Nat /\ update[u].done < Len(Kept(u))
    BY <1>1, <1>6 DEF MakeLabel, UpdatesOK, Update
  <2>2. NextLabel(u) \in Labels
    <3>1. update[u].done + 1 \in 1..Len(Kept(u))
      BY <2>1
    <3> QED
      BY <3>1, KeptType DEF NextLabel
  <2>3. TablesOK'
    BY <1>1, <1>6, <2>2 DEF MakeLabel
  <2>4. UpdatesOK'
    BY <1>1, <1>6, <2>1, AsksType DEF MakeLabel
  <2> QED
    BY <2>3, <2>4
<1>7. ASSUME NEW u \in Updates, InsertLink(u)
      PROVE  TablesOK' /\ UpdatesOK'
  <2> DEFINE n == update[u].done + 1
             rec == [update[u] EXCEPT !.pc = "look", !.awaits = {}, !.done = n]
  <2>1. update' = [update EXCEPT ![u] = rec] /\ TablesOK'
    BY <1>1, <1>7 DEF InsertLink
  <2>2. update[u].pc = "link"
    BY <1>7 DEF InsertLink
  <2>3. update[u] \in Update /\ update[u].done < Len(Kept(u))
    BY <1>1, <2>2 DEF UpdatesOK
  <2>4. update[u].done \in Nat
    BY <2>3 DEF Update
  <2>5. n \in Nat /\ n <= Len(Kept(u))
    BY <2>3, <2>4
  <2> HIDE DEF n
  <2>6. rec \in Update /\ rec.done = n /\ rec.pc = "look"
    BY <2>3, <2>5 DEF Update
  <2> HIDE DEF rec
  <2> QED
    BY <1>1, <2>1, <2>5, <2>6, Becomes
<1>8. ASSUME NEW u \in Updates, Commit(u)
      PROVE  TablesOK' /\ UpdatesOK'
  <2>1. update[u].done \in 0..Len(Kept(u))
    BY <1>1, <1>8 DEF Commit, UpdatesOK, Update
  <2>2. LinkRows(u, update[u].done) \in SUBSET Links
    BY <2>1, LinkRowsType
  <2>3. TablesOK'
    BY <1>1, <1>8, <2>2 DEF Commit
  <2>4. UpdatesOK'
    BY <1>1, <1>8, Moves DEF Commit
  <2> QED
    BY <2>3, <2>4
<1>9. CASE UNCHANGED categoryVars
  BY <1>1, <1>9 DEF categoryVars, UpdatesOK
<1> QED
  BY <1>3, <1>4, <1>5, <1>6, <1>7, <1>8, <1>9 DEF Next, Step, Victim, TimeOut

(***************************************************************************)
(* The tables and the updates keep to their types.                         *)
(***************************************************************************)
THEOREM CategoriesTypes == Spec => []TypeOK
<1> QED
  BY InitType, NextType, PTL DEF Spec

-----------------------------------------------------------------------------
\* The transactions that have updated the row of a book are one, and have
\* deleted just the links the book has.
SoleWriter(u) ==
    /\ \A v \in Updates : HoldsRow(u) /\ HoldsRow(v) /\ BookOf[u] = BookOf[v] => u = v
    /\ HoldsGaps(u) => update[u].gone = links[BookOf[u]]

AuthorInv == TypeOK /\ OneAuthor /\ \A u \in Updates : SoleWriter(u)

LEMMA InitAuthor == Init => AuthorInv
BY InitType DEF Init, AuthorInv, OneAuthor, SoleWriter, HoldsRow, HoldsGaps

\* A step that leaves the committed links alone keeps them with their author,
\* and keeps sole writers if no update gets the row or the gaps of a book.
LEMMA QuietStep ==
  ASSUME AuthorInv, UNCHANGED <<author, links>>,
         \A v \in Updates : HoldsRow(v)' => HoldsRow(v),
         \A v \in Updates : HoldsGaps(v)' => HoldsGaps(v) /\ update'[v].gone = update[v].gone
  PROVE  OneAuthor' /\ \A v \in Updates : SoleWriter(v)'
BY DEF AuthorInv, OneAuthor, SoleWriter

LEMMA NextAuthor == AuthorInv /\ [Next]_categoryVars => AuthorInv'
<1> SUFFICES ASSUME AuthorInv, [Next]_categoryVars
             PROVE  AuthorInv'
  OBVIOUS
<1>1. TypeOK /\ TypeOK'
  BY NextType DEF AuthorInv
<1> USE BookOfType, <1>1 DEF At, Goes, HoldsRow, HoldsGaps
<1>2. SUFFICES OneAuthor' /\ \A v \in Updates : SoleWriter(v)'
  BY <1>1 DEF AuthorInv
<1>3. ASSUME NEW u \in Updates, Begin(u)
      PROVE  OneAuthor' /\ \A v \in Updates : SoleWriter(v)'
  <2>1. \A v \in Updates : (HoldsRow(v)' => HoldsRow(v)) /\ (HoldsGaps(v)' => HoldsGaps(v))
    BY <1>3 DEF Begin, TypeOK
  <2>2. \A v \in Updates : update'[v].gone = update[v].gone
    BY <1>3 DEF Begin, TypeOK, Update
  <2> QED
    BY <1>3, <2>1, <2>2, QuietStep DEF Begin
<1>4. ASSUME NEW u \in Updates, UpdateRow(u)
      PROVE  OneAuthor' /\ \A v \in Updates : SoleWriter(v)'
  <2>1. OneAuthor'
    BY <1>4 DEF UpdateRow, OneAuthor, AuthorInv
  <2>2. \A v \in Updates \ {u} : HoldsRow(v) => BookOf[v] # BookOf[u]
    BY <1>4 DEF UpdateRow, RowHolders
  <2>3. update' = [update EXCEPT ![u].pc = "delete"] /\ links' = links
    BY <1>4 DEF UpdateRow
  <2>4. ASSUME NEW v \in Updates
        PROVE  SoleWriter(v)'
    <3>1. ASSUME NEW w \in Updates, HoldsRow(v)', HoldsRow(w)', BookOf[v] = BookOf[w]
          PROVE  v = w
      BY <2>2, <2>3, <3>1 DEF SoleWriter, AuthorInv, TypeOK
    <3>2. HoldsGaps(v)' => update'[v].gone = links'[BookOf[v]]
      BY <2>3 DEF SoleWriter, AuthorInv, TypeOK
    <3> QED
      BY <3>1, <3>2 DEF SoleWriter
  <2> QED
    BY <2>1, <2>4
<1>5. ASSUME NEW u \in Updates, DeleteLinks(u)
      PROVE  OneAuthor' /\ \A v \in Updates : SoleWriter(v)'
  <2>1. OneAuthor'
    BY <1>5 DEF DeleteLinks, OneAuthor, AuthorInv
  <2> DEFINE found == links[BookOf[u]]
  <2>2. update' = [update EXCEPT ![u].pc = "look", ![u].gone = found] /\ links' = links
    BY <1>5 DEF DeleteLinks
  <2> HIDE DEF found
  <2>3. ASSUME NEW v \in Updates
        PROVE  /\ HoldsRow(v)' => HoldsRow(v)
               /\ v # u => update'[v] = update[v]
    BY <1>5, <2>2 DEF DeleteLinks, TypeOK
  <2>4. update'[u].gone = found
    BY <2>2 DEF TypeOK, Update
  <2>5. ASSUME NEW v \in Updates
        PROVE  SoleWriter(v)'
    <3>1. ASSUME NEW w \in Updates, HoldsRow(v)', HoldsRow(w)', BookOf[v] = BookOf[w]
          PROVE  v = w
      <4>1. HoldsRow(v) /\ HoldsRow(w)
        BY <2>3, <3>1
      <4> QED
        BY <3>1, <4>1 DEF SoleWriter, AuthorInv
    <3>2. HoldsGaps(v)' => update'[v].gone = links'[BookOf[v]]
      BY <2>2, <2>3, <2>4 DEF SoleWriter, AuthorInv, found
    <3> QED
      BY <3>1, <3>2 DEF SoleWriter
  <2> QED
    BY <2>1, <2>5
<1>6. ASSUME NEW u \in Updates, AsksForLink(u), HoldsGaps(u)
      PROVE  \A v \in Updates : /\ HoldsRow(v)' => HoldsRow(v)
                                /\ HoldsGaps(v)' => HoldsGaps(v) /\ update'[v].gone = update[v].gone
  <2>1. PICK others \in SUBSET Updates :
               update' = [update EXCEPT ![u].pc = "link", ![u].awaits = others]
    BY <1>6 DEF AsksForLink
  <2> QED
    BY <1>6, <2>1 DEF TypeOK, Update
<1>7. ASSUME NEW u \in Updates, FindLabel(u) \/ MakeLabel(u)
      PROVE  OneAuthor' /\ \A v \in Updates : SoleWriter(v)'
  <2>1. HoldsGaps(u) /\ AsksForLink(u) /\ UNCHANGED <<author, links>>
    BY <1>7 DEF FindLabel, MakeLabel
  <2> QED
    BY <2>1, <1>6, QuietStep
<1>8. ASSUME NEW u \in Updates, MissLabel(u) \/ InsertLink(u) \/ Abort(u)
      PROVE  OneAuthor' /\ \A v \in Updates : SoleWriter(v)'
  <2>1. \A v \in Updates : (HoldsRow(v)' => HoldsRow(v)) /\ (HoldsGaps(v)' => HoldsGaps(v))
    <3>1. CASE MissLabel(u)
      BY <3>1 DEF MissLabel, TypeOK
    <3>2. CASE InsertLink(u)
      BY <3>2 DEF InsertLink, TypeOK
    <3>3. CASE Abort(u)
      BY <3>3 DEF Abort, TypeOK
    <3> QED
      BY <1>8, <3>1, <3>2, <3>3
  <2>2. \A v \in Updates : update'[v].gone = update[v].gone
    <3>1. CASE MissLabel(u)
      BY <3>1 DEF MissLabel, TypeOK, Update
    <3>2. CASE InsertLink(u)
      BY <3>2 DEF InsertLink, TypeOK, Update
    <3>3. CASE Abort(u)
      BY <3>3 DEF Abort, TypeOK, Update
    <3> QED
      BY <1>8, <3>1, <3>2, <3>3
  <2> QED
    BY <1>8, <2>1, <2>2, QuietStep DEF MissLabel, InsertLink, Abort
<1>9. ASSUME NEW u \in Updates, Commit(u)
      PROVE  OneAuthor' /\ \A v \in Updates : SoleWriter(v)'
  <2> DEFINE b == BookOf[u]
  <2>1. /\ author' = [author EXCEPT ![b] = u]
        /\ links' = [links EXCEPT ![b] = (links[b] \ update[u].gone) \cup LinkRows(u, update[u].done)]
        /\ update' = [update EXCEPT ![u].pc = "committed"]
        /\ update[u].done = Len(Kept(u))
        /\ HoldsGaps(u)
    BY <1>9 DEF Commit
  <2>2. update[u].gone = links[b]
    BY <2>1 DEF SoleWriter, AuthorInv
  <2>3. links' = [links EXCEPT ![b] = LinkRows(u, Len(Kept(u)))]
    BY <2>1, <2>2
  <2>4. OneAuthor'
    <3> SUFFICES ASSUME NEW c \in Books
                 PROVE  links'[c] = IF author'[c] = None THEN {}
                                    ELSE LinkRows(author'[c], Len(Kept(author'[c])))
      BY DEF OneAuthor, LinkRows, Kept, Linked, Understood, Stripped
    <3>1. CASE c = b
      BY <2>1, <2>3, <3>1, CategoriesAssumption DEF TypeOK
    <3>2. CASE c # b
      BY <2>1, <2>3, <3>2 DEF OneAuthor, AuthorInv, TypeOK
    <3> QED
      BY <3>1, <3>2
  <2>5. ASSUME NEW v \in Updates
        PROVE  SoleWriter(v)'
    <3>1. HoldsRow(v)' => v # u /\ HoldsRow(v) /\ update'[v] = update[v]
      BY <2>1 DEF TypeOK
    <3>2. ASSUME NEW w \in Updates, HoldsRow(v)', HoldsRow(w)', BookOf[v] = BookOf[w]
          PROVE  v = w
      <4>1. HoldsRow(v) /\ HoldsRow(w)
        BY <2>1, <3>2 DEF TypeOK
      <4> QED
        BY <3>2, <4>1 DEF SoleWriter, AuthorInv
    <3>3. ASSUME HoldsGaps(v)'
          PROVE  update'[v].gone = links'[BookOf[v]]
      <4>1. v # u /\ HoldsRow(v) /\ HoldsGaps(v) /\ update'[v] = update[v]
        BY <3>1, <3>3
      <4>2. BookOf[v] # b
        BY <2>1, <4>1 DEF SoleWriter, AuthorInv
      <4> QED
        BY <2>1, <4>1, <4>2 DEF SoleWriter, AuthorInv, TypeOK
    <3> QED
      BY <3>2, <3>3 DEF SoleWriter
  <2> QED
    BY <2>4, <2>5
<1>10. CASE UNCHANGED categoryVars
  BY <1>10 DEF categoryVars, OneAuthor, SoleWriter, AuthorInv
<1> QED
  BY <1>3, <1>4, <1>5, <1>7, <1>8, <1>9, <1>10 DEF Next, Step, Victim, TimeOut

(***************************************************************************)
(* What a book shows comes from one answer of the AI service, for any      *)
(* books, updates and answers, whatever statements fail (database.go       *)
(* 328-376).                                                               *)
(***************************************************************************)
THEOREM CategoriesOfOneAuthor == Spec => []OneAuthor
<1>1. AuthorInv => OneAuthor
  BY DEF AuthorInv
<1> QED
  BY InitAuthor, NextAuthor, <1>1, PTL DEF Spec

-----------------------------------------------------------------------------
LEMMA InitShown == Init => Shown!Init
BY DEF Init, Shown!Init

\* A commit applies its update, for the links it deleted were all there were.
LEMMA CommitShown ==
  ASSUME AuthorInv, NEW u \in Updates, Commit(u)
  PROVE  Shown!Apply(u)
<1> DEFINE b == BookOf[u]
           Book(c) == [of |-> author[c], categories |-> links[c]]
           rows == LinkRows(u, Len(Kept(u)))
           committed == {v \in Updates : update[v].pc = "committed"}
<1>1. /\ author' = [author EXCEPT ![b] = u]
      /\ update' = [update EXCEPT ![u].pc = "committed"]
      /\ update[u].pc = "look"
      /\ update[u].gone = links[b]
  BY DEF Commit, At, Goes, AuthorInv, SoleWriter, HoldsGaps
<1>2. links' = [links EXCEPT ![b] = rows]
  BY <1>1 DEF Commit
<1>3. b \in Books /\ TypeOK
  BY BookOfType DEF AuthorInv
<1>4. u \notin committed /\ committed' = committed \cup {u}
  BY <1>1, <1>3 DEF TypeOK, Update
<1>5. Book(b)' = [of |-> u, categories |-> rows]
  BY <1>1, <1>2, <1>3 DEF TypeOK
<1>6. \A c \in Books \ {b} : Book(c)' = Book(c)
  BY <1>1, <1>2, <1>3 DEF TypeOK
<1>7. [c \in Books |-> Book(c)]' =
        [[c \in Books |-> Book(c)] EXCEPT ![b] = [of |-> u, categories |-> rows]]
  BY <1>3, <1>5, <1>6
<1>8. [v \in Updates |-> LinkRows(v, Len(Kept(v)))][u] = rows
  OBVIOUS
<1> QED
  BY <1>4, <1>7, <1>8 DEF Shown!Apply

LEMMA StepShown ==
  ASSUME AuthorInv, [Next]_categoryVars
  PROVE  [Shown!Next]_(Shown!cataloguingVars)
<1>1. ASSUME NEW u \in Updates, Commit(u)
      PROVE  Shown!Next
  BY <1>1, CommitShown DEF Shown!Next
<1>2. ASSUME UNCHANGED <<author, links>>,
             \A v \in Updates : update'[v].pc = "committed" <=> update[v].pc = "committed"
      PROVE  UNCHANGED Shown!cataloguingVars
  BY <1>2 DEF Shown!cataloguingVars
<1>3. ASSUME NEW u \in Updates,
             Begin(u) \/ UpdateRow(u) \/ DeleteLinks(u) \/ FindLabel(u) \/ MissLabel(u)
             \/ MakeLabel(u) \/ InsertLink(u) \/ Abort(u)
      PROVE  UNCHANGED Shown!cataloguingVars
  <2>1. UNCHANGED <<author, links>>
    BY <1>3 DEF Begin, UpdateRow, DeleteLinks, FindLabel, MissLabel, MakeLabel,
                InsertLink, Abort
  <2>2. update[u].pc # "committed"
    BY <1>3 DEF Begin, UpdateRow, DeleteLinks, FindLabel, MissLabel, MakeLabel,
                InsertLink, Abort, At, Open, HoldsRow
  <2>3. /\ update'[u].pc # "committed"
        /\ \A v \in Updates \ {u} : update'[v] = update[v]
    <3>1. CASE DeleteLinks(u)
      BY <3>1 DEF DeleteLinks, AuthorInv, TypeOK, Update
    <3>2. CASE FindLabel(u) \/ MakeLabel(u)
      BY <3>2 DEF FindLabel, MakeLabel, AsksForLink, AuthorInv, TypeOK, Update
    <3>3. CASE InsertLink(u)
      BY <3>3 DEF InsertLink, AuthorInv, TypeOK, Update
    <3>4. CASE Begin(u) \/ UpdateRow(u) \/ MissLabel(u) \/ Abort(u)
      BY <3>4 DEF Begin, UpdateRow, MissLabel, Abort, Goes, AuthorInv, TypeOK, Update
    <3> QED
      BY <1>3, <3>1, <3>2, <3>3, <3>4
  <2>4. \A v \in Updates : update'[v].pc = "committed" <=> update[v].pc = "committed"
    BY <2>2, <2>3 DEF AuthorInv, TypeOK
  <2> QED
    BY <1>2, <2>1, <2>4
<1>4. CASE UNCHANGED categoryVars
  BY <1>2, <1>4 DEF categoryVars
<1> QED
  BY <1>1, <1>3, <1>4 DEF Next, Step, Victim, TimeOut

\* UpdateAudiobookAI, statement by statement, implements one that is applied
\* at once, whatever other updates do and wherever any of them breaks off.
THEOREM UpdatesApplyWhole == Spec => AppliedWhole
<1>1. AuthorInv /\ [Next]_categoryVars => [Shown!Next]_(Shown!cataloguingVars)
  BY StepShown
<1> QED
  BY InitAuthor, NextAuthor, InitShown, <1>1, PTL DEF Spec, AppliedWhole, Shown!Spec

-----------------------------------------------------------------------------
LEMMA NoReadType == NoRead \in Read
BY CatalogAssumption DEF NoRead, Read

\* A step of the server is one of Categories, and a read is none.
LEMMA CatalogStep ==
  CatalogNext => \/ Next /\ Follow
                 \/ UNCHANGED categoryVars
BY DEF CatalogNext, GetAudiobook, ListAudiobooks, ReadRow, ReadLabels,
       GetTranscriptPreview, Respond

\* Readers do not disturb the updates, which are applied whole beside them.
THEOREM CatalogUsesCategories == CatalogSpec => Spec /\ AppliedWhole
<1>1. CatalogInit => Init
  BY DEF CatalogInit
<1>2. [CatalogNext]_catalogVars => [Next]_categoryVars
  BY CatalogStep DEF catalogVars, categoryVars
<1> QED
  BY <1>1, <1>2, UpdatesApplyWhole, PTL DEF CatalogSpec, Spec

LEMMA CatalogInitType == CatalogInit => CatalogTypeOK
BY InitType, NoReadType DEF CatalogInit, CatalogTypeOK

LEMMA ReadRowType ==
  ASSUME CatalogTypeOK, NEW q \in Reads, NEW b \in Books, NEW list \in BOOLEAN,
         NEW label \in Labels \cup {None}, ReadRow(q, b, list, label)
  PROVE  read' \in [Reads -> Read]
<1> DEFINE rec == [NoRead EXCEPT !.pc = "row", !.book = b, !.list = list,
                                 !.wanted = label, !.path = <<author[b]>>]
<1>1. <<author[b]>> \in Seq(Updates \cup {None})
  BY DEF CatalogTypeOK, TypeOK
<1>2. rec \in Read
  BY <1>1, NoReadType DEF Read
<1>3. read' = [read EXCEPT ![q] = rec]
  BY DEF ReadRow
<1> HIDE DEF rec
<1> QED
  BY <1>2, <1>3 DEF CatalogTypeOK

LEMMA FollowType ==
  ASSUME CatalogTypeOK, TypeOK', Follow
  PROVE  read' \in [Reads -> Read]
<1> DEFINE b(q) == read[q].book
           rec(q) == IF read[q].pc = "row" /\ author'[b(q)] # author[b(q)]
                     THEN [read[q] EXCEPT !.path = Append(@, author'[b(q)])]
                     ELSE read[q]
<1>1. ASSUME NEW q \in Reads
      PROVE  rec(q) \in Read
  <2>1. read[q] \in Read
    BY DEF CatalogTypeOK
  <2>2. author'[b(q)] \in Updates \cup {None}
    BY <2>1 DEF Read, TypeOK
  <2>3. Append(read[q].path, author'[b(q)]) \in Seq(Updates \cup {None})
    BY <2>1, <2>2 DEF Read
  <2> QED
    BY <2>1, <2>3 DEF Read
<1>2. read' = [q \in Reads |-> rec(q)]
  BY DEF Follow
<1> HIDE DEF rec
<1> QED
  BY <1>1, <1>2

LEMMA CatalogNextType == CatalogTypeOK /\ [CatalogNext]_catalogVars => CatalogTypeOK'
<1> SUFFICES ASSUME CatalogTypeOK, [CatalogNext]_catalogVars
             PROVE  CatalogTypeOK'
  OBVIOUS
<1>1. [Next]_categoryVars
  BY CatalogStep DEF catalogVars, categoryVars
<1>2. TypeOK'
  BY <1>1, NextType DEF CatalogTypeOK
<1>3. SUFFICES read' \in [Reads -> Read]
  BY <1>2 DEF CatalogTypeOK
<1>4. read \in [Reads -> Read]
  BY DEF CatalogTypeOK
<1>5. CASE Next /\ Follow
  BY <1>2, <1>5, FollowType
<1>6. ASSUME NEW q \in Reads, NEW b \in Books,
             GetAudiobook(q, b) \/ \E label \in Labels \cup {None} : ListAudiobooks(q, b, label)
      PROVE  read' \in [Reads -> Read]
  BY <1>6, ReadRowType DEF GetAudiobook, ListAudiobooks
<1>7. ASSUME NEW q \in Reads, ReadLabels(q)
      PROVE  read' \in [Reads -> Read]
  <2>1. PICK got \in SUBSET links[read[q].book] :
               read' = [read EXCEPT ![q].pc = "labels", ![q].links = got]
    BY <1>7 DEF ReadLabels
  <2> DEFINE rec == [read[q] EXCEPT !.pc = "labels", !.links = got]
  <2>2. read' = [read EXCEPT ![q] = rec]
    BY <2>1
  <2>3. rec \in Read
    <3>1. got \in SUBSET Links
      BY <1>4, <2>1 DEF Read, CatalogTypeOK, TypeOK
    <3> QED
      BY <1>4, <3>1 DEF Read
  <2> HIDE DEF rec
  <2> QED
    BY <1>4, <2>2, <2>3
<1>8. ASSUME NEW q \in Reads, GetTranscriptPreview(q) \/ Respond(q)
      PROVE  read' \in [Reads -> Read]
  <2>1. CASE GetTranscriptPreview(q)
    <3> DEFINE rec == [read[q] EXCEPT !.pc = "preview"]
    <3>1. read' = [read EXCEPT ![q] = rec]
      BY <2>1 DEF GetTranscriptPreview
    <3>2. rec \in Read
      BY <1>4 DEF Read
    <3> HIDE DEF rec
    <3> QED
      BY <1>4, <3>1, <3>2
  <2>2. CASE Respond(q)
    BY <1>4, <2>2, NoReadType DEF Respond
  <2> QED
    BY <1>8, <2>1, <2>2
<1>9. CASE UNCHANGED catalogVars
  BY <1>4, <1>9 DEF catalogVars
<1> QED
  BY <1>5, <1>6, <1>7, <1>8, <1>9 DEF CatalogNext

(***************************************************************************)
(* Reads keep to their type, too.                                          *)
(***************************************************************************)
THEOREM CatalogTypes == CatalogSpec => []CatalogTypeOK
<1> QED
  BY CatalogInitType, CatalogNextType, PTL DEF CatalogSpec

-----------------------------------------------------------------------------
\* What is known of a read whose book is now a's: a read that has no labels
\* yet has followed its book up to a, and one that has them took them from
\* somebody on its way.
ReadRight(rec, a) ==
    rec.pc # "idle" =>
        /\ rec.path # <<>>
        /\ rec.pc = "row" => rec.path[Len(rec.path)] = a
        /\ rec.pc # "row" =>
              \E i \in DOMAIN rec.path :
                 /\ FirstOf(rec.links, LinksOf(rec.path[i]))
                 /\ rec.list => rec.links = LinksOf(rec.path[i])
        /\ rec.wanted # None => \E link \in LinksOf(rec.path[1]) : link[2] = rec.wanted

ReadInv ==
    /\ CatalogTypeOK
    /\ AuthorInv
    /\ \A q \in Reads : ReadRight(read[q], author[read[q].book])

LEMMA ReadsRightNext ==
  ASSUME \A q \in Reads : ReadRight(read'[q], author'[read'[q].book])
  PROVE  (\A q \in Reads : ReadRight(read[q], author[read[q].book]))'
BY DEF ReadRight, FirstOf, LinksOf, LinkRows, Kept, Linked, Understood, Stripped

LEMMA AuthorLinks == OneAuthor => \A b \in Books : links[b] = LinksOf(author[b])
BY DEF OneAuthor, LinksOf

LEMMA ReadRowRight ==
  ASSUME ReadInv, NEW q \in Reads, NEW b \in Books, NEW list \in BOOLEAN,
         NEW label \in Labels \cup {None},
         label # None => \E link \in links[b] : link[2] = label,
         ReadRow(q, b, list, label)
  PROVE  ReadRight(read'[q], author'[read'[q].book])
<1>1. read'[q] = [pc |-> "row", book |-> b, list |-> list, wanted |-> label,
                  path |-> <<author[b]>>, links |-> {}]
  BY DEF ReadRow, NoRead, ReadInv, CatalogTypeOK
<1>2. author' = author
  BY DEF ReadRow, categoryVars
<1>3. links[b] = LinksOf(author[b])
  BY AuthorLinks DEF ReadInv, AuthorInv
<1>4. Len(<<author[b]>>) = 1 /\ <<author[b]>>[1] = author[b]
  OBVIOUS
<1> QED
  BY <1>1, <1>2, <1>3, <1>4 DEF ReadRight

LEMMA FollowRight ==
  ASSUME ReadInv, Follow, NEW q \in Reads
  PROVE  ReadRight(read'[q], author'[read'[q].book])
<1> DEFINE a == author'[read[q].book]
<1>1. ReadRight(read[q], author[read[q].book]) /\ read[q] \in Read
  BY DEF ReadInv, CatalogTypeOK
<1>2. CASE read[q].pc = "row" /\ a # author[read[q].book]
  <2> DEFINE path == Append(read[q].path, a)
  <2>1. read'[q] = [read[q] EXCEPT !.path = path]
    BY <1>2 DEF Follow
  <2>2. read[q].path \in Seq(Updates \cup {None}) /\ read[q].path # <<>>
    BY <1>1, <1>2 DEF ReadRight, Read
  <2>3. path # <<>> /\ path[Len(path)] = a /\ path[1] = read[q].path[1]
    BY <2>2
  <2> HIDE DEF path
  <2>4. /\ read'[q].pc = "row" /\ read'[q].book = read[q].book
        /\ read'[q].path = path /\ read'[q].wanted = read[q].wanted
        /\ read'[q].list = read[q].list
    BY <1>1, <1>2, <2>1 DEF Read
  <2> QED
    BY <1>1, <1>2, <2>3, <2>4 DEF ReadRight
<1>3. CASE ~(read[q].pc = "row" /\ a # author[read[q].book])
  <2>1. read'[q] = read[q]
    BY <1>3 DEF Follow
  <2> QED
    BY <1>1, <1>3, <2>1 DEF ReadRight
<1> QED
  BY <1>2, <1>3

LEMMA ReadLabelsRight ==
  ASSUME ReadInv, NEW q \in Reads, ReadLabels(q)
  PROVE  ReadRight(read'[q], author'[read'[q].book])
<1>1. ReadRight(read[q], author[read[q].book]) /\ read[q] \in Read /\ read[q].pc = "row"
  BY DEF ReadInv, CatalogTypeOK, ReadLabels
<1>2. PICK got \in SUBSET links[read[q].book] :
             /\ FirstOf(got, links[read[q].book])
             /\ read[q].list => got = links[read[q].book]
             /\ read' = [read EXCEPT ![q].pc = "labels", ![q].links = got]
  BY DEF ReadLabels
<1>3. links[read[q].book] = LinksOf(author[read[q].book])
  BY <1>1, AuthorLinks DEF ReadInv, AuthorInv, Read
<1>4. /\ read'[q].pc = "labels" /\ read'[q].links = got
      /\ read'[q].path = read[q].path /\ read'[q].wanted = read[q].wanted
      /\ read'[q].list = read[q].list /\ read'[q].book = read[q].book
  BY <1>1, <1>2 DEF Read, ReadInv, CatalogTypeOK
<1>5. read[q].path \in Seq(Updates \cup {None}) /\ read[q].path # <<>>
  BY <1>1 DEF ReadRight, Read
<1>6. Len(read[q].path) \in DOMAIN read[q].path
  BY <1>5
<1>7. author' = author
  BY DEF ReadLabels, categoryVars
<1>8. \E i \in DOMAIN read[q].path :
        /\ FirstOf(got, LinksOf(read[q].path[i]))
        /\ read[q].list => got = LinksOf(read[q].path[i])
  BY <1>1, <1>2, <1>3, <1>6 DEF ReadRight
<1>9. read[q].wanted # None => \E link \in LinksOf(read[q].path[1]) : link[2] = read[q].wanted
  BY <1>1 DEF ReadRight
<1> QED
  BY <1>4, <1>5, <1>7, <1>8, <1>9 DEF ReadRight

LEMMA InitRead == CatalogInit => ReadInv
BY CatalogInitType, InitAuthor DEF CatalogInit, ReadInv, ReadRight, NoRead

LEMMA NextRead == ReadInv /\ [CatalogNext]_catalogVars => ReadInv'
<1> SUFFICES ASSUME ReadInv, [CatalogNext]_catalogVars
             PROVE  ReadInv'
  OBVIOUS
<1>1. CatalogTypeOK'
  BY CatalogNextType DEF ReadInv
<1>2. AuthorInv'
  BY CatalogStep, NextAuthor DEF ReadInv, catalogVars, categoryVars
<1>3. SUFFICES \A q \in Reads : ReadRight(read'[q], author'[read'[q].book])
  BY <1>1, <1>2, ReadsRightNext DEF ReadInv
<1>4. /\ read \in [Reads -> Read]
      /\ \A q \in Reads : ReadRight(read[q], author[read[q].book])
  BY DEF ReadInv, CatalogTypeOK
<1>5. CASE Next /\ Follow
  BY <1>5, FollowRight
<1>6. ASSUME NEW q \in Reads, UNCHANGED categoryVars,
             \A p \in Reads \ {q} : read'[p] = read[p],
             ReadRight(read'[q], author'[read'[q].book])
      PROVE  \A p \in Reads : ReadRight(read'[p], author'[read'[p].book])
  BY <1>4, <1>6 DEF categoryVars
<1>7. ASSUME NEW q \in Reads, NEW b \in Books,
             GetAudiobook(q, b) \/ \E label \in Labels \cup {None} : ListAudiobooks(q, b, label)
      PROVE  \A p \in Reads : ReadRight(read'[p], author'[read'[p].book])
  <2>1. PICK list \in BOOLEAN, label \in Labels \cup {None} :
               /\ ReadRow(q, b, list, label)
               /\ label # None => \E link \in links[b] : link[2] = label
    BY <1>7 DEF GetAudiobook, ListAudiobooks
  <2>2. ReadRight(read'[q], author'[read'[q].book])
    BY <2>1, ReadRowRight
  <2>3. UNCHANGED categoryVars /\ \A p \in Reads \ {q} : read'[p] = read[p]
    BY <1>4, <2>1 DEF ReadRow
  <2> QED
    BY <1>6, <2>2, <2>3
<1>8. ASSUME NEW q \in Reads, ReadLabels(q)
      PROVE  \A p \in Reads : ReadRight(read'[p], author'[read'[p].book])
  <2>1. UNCHANGED categoryVars /\ \A p \in Reads \ {q} : read'[p] = read[p]
    BY <1>4, <1>8 DEF ReadLabels
  <2> QED
    BY <1>6, <1>8, <2>1, ReadLabelsRight
<1>9. ASSUME NEW q \in Reads, GetTranscriptPreview(q)
      PROVE  \A p \in Reads : ReadRight(read'[p], author'[read'[p].book])
  <2>1. UNCHANGED categoryVars /\ \A p \in Reads \ {q} : read'[p] = read[p]
    BY <1>4, <1>9 DEF GetTranscriptPreview
  <2>2. read[q].pc = "labels" /\ read'[q] = [read[q] EXCEPT !.pc = "preview"]
    BY <1>4, <1>9 DEF GetTranscriptPreview
  <2>3. /\ read'[q].pc = "preview" /\ read'[q].links = read[q].links
        /\ read'[q].path = read[q].path /\ read'[q].wanted = read[q].wanted
        /\ read'[q].list = read[q].list
    BY <1>4, <2>2 DEF Read
  <2>4. ReadRight(read'[q], author'[read'[q].book])
    BY <1>4, <2>2, <2>3 DEF ReadRight
  <2> QED
    BY <1>6, <2>1, <2>4
<1>10. ASSUME NEW q \in Reads, Respond(q)
       PROVE  \A p \in Reads : ReadRight(read'[p], author'[read'[p].book])
  <2>1. UNCHANGED categoryVars /\ \A p \in Reads \ {q} : read'[p] = read[p]
    BY <1>4, <1>10 DEF Respond
  <2>2. ReadRight(read'[q], author'[read'[q].book])
    BY <1>4, <1>10 DEF Respond, NoRead, ReadRight
  <2> QED
    BY <1>6, <2>1, <2>2
<1>11. CASE UNCHANGED catalogVars
  BY <1>4, <1>11 DEF catalogVars
<1> QED
  BY <1>5, <1>7, <1>8, <1>9, <1>10, <1>11 DEF CatalogNext

(***************************************************************************)
(* What a list shows was shown together or one after the other, and what  *)
(* is shown of one book is that or a first part of it, for any books,      *)
(* updates, answers and reads (database.go 378-427, 474-581).              *)
(***************************************************************************)
THEOREM ReadsInOrder == CatalogSpec => []ReadInOrder
<1>1. ReadInv => ReadInOrder
  BY DEF ReadInv, ReadInOrder, ReadRight, PbBook
<1> QED
  BY InitRead, NextRead, <1>1, PTL DEF CatalogSpec

(***************************************************************************)
(* Reads leave the updates alone: what is proved of these holds beside     *)
(* them (database.go 328-427).                                             *)
(***************************************************************************)
THEOREM CatalogOfOneAuthor == CatalogSpec => []OneAuthor
<1>1. ReadInv => OneAuthor
  BY DEF ReadInv, AuthorInv
<1> QED
  BY InitRead, NextRead, <1>1, PTL DEF CatalogSpec
=============================================================================
