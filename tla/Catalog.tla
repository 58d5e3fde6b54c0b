------------------------------- MODULE Catalog -------------------------------
(***************************************************************************)
(* How a book is read (backend/internal/shop/shop.go 444-486, 631-645,     *)
(* storage/database.go 378-427, 474-596) beside the updates of module      *)
(* Categories.  The row with its description, the labels of the categories *)
(* and the preview of the transcript are read by statements of their own,  *)
(* in no transaction, and an update may be committed between any two.      *)
(***************************************************************************)
EXTENDS Categories

CONSTANT Reads   \* the calls that read at a time

ASSUME CatalogAssumption == Books # {}

VARIABLE read

catalogVars == <<author, links, types, update, read>>

\* pc: what has been read.  list: it reads a list, not one book by its id;
\* wanted: the category it looks for.  path: whose the row was when it was read
\* and whose it has become until the labels were (a history variable).
Read == [pc     : {"idle", "row", "labels", "preview"},
         book   : Books,
         list   : BOOLEAN,
         wanted : Labels \cup {None},
         path   : Seq(Updates \cup {None}),
         links  : SUBSET Links]

CatalogTypeOK == TypeOK /\ read \in [Reads -> Read]

NoRead == [pc |-> "idle", book |-> CHOOSE b \in Books : TRUE, list |-> FALSE,
           wanted |-> None, path |-> <<>>, links |-> {}]

CatalogInit == Init /\ read = [q \in Reads |-> NoRead]

-----------------------------------------------------------------------------
ReadRow(q, b, list, label) ==
    /\ read[q].pc = "idle"
    /\ read' = [read EXCEPT ![q] = [NoRead EXCEPT !.pc = "row", !.book = b,
                                                  !.list = list, !.wanted = label,
                                                  !.path = <<author[b]>>]]
    /\ UNCHANGED categoryVars

\* A book by its id, which GetDescription, GetAudiobookStatus, ViewCart and
\* ListPurchases look for, too.
GetAudiobook(q, b) == ReadRow(q, b, FALSE, None)

\* One of the books of a list, or of those of a category.  A list has one
\* statement for its rows and one for the labels of them all.
ListAudiobooks(q, b, label) ==
    /\ label # None => \E link \in links[b] : link[2] = label
    /\ ReadRow(q, b, TRUE, label)

\* What comes of links sent in the order of their positions until it ends.
FirstOf(got, sent) ==
    /\ got \subseteq sent
    /\ \A link \in got, other \in sent : other[1] < link[1] => other \in got

\* Only the list asks whether its rows came to an end or broke off: a book read
\* by its id is answered with the labels that have come.
ReadLabels(q) ==
    /\ read[q].pc = "row"
    /\ \E got \in SUBSET links[read[q].book] :
          /\ FirstOf(got, links[read[q].book])
          /\ read[q].list => got = links[read[q].book]
          /\ read' = [read EXCEPT ![q].pc = "labels", ![q].links = got]
    /\ UNCHANGED categoryVars

\* Whose transcript it is of is not told here.  A failure leaves it blank.
GetTranscriptPreview(q) ==
    /\ read[q].pc = "labels"
    /\ ~read[q].list
    /\ read' = [read EXCEPT ![q].pc = "preview"]
    /\ UNCHANGED categoryVars

\* It is answered, as far as it is asked for, or a statement has failed.
Respond(q) ==
    /\ read[q].pc # "idle"
    /\ read' = [read EXCEPT ![q] = NoRead]
    /\ UNCHANGED categoryVars

\* What the updates make of the reads under way.
Follow ==
    read' = [q \in Reads |->
                LET b == read[q].book
                IN  IF read[q].pc = "row" /\ author'[b] # author[b]
                    THEN [read[q] EXCEPT !.path = Append(@, author'[b])]
                    ELSE read[q]]

CatalogNext ==
    \/ Next /\ Follow
    \/ \E q \in Reads :
          \/ \E b \in Books : \/ GetAudiobook(q, b)
                              \/ \E label \in Labels \cup {None} : ListAudiobooks(q, b, label)
          \/ ReadLabels(q)
          \/ GetTranscriptPreview(q)
          \/ Respond(q)

CatalogSpec == CatalogInit /\ [][CatalogNext]_catalogVars

\* The fairness of Categories; reads may take as long as they like.
FairCatalogSpec ==
    /\ CatalogSpec
    /\ \A u \in Updates : /\ WF_catalogVars(Step(u) /\ Follow)
                          /\ WF_catalogVars(TimeOut(u) /\ Follow)

-----------------------------------------------------------------------------
LinksOf(a) == IF a = None THEN {} ELSE LinkRows(a, Len(Kept(a)))

\* The book as it is answered: whose its row was, and its categories.
PbBook(q) == [of |-> read[q].path[1], categories |-> read[q].links]

(***************************************************************************)
(* What a read may show of a book whose updates go on beside it.  A list   *)
(* shows all the categories of one answer: the one the row was of or one   *)
(* that was committed while it was read, never an older one, none or a     *)
(* mixture; and a book listed under a category had it when its row was     *)
(* read.  A book by its id may be shown with only the first of those, or   *)
(* with none of them, as though it had no more: GetAudiobookByID does not  *)
(* ask whether the labels broke off (database.go 378-427, 474-581).        *)
(***************************************************************************)
ReadInOrder ==
    \A q \in Reads : read[q].pc \in {"labels", "preview"} =>
        /\ \E i \in DOMAIN read[q].path :
              LET categories == LinksOf(read[q].path[i])
              IN  IF read[q].list THEN PbBook(q).categories = categories
                                  ELSE FirstOf(PbBook(q).categories, categories)
        /\ read[q].wanted # None =>
              \E link \in LinksOf(PbBook(q).of) : link[2] = read[q].wanted
=============================================================================
