------------------------------ MODULE Library ------------------------------
(***************************************************************************)
(* What a user can have of the books bought: the purchases page            *)
(* (frontend/lib/pages/shop/purchases.dart) over GetDownloadURL and        *)
(* GetTranscript (backend/internal/shop/shop.go 555-629), beside the       *)
(* checkouts of module Checkout; and what the catalog answers about any    *)
(* book (shop.go 444-486) to everyone who is signed in.                    *)
(*                                                                         *)
(* Either call asks first whether the user has bought the book and then    *)
(* reads the book, in two statements; the token of the session is looked   *)
(* at once, when the call comes in.                                        *)
(***************************************************************************)
EXTENDS Checkout, Gateway

CONSTANTS
    Readings,   \* the reading calls there are at a time
    Reader,     \* Reader[r]: the user who makes call r
    Brief,      \* the books whose whole text goes into a preview
    None

ASSUME LibraryAssumption ==
    /\ Reader \in [Readings -> Users]
    /\ Brief \subseteq Books
    /\ None \notin Books

VARIABLES
    bearer,   \* bearer[u]: the access token of u's session
    shelf,    \* shelf[u]: the purchases u's page shows
    reading   \* reading[r]: the reading call r

pageVars == <<bearer, shelf, reading>>

libraryVars == <<cart, owned, checkout, bearer, shelf, reading>>

BuyersMethods == {"GetDownloadURL", "GetTranscript"}

\* listed: the page showed the book when its button was pressed.
Reading == [book   : Books \cup {None},
            method : CatalogMethods \cup BuyersMethods,
            listed : BOOLEAN,
            pc     : {"idle", "found", "served", "denied"}]

NoReading == [book |-> None, method |-> "GetTranscript",
              listed |-> FALSE, pc |-> "idle"]

LibraryTypeOK ==
    /\ TypeOK
    /\ bearer \in [Users -> Bearers]
    /\ shelf \in [Users -> SUBSET Books]
    /\ reading \in [Readings -> Reading]

LibraryInit ==
    /\ Init
    /\ bearer = [u \in Users |-> "user"]
    /\ shelf = [u \in Users |-> {}]
    /\ reading = [r \in Readings |-> NoReading]

-----------------------------------------------------------------------------
\* Half an hour has passed; the session does not ask for another access token.
AccessExpires(u) ==
    /\ bearer[u] = "user"
    /\ bearer' = [bearer EXCEPT ![u] = "void"]
    /\ UNCHANGED <<cart, owned, checkout, shelf, reading>>

\* A tab is built anew each time it is selected.
Leave(u) ==
    /\ shelf[u] # {}
    /\ shelf' = [shelf EXCEPT ![u] = {}]
    /\ UNCHANGED <<cart, owned, checkout, bearer, reading>>

\* The app is started again and has exchanged its refresh token.
SignInAgain(u) ==
    /\ bearer' = [bearer EXCEPT ![u] = "user"]
    /\ shelf' = [shelf EXCEPT ![u] = {}]
    /\ UNCHANGED <<cart, owned, checkout, reading>>

\* Mutant: the list reads what other transactions have not committed.
ListPurchasesDirty(u) ==
    /\ Admitted("ListPurchases", bearer[u])
    /\ shelf' = [shelf EXCEPT ![u] = owned[u] \cup
                    UNION {checkout[c].got : c \in {d \in Checkouts : Caller[d] = u}}]
    /\ UNCHANGED <<cart, owned, checkout, bearer, reading>>

\* Of a hundred purchases at most; it does not ask whether the rows broke off.
ListPurchases(u) ==
    /\ Admitted("ListPurchases", bearer[u])
    /\ \E rows \in Received(owned[u]) : shelf' = [shelf EXCEPT ![u] = rows]
    /\ UNCHANGED <<cart, owned, checkout, bearer, reading>>

HasPurchased(u, b) == b \in owned[u]

\* A request for any book, bought or not; its statements are those of Catalog.
Browse(r, b) ==
    /\ reading[r].pc # "found"
    /\ \E method \in CatalogMethods :
          /\ Admitted(method, bearer[Reader[r]])
          /\ reading' = [reading EXCEPT ![r] = [book |-> b, method |-> method,
                                                listed |-> FALSE, pc |-> "served"]]
    /\ UNCHANGED <<cart, owned, checkout, bearer, shelf>>

\* A request for a piece of any book, from the page or not, and its first
\* statement.
GetBook(r, b) ==
    /\ reading[r].pc # "found"
    /\ \E method \in BuyersMethods :
          /\ Admitted(method, bearer[Reader[r]])
          /\ reading' = [reading EXCEPT
                ![r] = [book   |-> b,
                        method |-> method,
                        listed |-> b \in shelf[Reader[r]],
                        pc     |-> IF HasPurchased(Reader[r], b) THEN "found" ELSE "denied"]]
    /\ UNCHANGED <<cart, owned, checkout, bearer, shelf>>

\* GetAudiobookByID: books are never deleted.
Serve(r) ==
    /\ reading[r].pc = "found"
    /\ reading' = [reading EXCEPT ![r].pc = "served"]
    /\ UNCHANGED <<cart, owned, checkout, bearer, shelf>>

\* Either statement fails, or the answer is seen and put away.
Dismiss(r) ==
    /\ reading[r].pc # "idle"
    /\ reading' = [reading EXCEPT ![r] = NoReading]
    /\ UNCHANGED <<cart, owned, checkout, bearer, shelf>>

LibraryNext ==
    \/ /\ Next
       /\ UNCHANGED pageVars
    \/ \E u \in Users : \/ AccessExpires(u) \/ SignInAgain(u)
                        \/ Leave(u) \/ ListPurchases(u)
    \/ \E r \in Readings : \/ \E b \in Books : Browse(r, b) \/ GetBook(r, b)
                           \/ Serve(r) \/ Dismiss(r)

LibrarySpec == LibraryInit /\ [][LibraryNext]_libraryVars

\* The fairness of Checkout; readers may do as they like.
FairLibrarySpec ==
    /\ LibrarySpec
    /\ \A c \in Checkouts : WF_libraryVars(ServerStep(c) /\ UNCHANGED pageVars)
    /\ WF_libraryVars((\E c \in Checkouts : Victim(c)) /\ UNCHANGED pageVars)

-----------------------------------------------------------------------------
\* What the answer to a request has of the book: the link of its recording
\* (pbBook's CoverUrl, which GetDownloadURL answers, too) or its whole text, if
\* only because the preview has room for it.
Given(method, b) ==
    {piece \in {"link", "text"} :
        IF piece = "link"
        THEN method # "GetTranscript"
        ELSE method = "GetTranscript" \/ (method = "GetAudiobook" /\ b \in Brief)}

(***************************************************************************)
(* The text of a book goes to its buyers alone, but for one so short that  *)
(* the preview holds it all: whoever is given the text has a committed     *)
(* order for the book, whatever checkout is under way or rolled back       *)
(* beside the call (shop.go 475-486, 611-629).  Of the recording it cannot *)
(* be said: the link that GetDownloadURL refuses to others (597-609) is in *)
(* the catalog's answers to everyone who is signed in (shop.go 93).        *)
(***************************************************************************)
TextIsBought ==
    \A r \in Readings :
        reading[r].pc = "served" /\ "text" \in Given(reading[r].method, reading[r].book)
            => reading[r].book \in Brief \cup Ordered(Reader[r])

(***************************************************************************)
(* What the purchases page shows can be had (README.md 31): a press on it  *)
(* is never refused as not bought, however long the page has been open and *)
(* whatever goes on beside it.                                             *)
(***************************************************************************)
NeverRefused == \A r \in Readings : reading[r].listed => reading[r].pc # "denied"
=============================================================================
