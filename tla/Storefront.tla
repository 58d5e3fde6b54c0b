----------------------------- MODULE Storefront -----------------------------
(***************************************************************************)
(* The buyer's pages over the server of module Checkout: the catalog       *)
(* (frontend/lib/pages/shop/shop_catalog.dart) and the cart (cart.dart),   *)
(* one of which a buyer has open at a time (pages/shop.dart 105).          *)
(*                                                                         *)
(* A page shows what it last loaded.  The catalog loads in three requests: *)
(* the purchases, the cart, the books; it leaves out the books owned as of *)
(* the first and offers those not in the cart as of the second.            *)
(*                                                                         *)
(* A button sends its request and waits for nothing: the request reaches   *)
(* the server at some later time, in no order with others, and the page,   *)
(* if it is still there, loads again at the answer.  The same request is   *)
(* not on its way twice at a time, and no client gives up one that the     *)
(* server is at.                                                           *)
(***************************************************************************)
EXTENDS Checkout, Naturals

CONSTANTS
    Waits,      \* a buyer does nothing until what was pressed last is done
    LoadsFail,  \* a request may be lost or fail, and so may its answer
    ListLimit   \* the list of purchases has no more than these, and no next page

ASSUME StorefrontAssumption ==
    Waits \in BOOLEAN /\ LoadsFail \in BOOLEAN /\ ListLimit \in Nat

VARIABLES
    page,   \* page[u]: the page u has open
    sent    \* sent[u]: what u has pressed and no server has begun

storeVars == <<cart, owned, checkout, page, sent>>

\* load: the request the page is at; bought, basket, books: what it has loaded.
Page == [tab    : {"catalog", "cart"},
         load   : {"purchases", "cart", "books", "done"},
         bought : SUBSET Books,
         basket : SUBSET Books,
         books  : SUBSET Books]

Requests == ({"add", "remove"} \X Books) \cup ({"checkout"} \X Checkouts)

StoreTypeOK ==
    /\ TypeOK
    /\ page \in [Users -> Page]
    /\ sent \in [Users -> SUBSET Requests]

\* A tab is built anew each time it is selected.
NewPage(t) == [tab    |-> t,
               load   |-> IF t = "catalog" THEN "purchases" ELSE "cart",
               bought |-> {},
               basket |-> {},
               books  |-> {}]

StoreInit ==
    /\ Init
    /\ page = [u \in Users |-> NewPage("catalog")]
    /\ sent = [u \in Users |-> {}]

-----------------------------------------------------------------------------
Free(u) ==
    Waits => /\ sent[u] = {}
             /\ \A c \in Checkouts : Caller[c] = u => ~Open(c)

Select(u, t) ==
    /\ Free(u)
    /\ page[u].tab # t
    /\ page' = [page EXCEPT ![u] = NewPage(t)]
    /\ UNCHANGED <<shopVars, sent>>

\* Pulled down, the page loads again and shows the old until then.
Reloading(u) == [page EXCEPT ![u].load = NewPage(page[u].tab).load]

Reload(u) ==
    /\ Free(u)
    /\ page' = Reloading(u)
    /\ UNCHANGED <<shopVars, sent>>

\* What may be listed: all, or the latest of them, whichever these are.
Listings(u) ==
    IF Cardinality(owned[u]) <= ListLimit
    THEN {owned[u]}
    ELSE {some \in SUBSET owned[u] : Cardinality(some) = ListLimit}

LoadPurchases(u) ==
    /\ page[u].load = "purchases"
    /\ \E listing \in Listings(u) : \E bought \in Received(listing) :
          page' = [page EXCEPT ![u].load = "cart", ![u].bought = bought]
    /\ UNCHANGED <<shopVars, sent>>

\* The items; what is missing of a book is left blank.
ViewCart(u) == cart[u]

LoadCart(u) ==
    /\ page[u].load = "cart"
    /\ \E basket \in Received(ViewCart(u)) :
          page' = [page EXCEPT
                     ![u].load = IF page[u].tab = "catalog" THEN "books" ELSE "done",
                     ![u].basket = basket]
    /\ UNCHANGED <<shopVars, sent>>

\* The READY ones among the newest 20 books, or among those of a category:
\* which these are is not modelled, and a book that was listed may not be later.
Listed == SUBSET Books

\* Mutant: the catalog does not leave out what the buyer owns.
LoadAllBooks(u) ==
    /\ page[u].load = "books"
    /\ \E listed \in Listed :
          page' = [page EXCEPT ![u].load = "done", ![u].books = listed]
    /\ UNCHANGED <<shopVars, sent>>

LoadBooks(u) ==
    /\ page[u].load = "books"
    /\ \E listed \in Listed :
          page' = [page EXCEPT ![u].load = "done",
                               ![u].books = listed \ page[u].bought]
    /\ UNCHANGED <<shopVars, sent>>

\* Purchases and cart are loaded in one try, whose failure is passed over: the
\* catalog goes on to the books with what it has.
LoadFails(u) ==
    /\ LoadsFail
    /\ page[u].load # "done"
    /\ page' = [page EXCEPT
                  ![u].load = IF page[u].tab = "catalog" /\ page[u].load # "books"
                              THEN "books" ELSE "done"]
    /\ UNCHANGED <<shopVars, sent>>

-----------------------------------------------------------------------------
Press(u, request) ==
    /\ Free(u)
    /\ request \notin sent[u]
    /\ sent' = [sent EXCEPT ![u] = @ \cup {request}]
    /\ UNCHANGED <<shopVars, page>>

\* A book in the cart has a button, too, which does nothing.
PressAdd(u, b) ==
    /\ page[u].tab = "catalog"
    /\ b \in page[u].books \ page[u].basket
    /\ Press(u, <<"add", b>>)

PressRemove(u, b) ==
    /\ page[u].tab = "cart"
    /\ b \in page[u].basket
    /\ Press(u, <<"remove", b>>)

PressCheckout(c) ==
    /\ checkout[c].pc = "idle"
    /\ page[Caller[c]].tab = "cart"
    /\ page[Caller[c]].basket # {}
    /\ Press(Caller[c], <<"checkout", c>>)

Take(u, request) ==
    /\ request \in sent[u]
    /\ sent' = [sent EXCEPT ![u] = @ \ {request}]

\* A page loads again when it is told of success.  Who did not wait may have
\* left it, and have built it anew, which is told nothing.
Told(u, tab) ==
    IF page[u].tab = tab
    THEN page' \in {Reloading(u)} \cup (IF LoadsFail \/ ~Waits THEN {page} ELSE {})
    ELSE UNCHANGED page

Added(u, b) ==
    /\ Take(u, <<"add", b>>)
    /\ AddToCart(u, b)
    /\ Told(u, "catalog")

Removed(u, b) ==
    /\ Take(u, <<"remove", b>>)
    /\ RemoveFromCart(u, b)
    /\ Told(u, "cart")

Started(c) ==
    /\ Take(Caller[c], <<"checkout", c>>)
    /\ Begin(c) \/ FindEmpty(c)
    /\ UNCHANGED page

\* The request does not arrive, or its statement fails: nothing is done.
Lost(u, request) ==
    /\ LoadsFail
    /\ Take(u, request)
    /\ UNCHANGED <<shopVars, page>>

CheckedOut(c) ==
    /\ Commit(c)
    /\ Told(Caller[c], "cart")
    /\ UNCHANGED sent

Transact(c) ==
    /\ \/ \E b \in Books : Ask(c, b)
       \/ Buy(c)
       \/ Clear(c)
       \/ Abort(c)
    /\ UNCHANGED <<page, sent>>

StoreNext ==
    \/ \E u \in Users : \/ \E t \in {"catalog", "cart"} : Select(u, t)
                        \/ Reload(u)
                        \/ LoadPurchases(u) \/ LoadCart(u) \/ LoadBooks(u)
                        \/ LoadFails(u)
                        \/ \E b \in Books : \/ PressAdd(u, b) \/ PressRemove(u, b)
                                            \/ Added(u, b) \/ Removed(u, b)
                        \/ \E request \in Requests : Lost(u, request)
    \/ \E c \in Checkouts : \/ PressCheckout(c) \/ Started(c)
                            \/ Transact(c) \/ CheckedOut(c)

StoreSpec == StoreInit /\ [][StoreNext]_storeVars

-----------------------------------------------------------------------------
(***************************************************************************)
(* No buyer pays twice for a book: two orders of one user have no book in  *)
(* common.  The server does not see to it (database.go 644-733); it is up  *)
(* to the pages (shop_catalog.dart 85-88) and needs a buyer who waits,     *)
(* requests that succeed, reads that are whole and a list that shows all   *)
(* purchases.                                                              *)
(***************************************************************************)
BoughtOnce ==
    \A c, d \in Checkouts :
        c # d /\ Caller[c] = Caller[d]
              /\ checkout[c].pc = "committed" /\ checkout[d].pc = "committed"
            => checkout[c].ids \cap checkout[d].ids = {}

(***************************************************************************)
(* A book leaves the cart only by being taken out or by becoming its       *)
(* buyer's (README.md 29-30).  The DELETE of a checkout (database.go 724)  *)
(* takes a book, too, that came into the cart after the checkout read it,  *)
(* neither sold nor taken out by anyone, be it that it was put there or    *)
(* that the request to put it there arrived only by then; of a buyer who   *)
(* waits there is none.                                                    *)
(***************************************************************************)
NothingVanishes ==
    [][\A u \in Users, b \in Books :
          b \in cart[u] \ cart'[u] => b \in owned'[u] \/ Removed(u, b)]_storeVars

(***************************************************************************)
(* For a buyer who waits, requests that succeed, reads that are whole and  *)
(* a list that shows all purchases, the pages and the server together do   *)
(* what the shop promises (module Purchasing).                             *)
(***************************************************************************)
Promise == INSTANCE Purchasing

KeepsPromise == Promise!Spec
=============================================================================
