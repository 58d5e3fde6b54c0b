-------------------------- MODULE StorefrontProofs --------------------------
(***************************************************************************)
(* Theorems about the buyer's pages and the server together, for any       *)
(* users, books and calls.  That nothing vanishes from a cart needs each   *)
(* buyer to wait for what was pressed and reads to be whole; that nothing  *)
(* is paid for twice needs requests to arrive and pages to list all, too.  *)
(***************************************************************************)
EXTENDS Storefront, CheckoutProofs

\* No one can own more books than the list of purchases shows.
ListShowsAll == \A some \in SUBSET Books : Cardinality(some) <= ListLimit

LEMMA StoreStep == [StoreNext]_storeVars => [Next]_shopVars
<1> SUFFICES ASSUME [StoreNext]_storeVars
             PROVE  [Next]_shopVars
  OBVIOUS
<1>1. ASSUME NEW u \in Users, NEW b \in Books, Added(u, b) \/ Removed(u, b)
      PROVE  Next
  BY <1>1 DEF Added, Removed, Next
<1>2. ASSUME NEW c \in Checkouts, Started(c) \/ Transact(c) \/ CheckedOut(c)
      PROVE  Next
  BY <1>2 DEF Started, Transact, CheckedOut, Next, ServerStep
<1>3. CASE UNCHANGED shopVars
  BY <1>3
<1> QED
  BY <1>1, <1>2, <1>3 DEF StoreNext, Select, Reload, LoadPurchases, LoadCart, LoadBooks,
                          LoadFails, PressAdd, PressRemove, PressCheckout, Press, Lost,
                          storeVars, shopVars

\* Whatever the buyers' pages let through is a request of Checkout.
THEOREM StoreUsesCheckout == StoreSpec => Spec
<1>1. StoreInit => Init
  BY DEF StoreInit
<1> QED
  BY <1>1, StoreStep, PTL DEF StoreSpec, Spec

\* So what a buyer owns is what the orders say, whether the buyer waits or not
\* and whatever a page failed to load.
THEOREM StoreOwnedIsOrdered == StoreSpec => []OwnedIsOrdered
BY StoreUsesCheckout, OwnedMatchesOrders

-----------------------------------------------------------------------------
LEMMA StoreInitType == StoreInit => StoreTypeOK
BY InitType DEF StoreInit, StoreTypeOK, Page, NewPage, Requests

LEMMA StoreNextType == StoreTypeOK /\ [StoreNext]_storeVars => StoreTypeOK'
<1> SUFFICES ASSUME StoreTypeOK, [StoreNext]_storeVars
             PROVE  StoreTypeOK'
  OBVIOUS
<1>1. TypeOK'
  BY StoreStep, NextType DEF StoreTypeOK
<1>2. page' \in [Users -> Page]
  <2> USE DEF StoreTypeOK, TypeOK, Page, NewPage
  <2>1. ASSUME NEW u \in Users, NEW t \in {"catalog", "cart"}, Select(u, t)
        PROVE  page' \in [Users -> Page]
    BY <2>1 DEF Select
  <2>2. ASSUME NEW u \in Users
        PROVE  Reloading(u) \in [Users -> Page]
    BY DEF Reloading
  <2>3. ASSUME NEW u \in Users,
               LoadPurchases(u) \/ LoadCart(u) \/ LoadBooks(u) \/ LoadFails(u)
        PROVE  page' \in [Users -> Page]
    <3>1. owned[u] \in SUBSET Books /\ cart[u] \in SUBSET Books
      OBVIOUS
    <3>2. CASE LoadPurchases(u)
      <4>1. PICK listing \in Listings(u) : \E bought \in Received(listing) :
               page' = [page EXCEPT ![u].load = "cart", ![u].bought = bought]
        BY <3>2 DEF LoadPurchases
      <4>2. PICK bought \in Received(listing) :
               page' = [page EXCEPT ![u].load = "cart", ![u].bought = bought]
        BY <4>1
      <4>3. bought \in SUBSET Books
        BY <3>1 DEF Listings, Received
      <4>4. [page[u] EXCEPT !.load = "cart", !.bought = bought] \in Page
        BY <4>3
      <4>5. page' = [page EXCEPT ![u] = [page[u] EXCEPT !.load = "cart", !.bought = bought]]
        BY <4>2
      <4> HIDE DEF Page, TypeOK
      <4> QED
        BY <4>4, <4>5
    <3>3. CASE LoadCart(u)
      <4> DEFINE next == IF page[u].tab = "catalog" THEN "books" ELSE "done"
      <4>1. next \in {"books", "done"}
        OBVIOUS
      <4> HIDE DEF next
      <4>2. PICK basket \in Received(cart[u]) :
               page' = [page EXCEPT ![u].load = next, ![u].basket = basket]
        BY <3>3 DEF LoadCart, ViewCart, next
      <4>3. [page[u] EXCEPT !.load = next, !.basket = basket] \in Page
        BY <3>1, <4>1 DEF Received
      <4>4. page' = [page EXCEPT ![u] = [page[u] EXCEPT !.load = next, !.basket = basket]]
        BY <4>2
      <4> HIDE DEF Page, TypeOK
      <4> QED
        BY <4>3, <4>4
    <3>4. CASE LoadBooks(u)
      <4>1. PICK listed \in SUBSET Books :
               page' = [page EXCEPT ![u].load = "done", ![u].books = listed \ page[u].bought]
        BY <3>4 DEF LoadBooks, Listed
      <4>2. [page[u] EXCEPT !.load = "done", !.books = listed \ page[u].bought] \in Page
        OBVIOUS
      <4>3. page' = [page EXCEPT ![u] = [page[u] EXCEPT !.load = "done",
                                                        !.books = listed \ page[u].bought]]
        BY <4>1
      <4> HIDE DEF Page, TypeOK
      <4> QED
        BY <4>2, <4>3
    <3>5. CASE LoadFails(u)
      <4>1. PICK next \in {"books", "done"} : page' = [page EXCEPT ![u].load = next]
        BY <3>5 DEF LoadFails
      <4>2. [page[u] EXCEPT !.load = next] \in Page
        OBVIOUS
      <4>3. page' = [page EXCEPT ![u] = [page[u] EXCEPT !.load = next]]
        BY <4>1
      <4> HIDE DEF Page, TypeOK
      <4> QED
        BY <4>2, <4>3
    <3> QED
      BY <2>3, <3>2, <3>3, <3>4, <3>5
  <2>4. ASSUME NEW u \in Users, NEW tab \in {"catalog", "cart"}, Told(u, tab)
        PROVE  page' \in [Users -> Page]
    BY <2>2, <2>4 DEF Told
  <2>5. CASE UNCHANGED page
    BY <2>5
  <2>6. ASSUME NEW c \in Checkouts, CheckedOut(c)
        PROVE  page' \in [Users -> Page]
    BY <2>4, <2>6, CallerIsUser DEF CheckedOut
  <2>7. ASSUME NEW u \in Users, NEW b \in Books, Added(u, b) \/ Removed(u, b)
        PROVE  page' \in [Users -> Page]
    BY <2>4, <2>7 DEF Added, Removed
  <2> QED
    BY <2>1, <2>2, <2>3, <2>5, <2>6, <2>7
       DEF StoreNext, Reload, PressAdd, PressRemove, PressCheckout, Press, Started, Lost,
           Transact, storeVars
<1>3. sent' \in [Users -> SUBSET Requests]
  <2> USE DEF StoreTypeOK
  <2>1. ASSUME NEW u \in Users, NEW request \in Requests, Press(u, request)
        PROVE  sent' \in [Users -> SUBSET Requests]
    BY <2>1 DEF Press
  <2>2. ASSUME NEW u \in Users, NEW request, Take(u, request)
        PROVE  sent' \in [Users -> SUBSET Requests]
    BY <2>2 DEF Take
  <2>3. ASSUME NEW u \in Users, NEW b \in Books,
               PressAdd(u, b) \/ PressRemove(u, b) \/ Added(u, b) \/ Removed(u, b)
        PROVE  sent' \in [Users -> SUBSET Requests]
    <3>1. <<"add", b>> \in Requests /\ <<"remove", b>> \in Requests
      BY DEF Requests
    <3> QED
      BY <2>1, <2>2, <2>3, <3>1 DEF PressAdd, PressRemove, Added, Removed
  <2>4. ASSUME NEW c \in Checkouts, PressCheckout(c) \/ Started(c)
        PROVE  sent' \in [Users -> SUBSET Requests]
    <3>1. <<"checkout", c>> \in Requests /\ Caller[c] \in Users
      BY CallerIsUser DEF Requests
    <3> QED
      BY <2>1, <2>2, <2>4, <3>1 DEF PressCheckout, Started
  <2>5. ASSUME NEW u \in Users, NEW request \in Requests, Lost(u, request)
        PROVE  sent' \in [Users -> SUBSET Requests]
    BY <2>2, <2>5 DEF Lost
  <2>6. CASE UNCHANGED sent
    BY <2>6
  <2> QED
    BY <2>3, <2>4, <2>5, <2>6
       DEF StoreNext, Select, Reload, LoadPurchases, LoadCart, LoadBooks, LoadFails,
           Transact, CheckedOut, storeVars
<1> QED
  BY <1>1, <1>2, <1>3 DEF StoreTypeOK

\* The pages and the server keep their types.
THEOREM StoreTypes == StoreSpec => []StoreTypeOK
<1>1. StoreInit => StoreTypeOK
  BY StoreInitType
<1>2. StoreTypeOK /\ [StoreNext]_storeVars => StoreTypeOK'
  BY StoreNextType
<1> QED
  BY <1>1, <1>2, PTL DEF StoreSpec

-----------------------------------------------------------------------------
(* What holds for a buyer who waits, whatever is lost or left unlisted.    *)

\* An open checkout is of the cart as it is: its buyer, who still has the cart
\* page open, has not changed it since.
OpenHoldsCart ==
    \A c \in Checkouts : Open(c) =>
        /\ checkout[c].ids = cart[Caller[c]]
        /\ checkout[c].ids # {}
        /\ page[Caller[c]].tab = "cart"

\* A buyer has no more than one checkout open.
OneOpen ==
    \A c, d \in Checkouts :
        Open(c) /\ Open(d) /\ Caller[c] = Caller[d] => c = d

\* A buyer presses one button at a time, the checkout's on the cart page and
\* none while a checkout is open.
OnePress ==
    /\ \A u \in Users : sent[u] # {} => /\ \A x, y \in sent[u] : x = y
                                        /\ \A c \in Checkouts : Caller[c] = u => ~Open(c)
    /\ \A c \in Checkouts :
          <<"checkout", c>> \in sent[Caller[c]] => page[Caller[c]].tab = "cart"

WaitingInv ==
    /\ StoreTypeOK
    /\ OrderInv
    /\ OpenHoldsCart
    /\ OneOpen
    /\ OnePress

LEMMA WaitingInit == StoreInit => WaitingInv
<1> SUFFICES ASSUME StoreInit
             PROVE  WaitingInv
  OBVIOUS
<1>1. StoreTypeOK /\ OrderInv
  BY StoreInitType, OrderInit DEF StoreInit
<1>2. \A c \in Checkouts : checkout[c].pc = "idle"
  BY DEF StoreInit, Init
<1>3. \A u \in Users : sent[u] = {}
  BY DEF StoreInit
<1> QED
  BY <1>1, <1>2, <1>3, CallerIsUser DEF WaitingInv, OpenHoldsCart, OneOpen, OnePress, Open

\* What the pages load, and what is lost, moves nothing the invariant is about.
LEMMA LookStep ==
    ASSUME WaitingInv, UNCHANGED shopVars,
           \A v \in Users : page'[v].tab = page[v].tab /\ sent'[v] \subseteq sent[v]
    PROVE  OpenHoldsCart' /\ OneOpen' /\ OnePress'
<1>1. cart' = cart /\ checkout' = checkout
  BY DEF shopVars
<1>2. OpenHoldsCart' /\ OneOpen'
  BY <1>1, CallerIsUser DEF WaitingInv, OpenHoldsCart, OneOpen, Open
<1>3. \A c \in Checkouts : Open(c)' <=> Open(c)
  BY <1>1 DEF Open
<1>4. \A u \in Users : sent'[u] # {} => sent[u] # {}
  OBVIOUS
<1>5. OnePress'
  BY <1>3, <1>4, CallerIsUser DEF WaitingInv, OnePress
<1> QED
  BY <1>2, <1>5

\* What u does, or has done, while no checkout of u is open: the others see
\* nothing of it.
LEMMA BuyerStep ==
    ASSUME WaitingInv, NEW u \in Users,
           \A c \in Checkouts : Caller[c] = u => ~Open(c),
           UNCHANGED checkout,
           \A v \in Users \ {u} : /\ cart'[v] = cart[v] /\ page'[v] = page[v]
                                  /\ sent'[v] = sent[v],
           \A x, y \in sent'[u] : x = y,
           \A c \in Checkouts : <<"checkout", c>> \in sent'[u] => page'[u].tab = "cart"
    PROVE  OpenHoldsCart' /\ OneOpen' /\ OnePress'
<1>1. OpenHoldsCart'
  BY CallerIsUser DEF WaitingInv, OpenHoldsCart, Open
<1>2. OneOpen'
  BY DEF WaitingInv, OneOpen, Open
<1>3. \A c \in Checkouts : Open(c)' <=> Open(c)
  BY DEF Open
<1>4. OnePress'
  BY <1>3, CallerIsUser DEF WaitingInv, OnePress
<1> QED
  BY <1>1, <1>2, <1>4

LEMMA PressStep ==
    ASSUME Waits, WaitingInv, NEW u \in Users, NEW request, Press(u, request),
           \A c \in Checkouts : request = <<"checkout", c>> => page[u].tab = "cart"
    PROVE  OpenHoldsCart' /\ OneOpen' /\ OnePress'
<1>1. sent[u] = {} /\ \A c \in Checkouts : Caller[c] = u => ~Open(c)
  BY DEF Press, Free
<1>2. sent'[u] = {request} /\ \A v \in Users \ {u} : sent'[v] = sent[v]
  BY <1>1 DEF Press, WaitingInv, StoreTypeOK
<1>3. UNCHANGED <<cart, checkout, page>>
  BY DEF Press, shopVars
<1> QED
  BY <1>1, <1>2, <1>3, BuyerStep

\* The server does what u has pressed, on the cart or towards a checkout.
LEMMA ServedStep ==
    ASSUME WaitingInv, NEW u \in Users, NEW b \in Books, Added(u, b) \/ Removed(u, b)
    PROVE  OpenHoldsCart' /\ OneOpen' /\ OnePress'
<1> USE DEF WaitingInv, StoreTypeOK, TypeOK
<1>1. PICK x \in sent[u] : sent' = [sent EXCEPT ![u] = @ \ {x}]
  BY DEF Added, Removed, Take
<1>2. sent'[u] = {} /\ \A v \in Users \ {u} : sent'[v] = sent[v]
  BY <1>1 DEF OnePress
<1>3. \A c \in Checkouts : Caller[c] = u => ~Open(c)
  BY <1>1 DEF OnePress
<1>4. /\ UNCHANGED checkout
      /\ \A v \in Users \ {u} : cart'[v] = cart[v] /\ page'[v] = page[v]
  BY DEF Added, Removed, AddToCart, RemoveFromCart, Told, Reloading
<1> QED
  BY <1>2, <1>3, <1>4, BuyerStep

\* A call begins; its buyer has no other open and the cart page is.
LEMMA BeginStep ==
    ASSUME ~ReadsBreak, WaitingInv, NEW c \in Checkouts, Started(c)
    PROVE  OpenHoldsCart' /\ OneOpen' /\ OnePress'
<1> USE DEF WaitingInv, StoreTypeOK, TypeOK, Call
<1>0. Caller[c] \in Users
  BY CallerIsUser
<1>1. /\ <<"checkout", c>> \in sent[Caller[c]]
      /\ cart' = cart /\ page' = page
  BY DEF Started, Take, Begin, FindEmpty
<1>2. /\ \A d \in Checkouts : Caller[d] = Caller[c] => ~Open(d)
      /\ page[Caller[c]].tab = "cart"
      /\ sent'[Caller[c]] = {}
      /\ \A v \in Users \ {Caller[c]} : sent'[v] = sent[v]
  BY <1>0, <1>1 DEF OnePress, Started, Take
<1>3. /\ checkout'[c].pc \in {"selling", "empty"}
      /\ checkout'[c].pc = "selling" => /\ checkout'[c].ids = cart[Caller[c]]
                                        /\ cart[Caller[c]] # {}
      /\ \A d \in Checkouts \ {c} : checkout'[d] = checkout[d]
  BY DEF Started, Begin, FindEmpty, Received
<1>4. OpenHoldsCart'
  BY <1>1, <1>2, <1>3 DEF OpenHoldsCart, Open
<1>5. OneOpen'
  BY <1>1, <1>2, <1>3 DEF OneOpen, Open
<1>6. \A d \in Checkouts : Caller[d] # Caller[c] => (Open(d)' <=> Open(d))
  BY <1>3 DEF Open
<1>7. OnePress'
  BY <1>1, <1>2, <1>6, CallerIsUser DEF OnePress
<1> QED
  BY <1>4, <1>5, <1>7

\* An open call goes on, or comes to nothing.
LEMMA TransactStep ==
    ASSUME StoreTypeOK, NEW c \in Checkouts, Transact(c)
    PROVE  /\ Open(c)
           /\ cart' = cart /\ owned' = owned /\ page' = page /\ sent' = sent
           /\ checkout'[c].pc \in {"selling", "cleared", "aborted"}
           /\ checkout'[c].ids = checkout[c].ids
           /\ \A d \in Checkouts \ {c} : checkout'[d] = checkout[d]
BY DEF Transact, Ask, Buy, Clear, Abort, Open, StoreTypeOK, TypeOK, Call

\* A call commits: the whole cart, as it is by then, becomes the buyer's.
LEMMA CommitStep ==
    ASSUME WaitingInv, NEW c \in Checkouts, CheckedOut(c)
    PROVE  /\ Open(c)
           /\ checkout'[c].pc = "committed"
           /\ checkout'[c].ids = cart[Caller[c]]
           /\ \A d \in Checkouts \ {c} :
                 /\ checkout'[d] = checkout[d]
                 /\ Open(d) => Caller[d] # Caller[c]
           /\ cart'[Caller[c]] = {}
           /\ cart[Caller[c]] # {}
           /\ checkout[c].got = cart[Caller[c]]
           /\ owned'[Caller[c]] = owned[Caller[c]] \cup cart[Caller[c]]
           /\ page'[Caller[c]].tab = "cart"
           /\ sent' = sent /\ sent[Caller[c]] = {}
           /\ \A v \in Users \ {Caller[c]} :
                 cart'[v] = cart[v] /\ owned'[v] = owned[v] /\ page'[v] = page[v]
<1> USE DEF WaitingInv, StoreTypeOK, TypeOK, Call
<1>0. Caller[c] \in Users
  BY CallerIsUser
<1>1. /\ Open(c)
      /\ checkout[c].ids = cart[Caller[c]] /\ cart[Caller[c]] # {}
      /\ checkout[c].got = cart[Caller[c]]
      /\ page[Caller[c]].tab = "cart"
  BY DEF CheckedOut, Commit, Open, OpenHoldsCart, OrderInv, SoldAll
<1>2. /\ checkout'[c].pc = "committed"
      /\ checkout'[c].ids = cart[Caller[c]]
      /\ \A d \in Checkouts \ {c} : checkout'[d] = checkout[d]
  BY <1>1 DEF CheckedOut, Commit
<1>3. /\ cart'[Caller[c]] = {}
      /\ owned'[Caller[c]] = owned[Caller[c]] \cup cart[Caller[c]]
      /\ \A v \in Users \ {Caller[c]} : cart'[v] = cart[v] /\ owned'[v] = owned[v]
  BY <1>0, <1>1 DEF CheckedOut, Commit
<1>4. /\ page'[Caller[c]].tab = "cart"
      /\ \A v \in Users \ {Caller[c]} : page'[v] = page[v]
  BY <1>0, <1>1 DEF CheckedOut, Told, Reloading, NewPage, Page
<1>5. \A d \in Checkouts \ {c} : Open(d) => Caller[d] # Caller[c]
  BY <1>1 DEF OneOpen
<1>6. sent' = sent /\ sent[Caller[c]] = {}
  BY <1>0, <1>1 DEF CheckedOut, OnePress
<1> QED
  BY <1>1, <1>2, <1>3, <1>4, <1>5, <1>6

LEMMA WaitingNext ==
    ASSUME Waits, ~ReadsBreak
    PROVE  WaitingInv /\ [StoreNext]_storeVars => WaitingInv'
<1> SUFFICES ASSUME WaitingInv, [StoreNext]_storeVars
             PROVE  WaitingInv'
  OBVIOUS
<1> DEFINE Goal == OpenHoldsCart' /\ OneOpen' /\ OnePress'
<1>1. StoreTypeOK' /\ OrderInv'
  BY StoreStep, StoreNextType, OrderNext DEF WaitingInv
<1>2. ASSUME NEW u \in Users, NEW t \in {"catalog", "cart"}, Select(u, t)
      PROVE  Goal
  <2>1. /\ \A c \in Checkouts : Caller[c] = u => ~Open(c)
        /\ sent' = sent /\ sent[u] = {} /\ UNCHANGED <<cart, checkout>>
    BY <1>2 DEF Select, Free, shopVars
  <2>2. \A v \in Users \ {u} : page'[v] = page[v]
    BY <1>2 DEF Select, WaitingInv, StoreTypeOK
  <2> QED
    BY <2>1, <2>2, BuyerStep
<1>3. ASSUME NEW u \in Users,
             Reload(u) \/ LoadPurchases(u) \/ LoadCart(u) \/ LoadBooks(u) \/ LoadFails(u)
      PROVE  Goal
  <2>1. UNCHANGED <<shopVars, sent>>
    BY <1>3 DEF Reload, LoadPurchases, LoadCart, LoadBooks, LoadFails
  <2>2. \A v \in Users : page'[v].tab = page[v].tab
    BY <1>3 DEF Reload, Reloading, LoadPurchases, LoadCart, LoadBooks, LoadFails,
                WaitingInv, StoreTypeOK, Page
  <2> QED
    BY <2>1, <2>2, LookStep DEF shopVars
<1>4. ASSUME NEW u \in Users, NEW request \in Requests, Lost(u, request)
      PROVE  Goal
  <2>1. \A v \in Users : sent'[v] \subseteq sent[v]
    BY <1>4 DEF Lost, Take, WaitingInv, StoreTypeOK
  <2> QED
    BY <1>4, <2>1, LookStep DEF Lost
<1>5. ASSUME NEW u \in Users, NEW b \in Books, PressAdd(u, b) \/ PressRemove(u, b)
      PROVE  Goal
  <2>1. PICK request : Press(u, request) /\ request[1] # "checkout"
    BY <1>5 DEF PressAdd, PressRemove
  <2> QED
    BY <2>1, PressStep
<1>6. ASSUME NEW c \in Checkouts, PressCheckout(c)
      PROVE  Goal
  BY <1>6, PressStep, CallerIsUser DEF PressCheckout
<1>7. ASSUME NEW u \in Users, NEW b \in Books, Added(u, b) \/ Removed(u, b)
      PROVE  Goal
  BY <1>7, ServedStep
<1>8. ASSUME NEW c \in Checkouts, Started(c)
      PROVE  Goal
  BY <1>8, BeginStep
<1>9. ASSUME NEW c \in Checkouts, Transact(c)
      PROVE  Goal
  <2>1. \A d \in Checkouts : Open(d)' => Open(d)
    BY <1>9, TransactStep DEF WaitingInv, Open
  <2>2. OpenHoldsCart' /\ OneOpen'
    BY <1>9, TransactStep DEF WaitingInv, OpenHoldsCart, OneOpen, Open
  <2>3. OnePress'
    BY <1>9, <2>1, TransactStep DEF WaitingInv, OnePress
  <2> QED
    BY <2>2, <2>3
<1>10. ASSUME NEW c \in Checkouts, CheckedOut(c)
       PROVE  Goal
  <2>1. OpenHoldsCart' /\ OneOpen'
    BY <1>10, CommitStep, CallerIsUser DEF WaitingInv, OpenHoldsCart, OneOpen, Open
  <2>2. \A d \in Checkouts : Open(d)' => Open(d)
    BY <1>10, CommitStep DEF Open
  <2>3. \A u \in Users : sent[u] # {} => page'[u] = page[u]
    BY <1>10, CommitStep
  <2>4. OnePress'
    BY <1>10, <2>2, <2>3, CommitStep, CallerIsUser DEF WaitingInv, OnePress
  <2> QED
    BY <2>1, <2>4
<1>11. ASSUME UNCHANGED storeVars
       PROVE  Goal
  <2>1. UNCHANGED <<shopVars, page, sent>>
    BY <1>11 DEF storeVars, shopVars
  <2> QED
    BY <2>1, LookStep
<1> QED
  BY <1>1, <1>2, <1>3, <1>4, <1>5, <1>6, <1>7, <1>8, <1>9, <1>10, <1>11
     DEF WaitingInv, StoreNext

LEMMA NothingVanishesStep ==
    WaitingInv /\ [StoreNext]_storeVars
        => [\A u \in Users, b \in Books :
               b \in cart[u] \ cart'[u] => b \in owned'[u] \/ Removed(u, b)]_storeVars
<1> SUFFICES ASSUME WaitingInv, StoreNext,
                    NEW u \in Users, NEW b \in Books, b \in cart[u] \ cart'[u]
             PROVE  b \in owned'[u] \/ Removed(u, b)
  OBVIOUS
<1> USE DEF WaitingInv, StoreTypeOK, TypeOK
<1>1. ASSUME NEW v \in Users, NEW a \in Books, Added(v, a)
      PROVE  FALSE
  BY <1>1 DEF Added, AddToCart
<1>2. ASSUME NEW v \in Users, NEW a \in Books, Removed(v, a)
      PROVE  v = u /\ a = b
  BY <1>2 DEF Removed, RemoveFromCart
<1>3. ASSUME NEW c \in Checkouts, Started(c) \/ Transact(c)
      PROVE  FALSE
  BY <1>3 DEF Started, Begin, FindEmpty, Transact, Ask, Buy, Clear, Abort
<1>4. ASSUME NEW c \in Checkouts, CheckedOut(c)
      PROVE  b \in owned'[u]
  BY <1>4, CommitStep
<1>5. ASSUME UNCHANGED shopVars
      PROVE  FALSE
  BY <1>5 DEF shopVars
<1> QED
  BY <1>1, <1>2, <1>3, <1>4, <1>5
     DEF StoreNext, Select, Reload, LoadPurchases, LoadCart, LoadBooks, LoadFails,
         PressAdd, PressRemove, PressCheckout, Press, Lost

\* What leaves the cart of a buyer who waits was taken out or is the buyer's,
\* whatever is lost on the way and however few purchases are listed, as long as
\* a read that breaks off is an error.
THEOREM CartLosesNothing ==
    ASSUME Waits, ~ReadsBreak
    PROVE  StoreSpec => NothingVanishes
<1>1. WaitingInv /\ [StoreNext]_storeVars => WaitingInv'
  BY WaitingNext
<1> QED
  BY WaitingInit, <1>1, NothingVanishesStep, PTL DEF StoreSpec, NothingVanishes

-----------------------------------------------------------------------------
(* The invariant behind what a patient buyer is promised.                  *)

NothingOwnedInCart == \A u \in Users : cart[u] \cap owned[u] = {}

\* The catalog offers nothing that is owned, and knows what is.
CatalogRight ==
    \A u \in Users : page[u].tab = "catalog" =>
        /\ page[u].books \cap owned[u] = {}
        /\ page[u].load \in {"cart", "books"} => page[u].bought = owned[u]

\* What is on its way to the cart was not owned when it was pressed, nor since.
AddsUnowned == \A u \in Users, b \in Books : <<"add", b>> \in sent[u] => b \notin owned[u]

PatientInv ==
    /\ WaitingInv
    /\ NothingOwnedInCart
    /\ CatalogRight
    /\ AddsUnowned
    /\ BoughtOnce

LEMMA PatientInit == StoreInit => PatientInv
<1> SUFFICES ASSUME StoreInit
             PROVE  PatientInv
  OBVIOUS
<1>1. \A c \in Checkouts : checkout[c].pc = "idle"
  BY DEF StoreInit, Init
<1>2. NothingOwnedInCart /\ CatalogRight /\ AddsUnowned
  BY DEF StoreInit, Init, NothingOwnedInCart, CatalogRight, AddsUnowned, NewPage
<1> QED
  BY <1>1, <1>2, WaitingInit DEF PatientInv, BoughtOnce

\* What a step that leaves the server alone has to show.
LEMMA PageStep ==
    ASSUME PatientInv, WaitingInv', UNCHANGED <<shopVars, sent>>, NEW u \in Users,
           \A v \in Users \ {u} : page'[v] = page[v],
           page'[u].tab = "catalog" =>
               /\ page'[u].books \cap owned[u] = {}
               /\ page'[u].load \in {"cart", "books"} => page'[u].bought = owned[u]
    PROVE  PatientInv'
<1>1. cart' = cart /\ owned' = owned /\ checkout' = checkout
  BY DEF shopVars
<1>2. NothingOwnedInCart' /\ AddsUnowned' /\ BoughtOnce'
  BY <1>1 DEF PatientInv, NothingOwnedInCart, AddsUnowned, BoughtOnce
<1>3. CatalogRight'
  BY <1>1 DEF PatientInv, CatalogRight
<1> QED
  BY <1>2, <1>3 DEF PatientInv

LEMMA PatientPage ==
    ASSUME ~LoadsFail, ~ReadsBreak, ListShowsAll, PatientInv, WaitingInv', NEW u \in Users,
           \/ \E t \in {"catalog", "cart"} : Select(u, t)
           \/ Reload(u)
           \/ LoadPurchases(u) \/ LoadCart(u) \/ LoadBooks(u) \/ LoadFails(u)
    PROVE  PatientInv'
<1> USE DEF PatientInv, WaitingInv, StoreTypeOK, Page
<1>1. UNCHANGED <<shopVars, sent>>
  BY DEF Select, Reload, LoadPurchases, LoadCart, LoadBooks, LoadFails
<1>2. \A v \in Users \ {u} : page'[v] = page[v]
  BY DEF Select, Reload, Reloading, LoadPurchases, LoadCart, LoadBooks, LoadFails
<1>3. page'[u].tab = "catalog" =>
          /\ page'[u].books \cap owned[u] = {}
          /\ page'[u].load \in {"cart", "books"} => page'[u].bought = owned[u]
  <2>1. ASSUME NEW t \in {"catalog", "cart"}, Select(u, t)
        PROVE  page'[u].books = {} /\ page'[u].load \in {"purchases", "cart"}
                                   /\ (page'[u].tab = "catalog" => page'[u].load = "purchases")
    BY <2>1 DEF Select, NewPage
  <2>2. CASE Reload(u)
    BY <2>2 DEF Reload, Reloading, NewPage, CatalogRight
  <2>3. CASE LoadPurchases(u)
    <3>1. Listings(u) = {owned[u]}
      BY DEF TypeOK, ListShowsAll, Listings
    <3>2. page' = [page EXCEPT ![u].load = "cart", ![u].bought = owned[u]]
      BY <2>3, <3>1 DEF LoadPurchases, Received
    <3> QED
      BY <3>2 DEF CatalogRight
  <2>4. CASE LoadCart(u)
    <3>1. PICK basket, next :
             /\ page' = [page EXCEPT ![u].load = next, ![u].basket = basket]
             /\ page[u].tab = "catalog" => next = "books"
      BY <2>4 DEF LoadCart
    <3>2. page[u].load = "cart"
      BY <2>4 DEF LoadCart
    <3>3. /\ page'[u].books = page[u].books /\ page'[u].tab = page[u].tab
          /\ page'[u].bought = page[u].bought
      BY <3>1
    <3> QED
      BY <3>2, <3>3 DEF CatalogRight
  <2>5. CASE LoadBooks(u)
    <3>1. PICK listed \in SUBSET Books :
             page' = [page EXCEPT ![u].load = "done", ![u].books = listed \ page[u].bought]
      BY <2>5 DEF LoadBooks, Listed
    <3>2. page[u].load = "books" /\ UNCHANGED shopVars
      BY <2>5 DEF LoadBooks
    <3>3. /\ page'[u].books = listed \ page[u].bought
          /\ page'[u].load = "done" /\ page'[u].tab = page[u].tab
      BY <3>1
    <3> QED
      BY <3>2, <3>3 DEF CatalogRight, shopVars
  <2> QED
    BY <2>1, <2>2, <2>3, <2>4, <2>5 DEF LoadFails
<1> QED
  BY <1>1, <1>2, <1>3, PageStep

\* A press asks for what the page offers, and what is lost is not done.
LEMMA PatientPress ==
    ASSUME PatientInv, WaitingInv', UNCHANGED <<shopVars, page>>,
           \A u \in Users, b \in Books :
              <<"add", b>> \in sent'[u] =>
                  \/ <<"add", b>> \in sent[u]
                  \/ page[u].tab = "catalog" /\ b \in page[u].books
    PROVE  PatientInv'
<1>1. cart' = cart /\ owned' = owned /\ checkout' = checkout /\ page' = page
  BY DEF shopVars
<1>2. AddsUnowned'
  BY <1>1 DEF PatientInv, AddsUnowned, CatalogRight
<1>3. NothingOwnedInCart' /\ CatalogRight' /\ BoughtOnce'
  BY <1>1 DEF PatientInv, NothingOwnedInCart, CatalogRight, BoughtOnce
<1> QED
  BY <1>2, <1>3 DEF PatientInv

LEMMA PatientServed ==
    ASSUME PatientInv, WaitingInv', NEW u \in Users, NEW b \in Books,
           Added(u, b) \/ Removed(u, b)
    PROVE  PatientInv'
<1> USE DEF PatientInv, WaitingInv, StoreTypeOK, TypeOK
<1>1. owned' = owned /\ checkout' = checkout /\ page' \in {page, Reloading(u)}
  BY DEF Added, Removed, AddToCart, RemoveFromCart, Told
<1>2. \A v \in Users : sent'[v] \subseteq sent[v] /\ (v # u => cart'[v] = cart[v])
  BY DEF Added, Removed, AddToCart, RemoveFromCart, Take
<1>3. cart'[u] \cap owned[u] = {}
  <2>1. CASE Added(u, b)
    BY <2>1 DEF Added, Take, AddToCart, AddsUnowned, NothingOwnedInCart
  <2>2. CASE Removed(u, b)
    BY <2>2 DEF Removed, RemoveFromCart, NothingOwnedInCart
  <2> QED
    BY <2>1, <2>2
<1>4. \A v \in Users : /\ page'[v].tab = page[v].tab
                       /\ page'[v].books = page[v].books
                       /\ \/ page'[v] = page[v]
                          \/ page'[v].tab = "catalog" => page'[v].load = "purchases"
  BY <1>1 DEF Reloading, NewPage, Page
<1>5. BoughtOnce' /\ AddsUnowned'
  BY <1>1, <1>2 DEF BoughtOnce, AddsUnowned
<1>6. NothingOwnedInCart'
  BY <1>1, <1>2, <1>3 DEF NothingOwnedInCart
<1>7. CatalogRight'
  BY <1>1, <1>4 DEF CatalogRight
<1> QED
  BY <1>5, <1>6, <1>7

\* Until it commits a call sells nothing and moves nothing.
LEMMA PatientCall ==
    ASSUME PatientInv, WaitingInv', NEW c \in Checkouts, Started(c) \/ Transact(c)
    PROVE  PatientInv'
<1>1. /\ cart' = cart /\ owned' = owned /\ page' = page
      /\ checkout'[c].pc # "committed"
      /\ \A d \in Checkouts \ {c} : checkout'[d] = checkout[d]
      /\ \A v \in Users : sent'[v] \subseteq sent[v]
  <2>1. CASE Started(c)
    BY <2>1, CallerIsUser DEF Started, Begin, FindEmpty, Take, PatientInv, WaitingInv,
                              StoreTypeOK, TypeOK, Call
  <2>2. CASE Transact(c)
    BY <2>2, TransactStep DEF PatientInv, WaitingInv
  <2> QED
    BY <2>1, <2>2
<1>2. BoughtOnce'
  BY <1>1 DEF PatientInv, BoughtOnce
<1>3. NothingOwnedInCart' /\ CatalogRight' /\ AddsUnowned'
  BY <1>1 DEF PatientInv, NothingOwnedInCart, CatalogRight, AddsUnowned
<1> QED
  BY <1>2, <1>3 DEF PatientInv

LEMMA PatientCommit ==
    ASSUME PatientInv, WaitingInv', NEW c \in Checkouts, CheckedOut(c)
    PROVE  PatientInv'
<1> DEFINE u == Caller[c]
<1>0. u \in Users
  BY CallerIsUser
<1>1. WaitingInv
  BY DEF PatientInv
<1>2. /\ checkout'[c].ids = cart[u]
      /\ \A d \in Checkouts \ {c} : checkout'[d] = checkout[d]
      /\ cart'[u] = {}
      /\ page'[u].tab = "cart"
      /\ sent' = sent /\ sent[u] = {}
      /\ \A v \in Users \ {u} :
            cart'[v] = cart[v] /\ owned'[v] = owned[v] /\ page'[v] = page[v]
  BY <1>1, CommitStep
<1>3. NothingOwnedInCart' /\ CatalogRight' /\ AddsUnowned'
  BY <1>2 DEF PatientInv, NothingOwnedInCart, CatalogRight, AddsUnowned
<1>4. ASSUME NEW d \in Checkouts \ {c}, Caller[d] = u, checkout[d].pc = "committed"
      PROVE  checkout[d].ids \cap cart[u] = {}
  <2>1. checkout[d].ids \subseteq owned[u]
    BY <1>0, <1>1, <1>4, OrderedIs DEF WaitingInv, OrderInv, OwnedIsOrdered
  <2> QED
    BY <1>0, <2>1 DEF PatientInv, NothingOwnedInCart
<1>5. BoughtOnce'
  BY <1>2, <1>4 DEF PatientInv, BoughtOnce
<1> QED
  BY <1>3, <1>5 DEF PatientInv

LEMMA PatientNext ==
    ASSUME Waits, ~LoadsFail, ~ReadsBreak, ListShowsAll
    PROVE  PatientInv /\ [StoreNext]_storeVars => PatientInv'
<1> SUFFICES ASSUME PatientInv, [StoreNext]_storeVars
             PROVE  PatientInv'
  OBVIOUS
<1>1. WaitingInv'
  BY WaitingNext DEF PatientInv
<1>2. CASE UNCHANGED storeVars
  BY <1>1, <1>2 DEF PatientInv, NothingOwnedInCart, CatalogRight, AddsUnowned, BoughtOnce,
                    storeVars
<1>3. ASSUME NEW u \in Users, NEW b \in Books, PressAdd(u, b) \/ PressRemove(u, b)
      PROVE  PatientInv'
  <2>1. UNCHANGED <<shopVars, page>>
    BY <1>3 DEF PressAdd, PressRemove, Press
  <2>2. \A v \in Users, a \in Books : <<"add", a>> \in sent'[v] =>
            \/ <<"add", a>> \in sent[v]
            \/ page[v].tab = "catalog" /\ a \in page[v].books
    BY <1>3 DEF PressAdd, PressRemove, Press, PatientInv, WaitingInv, StoreTypeOK
  <2> QED
    BY <1>1, <2>1, <2>2, PatientPress
<1>4. ASSUME NEW c \in Checkouts, PressCheckout(c)
      PROVE  PatientInv'
  <2>1. UNCHANGED <<shopVars, page>>
    BY <1>4 DEF PressCheckout, Press
  <2>2. \A v \in Users, a \in Books : <<"add", a>> \in sent'[v] => <<"add", a>> \in sent[v]
    BY <1>4, CallerIsUser DEF PressCheckout, Press, PatientInv, WaitingInv, StoreTypeOK
  <2> QED
    BY <1>1, <2>1, <2>2, PatientPress
<1> QED
  BY <1>1, <1>2, <1>3, <1>4, PatientPage, PatientServed, PatientCall, PatientCommit
     DEF StoreNext, Lost

\* A buyer who waits, whose requests succeed and whose pages show all purchases,
\* never pays twice for a book.
THEOREM NeverPaysTwice ==
    ASSUME Waits, ~LoadsFail, ~ReadsBreak, ListShowsAll
    PROVE  StoreSpec => []BoughtOnce
<1>1. StoreInit => PatientInv
  BY PatientInit
<1>2. PatientInv /\ [StoreNext]_storeVars => PatientInv'
  BY PatientNext
<1>3. PatientInv => BoughtOnce
  BY DEF PatientInv
<1> QED
  BY <1>1, <1>2, <1>3, PTL DEF StoreSpec

-----------------------------------------------------------------------------
LEMMA PromiseInit == StoreInit => Promise!Init
BY DEF StoreInit, Init, Promise!Init

LEMMA PromiseStep ==
    ASSUME PatientInv, [StoreNext]_storeVars
    PROVE  [Promise!Next]_(Promise!buyerVars)
<1>1. ASSUME NEW u \in Users, NEW b \in Books, Added(u, b)
      PROVE  Promise!Put(u, b)
  BY <1>1 DEF Added, Take, AddToCart, PatientInv, AddsUnowned, Promise!Put
<1>2. ASSUME NEW u \in Users, NEW b \in Books, Removed(u, b)
      PROVE  Promise!TakeOut(u, b)
  BY <1>2 DEF Removed, RemoveFromCart, Promise!TakeOut
<1>3. ASSUME NEW c \in Checkouts, CheckedOut(c)
      PROVE  Promise!BuyCart(Caller[c])
  <2>1. checkout[c].got = cart[Caller[c]] /\ cart[Caller[c]] # {}
    BY <1>3, CommitStep DEF PatientInv
  <2> QED
    BY <1>3, <2>1 DEF CheckedOut, Commit, Promise!BuyCart
<1>4. ASSUME NEW c \in Checkouts, Started(c) \/ Transact(c)
      PROVE  UNCHANGED Promise!buyerVars
  BY <1>4 DEF Started, Begin, FindEmpty, Transact, Ask, Buy, Clear, Abort,
              Promise!buyerVars
<1>5. CASE UNCHANGED shopVars
  BY <1>5 DEF shopVars, Promise!buyerVars
<1> QED
  BY <1>1, <1>2, <1>3, <1>4, <1>5, CallerIsUser
     DEF StoreNext, Select, Reload, LoadPurchases, LoadCart, LoadBooks, LoadFails,
         PressAdd, PressRemove, PressCheckout, Press, Lost, storeVars, shopVars,
         Promise!Next

\* For such a buyer pages and server implement what the shop promises.
THEOREM PromiseKept ==
    ASSUME Waits, ~LoadsFail, ~ReadsBreak, ListShowsAll
    PROVE  StoreSpec => KeepsPromise
<1>1. StoreInit => PatientInv /\ Promise!Init
  BY PatientInit, PromiseInit
<1>2. PatientInv /\ [StoreNext]_storeVars => PatientInv'
  BY PatientNext
<1>3. PatientInv /\ [StoreNext]_storeVars => [Promise!Next]_(Promise!buyerVars)
  BY PromiseStep
<1> QED
  BY <1>1, <1>2, <1>3, PTL DEF StoreSpec, KeepsPromise, Promise!Spec
=============================================================================
