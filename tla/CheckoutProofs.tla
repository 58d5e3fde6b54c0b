--------------------------- MODULE CheckoutProofs ---------------------------
(***************************************************************************)
(* Theorems about the server's checkout and the library of what was        *)
(* bought, for any users, books and calls, however the calls interleave    *)
(* and wherever they break off.                                            *)
(***************************************************************************)
EXTENDS Library, TLAPS

LEMMA CallerIsUser == \A c \in Checkouts : Caller[c] \in Users
BY CheckoutAssumption

USE CallerIsUser

\* A read whose rows may break off has some of them, no others.
LEMMA ReceivedIs == \A rows : \A taken \in Received(rows) : taken \subseteq rows
BY DEF Received

LEMMA InitType == Init => TypeOK
BY DEF Init, TypeOK, Call

\* A call that is at its end no longer asks, and has sold all that it read.
SoldAll(c) ==
    checkout[c].pc \in {"cleared", "committed"}
        => checkout[c].asked = {} /\ checkout[c].got = checkout[c].ids

OrderInv == TypeOK /\ (\A c \in Checkouts : SoldAll(c)) /\ OwnedIsOrdered

LEMMA NextType == TypeOK /\ [Next]_shopVars => TypeOK'
<1> SUFFICES ASSUME TypeOK, [Next]_shopVars
             PROVE  TypeOK'
  OBVIOUS
<1> USE DEF TypeOK, Call
<1>1. ASSUME NEW u \in Users, NEW b \in Books, AddToCart(u, b) \/ RemoveFromCart(u, b)
      PROVE  TypeOK'
  BY <1>1 DEF AddToCart, RemoveFromCart
<1>2. ASSUME NEW c \in Checkouts, Begin(c)
      PROVE  TypeOK'
  <2>1. PICK taken \in Received(cart[Caller[c]]) :
               checkout' = [checkout EXCEPT ![c].pc = "selling", ![c].ids = taken]
    BY <1>2 DEF Begin
  <2>2. taken \in SUBSET Books
    BY <2>1, ReceivedIs
  <2>3. checkout' \in [Checkouts -> Call]
    <3> DEFINE begun == [checkout[c] EXCEPT !.pc = "selling", !.ids = taken]
    <3>1. begun \in Call
      BY <2>2
    <3>2. checkout' = [checkout EXCEPT ![c] = begun]
      BY <2>1
    <3> HIDE DEF begun
    <3> QED
      BY <3>1, <3>2
  <2>4. checkout[c].got = {} /\ checkout[c].asked = {}
    BY <1>2 DEF Begin
  <2> QED
    BY <1>2, <2>1, <2>2, <2>3, <2>4 DEF Begin
<1>3. ASSUME NEW c \in Checkouts, FindEmpty(c)
      PROVE  TypeOK'
  BY <1>3 DEF FindEmpty
<1>4. ASSUME NEW c \in Checkouts, NEW b \in Books, Ask(c, b)
      PROVE  TypeOK'
  BY <1>4 DEF Ask
<1>5. ASSUME NEW c \in Checkouts, Buy(c)
      PROVE  TypeOK'
  BY <1>5 DEF Buy
<1>6. ASSUME NEW c \in Checkouts, Clear(c)
      PROVE  TypeOK'
  BY <1>6 DEF Clear
<1>7. ASSUME NEW c \in Checkouts, Commit(c)
      PROVE  TypeOK'
  BY <1>7 DEF Commit
<1>8. ASSUME NEW c \in Checkouts, Abort(c)
      PROVE  TypeOK'
  BY <1>8 DEF Abort
<1>9. CASE UNCHANGED shopVars
  BY <1>9 DEF shopVars
<1> QED
  BY <1>1, <1>2, <1>3, <1>4, <1>5, <1>6, <1>7, <1>8, <1>9 DEF Next, ServerStep, Victim

\* The server keeps its types, and no call asks for a book twice.
THEOREM CheckoutTypes == Spec => []TypeOK
BY InitType, NextType, PTL DEF Spec

-----------------------------------------------------------------------------
LEMMA OrderedIs ==
    ASSUME NEW u, NEW b
    PROVE  b \in Ordered(u) <=>
             \E c \in Checkouts : /\ Caller[c] = u
                                  /\ checkout[c].pc = "committed"
                                  /\ b \in checkout[c].ids
BY DEF Ordered

LEMMA OrderedIsNext ==
    ASSUME NEW u, NEW b
    PROVE  b \in Ordered(u)' <=>
             \E c \in Checkouts : /\ Caller[c] = u
                                  /\ checkout'[c].pc = "committed"
                                  /\ b \in checkout'[c].ids
BY DEF Ordered

\* Until a call commits nothing is ordered or owned; when it does both are.
LEMMA OrderedKept ==
    ASSUME TypeOK, NEW c \in Checkouts,
           checkout[c].pc # "committed", checkout'[c].pc # "committed",
           \A d \in Checkouts \ {c} : checkout'[d] = checkout[d]
    PROVE  \A u \in Users : Ordered(u)' = Ordered(u)
<1> SUFFICES ASSUME NEW u \in Users, NEW b
             PROVE  b \in Ordered(u)' <=> b \in Ordered(u)
  OBVIOUS
<1> QED
  BY OrderedIs, OrderedIsNext

LEMMA OrderInit == Init => OrderInv
<1> SUFFICES ASSUME Init
             PROVE  OrderInv
  OBVIOUS
<1>1. \A c \in Checkouts : checkout[c].pc = "idle"
  BY DEF Init
<1>2. OwnedIsOrdered
  BY <1>1, OrderedIs DEF Init, OwnedIsOrdered
<1> QED
  BY <1>1, <1>2, InitType DEF OrderInv, SoldAll

LEMMA OrderCommit ==
    ASSUME OrderInv, NEW c \in Checkouts, Commit(c)
    PROVE  OwnedIsOrdered'
<1>1. checkout[c].got = checkout[c].ids
  BY DEF OrderInv, SoldAll, Commit
<1>2. /\ checkout'[c].pc = "committed"
      /\ checkout'[c].ids = checkout[c].ids
      /\ \A d \in Checkouts \ {c} : checkout'[d] = checkout[d]
  BY DEF Commit, OrderInv, TypeOK, Call
<1>3. \A u \in Users : owned'[u] = IF u = Caller[c] THEN owned[u] \cup checkout[c].ids
                                                    ELSE owned[u]
  BY <1>1 DEF Commit, OrderInv, TypeOK
<1>4. checkout[c].pc # "committed"
  BY DEF Commit
<1> SUFFICES ASSUME NEW u \in Users, NEW b
             PROVE  b \in owned'[u] <=> b \in Ordered(u)'
  BY DEF OwnedIsOrdered
<1>5. b \in owned[u] <=> \E d \in Checkouts : /\ Caller[d] = u
                                              /\ checkout[d].pc = "committed"
                                              /\ b \in checkout[d].ids
  BY OrderedIs DEF OrderInv, OwnedIsOrdered
<1>6. b \in Ordered(u)' <=> \E d \in Checkouts : /\ Caller[d] = u
                                                 /\ checkout'[d].pc = "committed"
                                                 /\ b \in checkout'[d].ids
  BY OrderedIsNext
<1> QED
  BY <1>2, <1>3, <1>4, <1>5, <1>6

LEMMA OrderNext == OrderInv /\ [Next]_shopVars => OrderInv'
<1> SUFFICES ASSUME OrderInv, [Next]_shopVars
             PROVE  OrderInv'
  OBVIOUS
<1>0. TypeOK /\ TypeOK'
  BY NextType DEF OrderInv
<1> USE <1>0 DEF TypeOK, Call
<1>1. ASSUME NEW c \in Checkouts,
             \/ Begin(c) \/ FindEmpty(c) \/ Buy(c) \/ Clear(c) \/ Abort(c)
             \/ \E b \in Books : Ask(c, b)
      PROVE  OrderInv'
  <2>1. /\ checkout[c].pc # "committed"
        /\ checkout'[c].pc # "committed"
        /\ owned' = owned
        /\ \A d \in Checkouts \ {c} : checkout'[d] = checkout[d]
    BY <1>1 DEF Begin, FindEmpty, Buy, Clear, Abort, Ask, Open
  <2>2. \A u \in Users : Ordered(u)' = Ordered(u)
    BY <2>1, OrderedKept
  <2>3. OwnedIsOrdered'
    BY <2>1, <2>2 DEF OrderInv, OwnedIsOrdered
  <2>4. SoldAll(c)'
    BY <1>1 DEF Begin, FindEmpty, Buy, Clear, Abort, Ask, SoldAll
  <2> QED
    BY <2>1, <2>3, <2>4 DEF OrderInv, SoldAll
<1>2. ASSUME NEW c \in Checkouts, Commit(c)
      PROVE  OrderInv'
  <2>1. OwnedIsOrdered'
    BY <1>2, OrderCommit
  <2>2. \A d \in Checkouts : SoldAll(d)'
    BY <1>2 DEF Commit, OrderInv, SoldAll
  <2> QED
    BY <2>1, <2>2 DEF OrderInv
<1>3. CASE UNCHANGED <<owned, checkout>>
  BY <1>3 DEF OrderInv, SoldAll, OwnedIsOrdered, Ordered
<1> QED
  BY <1>1, <1>2, <1>3 DEF Next, ServerStep, Victim, AddToCart, RemoveFromCart, shopVars

\* What users own is what their committed orders say, in every state.
THEOREM OwnedMatchesOrders == Spec => []OwnedIsOrdered
<1>1. Init => OrderInv
  BY OrderInit
<1>2. OrderInv /\ [Next]_shopVars => OrderInv'
  BY OrderNext
<1>3. OrderInv => OwnedIsOrdered
  BY DEF OrderInv
<1> QED
  BY <1>1, <1>2, <1>3, PTL DEF Spec

-----------------------------------------------------------------------------
\* If every open call of a user is blocked, none is at its COMMIT, so each waits
\* for a purchase of another and they are a ring.
LEMMA BlockedIsRing ==
    ASSUME TypeOK, NEW c \in Checkouts, Open(c),
           \A d \in Checkouts : Caller[d] = Caller[c] /\ Open(d) => Blocked(d)
    PROVE  Deadlocked(c)
<1> DEFINE ring == {d \in Checkouts : Caller[d] = Caller[c] /\ Open(d)}
<1>1. ~CartLocked(Caller[c])
  BY DEF CartLocked, Blocked, Open
<1>2. ASSUME NEW d \in ring
      PROVE  \E e \in ring \ {d} : /\ Caller[e] = Caller[d]
                                   /\ checkout[d].asked \cap checkout[e].got # {}
  <2>1. \E b \in checkout[d].asked : HeldFrom(d, b)
    BY <1>1, <1>2 DEF Blocked
  <2> QED
    BY <2>1, <1>2 DEF HeldFrom
<1>3. c \in ring /\ ring \in SUBSET Checkouts /\ \A d \in ring : Open(d)
  OBVIOUS
<1> QED
  BY <1>2, <1>3 DEF Deadlocked

\* However many checkouts a user has under way and wherever others broke off,
\* one of them goes on or is in a ring that InnoDB resolves.
THEOREM CheckoutsNeverStuck == Spec => []SomeoneGoesOn
<1>1. Init => TypeOK
  BY InitType
<1>2. TypeOK /\ [Next]_shopVars => TypeOK'
  BY NextType
<1>3. TypeOK => SomeoneGoesOn
  BY BlockedIsRing DEF SomeoneGoesOn
<1> QED
  BY <1>1, <1>2, <1>3, PTL DEF Spec

-----------------------------------------------------------------------------
\* Each step of the library is one of the server or of its readers.
LEMMA ServerSteps == [LibraryNext]_libraryVars => [Next]_shopVars
BY DEF LibraryNext, libraryVars, shopVars, AccessExpires, SignInAgain, Leave,
       ListPurchases, Browse, GetBook, Serve, Dismiss

\* Readers do not disturb the checkouts.
THEOREM LibraryServes == LibrarySpec => Spec
<1>1. LibraryInit => Init
  BY DEF LibraryInit
<1> QED
  BY <1>1, ServerSteps, PTL DEF LibrarySpec, Spec

\* So with them, too, the orders say what is owned, and no checkouts all wait.
THEOREM LibraryKeepsOrders == LibrarySpec => []OwnedIsOrdered /\ []SomeoneGoesOn
BY LibraryServes, OwnedMatchesOrders, CheckoutsNeverStuck

\* What a page shows and a call has found stays bought.
ShelfInv ==
    /\ LibraryTypeOK
    /\ \A u \in Users : shelf[u] \subseteq owned[u]
    /\ \A r \in Readings :
          /\ /\ reading[r].method \in BuyersMethods
                /\ reading[r].pc \in {"found", "served"}
             => reading[r].book \in owned[Reader[r]]
          /\ reading[r].listed => reading[r].pc # "denied"

LEMMA ShelfInit == LibraryInit => ShelfInv
<1> SUFFICES ASSUME LibraryInit
             PROVE  ShelfInv
  OBVIOUS
<1>1. TypeOK
  BY InitType DEF LibraryInit
<1> QED
  BY <1>1 DEF LibraryInit, ShelfInv, LibraryTypeOK, NoReading, Reading, Bearers, Roles,
             BuyersMethods

LEMMA OwnedGrows ==
    ASSUME TypeOK, [Next]_shopVars, NEW u \in Users
    PROVE  owned[u] \subseteq owned'[u]
<1>1. CASE owned' = owned
  BY <1>1
<1>2. ASSUME NEW c \in Checkouts, Commit(c)
      PROVE  owned[u] \subseteq owned'[u]
  BY <1>2 DEF Commit, TypeOK
<1>3. owned' = owned \/ \E c \in Checkouts : Commit(c)
  BY DEF Next, ServerStep, Victim, AddToCart, RemoveFromCart, Begin, FindEmpty,
         Ask, Buy, Clear, Abort, shopVars
<1> QED
  BY <1>1, <1>2, <1>3

LEMMA ShelfNext == ShelfInv /\ [LibraryNext]_libraryVars => ShelfInv'
<1> SUFFICES ASSUME ShelfInv, [LibraryNext]_libraryVars
             PROVE  ShelfInv'
  OBVIOUS
<1>0. TypeOK /\ [Next]_shopVars
  BY ServerSteps DEF ShelfInv, LibraryTypeOK
<1>1. TypeOK'
  BY <1>0, NextType
<1>2. \A u \in Users : owned[u] \subseteq owned'[u]
  BY <1>0, OwnedGrows
<1> USE LibraryAssumption DEF ShelfInv, LibraryTypeOK
<1>3. CASE UNCHANGED pageVars
  BY <1>1, <1>2, <1>3 DEF pageVars
<1>4. ASSUME NEW u \in Users,
             AccessExpires(u) \/ SignInAgain(u) \/ Leave(u) \/ ListPurchases(u)
      PROVE  ShelfInv'
  <2>1. UNCHANGED <<owned, reading>>
    BY <1>4 DEF AccessExpires, SignInAgain, Leave, ListPurchases
  <2>2. bearer' \in [Users -> Bearers]
    BY <1>4 DEF AccessExpires, SignInAgain, Leave, ListPurchases, Bearers, Roles
  <2>3. /\ shelf' \in [Users -> SUBSET Books]
        /\ \A v \in Users : shelf'[v] \subseteq owned[v]
    <3>1. CASE ListPurchases(u)
      <4>1. PICK rows \in Received(owned[u]) : shelf' = [shelf EXCEPT ![u] = rows]
        BY <3>1 DEF ListPurchases
      <4>2. rows \subseteq owned[u]
        BY <4>1, ReceivedIs
      <4> QED
        BY <1>0, <4>1, <4>2 DEF TypeOK
    <3>2. CASE ~ListPurchases(u)
      BY <1>0, <1>4, <3>2 DEF AccessExpires, SignInAgain, Leave, TypeOK
    <3> QED
      BY <3>1, <3>2
  <2> QED
    BY <1>1, <2>1, <2>2, <2>3
<1>5. ASSUME NEW r \in Readings,
             (\E b \in Books : Browse(r, b) \/ GetBook(r, b)) \/ Serve(r) \/ Dismiss(r)
      PROVE  ShelfInv'
  <2>1. UNCHANGED <<owned, bearer, shelf>>
    BY <1>5 DEF Browse, GetBook, Serve, Dismiss
  <2>2. PICK new \in Reading : /\ reading' = [reading EXCEPT ![r] = new]
                               /\ /\ new.method \in BuyersMethods
                                     /\ new.pc \in {"found", "served"}
                                  => new.book \in owned[Reader[r]]
                               /\ new.listed => new.pc # "denied"
    <3>1. CASE \E b \in Books : GetBook(r, b)
      <4>1. PICK b \in Books : GetBook(r, b)
        BY <3>1
      <4>2. b \in shelf[Reader[r]] => b \in owned[Reader[r]]
        OBVIOUS
      <4>5. PICK method \in BuyersMethods :
                   reading' = [reading EXCEPT
                     ![r] = [book   |-> b,
                             method |-> method,
                             listed |-> b \in shelf[Reader[r]],
                             pc     |-> IF HasPurchased(Reader[r], b) THEN "found" ELSE "denied"]]
        BY <4>1 DEF GetBook
      <4> DEFINE new == [book   |-> b,
                         method |-> method,
                         listed |-> b \in shelf[Reader[r]],
                         pc     |-> IF b \in owned[Reader[r]] THEN "found" ELSE "denied"]
      <4>3. new \in Reading
        BY <4>5 DEF Reading
      <4>4. reading' = [reading EXCEPT ![r] = new]
        BY <4>5 DEF HasPurchased
      <4> QED
        BY <4>2, <4>3, <4>4
    <3>4. CASE \E b \in Books : Browse(r, b)
      <4>1. PICK b \in Books, method \in CatalogMethods :
                   reading' = [reading EXCEPT ![r] = [book |-> b, method |-> method,
                                                     listed |-> FALSE, pc |-> "served"]]
        BY <3>4 DEF Browse
      <4> DEFINE new == [book |-> b, method |-> method, listed |-> FALSE, pc |-> "served"]
      <4>2. new \in Reading /\ new.method \notin BuyersMethods
        BY <4>1 DEF Reading, CatalogMethods, BuyersMethods
      <4>3. reading' = [reading EXCEPT ![r] = new]
        BY <4>1
      <4> QED
        BY <4>2, <4>3
    <3>2. CASE Serve(r)
      <4>1. [reading[r] EXCEPT !.pc = "served"] \in Reading
        BY DEF Reading
      <4>2. reading' = [reading EXCEPT ![r] = [reading[r] EXCEPT !.pc = "served"]]
        BY <3>2 DEF Serve
      <4> QED
        BY <3>2, <4>1, <4>2 DEF Serve, Reading
    <3>3. CASE Dismiss(r)
      <4>1. NoReading \in Reading
        BY DEF NoReading, Reading, BuyersMethods
      <4> QED
        BY <3>3, <4>1 DEF Dismiss, NoReading
    <3> QED
      BY <1>5, <3>1, <3>2, <3>3, <3>4
  <2>3. reading' \in [Readings -> Reading]
    BY <2>2
  <2> QED
    BY <1>1, <2>1, <2>2, <2>3
<1> QED
  BY <1>3, <1>4, <1>5 DEF LibraryNext, libraryVars, pageVars

\* The server and its readers keep their types.
THEOREM LibraryTypes == LibrarySpec => []LibraryTypeOK
<1>1. ShelfInv => LibraryTypeOK
  BY DEF ShelfInv
<1> QED
  BY <1>1, ShelfInit, ShelfNext, PTL DEF LibrarySpec

\* Who is given a text has bought the book by a committed order, unless the
\* preview, which is for everyone, has room for the text.
THEOREM LibraryTextIsBought == LibrarySpec => []TextIsBought
<1>1. ShelfInv /\ OwnedIsOrdered => TextIsBought
  BY LibraryAssumption DEF ShelfInv, OwnedIsOrdered, TextIsBought, Given, BuyersMethods
<1> QED
  BY <1>1, ShelfInit, ShelfNext, LibraryServes, OwnedMatchesOrders, PTL DEF LibrarySpec

\* A press on what the purchases page shows is never refused as not bought.
THEOREM LibraryNeverRefuses == LibrarySpec => []NeverRefused
<1>1. ShelfInv => NeverRefused
  BY DEF ShelfInv, NeverRefused
<1> QED
  BY <1>1, ShelfInit, ShelfNext, PTL DEF LibrarySpec
=============================================================================
