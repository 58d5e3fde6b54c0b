------------------------------ MODULE Checkout ------------------------------
(***************************************************************************)
(* Cart, orders and purchases on the server                                *)
(* (backend/internal/storage/database.go 644-733, backend/sql/002_shop.sql)*)
(*                                                                         *)
(* Every request but Checkout is one statement that commits by itself.     *)
(* Checkout is one transaction at InnoDB's default isolation: it reads the *)
(* cart from a snapshot and takes no lock, it locks the purchase of each   *)
(* book it sells until it ends, and its DELETE sees the cart as it is by   *)
(* then, not as the transaction read it.  Prices are written once, with    *)
(* the book, so what an order costs follows from its books.                *)
(***************************************************************************)
EXTENDS FiniteSets

CONSTANTS
    Users, Books,
    Checkouts,   \* the Checkout calls there ever are, each with its order
    Caller,      \* Caller[c]: the user who makes call c
    ReadsBreak   \* MySQL may end a statement while it sends its rows

ASSUME CheckoutAssumption ==
    /\ Caller \in [Checkouts -> Users]
    /\ ReadsBreak \in BOOLEAN

VARIABLES
    cart,      \* cart[u]: committed rows of cart_items
    owned,     \* owned[u]: committed rows of purchases
    checkout   \* checkout[c]: the call c and, once it committed, its order

shopVars == <<cart, owned, checkout>>

\* pc: next point of the call; ids: the books it read from the cart;
\* asked: the purchase its current statement is for; got: those it has written
\* and holds locked.
Call == [pc    : {"idle", "selling", "cleared", "committed", "empty", "aborted"},
         ids   : SUBSET Books,
         asked : SUBSET Books,
         got   : SUBSET Books]

TypeOK ==
    /\ cart \in [Users -> SUBSET Books]
    /\ owned \in [Users -> SUBSET Books]
    /\ checkout \in [Checkouts -> Call]
    /\ \A c \in Checkouts : /\ checkout[c].pc = "idle" => checkout[c].ids = {}
                            /\ checkout[c].got \subseteq checkout[c].ids
                            /\ checkout[c].asked \subseteq checkout[c].ids \ checkout[c].got

Init ==
    /\ cart = [u \in Users |-> {}]
    /\ owned = [u \in Users |-> {}]
    /\ checkout = [c \in Checkouts |->
                      [pc |-> "idle", ids |-> {}, asked |-> {}, got |-> {}]]

-----------------------------------------------------------------------------
Open(c) == checkout[c].pc \in {"selling", "cleared"}

\* The cart rows of u, and the gaps between them, are locked by a DELETE.
CartLocked(u) == \E c \in Checkouts : Caller[c] = u /\ checkout[c].pc = "cleared"

\* Mutant: an error path returns without the rollback, and keeps its locks.
HeldByBroken(c, b) ==
    \E d \in Checkouts \ {c} :
        /\ checkout[d].pc \in {"selling", "cleared", "aborted"}
        /\ Caller[d] = Caller[c]
        /\ b \in checkout[d].got

\* Another open transaction has written the purchase of b by c's user.
HeldFrom(c, b) ==
    \E d \in Checkouts \ {c} : Open(d) /\ Caller[d] = Caller[c] /\ b \in checkout[d].got

\* Calls that wait in a ring: each for a purchase another of them holds.
Deadlocked(c) ==
    \E ring \in SUBSET Checkouts :
        /\ c \in ring
        /\ \A d \in ring :
              /\ Open(d)
              /\ \E e \in ring \ {d} :
                    /\ Caller[e] = Caller[d]
                    /\ checkout[d].asked \cap checkout[e].got # {}

\* The statement c is at, an upsert or the DELETE, has to wait for a lock.
Blocked(c) ==
    /\ checkout[c].pc = "selling"
    /\ \/ \E b \in checkout[c].asked : HeldFrom(c, b)
       \/ checkout[c].asked = {} /\ checkout[c].got = checkout[c].ids /\ CartLocked(Caller[c])

-----------------------------------------------------------------------------
\* The server does not ask whether the book is owned already, or READY.
AddToCart(u, b) ==
    /\ ~CartLocked(u)
    /\ cart' = [cart EXCEPT ![u] = @ \cup {b}]
    /\ UNCHANGED <<owned, checkout>>

RemoveFromCart(u, b) ==
    /\ ~CartLocked(u)
    /\ cart' = [cart EXCEPT ![u] = @ \ {b}]
    /\ UNCHANGED <<owned, checkout>>

\* What is taken for the rows by a read that does not ask, when no more come,
\* whether it has had them all.
Received(rows) == IF ReadsBreak THEN SUBSET rows ELSE {rows}

\* The snapshot read and the order row, which no one else reads.
Begin(c) ==
    /\ checkout[c].pc = "idle"
    /\ \E ids \in Received(cart[Caller[c]]) \ {{}} :
          checkout' = [checkout EXCEPT ![c].pc = "selling", ![c].ids = ids]
    /\ UNCHANGED <<cart, owned>>

FindEmpty(c) ==
    /\ checkout[c].pc = "idle"
    /\ {} \in Received(cart[Caller[c]])
    /\ checkout' = [checkout EXCEPT ![c].pc = "empty"]
    /\ UNCHANGED <<cart, owned>>

\* Mutant: the loop comes back to a book it has sold.
AskAgain(c, b) ==
    /\ checkout[c].pc = "selling"
    /\ checkout[c].asked = {}
    /\ b \in checkout[c].ids
    /\ checkout' = [checkout EXCEPT ![c].asked = {b}]
    /\ UNCHANGED <<cart, owned>>

\* The order item of b, which only this order has, and the statement for the
\* purchase of b; the SELECT promises no order of the books.
Ask(c, b) ==
    /\ checkout[c].pc = "selling"
    /\ checkout[c].asked = {}
    /\ b \in checkout[c].ids \ checkout[c].got
    /\ checkout' = [checkout EXCEPT ![c].asked = {b}]
    /\ UNCHANGED <<cart, owned>>

\* Mutant: the purchase is written through the pool, not the transaction.
BuyOutside(c) ==
    /\ checkout[c].pc = "selling"
    /\ checkout[c].asked # {}
    /\ owned' = [owned EXCEPT ![Caller[c]] = @ \cup checkout[c].asked]
    /\ checkout' = [checkout EXCEPT ![c].got = @ \cup checkout[c].asked,
                                    ![c].asked = {}]
    /\ UNCHANGED cart

Buy(c) ==
    /\ checkout[c].pc = "selling"
    /\ checkout[c].asked # {}
    /\ \A b \in checkout[c].asked : ~HeldFrom(c, b)
    /\ checkout' = [checkout EXCEPT ![c].got = @ \cup checkout[c].asked,
                                    ![c].asked = {}]
    /\ UNCHANGED <<cart, owned>>

\* Mutant: the loop over the books is left after the first of them.
ClearEarly(c) ==
    /\ checkout[c].pc = "selling"
    /\ checkout[c].asked = {}
    /\ checkout[c].got # {}
    /\ ~CartLocked(Caller[c])
    /\ checkout' = [checkout EXCEPT ![c].pc = "cleared"]
    /\ UNCHANGED <<cart, owned>>

Clear(c) ==
    /\ checkout[c].pc = "selling"
    /\ checkout[c].asked = {}
    /\ checkout[c].got = checkout[c].ids
    /\ ~CartLocked(Caller[c])
    /\ checkout' = [checkout EXCEPT ![c].pc = "cleared"]
    /\ UNCHANGED <<cart, owned>>

\* Mutant: the cart is not cleared.
CommitOnly(c) ==
    /\ checkout[c].pc = "cleared"
    /\ owned' = [owned EXCEPT ![Caller[c]] = @ \cup checkout[c].got]
    /\ checkout' = [checkout EXCEPT ![c].pc = "committed"]
    /\ UNCHANGED cart

\* Until here readers have seen the cart as it was; its writers have waited.
Commit(c) ==
    /\ checkout[c].pc = "cleared"
    /\ cart' = [cart EXCEPT ![Caller[c]] = {}]
    /\ owned' = [owned EXCEPT ![Caller[c]] = @ \cup checkout[c].got]
    /\ checkout' = [checkout EXCEPT ![c].pc = "committed"]

\* A failed statement, a client that is gone, a server or a MySQL that stops:
\* the transaction is rolled back and its locks are free.
Abort(c) ==
    /\ Open(c)
    /\ checkout' = [checkout EXCEPT ![c].pc = "aborted"]
    /\ UNCHANGED <<cart, owned>>

\* Mutant: the server runs with the detection of deadlocks switched off.
NoVictim(c) == FALSE

\* InnoDB rolls back one of the transactions that wait for each other.
Victim(c) == Deadlocked(c) /\ Abort(c)

-----------------------------------------------------------------------------
ServerStep(c) ==
    \/ \E b \in Books : Ask(c, b)
    \/ Buy(c)
    \/ Clear(c)
    \/ Commit(c)

Next ==
    \/ \E u \in Users, b \in Books : AddToCart(u, b) \/ RemoveFromCart(u, b)
    \/ \E c \in Checkouts : \/ Begin(c) \/ FindEmpty(c)
                            \/ ServerStep(c)
                            \/ Victim(c) \/ Abort(c)

Spec == Init /\ [][Next]_shopVars

\* A transaction goes on as long as no lock stops it, and a deadlock is found.
FairSpec ==
    /\ Spec
    /\ \A c \in Checkouts : WF_shopVars(ServerStep(c))
    /\ WF_shopVars(\E c \in Checkouts : Victim(c))

-----------------------------------------------------------------------------
Ordered(u) ==
    UNION {checkout[c].ids :
              c \in {d \in Checkouts : Caller[d] = u /\ checkout[d].pc = "committed"}}

(***************************************************************************)
(* What a user owns is what the orders say, whatever calls interleave and  *)
(* wherever they break off: database.go 703-732 writes both or neither.    *)
(***************************************************************************)
OwnedIsOrdered == \A u \in Users : owned[u] = Ordered(u)

(***************************************************************************)
(* Checkouts of one user never all wait without a ring among them, which   *)
(* InnoDB would find: the purchases of a call wait for the purchases of    *)
(* another, its DELETE for a call that has none to wait for, and every way *)
(* out lets the locks go (database.go 699-731).                            *)
(***************************************************************************)
SomeoneGoesOn ==
    \A c \in Checkouts :
        Open(c) => \E d \in Checkouts :
                      /\ Caller[d] = Caller[c]
                      /\ Open(d)
                      /\ ~Blocked(d) \/ Deadlocked(d)

(***************************************************************************)
(* No call waits for ever: locks are let go, and of calls that wait for    *)
(* each other one is rolled back (database.go 666-733).                    *)
(***************************************************************************)
CheckoutsEnd == \A c \in Checkouts : Open(c) ~> ~Open(c)

=============================================================================
