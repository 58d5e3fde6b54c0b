----------------------------- MODULE Purchasing -----------------------------
(***************************************************************************)
(* What the shop promises a buyer (README.md 29-31): a book put into the   *)
(* cart stays there until the buyer takes it out or buys the cart, buying  *)
(* sells just what is in the cart and empties it, and what is owned is not *)
(* put up for sale to its owner again.                                     *)
(***************************************************************************)
CONSTANTS Users, Books

VARIABLES cart, owned

buyerVars == <<cart, owned>>

Init ==
    /\ cart = [u \in Users |-> {}]
    /\ owned = [u \in Users |-> {}]

Put(u, b) ==
    /\ b \notin owned[u]
    /\ cart' = [cart EXCEPT ![u] = @ \cup {b}]
    /\ UNCHANGED owned

TakeOut(u, b) ==
    /\ cart' = [cart EXCEPT ![u] = @ \ {b}]
    /\ UNCHANGED owned

BuyCart(u) ==
    /\ cart[u] # {}
    /\ cart' = [cart EXCEPT ![u] = {}]
    /\ owned' = [owned EXCEPT ![u] = @ \cup cart[u]]

Next ==
    \E u \in Users : \/ \E b \in Books : Put(u, b) \/ TakeOut(u, b)
                     \/ BuyCart(u)

Spec == Init /\ [][Next]_buyerVars
=============================================================================
