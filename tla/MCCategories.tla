---------------------------- MODULE MCCategories ----------------------------
(* Two publishings of one book and one of another, with labels in common,  *)
(* beside a call that reads.                                               *)
EXTENDS Catalog, TLC

CONSTANTS q1, b1, b2, u1, u2, u3, l1, l2

MCBookOf == u1 :> b1 @@ u2 :> b1 @@ u3 :> b2

\* A usable answer, one that is cut off after three labels of which one is
\* blank, and one whose labels come in another order; none is an answer that
\* is not usable.
MCAnswer ==
    u1 :> [form |-> "mistyped", labels |-> <<l1, l2>>]
    @@ u2 :> [form |-> "garbled", labels |-> <<l2>>]
    @@ u3 :> [form |-> "fenced", labels |-> <<l2, Blank, l1, l2>>]
=============================================================================
