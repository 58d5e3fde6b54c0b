---------------------------- MODULE MCStorefront ----------------------------
(* Instances of Storefront for TLC: who makes the calls. *)
EXTENDS Storefront

CONSTANTS u1

\* All calls of one buyer.
MCOneCaller == [c \in Checkouts |-> u1]
=============================================================================
