----------------------------- MODULE MCLibrary -----------------------------
(* Instances of Library for TLC: who makes the calls. *)
EXTENDS Library

CONSTANTS u1

\* All calls of one user; users share no rows.
MCOneCaller == [c \in Checkouts |-> u1]
MCOneReader == [r \in Readings |-> u1]
=============================================================================
