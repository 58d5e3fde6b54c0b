----------------------------- MODULE MCLogin --------------------------------
(* Instances of Login for TLC; e-mails, tokens and requests are alike. *)
EXTENDS Login, TLC

MCSymmetry ==
    Permutations(Emails \ Tokenless) \cup Permutations(Tokens) \cup Permutations(Requests)
=============================================================================
