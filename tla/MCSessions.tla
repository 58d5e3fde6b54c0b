----------------------------- MODULE MCSessions -----------------------------
(* Instances of Sessions for TLC; e-mails, tokens and requests are alike. *)
EXTENDS Sessions, TLC

MCSymmetry ==
    Permutations(Emails \ Tokenless) \cup Permutations(Tokens) \cup Permutations(Requests)
=============================================================================
