---------------------------- MODULE MCProcessing ----------------------------
(* Small instances of Processing: any requests, concurrent calls.          *)
EXTENDS Processing, TLC

\* The slots a call may be served in are interchangeable.
RunSymmetry == Permutations(Runs)
=============================================================================
