--------------------------- MODULE MCAdminConsole ---------------------------
(* Small instances of AdminConsole.                                        *)
EXTENDS PublishingRefinement, TLC

\* The slots a call may be served in are interchangeable.
RunSymmetry == Permutations(Runs)
=============================================================================
