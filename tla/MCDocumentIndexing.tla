------------------------- MODULE MCDocumentIndexing -------------------------
(***************************************************************************)
(* Small instances of DocumentIndexing for TLC.  The actors, the index     *)
(* types and the bounds are given in the cfg of each run.                  *)
(***************************************************************************)
EXTENDS DocumentIndexing, TLC

\* Overlapping reconcilers are interchangeable, and so are workers (used by
\* the safety run only).
ActorSymmetry == Permutations(Reconcilers) \cup Permutations(Workers)

=============================================================================
