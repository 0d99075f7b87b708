-------------------------- MODULE MCCollectionSummary --------------------------
(***************************************************************************)
(* Small instances of CollectionSummary for TLC.                           *)
(***************************************************************************)
EXTENDS CollectionSummary
===============================================================================
