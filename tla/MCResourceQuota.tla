---------------------------- MODULE MCResourceQuota ----------------------------
(***************************************************************************)
(* Small instances of ResourceQuota for TLC.                               *)
(***************************************************************************)
EXTENDS ResourceQuota, TLC

\* One collection, one bot and two documents.
MCLimits == [k \in Keys |-> IF k = "max_document_count" THEN 2 ELSE 1]

RequestSymmetry == Permutations(Requests)
===============================================================================
