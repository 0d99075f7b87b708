---------------------------- MODULE MCEvaluation ----------------------------
(***************************************************************************)
(* The instances of Evaluation that TLC checks.                            *)
(***************************************************************************)
EXTENDS Evaluation, TLC

\* The workers are interchangeable.
WorkerSymmetry == Permutations(Workers)
=============================================================================
