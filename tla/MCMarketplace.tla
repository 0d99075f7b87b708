----------------------------- MODULE MCMarketplace -----------------------------
(***************************************************************************)
(* A small instance of Marketplace for TLC: the owner and one user.        *)
(***************************************************************************)
EXTENDS Marketplace
=============================================================================
