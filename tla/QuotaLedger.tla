------------------------------ MODULE QuotaLedger ------------------------------
(***************************************************************************)
(* What the quota of a user promises, whatever requests overlap: a         *)
(* resource is added only by a step that charges for it, and that step     *)
(* finds room for everything it charges.  Resources may go away without a  *)
(* refund and refunds may be given for nothing: the service promises       *)
(* neither.  ResourceQuota implements this specification.                  *)
(***************************************************************************)
EXTENDS Integers

CONSTANT Keys       \* the kinds of quota

VARIABLES
    usage,          \* what the quota row says is used
    limit,          \* what it allows
    live            \* how many resources there are

ledger == <<usage, limit, live>>

LedgerInit ==
    /\ usage \in [Keys -> Nat]
    /\ limit \in [Keys -> Nat]
    /\ live \in [Keys -> Nat]

Charge(k) ==
    \E n \in 1..(limit[k] - usage[k]) :
        /\ usage' = [usage EXCEPT ![k] = @ + n]
        /\ \E m \in 0..n : live' = [live EXCEPT ![k] = @ + m]
        /\ UNCHANGED limit

Refund(k) ==
    /\ usage'[k] <= usage[k]
    /\ usage' = [usage EXCEPT ![k] = usage'[k]]
    /\ live'[k] <= live[k]
    /\ live' = [live EXCEPT ![k] = live'[k]]
    /\ UNCHANGED limit

\* The administrator sets any of the limits.
SetLimits == UNCHANGED <<usage, live>>

\* The administrator's recount replaces the usage by what it has counted.
Recount == UNCHANGED <<limit, live>>

LedgerNext == SetLimits \/ Recount \/ \E k \in Keys : Charge(k) \/ Refund(k)

Ledger == LedgerInit /\ [][LedgerNext]_ledger
===============================================================================
