-------------------------- MODULE MCBalanceLedger --------------------------
(* Small accounts for TLC: two units to a credit, so that half a credit,   *)
(* which rounds away, can be frozen.                                       *)
EXTENDS BalanceLedger, TLC

MCAdjustments == {-1}

RequestSymmetry == Permutations(Requests)
=============================================================================
