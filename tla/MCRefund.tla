------------------------------ MODULE MCRefund ------------------------------
(* One order of three RMB and refunds of one and two of them.              *)
EXTENDS Refund, TLC

CONSTANTS p1, r1, r2

MCPrice == [p \in Payments |-> 3]
MCOrderOf == [r \in Refunds |-> p1]
MCAmountOf == [r \in Refunds |-> IF r = r1 THEN 1 ELSE 2]

OrderSymmetry == Permutations(Reviews) \union Permutations(Deliveries)
=============================================================================
