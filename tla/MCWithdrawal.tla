---------------------------- MODULE MCWithdrawal ----------------------------
(* Three requests and two concurrent calls for TLC.                        *)
EXTENDS Withdrawal, TLC

WithdrawalSymmetry == Permutations(Requests) \union Permutations(Calls)
=============================================================================
