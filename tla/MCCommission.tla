---------------------------- MODULE MCCommission ----------------------------
(* The settings of the instance: an order is worth two credits of            *)
(* commission under the configuration, one under a rule and one, with a      *)
(* lower cap, under the override.                                            *)
EXTENDS Commission, TLC

MCConfig == [share |-> 2, cap |-> 3]
MCOverride == [share |-> 1, cap |-> 2]

\* The goroutines run the same code.
Interchangeable == Permutations(Jobs)

=============================================================================
