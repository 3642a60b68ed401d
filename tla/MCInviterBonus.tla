--------------------------- MODULE MCInviterBonus ---------------------------
(* Invitees and callbacks are told apart by their names only.                *)
EXTENDS InviterBonus, TLC

Interchangeable == Permutations(Invitees) \union Permutations(Calls)

=============================================================================
