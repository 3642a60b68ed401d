--------------------------- MODULE MCCompletions ----------------------------
EXTENDS Completions, TLC

\* Requests are told apart by nothing but their names, and so are channels.
Interchangeable == Permutations(Requests) \union Permutations(Channels)

=============================================================================
