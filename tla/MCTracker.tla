----------------------------- MODULE MCTracker -----------------------------
EXTENDS Tracker, TLC

\* The lower block is not set, as in the deployment, or set to the first one.
LowerBlocks == {Unset, 1}

Interchangeable == Permutations(Token) \union Permutations(Address)
=============================================================================
