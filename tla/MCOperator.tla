----------------------------- MODULE MCOperator -----------------------------
EXTENDS Operator, TLC

Interchangeable == 
    Permutations(Command) \union Permutations(Schedule) \union Permutations(Seat)
=============================================================================
