------------------------------ MODULE MCWasiFds ------------------------------
EXTENDS WasiFds, TLC
ReadOnlyOrReadWrite == {{"read"}, {"read", "write"}}
Interchangeable == Permutations(Tasks)
==============================================================================
