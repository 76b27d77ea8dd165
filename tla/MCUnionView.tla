----------------------------- MODULE MCUnionView -----------------------------
EXTENDS UnionView, TLC
==============================================================================
