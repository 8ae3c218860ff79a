---------------------------- MODULE MCRequestTrace ----------------------------
EXTENDS RequestTrace, MCMiddleware, TLC

Interchangeable == Permutations(Requests)
=============================================================================
