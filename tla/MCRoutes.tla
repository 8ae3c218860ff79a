------------------------------- MODULE MCRoutes -------------------------------
EXTENDS Routes, MCMiddleware, TLC

Interchangeable == Permutations(Requests)
=============================================================================
