---------------------------- MODULE MCContainerStop ----------------------------
EXTENDS ContainerStop, TLC

Interchangeable == Permutations(Conns)
=============================================================================
