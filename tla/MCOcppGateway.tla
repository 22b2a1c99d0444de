--------------------------- MODULE MCOcppGateway ---------------------------
EXTENDS OcppGateway, TLC

CONSTANTS s1, s2, g1, g2, cmd, m1

Interchangeable == Permutations(Instances)
=============================================================================
