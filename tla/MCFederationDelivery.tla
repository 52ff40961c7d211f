------------------------ MODULE MCFederationDelivery ------------------------
EXTENDS FederationDelivery, TLC

CONSTANTS m1, m2, s1, s2, s3

Symmetry == Permutations(Slot)
=============================================================================
