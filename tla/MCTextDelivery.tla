-------------------------- MODULE MCTextDelivery --------------------------
EXTENDS TextDelivery, TLC

Symmetric == Permutations(Client) \cup Permutations(Attempt)
=============================================================================
