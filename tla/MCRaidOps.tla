------------------------------ MODULE MCRaidOps ------------------------------
EXTENDS RaidOps, TLC

CONSTANTS a1, a2, p1, p2, d1, d2, d3, d4, ds, v1, v2

Symmetry == Permutations({p1, p2}) \cup Permutations({d1, d2}) \cup Permutations({d3, d4}) \cup Permutations({v1, v2})
=============================================================================
