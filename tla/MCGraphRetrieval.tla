--------------------------- MODULE MCGraphRetrieval ---------------------------
\* Values of GraphRetrieval's constants for TLC: three chunks of two terms make
\* a path of three hops, a triangle or three witnesses of one edge.
EXTENDS GraphRetrieval, TLC

CONSTANTS w1, w2, t1, t2, t3, t4, c1, c2, c3

TwoWorkspaces == {w1, w2}
FourTerms == {t1, t2, t3, t4}
ThreeChunks == {c1, c2, c3}
Interchangeable == Permutations(FourTerms) \cup Permutations(TwoWorkspaces)
=============================================================================
