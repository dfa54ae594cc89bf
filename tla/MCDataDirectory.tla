--------------------------- MODULE MCDataDirectory ---------------------------
\* Values of DataDirectory's constants for TLC: two workspaces that upload the
\* same two contents, each of which fills the quota.  Their joined ids differ;
\* workspaces that share them are left to DataDirectoryProofs.
EXTENDS DataDirectory, TLC

CONSTANTS w1, w2, d1, d2

TwoWorkspaces == {w1, w2}
TwoDigests == {d1, d2}
UnitSizes == [d \in TwoDigests |-> 1]
AllDistinct == [w \in TwoWorkspaces |-> w]
Interchangeable == Permutations(TwoWorkspaces) \cup Permutations(TwoDigests)
=============================================================================
