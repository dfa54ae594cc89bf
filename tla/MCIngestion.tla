----------------------------- MODULE MCIngestion -----------------------------
(***************************************************************************)
(* Small instances of ingestion with its three projections.                *)
(***************************************************************************)
EXTENDS Ingestion, TLC

CONSTANTS
  s1, s2,   \* two workspaces
  a, b      \* two texts

\* Each text is cut into two chunks.
Cuts == [x \in Contents |-> 2]

\* No two workspaces have the same joined ids.
AllDistinct == [x \in Scopes |-> x]

\* The workspaces are interchangeable, and so are the texts.
Interchangeable == Permutations({s1, s2}) \cup Permutations({a, b})

UnitLengths == [x \in Contents |-> 1]
=============================================================================
