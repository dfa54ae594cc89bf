--------------------------- MODULE MCDurableMemory ---------------------------
(***************************************************************************)
(* Small instances of durable memory and sharing.                          *)
(***************************************************************************)
EXTENDS DurableMemory, TLC

CONSTANTS
  m1, m2,       \* memories
  g1, g2,       \* grants
  w1, w2, x1,   \* two workspaces of one organization, one of another
  alice, bot    \* a user and an agent

Organizations == [w \in Workspaces |-> IF w = x1 THEN "other" ELSE "own"]
Kinds == [p \in Subjects |-> IF p = bot THEN "agent" ELSE "user"]
UnitLengths == [m \in Memories |-> 1]

NoAudience == {}
Everyone == [kind |-> "organization", target |-> None]
Readers == [kind |-> "workspace", target |-> w2]
OnlyEveryone == {Everyone}
Assistant == [kind |-> "agent", target |-> bot]
Alice == [kind |-> "user", target |-> alice]
AllAudiences == {Everyone, Readers, Assistant, Alice}

Interchangeable == Permutations(Memories) \cup Permutations(Shares)
==============================================================================
