--------------------------- MODULE MCWorkingMemory ---------------------------
(***************************************************************************)
(* Small instances of working sessions and their promotion.                *)
(***************************************************************************)
EXTENDS WorkingMemory, TLC

CONSTANTS
  m1, m2,       \* memories
  a, b,         \* sessions
  e1, e2,       \* entries
  short, long,  \* texts
  w1,           \* a workspace
  alice, bob    \* two users

OneOrganization == [w \in Workspaces |-> "own"]
AllUsers == [p \in Subjects |-> "user"]
NoAudience == {}

\* One memory is made for the long text, the other for the short one.
TextLengths == [t \in Texts |-> IF t = long THEN 2 ELSE 1]
MemoryLengths == [m \in Memories |-> IF m = m1 THEN 2 ELSE 1]

Interchangeable == UNION {Permutations(S) : S \in {Sessions, Entries, Subjects}}
==============================================================================
