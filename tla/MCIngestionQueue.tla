-------------------------- MODULE MCIngestionQueue --------------------------
(***************************************************************************)
(* Small instances of the ingestion queue.                                 *)
(***************************************************************************)
EXTENDS IngestionQueue, TLC

CONSTANTS
  s1, s2, s3,  \* three workspaces
  a, c         \* two texts

\* The short text and the long one do not both fit in a workspace of two bytes.
Lengths == [x \in Contents |-> IF x = c THEN 2 ELSE 1]

\* Two workspaces have the same joined ids: say, workspace "b:c" of "a" and
\* workspace "c" of "a:b"; workspace "d" of "a" has its own.
OneShared == [x \in {s1, s2, s3} |-> IF x = s3 THEN "a:d" ELSE "a:b:c"]

\* Workspaces s1 and s2 are interchangeable.
EitherOfTwo == Permutations({s1, s2})
=============================================================================
