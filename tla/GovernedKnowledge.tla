-------------------------- MODULE GovernedKnowledge --------------------------
(***************************************************************************)
(* What the memory subsystem promises about knowledge that crosses         *)
(* workspaces, with no trace of lifecycles, versions, reviews, deadlines   *)
(* or tables.  A memory is eligible for readers during one interval: once  *)
(* it has been withdrawn, nothing brings it back.  Becoming eligible       *)
(* shows it to no other workspace.  A grant appears by a decision about    *)
(* that one memory and that one audience, while the memory is eligible,    *)
(* and disappears with it.                                                 *)
(***************************************************************************)
CONSTANTS Memories, Audiences

VARIABLES
  eligible,   \* memories a reader of their own workspace may be given
  withdrawn,  \* memories that were eligible, or might have become so, and never will
  granted     \* <<memory, audience>>: others who may be given the memory

knowledgeVars == <<eligible, withdrawn, granted>>

KnowledgeInit ==
  /\ eligible = {}
  /\ withdrawn = {}
  /\ granted = {}

BecomeEligible(m) ==
  /\ m \notin eligible \cup withdrawn
  /\ eligible' = eligible \cup {m}
  /\ UNCHANGED <<withdrawn, granted>>

Grant(m, a) ==
  /\ m \in eligible
  /\ <<m, a>> \notin granted
  /\ granted' = granted \cup {<<m, a>>}
  /\ UNCHANGED <<eligible, withdrawn>>

\* Memories are withdrawn, with every grant about them, and other grants end.
Lose(M, G) ==
  /\ M \cap withdrawn = {}
  /\ eligible' = eligible \ M
  /\ withdrawn' = withdrawn \cup M
  /\ granted' = {g \in granted \ G : g[1] \notin M}

KnowledgeNext ==
  \/ \E m \in Memories : BecomeEligible(m)
  \/ \E m \in Memories, a \in Audiences : Grant(m, a)
  \/ \E M \in SUBSET Memories, G \in SUBSET (Memories \X Audiences) : Lose(M, G)

KnowledgeSpec == KnowledgeInit /\ [][KnowledgeNext]_knowledgeVars
==============================================================================
