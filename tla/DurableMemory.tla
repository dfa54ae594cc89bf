---------------------------- MODULE DurableMemory ----------------------------
(***************************************************************************)
(* Durable memories, the grants that share them, and the context packages  *)
(* compiled from both: the tables MEMORIES and MEMORY_SHARES of store.rs   *)
(* with the handlers that write and read them.                             *)
(*                                                                         *)
(* Every operation holds the one store mutex and commits one redb          *)
(* transaction, which also appends to the outbox, so it is one action.     *)
(* Principals, roles and guardrails are checked in earlier acquisitions    *)
(* of the mutex and the audit event is written in a later one; they are    *)
(* not part of this module.  What is interleaved here are the operations   *)
(* of different principals on related records, and the passing of the      *)
(* deadlines that memories and grants carry: a deadline that has come is   *)
(* recorded only when some later operation looks.                          *)
(*                                                                         *)
(* A definition named Bug_... is a mutant: a plausible mistake in the      *)
(* definition that follows it, which no action uses.                       *)
(***************************************************************************)
EXTENDS Naturals, Sequences, FiniteSets, FiniteSetsExt

CONSTANTS
  Memories,        \* the UUIDs memories are given
  Shares,          \* the UUIDs grants are given
  Workspaces,      \* workspaces of all organizations
  OrganizationOf,  \* OrganizationOf[w] is the organization of workspace w
  Subjects,        \* API-key identities
  KindOf,          \* KindOf[p] is the subject_kind of p, "agent" or "user"
  Audiences,       \* the audiences that owners name in grants
  Bytes,           \* Bytes[m] is the length of the content of m
  None,            \* an absent Option
  MaxRetention,    \* MAX_MEMORY_RETENTION_MS
  MaxMemories,     \* WorkspaceLimits.max_memories
  MaxMemoryBytes,  \* WorkspaceLimits.max_memory_bytes
  MaxTime          \* bound of the model on the clock

ASSUME MemoryAssumption ==
  /\ None \notin Memories \cup Shares \cup Workspaces \cup Subjects \cup Audiences \cup Nat
  /\ DOMAIN OrganizationOf = Workspaces
  /\ KindOf \in [Subjects -> {"agent", "user"}]
  /\ Audiences \subseteq
       [kind : {"organization"}, target : {None}]
       \cup [kind : {"workspace"}, target : Workspaces]
       \cup [kind : {"agent", "user"}, target : Subjects]
  /\ Bytes \in [Memories -> Nat \ {0}]
  /\ MaxRetention \in Nat \ {0} /\ MaxMemories \in Nat /\ MaxMemoryBytes \in Nat
  /\ MaxTime \in Nat

VARIABLES
  now,            \* the clock every operation reads
  lifecycle,      \* Memory.lifecycle, "absent" before the memory is created
  workspace,      \* Memory.workspace_id
  expiresAt,      \* Memory.expires_at_unix_ms
  supersededBy,   \* Memory.superseded_by
  version,        \* Memory.version
  memoryEvents,   \* lifecycles announced in the outbox, oldest first
  shareState,     \* MemoryShare.state, "absent" before the grant is proposed
  sharedMemory,   \* MemoryShare.memory_id; its workspace is the source workspace
  audience,       \* MemoryShare.audience
  shareExpiry,    \* MemoryShare.expires_at_unix_ms
  sharedVersion,  \* MemoryShare.source_memory_version
  shareEvents     \* review states announced in the outbox, oldest first

memoryVars == <<lifecycle, workspace, expiresAt, supersededBy, version, memoryEvents>>
shareVars  == <<shareState, sharedMemory, audience, shareExpiry, sharedVersion, shareEvents>>
vars == <<now, memoryVars, shareVars>>

Lifecycles == {"proposed", "validated", "published", "superseded", "expired"}
ShareStates == {"pending", "approved", "rejected", "revoked"}

-----------------------------------------------------------------------------
Init ==
  /\ now = 0
  /\ lifecycle = [m \in Memories |-> "absent"]
  /\ workspace = [m \in Memories |-> None]
  /\ expiresAt = [m \in Memories |-> None]
  /\ supersededBy = [m \in Memories |-> None]
  /\ version = [m \in Memories |-> 0]
  /\ memoryEvents = [m \in Memories |-> <<>>]
  /\ shareState = [s \in Shares |-> "absent"]
  /\ sharedMemory = [s \in Shares |-> None]
  /\ audience = [s \in Shares |-> None]
  /\ shareExpiry = [s \in Shares |-> None]
  /\ sharedVersion = [s \in Shares |-> 0]
  /\ shareEvents = [s \in Shares |-> <<>>]

Stored == {m \in Memories : lifecycle[m] # "absent"}

\* A deadline has come at the instant it names, not after it.
Passed(d) == d # None /\ d <= now

\* Deadlines a request may carry: none, or one in the future within a year.
Deadlines == {None} \cup (now + 1)..(now + MaxRetention)

Retrievable(m) == lifecycle[m] = "published" /\ ~Passed(expiresAt[m])

-----------------------------------------------------------------------------
(* Memories *)

MemoriesOf(w) == {m \in Stored : workspace[m] = w}
MemoryBytes(w) == SumFunction([m \in MemoriesOf(w) |-> Bytes[m]])

\* Memories of every lifecycle count, the expired and superseded ones too.
AdmitsMemory(w, m) ==
  /\ Cardinality(MemoriesOf(w)) < MaxMemories
  /\ MemoryBytes(w) + Bytes[m] <= MaxMemoryBytes

\* POST /v1/memories, and the promotion of an entry of a working session.
CreateMemory(m, w, d) ==
  /\ lifecycle[m] = "absent"
  /\ AdmitsMemory(w, m)
  /\ lifecycle' = [lifecycle EXCEPT ![m] = "proposed"]
  /\ workspace' = [workspace EXCEPT ![m] = w]
  /\ expiresAt' = [expiresAt EXCEPT ![m] = d]
  /\ version' = [version EXCEPT ![m] = 1]
  /\ memoryEvents' = [memoryEvents EXCEPT ![m] = <<"proposed">>]
  /\ UNCHANGED <<now, supersededBy, shareVars>>

Bug_TerminalMayBePublished(from, to) ==
  \/ from = "proposed" /\ to = "validated"
  \/ from \in {"validated", "superseded"} /\ to = "published"
  \/ from \in {"proposed", "validated", "published"} /\ to = "expired"
  \/ from = "published" /\ to = "superseded"

ValidTransition(from, to) ==
  \/ from = "proposed" /\ to = "validated"
  \/ from = "validated" /\ to = "published"
  \/ from \in {"proposed", "validated", "published"} /\ to = "expired"
  \/ from = "published" /\ to = "superseded"

Bug_ReplacementOnlyExists(m, r) == r \in Stored /\ r # m /\ workspace[r] = workspace[m]
Bug_ReplacementAnywhere(m, r) == r \in Memories /\ r # m /\ Retrievable(r)

\* r may take the place of m.
Replaces(m, r) ==
  /\ r \in Memories
  /\ r # m
  /\ workspace[r] = workspace[m]
  /\ Retrievable(r)

\* One transaction changes the lifecycle, counts a version, and announces both.
Enter(m, to) ==
  /\ lifecycle' = [lifecycle EXCEPT ![m] = to]
  /\ version' = [version EXCEPT ![m] = @ + 1]
  /\ memoryEvents' = [memoryEvents EXCEPT ![m] = Append(@, to)]

\* POST /v1/memories/{id}/lifecycle.  A request names a replacement only to
\* supersede, but any UUID it names is stored.  The deadline of the memory is
\* replaced when the request carries one, and is not looked at otherwise.
TransitionMemory(m, to, d, r) ==
  /\ lifecycle[m] # "absent"
  /\ ValidTransition(lifecycle[m], to)
  /\ to = "superseded" => Replaces(m, r)
  /\ Enter(m, to)
  /\ expiresAt' = [expiresAt EXCEPT ![m] = IF d = None THEN @ ELSE d]
  /\ supersededBy' = [supersededBy EXCEPT ![m] = r]
  /\ UNCHANGED <<now, workspace, shareVars>>

\* Memories whose deadline has come and has not been recorded.
Due ==
  {m \in Memories : /\ lifecycle[m] \in {"proposed", "validated", "published"}
                    /\ Passed(expiresAt[m])}

Bug_ExpiryPurges ==
  /\ lifecycle' = [m \in Memories |-> IF m \in Due THEN "absent" ELSE lifecycle[m]]
  /\ UNCHANGED <<version, memoryEvents>>
Bug_ExpiryNotAnnounced ==
  /\ lifecycle' = [m \in Memories |-> IF m \in Due THEN "expired" ELSE lifecycle[m]]
  /\ version' = [m \in Memories |-> IF m \in Due THEN version[m] + 1 ELSE version[m]]
  /\ UNCHANGED memoryEvents

\* All due memories of all organizations expire in one transaction.
EnterExpired ==
  /\ lifecycle' = [m \in Memories |-> IF m \in Due THEN "expired" ELSE lifecycle[m]]
  /\ version' = [m \in Memories |-> IF m \in Due THEN version[m] + 1 ELSE version[m]]
  /\ memoryEvents' = [m \in Memories |-> IF m \in Due THEN Append(memoryEvents[m], "expired")
                                                      ELSE memoryEvents[m]]

\* The boot, and the reads GET /v1/memories/{id}, POST /v1/retrieve and
\* POST /v1/context-packages before they look at the tables.
ExpireDueMemories ==
  /\ Due # {}
  /\ EnterExpired
  /\ UNCHANGED <<now, workspace, expiresAt, supersededBy, shareVars>>

-----------------------------------------------------------------------------
(* Grants *)

Bug_ApprovedMayBeRenewed(m, a) ==
  \A s \in Shares : sharedMemory[s] = m /\ audience[s] = a => shareState[s] # "pending"

\* No grant of m to a is pending or approved, whatever its deadline.
NoCompetingGrant(m, a) ==
  \A s \in Shares :
    sharedMemory[s] = m /\ audience[s] = a => shareState[s] \notin {"pending", "approved"}

\* POST /v1/memory-shares: the source workspace is that of the memory.
ProposeShare(s, m, a, d) ==
  /\ shareState[s] = "absent"
  /\ Retrievable(m)
  /\ NoCompetingGrant(m, a)
  /\ shareState' = [shareState EXCEPT ![s] = "pending"]
  /\ sharedMemory' = [sharedMemory EXCEPT ![s] = m]
  /\ audience' = [audience EXCEPT ![s] = a]
  /\ shareExpiry' = [shareExpiry EXCEPT ![s] = d]
  /\ sharedVersion' = [sharedVersion EXCEPT ![s] = version[m]]
  /\ shareEvents' = [shareEvents EXCEPT ![s] = <<"pending">>]
  /\ UNCHANGED <<now, memoryVars>>

CanTransitionTo(from, to) ==
  \/ from = "pending" /\ to \in {"approved", "rejected", "revoked"}
  \/ from = "approved" /\ to = "revoked"

\* POST /v1/memory-shares/{id}/review: an approval looks at the memory again,
\* but not at the deadline of the grant.
ReviewShare(s, to) ==
  /\ shareState[s] # "absent"
  /\ CanTransitionTo(shareState[s], to)
  /\ to = "approved" => Retrievable(sharedMemory[s])
  /\ shareState' = [shareState EXCEPT ![s] = to]
  /\ shareEvents' = [shareEvents EXCEPT ![s] = Append(@, to)]
  /\ UNCHANGED <<now, memoryVars, sharedMemory, audience, shareExpiry, sharedVersion>>

-----------------------------------------------------------------------------
(* Context packages *)

Permits(a, p, w) ==
  \/ a.kind = "organization"
  \/ a.kind = "workspace" /\ a.target = w
  \/ a.kind = KindOf[p] /\ a.target = p

Bug_PendingIsActive(s) ==
  shareState[s] \in {"pending", "approved"} /\ ~Passed(shareExpiry[s])

\* The grant is in force, for whomever it permits.
Active(s) == shareState[s] = "approved" /\ ~Passed(shareExpiry[s])

Bug_LifecycleOfTheGrant(p, w, s) ==
  LET m == sharedMemory[s] IN
  /\ Active(s)
  /\ workspace[m] # w
  /\ OrganizationOf[workspace[m]] = OrganizationOf[w]
  /\ Permits(audience[s], p, w)

\* A context package for p in w can cite the memory of another workspace that
\* s is a grant of.  Ranking and the token budget choose among these and the
\* retrievable memories of w itself.
Cites(p, w, s) ==
  LET m == sharedMemory[s] IN
  /\ Active(s)
  /\ Retrievable(m)
  /\ workspace[m] # w
  /\ OrganizationOf[workspace[m]] = OrganizationOf[w]
  /\ Permits(audience[s], p, w)

-----------------------------------------------------------------------------
\* MaxTime bounds the clock.
Tick ==
  /\ now < MaxTime
  /\ now' = now + 1
  /\ UNCHANGED <<memoryVars, shareVars>>

Next ==
  \/ \E m \in Memories, w \in Workspaces : \E d \in Deadlines : CreateMemory(m, w, d)
  \/ \E m \in Memories, to \in Lifecycles, r \in Memories \cup {None} :
       \E d \in Deadlines : TransitionMemory(m, to, d, r)
  \/ ExpireDueMemories
  \/ \E s \in Shares, m \in Memories, a \in Audiences :
       \E d \in Deadlines : ProposeShare(s, m, a, d)
  \/ \E s \in Shares, to \in ShareStates : ReviewShare(s, to)
  \/ Tick

Spec == Init /\ [][Next]_vars

-----------------------------------------------------------------------------
(* Properties *)

Deadline == Nat \cup {None}

\* Every record holds values of its fields' types, and only stored records
\* hold values at all.
TypeOK ==
  /\ now \in Nat
  /\ lifecycle \in [Memories -> Lifecycles \cup {"absent"}]
  /\ workspace \in [Memories -> Workspaces \cup {None}]
  /\ expiresAt \in [Memories -> Deadline]
  /\ supersededBy \in [Memories -> Memories \cup {None}]
  /\ version \in [Memories -> Nat]
  /\ memoryEvents \in [Memories -> Seq(Lifecycles)]
  /\ shareState \in [Shares -> ShareStates \cup {"absent"}]
  /\ sharedMemory \in [Shares -> Memories \cup {None}]
  /\ audience \in [Shares -> Audiences \cup {None}]
  /\ shareExpiry \in [Shares -> Deadline]
  /\ sharedVersion \in [Shares -> Nat]
  /\ shareEvents \in [Shares -> Seq(ShareStates)]
  /\ \A m \in Memories : lifecycle[m] # "absent" <=> workspace[m] # None
  /\ \A s \in Shares : shareState[s] # "absent" <=> sharedMemory[s] # None
  /\ \A s \in Shares : shareState[s] # "absent" <=> audience[s] # None

Superseded == {m \in Memories : lifecycle[m] = "superseded"}

\* Following superseded_by from memory to memory ends: no set of superseded
\* memories is closed under it, whatever order the owners replaced them in.
SupersessionEnds ==
  \A M \in SUBSET Superseded : M # {} => \E m \in M : supersededBy[m] \notin M

\* A superseded memory leads to another one of its own workspace that the
\* owners published, also when that one has expired or been replaced since.
ReplacementsWerePublished ==
  \A m \in Superseded :
    LET r == supersededBy[m] IN
    /\ r \in Memories \ {m}
    /\ workspace[r] = workspace[m]
    /\ lifecycle[r] \in {"published", "superseded", "expired"}
    /\ "published" \in {memoryEvents[r][i] : i \in 1..Len(memoryEvents[r])}

\* Two owners never decide about two grants of one memory to one audience.
OneLiveGrant ==
  \A s, t \in Shares :
    /\ shareState[s] \in {"pending", "approved"}
    /\ shareState[t] \in {"pending", "approved"}
    /\ sharedMemory[s] = sharedMemory[t]
    /\ audience[s] = audience[t]
    => s = t

\* What readers of other workspaces are shown is the version of the memory
\* that the grant was proposed and approved for.
ReviewedVersionIsShown ==
  \A p \in Subjects, w \in Workspaces, s \in Shares :
    Cites(p, w, s) => version[sharedMemory[s]] = sharedVersion[s]

\* A consumer that replays the outbox sees each record pass through legal
\* states only and ends with its current state and version.
OutboxReplays ==
  /\ \A m \in Memories :
       LET events == memoryEvents[m] IN
       /\ Len(events) = version[m]
       /\ lifecycle[m] # "absent" => version[m] > 0 /\ events[version[m]] = lifecycle[m]
       /\ \A i \in 1..(version[m] - 1) : ValidTransition(events[i], events[i + 1])
  /\ \A s \in Shares :
       LET events == shareEvents[s] IN
       /\ shareState[s] # "absent" => events # <<>> /\ events[Len(events)] = shareState[s]
       /\ \A i \in 1..(Len(events) - 1) : CanTransitionTo(events[i], events[i + 1])

\* Direct creation and promotion together keep a workspace within its quotas.
WorkspaceWithinQuota ==
  \A w \in Workspaces :
    /\ Cardinality(MemoriesOf(w)) <= MaxMemories
    /\ MemoryBytes(w) <= MaxMemoryBytes

\* A memory becomes visible to a reader of another workspace only in the step
\* in which an owner approves a pending grant, never because some memory is
\* published or replaced, a deadline changes, or time passes.
ExposureNeedsReview ==
  [][\A p \in Subjects, w \in Workspaces, s \in Shares :
       Cites(p, w, s)' =>
         \/ Cites(p, w, s)
         \/ shareState[s] = "pending" /\ shareState'[s] = "approved"]_vars

\* The variables of GovernedKnowledge as functions of the state.
Eligible  == {m \in Memories : Retrievable(m)}
Withdrawn == {m \in Memories : /\ lifecycle[m] \in {"published", "superseded", "expired"}
                               /\ ~Retrievable(m)}
InForce   == {s \in Shares : Active(s)}
Granted ==
  {g \in Memories \X Audiences :
     /\ g[1] \in Eligible
     /\ \E s \in InForce : sharedMemory[s] = g[1] /\ audience[s] = g[2]}

Knowledge == INSTANCE GovernedKnowledge
  WITH eligible <- Eligible, withdrawn <- Withdrawn, granted <- Granted

\* Memories and grants implement the promises of GovernedKnowledge: what was
\* withdrawn stays withdrawn, and grants are decisions that end with it.
ImplementsKnowledge == Knowledge!KnowledgeSpec

\* Grants are about memories that have been published, and about the only
\* version such a memory has while it is published.
GrantsFollowPublication ==
  \A s \in Shares : shareState[s] # "absent" =>
    LET m == sharedMemory[s] IN
    /\ lifecycle[m] \in {"published", "superseded", "expired"}
    /\ lifecycle[m] = "published" => version[m] = sharedVersion[s]

\* The inductive invariant of module DurableMemoryProofs.
MemoryInv ==
  /\ TypeOK
  /\ OutboxReplays
  /\ SupersessionEnds
  /\ ReplacementsWerePublished
  /\ GrantsFollowPublication
  /\ OneLiveGrant

=============================================================================
