---------------------------- MODULE WorkingMemory ----------------------------
(***************************************************************************)
(* Working sessions and their promotion into durable memory.  Sessions     *)
(* live in process memory only (WorkingMemoryStore of store.rs): each  *)
(* belongs to one principal in one workspace, ends at a deadline nothing   *)
(* extends, and is lost when the process ends.  Every session operation    *)
(* first drops the sessions whose deadline has come, also when it then     *)
(* fails.  A promotion copies an entry into a new memory of module         *)
(* DurableMemory, under the same quotas as a direct creation; all further  *)
(* steps of that memory are the steps of that module.                      *)
(*                                                                         *)
(* A definition named Bug_... is a mutant: a plausible mistake in the      *)
(* definition that follows it, which no action uses.                       *)
(***************************************************************************)
EXTENDS DurableMemory

CONSTANTS
  Sessions,          \* the UUIDs sessions are given
  Entries,           \* the UUIDs entries are given
  Texts,             \* contents of entries, summaries and memories
  Length,            \* Length[t] is the length of text t
  MaxSessions,       \* MAX_WORKING_SESSIONS
  MaxEntries,        \* MAX_WORKING_ENTRIES_PER_SESSION
  MaxEntryBytes,     \* MAX_WORKING_ENTRY_BYTES
  MaxSessionBytes,   \* MAX_WORKING_SESSION_BYTES
  MaxTtl,            \* MAX_WORKING_SESSION_TTL_MS
  MaxRestarts        \* bound of the model on restarts of the process

ASSUME WorkingAssumption ==
  /\ None \notin Sessions \cup Entries \cup Texts
  /\ Length \in [Texts -> Nat \ {0}]
  /\ MaxSessions \in Nat /\ MaxEntries \in Nat
  /\ MaxEntryBytes \in Nat /\ MaxSessionBytes \in Nat
  /\ MaxTtl \in Nat \ {0} /\ MaxRestarts \in Nat

VARIABLES
  open,              \* the session map: ids of the sessions it holds
  sessionOwner,      \* WorkingSession.created_by, None before the session exists
  sessionWorkspace,  \* WorkingSession.workspace_id
  sessionExpiry,     \* WorkingSession.expires_at_unix_ms
  summary,           \* WorkingSession.summary
  entryOf,           \* the session an entry was appended to, None before
  entryText,         \* WorkingMemoryEntry.content
  content,           \* Memory.content
  createdBy,         \* Memory.created_by
  provenance,        \* the entry of Memory.provenance, None when it is Direct
  restarts           \* restarts so far

\* The records of entries and sessions are kept when the map drops them, as
\* the history that properties speak about; actions look at open sessions only.
sessionVars == <<open, sessionOwner, sessionWorkspace, sessionExpiry, summary>>
entryVars   == <<entryOf, entryText>>
originVars  == <<content, createdBy, provenance>>
workingVars == <<vars, sessionVars, entryVars, originVars, restarts>>

WorkingInit ==
  /\ Init
  /\ open = {}
  /\ sessionOwner = [s \in Sessions |-> None]
  /\ sessionWorkspace = [s \in Sessions |-> None]
  /\ sessionExpiry = [s \in Sessions |-> 0]
  /\ summary = [s \in Sessions |-> None]
  /\ entryOf = [e \in Entries |-> None]
  /\ entryText = [e \in Entries |-> None]
  /\ content = [m \in Memories |-> None]
  /\ createdBy = [m \in Memories |-> None]
  /\ provenance = [m \in Memories |-> None]
  /\ restarts = 0

-----------------------------------------------------------------------------
(* Sessions *)

Bug_NeverPruned == open

\* What is left of the map once an operation has pruned it.
Unexpired == {s \in open : sessionExpiry[s] > now}

EntriesOf(s) == {e \in Entries : entryOf[e] = s}
EntryBytes(e) == Length[entryText[e]]
SummaryBytes(s) == IF summary[s] = None THEN 0 ELSE Length[summary[s]]
SessionBytes(s) == SumFunction([e \in EntriesOf(s) |-> EntryBytes(e)]) + SummaryBytes(s)

Bug_AnyMember(s, p, w) == s \in Unexpired /\ sessionWorkspace[s] = w

\* p may use session s in workspace w.
Owns(s, p, w) ==
  /\ s \in Unexpired
  /\ sessionOwner[s] = p
  /\ sessionWorkspace[s] = w

HasRoomForSession == Cardinality(Unexpired) < MaxSessions

\* POST /v1/sessions
CreateWorkingSession(s, p, w, ttl) ==
  /\ sessionOwner[s] = None
  /\ HasRoomForSession
  /\ open' = Unexpired \cup {s}
  /\ sessionOwner' = [sessionOwner EXCEPT ![s] = p]
  /\ sessionWorkspace' = [sessionWorkspace EXCEPT ![s] = w]
  /\ sessionExpiry' = [sessionExpiry EXCEPT ![s] = now + ttl]
  /\ UNCHANGED <<vars, summary, entryVars, originVars, restarts>>

\* GET /v1/sessions/{id}, and every operation that is refused.
PruneExpiredSessions ==
  /\ open # Unexpired
  /\ open' = Unexpired
  /\ UNCHANGED <<vars, sessionOwner, sessionWorkspace, sessionExpiry, summary,
                 entryVars, originVars, restarts>>

Bug_SummaryNotCounted(s, t) ==
  /\ Length[t] <= MaxEntryBytes
  /\ Cardinality(EntriesOf(s)) < MaxEntries
  /\ SessionBytes(s) - SummaryBytes(s) + Length[t] <= MaxSessionBytes

HasRoomForEntry(s, t) ==
  /\ Length[t] <= MaxEntryBytes
  /\ Cardinality(EntriesOf(s)) < MaxEntries
  /\ SessionBytes(s) + Length[t] <= MaxSessionBytes

\* POST /v1/sessions/{id}/entries
AppendWorkingMemory(s, p, w, e, t) ==
  /\ Owns(s, p, w)
  /\ entryOf[e] = None
  /\ HasRoomForEntry(s, t)
  /\ open' = Unexpired
  /\ entryOf' = [entryOf EXCEPT ![e] = s]
  /\ entryText' = [entryText EXCEPT ![e] = t]
  /\ UNCHANGED <<vars, sessionOwner, sessionWorkspace, sessionExpiry, summary,
                 originVars, restarts>>

\* The new summary takes the place of the old one.
HasRoomForSummary(s, t) ==
  /\ Length[t] <= MaxEntryBytes
  /\ SessionBytes(s) - SummaryBytes(s) + Length[t] <= MaxSessionBytes

\* PUT /v1/sessions/{id}/summary; versions of summaries are left out.
UpdateWorkingSummary(s, p, w, t) ==
  /\ Owns(s, p, w)
  /\ HasRoomForSummary(s, t)
  /\ open' = Unexpired
  /\ summary' = [summary EXCEPT ![s] = t]
  /\ UNCHANGED <<vars, sessionOwner, sessionWorkspace, sessionExpiry,
                 entryVars, originVars, restarts>>

-----------------------------------------------------------------------------
(* Durable memory *)

\* A new memory of text t; the ids of memories are told apart by their length.
Describe(m, t, p, from) ==
  /\ Bytes[m] = Length[t]
  /\ content' = [content EXCEPT ![m] = t]
  /\ createdBy' = [createdBy EXCEPT ![m] = p]
  /\ provenance' = [provenance EXCEPT ![m] = from]

\* POST /v1/memories
CreateDirectly(m, w, d, p, t) ==
  /\ CreateMemory(m, w, d)
  /\ Describe(m, t, p, None)
  /\ UNCHANGED <<sessionVars, entryVars, restarts>>

\* What a promotion does to the durable tables.
Propose(m, w, d) == CreateMemory(m, w, d)

\* POST /v1/sessions/{id}/entries/{entry}/promote.  The session stays
\* open, and the entry may be promoted again.
PromoteWorkingMemory(s, e, p, w, m, d) ==
  /\ Owns(s, p, w)
  /\ e \in EntriesOf(s)
  /\ Propose(m, w, d)
  /\ Describe(m, entryText[e], p, e)
  /\ open' = Unexpired
  /\ UNCHANGED <<sessionOwner, sessionWorkspace, sessionExpiry, summary, entryVars, restarts>>

\* Every operation of durable memory that creates no memory, and the clock.
DurableStep ==
  /\ Next
  /\ Stored' = Stored
  /\ UNCHANGED <<sessionVars, entryVars, originVars, restarts>>

\* The process ends and boots again: sessions are gone, and due memories are
\* expired before anything is served.  MaxRestarts bounds the model.
Restart ==
  /\ restarts < MaxRestarts
  /\ restarts' = restarts + 1
  /\ open' = {}
  /\ EnterExpired
  /\ UNCHANGED <<now, workspace, expiresAt, supersededBy, shareVars, sessionOwner,
                 sessionWorkspace, sessionExpiry, summary, entryVars, originVars>>

WorkingNext ==
  \/ \E s \in Sessions, p \in Subjects, w \in Workspaces, ttl \in 1..MaxTtl :
       CreateWorkingSession(s, p, w, ttl)
  \/ PruneExpiredSessions
  \/ \E s \in Sessions, p \in Subjects, w \in Workspaces, e \in Entries, t \in Texts :
       AppendWorkingMemory(s, p, w, e, t)
  \/ \E s \in Sessions, p \in Subjects, w \in Workspaces, t \in Texts :
       UpdateWorkingSummary(s, p, w, t)
  \/ \E m \in Memories, w \in Workspaces, p \in Subjects, t \in Texts :
       \E d \in Deadlines : CreateDirectly(m, w, d, p, t)
  \/ \E s \in Sessions, e \in Entries, p \in Subjects, w \in Workspaces, m \in Memories :
       \E d \in Deadlines : PromoteWorkingMemory(s, e, p, w, m, d)
  \/ DurableStep
  \/ Restart

WorkingSpec == WorkingInit /\ [][WorkingNext]_workingVars

-----------------------------------------------------------------------------
(* Properties *)

\* Records hold values of their types, what the map holds was created, and
\* entries belong to sessions that were.
WorkingTypeOK ==
  /\ TypeOK
  /\ open \in SUBSET {s \in Sessions : sessionOwner[s] # None}
  /\ sessionOwner \in [Sessions -> Subjects \cup {None}]
  /\ sessionWorkspace \in [Sessions -> Workspaces \cup {None}]
  /\ sessionExpiry \in [Sessions -> Nat]
  /\ summary \in [Sessions -> Texts \cup {None}]
  /\ entryOf \in [Entries -> Sessions \cup {None}]
  /\ entryText \in [Entries -> Texts \cup {None}]
  /\ content \in [Memories -> Texts \cup {None}]
  /\ createdBy \in [Memories -> Subjects \cup {None}]
  /\ provenance \in [Memories -> Entries \cup {None}]
  /\ restarts \in 0..MaxRestarts
  /\ \A e \in Entries : entryOf[e] # None =>
       sessionOwner[entryOf[e]] # None /\ entryText[e] # None

\* However the operations of all principals are mixed, the map never holds
\* more sessions than it may, and no session more entries than it may.
SessionsWithinCapacity ==
  /\ Cardinality(open) <= MaxSessions
  /\ \A s \in Sessions : Cardinality(EntriesOf(s)) <= MaxEntries

\* Entries and the summary share one budget, in whatever order they come.
SessionsWithinBudget ==
  \A s \in Sessions : SessionBytes(s) <= MaxSessionBytes

\* Every write in flight counts against both budgets: a session's own, and
\* the quotas of the workspace, on which promotions and direct creations draw.
BudgetsHold == SessionsWithinBudget /\ WorkspaceWithinQuota

\* A promoted memory still says the truth about its origin when the session
\* has ended or the server has restarted: it holds the text of the entry it
\* names, the principal of that session promoted it, and it stayed in the
\* workspace of the session.
PromotionsAreGenuine ==
  \A m \in Memories : provenance[m] # None =>
    LET s == entryOf[provenance[m]] IN
    /\ s # None
    /\ content[m] = entryText[provenance[m]]
    /\ createdBy[m] = sessionOwner[s]
    /\ workspace[m] = sessionWorkspace[s]

\* A session has ended when its deadline has come, also while it is still in
\* the map, or when the map does not hold it any more.
Ended(s) == sessionOwner[s] # None /\ (s \notin open \/ sessionExpiry[s] <= now)

\* Nothing is added to an ended session or promoted out of it, and it never
\* comes back.
EndedSessionsAreClosed ==
  [][\A s \in Sessions : Ended(s) =>
       /\ Ended(s)'
       /\ summary'[s] = summary[s]
       /\ EntriesOf(s)' = EntriesOf(s)
       /\ \A m \in Memories : provenance'[m] # provenance[m] => provenance'[m] \notin EntriesOf(s)]_workingVars

\* Promotion and restart are no way around the lifecycle: seen without its
\* sessions, the system is that of module DurableMemory.
ImplementsDurableMemory == Spec

\* The inductive invariant of module MemoryProofs.
WorkingInv ==
  /\ WorkingTypeOK
  /\ SessionsWithinCapacity
  /\ IsFiniteSet(open) /\ \A s \in Sessions : IsFiniteSet(EntriesOf(s))
  /\ PromotionsAreGenuine
  /\ \A m \in Memories : provenance[m] # None => lifecycle[m] # "absent"
==============================================================================
