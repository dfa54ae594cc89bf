# Verification of hangar-server

TLA+ models of the hangar-server (`src/packages/hangar-server`), the TLC
configurations that check them on small instances, and proofs, checked by
TLAPS, that their main properties hold for every value of the constants.
`PROJECT.json` maps each definition to the lines it models and lists runs,
mutants, findings, hazards and theorems. Paths below are relative to `src/`.

## The system

One process owns a data directory: the transactional database
`canonical.redb`, immutable blobs under `blobs/`, and derived index files.
All state is behind one `Arc<Mutex<HangarStore>>` (`main.rs`, `with_store`). A
panic under the lock poisons it: every later operation fails until a restart.
HTTP and gRPC handlers and one ingestion worker task take the lock for one
store operation at a time; a handler makes several such acquisitions
(authorization, guardrail evaluation, guardrail audit, the operation, its
audit), so other requests fall in between.

| Component | State | Operations | What is hard, and what makes it correct |
|---|---|---|---|
| Ingestion queue (`store.rs` 1770-2522, `main.rs` 2205-2235) | documents, jobs, deduplication and idempotency tables; the worker's lease in memory | upload, claim, complete, fail with backoff, dead letter, owner retry, recovery at boot | repeated uploads, three lock acquisitions per job, crash with a lease, failure of recording a failure. Document and job agree; one job per text and workspace; limits; a job is stranded by one failure only and no longer than until the next boot; outcomes are final; receipts name jobs of the uploader's workspace |
| Publication and projections (`store.rs` 1045-1296, 1591-1679, 2016-2339, `vector.rs`, `text.rs`) | chunks, manifests, ANN key counters, graph tables; one vector file per workspace and profile; text generations on disk | two transactions and two file publications per run, cleanup, owner rebuilds, reconciliation at boot | files and database share no transaction; crash between any two steps; leftovers of failed runs; another embedding profile after a restart. Searches are complete, isolated, and never cite a rewritten chunk |
| Graph extraction and traversal (`graph.rs`, `store.rs` 1254-1587, 4068-4270) | nodes, edges, evidence | materialization, rebuild, breadth-first retrieval under hop and edge budgets | cyclic data, two budgets, evidence that must not depend on the order of chunks. The tables follow the ready chunks; a search answers with the nearest ones |
| Durable memory (`store.rs` 1681-1743, 2701-2839, 3517-3577) | memories with lifecycle, version and expiry | create under quotas, validate, publish, supersede, expire by an owner, expire at boot and on reads, retrieve | a deadline is recorded by some operations only; owners supersede memories in any order. No circles of supersession, withdrawal is final, the outbox tells the whole history |
| Sharing, context packages (`sharing.rs`, `store.rs` 3579-3894) | grants with audience, review state, expiry and reviewed version | propose, review, revoke, list, compile a package | a grant depends on its memory, its own expiry and its review, which change independently. One live grant per memory and audience; readers see what was reviewed, by review only |
| Working memory (`store.rs` 2841-3073) | private sessions in process memory | create, read, append an entry, update the summary, promote an entry | bounds shared by entries and summary; deadlines pruned on access only; lost at restart by design. Ended sessions are closed for good; promoted memories name their true origin |
| Blob store (`store.rs` 922-957, 3896-3941) | a file per digest, shared by all workspaces; rows per workspace | put under a quota | the file is written before the row, in place and unsynced; deduplication trusts its name. A row names a whole file |
| Backup and restore (`operations.rs`) | directories outside the server | create, verify, restore, validate | processes of their own, beside a server that may start, after faults of the disk. A backup is a snapshot; a restore is the backup |
| Skills, guardrails (`store.rs` 3132-3481, `main.rs` 528-564, `grpc.rs` 105-146) | versions, lifecycles, policies | create, transition, list, get, evaluate, authorize use | a guardrail is evaluated in another acquisition than the operation it guards. Standing denials stop requests; withdrawn skills stay hidden; versions are never reused |
| Outbox, audit (`store.rs` 1451-1481, 3483-3515, 4018-4041) | event tables keyed by UUIDv7 | append, replay after a cursor | keys follow a clock that may be set back and a process that may restart. Nothing is skipped; what is answered has been audited |
| Identity and authorization (`main.rs` 1732-1815, `store.rs` 3075-3130) | API key digests | bootstrap, issue, authenticate, scope and role check | chains of owners that issue keys. No key exceeds its issuer |
| HTTP and gRPC handlers (`main.rs`, `grpc.rs`) | none of their own | authorize, guardrail, operation, audit | the order of acquisitions differs between the surfaces and between handlers |
| MCP, CLI, embedding providers | none of their own | wire formats, numeric code | pure I/O or numeric, not modelled |

Interactions: the worker claims what uploads enqueue; publication writes the
tables that rebuilds and searches read; the boot runs memory expiry, job
recovery and the three reconciliations, in this order, before the worker is
spawned and the port opened; promotion of working memory creates durable
memories; shares name memories; context packages and answers read chunks,
memories and shares together.

## Modules

| Module | Models | Runs |
|---|---|---|
| `IngestionQueue` | the queue, its handlers, the worker and crashes | `queue_safety` |
| `IngestionQueueProofs` | theorems about it | |
| `SearchCatalog` | abstract specification: what searches are promised | |
| `Ingestion` | extends the queue with publication, cleanup, rebuilds, boot, and what a search can return; refines the queue and `SearchCatalog` | `projections`, `searchable`, `profile_change` |
| `IngestionProofs` | theorems about it | |
| `GovernedKnowledge` | abstract specification: what owners and readers of memories are promised | |
| `DurableMemory` | memories, grants, what a context package can cite; refines `GovernedKnowledge` | `sharing`, `knowledge` |
| `WorkingMemory` | extends durable memory with sessions, promotion and restart; refines `DurableMemory` (proved) | `promotion` |
| `MemoryProofs` | theorems about both | |
| `DataDirectory` | blob files, their rows, and the backup and restore commands | `storage`, `live_backup` |
| `DataDirectoryProofs` | theorems about it | |
| `Governance` | keys, skills, policies, and every handler of both surfaces as an order of acquisitions | `governance` |
| `GovernanceProofs` | theorems about it | |
| `GraphRetrieval` | the graph tables and the search over them | `graph` |
| `GraphProofs` | theorems about it | |
| `Outbox` | events, their keys, the clock, and the consumers that page through them | `replay` |
| `OutboxProofs` | theorems about it | |
| `SumTheorems` | lemmas about sums over finite sets, for quotas and budgets in bytes | |
| `MC...` | small instances for TLC | |

A definition named `Bug_...` is a plausible mistake in the definition that
follows it. No action uses one: each property has such a mutant in
`PROJECT.json` that breaks it, so that a property nothing could violate shows.

### Workspaces and their joined ids

Rows and files of a workspace are named by its ids joined with colons: the keys
of deduplication and idempotency (`store.rs` 1789, 1793), the rows of blobs
(937), the vector index file (`vector.rs` 275), the ids of graph entities and
edges (4111, 4149). Ids need only be non-empty, so they may contain a colon, and
then two workspaces can have the same joined ids: workspace `b:c` of `a` and
workspace `c` of `a:b`. `IngestionQueue`, `Ingestion` and `DataDirectory` have
`Joined[s]`, the joined text, about which nothing is assumed, and key their
tables by it. What is promised only to workspaces that have their joined ids
alone is stated for these, `Unambiguous`; what holds for all is stated for all.
Workspaces that share them answer each other's uploads (see below),
replace each other's vector file, and take over each other's graph edges, with
some of their evidence (`Materialized`); their limits, leases, outcomes and text
indexes stay apart. Texts are in a directory of the joined ids too, but their
generations have names of their own. The hash that counts ANN keys joins the ids
with a NUL (`store.rs` 4296): ids are taken to contain none. `GraphRetrieval`
takes workspaces with distinct joined ids.

### The queue

Each handler commits one redb transaction under the mutex, so it is one action.
A job and its document are created together and refer to each other, so one
number names both; ids are UUIDv7 and claimed in ascending order, hence
`1..accepted`. `status` and `docStatus` are the two records' statuses, `dedup`
and `idem` the two key tables, by joined ids, `attempts` and `backingOff` the retry state.
`phase` and `lease` are what the worker task holds in memory between its lock
acquisitions: `ClaimNextJob`, then `CompleteJob` or `ProcessingFails`, then
`RecordFailure` or `FailureNotRecorded`. `Crash` models the death of the
process and the poisoned lock, whose effects are the same: memory is lost,
tables are as last committed, `RecoverIncompleteJobs` is the next thing that
happens. Abstracted: texts to their digests and lengths, times to "the backoff
is over or not", authorization to the scope check of the retry, receipts to
the job they name.

### Publication

`process_claimed_ingestion_job` is the sequence `PrepareChunks` (first
transaction: chunk rows, ANN keys, pending manifests), `PublishVectors` (index
file replaced by rename), `PublishText` (new generation directory),
`CommitDocument` (second transaction: manifests ready, graph, active
generation, document and job succeeded), then the cleanup of text generations
(`RemoveGeneration`, `EndCleanup`). `StepFails` is an error of any of these,
`Die` the death of the process between any two. Rebuilds are a step per vector
file or graph, and for text the publication and `ActivateText` or
`ActivationFails`. `step` says where the holder of the mutex is: nothing else
acts until it is `free`, but a crash may come. `Boot` recovers the queue, then
`todo` lists the workspaces still to reconcile: all vector files, all text
indexes, all graphs; the server serves when `todo` is empty.

A chunk is `<<job, run, ordinal>>`, fresh in every run as its UUID is. `Hits`
is what a search may return: an index hit that passes the checks of
`retrieve_chunks` (manifest ready, row present, document succeeded). Ranking,
scores, candidate limits and embeddings are abstracted: a search may return
any subset of it. The loop that skips ANN keys in use is left out, since
`VectorKeysAreFresh`, which is proved, says that it never runs.

`SearchCatalog` forgets all of it: published documents grow by one whole
document at a time, only while no search is being answered; whenever searches
are answered they find all of the published documents, in the vector index as
far as the current profile embedded them, and nothing else. Its workspaces are
`Unambiguous`.

### Memories and grants

One action per store operation: each holds the mutex and commits one redb
transaction. `CreateMemory`, `TransitionMemory` and `ExpireDueMemories` write
the table of memories, `ProposeShare` and `ReviewShare` that of grants; the
reads `get_memory`, `retrieve` and `compile_context_package` begin with
`ExpireDueMemories`, and `Cites` says which memory of another workspace a
package for a reader may contain. A transaction also appends to the outbox;
`memoryEvents` and `shareEvents` are its events per record, in order. `now` is
the clock that every operation reads; `Tick` advances it between any two, so a
deadline may come between the read that recorded the due memories and the next
one. The clock is taken not to go back. Roles, guardrails and the audit event
of a request are handled in other acquisitions of the mutex and left out; so
are texts, scores, ranking and the token budget: a package contains any subset
of what it may.

`GovernedKnowledge` has three sets: what is eligible, what is withdrawn, what
is granted. Memories become eligible one at a time, having been neither
before; they are withdrawn for good; a grant to an audience is a single
decision about an eligible memory, and ends with it.

### Working sessions

`open` is the session map; the records of its sessions stay in the other
variables when the map drops them, as the history that the properties are
about, and no action reads those of a session not in `open`. Every operation
prunes the map first (`Unexpired`), also when it is refused afterwards
(`PruneExpiredSessions`). `PromoteWorkingMemory` is the handler's one
acquisition of the mutex: the quotas, the session's owner and scope, then the
creation of `DurableMemory`. `DurableStep` is any other step of that module.
`Restart` loses the map and expires due memories, as the boot does. An entry is
identified once and appended once; versions of summaries, kinds and hashes of
entries and the source that a promoter may state are left out.

### Files of the data directory

A file is missing, partial, whole, torn or damaged; `canonical.redb` is the
rows of its BLOBS table, since the other tables are in the other modules.
`BeginPut` is the acquisition of the mutex by `put_blob_with_limits` up to the
start of `fs::write`, `EndWrite` its return, `CommitRow` the transaction; an
error, a death or a loss of power may come between. `unsynced` are the files
the disk may not have yet: redb syncs its commits, nothing syncs a blob.
`CopyFile` and `ListFile` are the two readings of the source in
`copy_tree_inner`, one for the copy and one for the manifest; `Publish` and
`PublishRestore` are the renames; `BackupFails` and `RestoreFails` leave the
temporary directory, or not, and `RemoveTemporary` and `RemoveStaging` are the
operator's part. Index files and `backup.json` itself are left out, since the
boot rebuilds the former and the latter only carries the listing.

### Handlers

A handler is a record: the role it needs, the action and target it asks the
guardrails about, its operation, and the order of its acquisitions of the
mutex after `authorize`. A request walks that order; between any two steps
others act, a step may fail (`Fails`) and the process may die (`Die`).
Authentication happens in `Begin`: keys are never changed or revoked once
issued. What an operation on memories, documents, sessions, graphs or blobs
does is in the other modules; here it is "content". `OtherClients` changes
skills and policies in one step, which is enough because requests meet in the
tables only. The variables `denying` and `withdrawn` of a request are history:
what stood against it when it began. The targets of rules are abstracted to
what the handlers ask; rules that concern a request are found when it begins,
from its role, action and target, which never change.

### The graph

A chunk is the set of terms the extractor finds in it. Each search holds the
mutex to its end, so `PopFrontier` and `FollowEdge` are the two nested loops of
`graph_candidates`, taken apart because the edge budget cuts the inner one.
Edges and seeds come in any order, as the hashes that name them do. Scores are
a function of the hops, so only the hops are kept; `TermsWithin` defines, from
the texts alone, what the search should have found.

### The outbox

Keys and the clock share one axis of ticks; `IsNextKey` is what
`Uuid::now_v7` returns. A transaction of a handler is `InsertEvent` until
`Commit` or `Abort`. `position` and `saved` are a consumer's cursor and what
it persisted. `late` and `behind` are history.

## Runs

| Run | Instance | What it shows |
|---|---|---|
| `queue_safety` | 3 workspaces, 2 of which have the same joined ids, 2 texts of different lengths, 1 key or none, 3 jobs, 2 attempts, 1 crash, unrecorded failures | tables agree with each other; limits hold; attempts are accounted for; outcomes and receipts never change; the third workspace is answered with its own jobs; only an unrecorded failure strands a job, and until the next boot; the proofs' invariant holds |
| `projections` | 2 workspaces, 2 documents of 2 chunks, 2 runs of each job, owner retries and rebuilds, 1 crash, 1 leftover generation | searches complete and isolated; no run, of another job or of the same one, rewrites a chunk that a search may have cited; no step loses an indexed chunk; boot leaves no files |
| `searchable` | 1 document, 2 attempts, 3 runs, 1 crash, 2 profiles, fairness | the server always serves again; an accepted document becomes searchable, a dead letter, or stranded until the next boot; refinement of the queue and of `SearchCatalog`; the proofs' invariant holds |
| `sharing` | 1 memory, 2 grants, 3 workspaces of 2 organizations, a user and an agent, all 4 kinds of audience, clock to 2 | one live grant per audience; readers see the reviewed version and only by review; the outbox replays |
| `knowledge` | 2 memories, 2 workspaces, 2 grants, clock to 1 | no order of supersessions makes a circle or leads to what was never published; refinement of `GovernedKnowledge`; the proofs' invariant holds |
| `promotion` | 2 principals, 1 open session of 2, 2 entries, 2 memories, lengths 1 and 2, byte quota 2, clock to 1, 1 restart | budgets and quotas hold; ended sessions are closed; promoted memories name their true origin; the proofs' invariant holds |
| `storage` | 2 workspaces, 2 contents that each fill the quota, 1 file cut short, 1 damaged | rows name whole files; quotas hold; quiet backups are snapshots; a restore is the backup; the proofs' invariant holds |
| `governance` | 1 organization of 2 workspaces, 2 keys, 2 versions of a skill, 1 policy, 1 followed request | answers are audited; denials take effect; withdrawn skills stay hidden; versions and keys as promised; the proofs' invariant holds |
| `graph` | 2 workspaces, 3 chunks of up to 2 of 4 terms, hops to 3, 4 edges, limits 1 and 2 | tables follow the chunks; answers are nearest; the proofs' invariant holds, which has that edges are followed at most twice |
| `replay` | 2 scopes, a feed of one and one of both, 3 events, pages of 1 and 2, clock to 2 | only late events are missed, and only after a start behind |
| `profile_change` | violation | a rebuild under another profile does not cover the earlier chunks (docs/operations.md:80) |
| `live_backup` | violation | a server started during the copy: a published backup has rows without their blobs (docs/architecture/decisions/0009-operational-recovery-and-embedded-quotas.md:40) |

Bounds. `MaxJobs`, `MaxCrashes`, `MaxRuns` and `MaxLeftovers` bound counters
the code does not bound. Two jobs are enough for one document to be disturbed
by the publication, or by what a failed run left, of another; three for a
workspace to fill up while another has room; three runs of one job, in
`searchable`, for the leftovers of one to meet the next. `projections` has
each job run a second time, after a crash or an owner's retry of a dead letter.
Its one attempt per owner's decision leaves the backoff to `searchable`. In
`queue_safety` the limit in bytes binds, the one in documents (2 of 2) does not
and is left to `LimitsSafety`. One crash reaches
every point between two steps. `MaxLeftovers` never blocks the boot.
`CHECK_DEADLOCK FALSE`: with all jobs settled and the bounds reached nothing is
left to do.

Two memories can replace each other, and longer chains are left to the proof;
two grants can compete; a clock to 2 separates "due", "due and recorded" and
"not due" for deadlines one and two steps away (`MaxRetention`, the year of the
code, is 1 or 2, `MaxTime` bounds the clock). A session over a limit needs one
call more than the limit, so limits of 1 and 2 are enough; that a session of
another workspace is not accepted is left to the proof, and so is the quota in
memories, which does not bind in `promotion` (2 of 2), where the one in bytes does. Records and principals
are interchangeable where a cfg says SYMMETRY, and only safety is checked
there. The modules of memory have no liveness: nothing in the code makes a
reader call or an owner act.

`MaxCutShort` and `MaxDamaged` bound the faults of the disk: one file cut short
is enough for a later upload to meet it, one damaged for a verification and a
restore to. One followed request is enough because requests meet in the tables
only, which `OtherClients` changes at will; the proof has any number of them. Two keys are
too few for a chain of owners that issue keys to owners: `AuthoritySafety` has
chains of any length. `storage` and the runs of
`Ingestion` have distinct joined ids, since a third workspace is beyond the time
of a run: what sharing them does to rows, files and edges is in the proofs.
Three chunks of two terms make a path of three hops, a cycle, or three
witnesses of one edge, and four edges followed are fewer than the six of a
triangle, so the budget does cut; only the smallest cycle fits, and
`TraversalSafety` has the larger ones. Three events are one committed, one late and
one that follows; `MaxEvents` and `MaxTime` bound keys and the clock.

Fairness. The worker is a `loop` that polls for ever, so claiming, processing
and reporting are weakly fair, each as "some outcome", never "success". The
holder of the mutex runs to its end. Time passes, so backoffs elapse. The
operator restarts a dead process, and a boot without errors goes on. Crashes,
uploads, failures and owners are not fair; `DocumentsBecomeSearchable` assumes
that owners do not reopen dead letters or rebuild text indexes for ever. It does
not assume that failures can be recorded: a job whose failure was not is
stranded (`Stranded`), which ends with the process only, and is then waited for
again.

## Proofs

From the named assumptions on the constants only (`QueueAssumption`,
`IngestionAssumption`, `MemoryAssumption`, `WorkingAssumption` and those of the other
modules): any
workspaces, texts, keys, limits, attempts, chunk counts, profiles, memories,
grants, audiences, principals, sessions and bounds. `FinitenessAssumption` of
the graph says that there are finitely many chunks and terms: a database has
as many rows as were written, and each of their texts is finite.
Every safety invariant and every action property of a passing run is the
statement of a theorem.

* `SumTheorems`. A sum is a recursive function over the subsets of a finite
  set, so its facts need induction over data, which no prover here does with a
  schema. Each proof takes instead a smallest set that would refute the
  statement, which exists because strict inclusion of finite sets is well
  founded, and looks at that set without one element; that the recursion has a
  solution at all is proved the same way. From this: sums do not depend on
  the order, grow by what is added and are monotonic in the set.
* `IngestionQueueProofs`. The properties are not inductive as they stand: that
  a text has one job needs to know that the content table knows every job
  (`EveryJobIsKnown`), the bound on attempts needs to know what a waiting job
  may still have spent (`AttemptsInHand`), and that receipts stay in a workspace
  needs to know under which joined ids a job was entered (`KeysLeadBack`,
  `JobsHaveRecords`). `QueueInv` adds these; `QueueInvariance` proves it, one
  lemma per handler, and type correctness, lease, content and attempts
  properties follow. `ScopeSafety` is `ReceiptsStayInScope`: a workspace that has
  its joined ids alone is answered with its own jobs, whoever shares theirs.
  `OutcomesSafety`, `ReceiptsSafety` and `StrandingSafety` are action properties
  from the same invariant; the last says what strands a job and what ends it,
  with failures that cannot be recorded. `LimitsSafety` proves the limits on documents and
  on their bytes (`AdmissionSafety` is the former alone).
* `IngestionProofs`. `QueueRefinement` proves that publication implements the
  queue, so `QueueInv` holds of it too. `ProjectionInv` is inductive relative
  to `QueueInv`. To the checked properties it adds what the holder of the mutex
  has achieved at each `step` (`StepsAreInOrder`), that chunk ids come from
  runs that took place (`ChunksAreOfRuns`), and that a succeeded document is
  in every index whoever holds the mutex (`SucceededIsPublished`, the reason
  why a crash anywhere is harmless), and that manifests become ready with their
  document only (`ReadyWithDocument`), so that the first ready chunk of a
  document marks the end of its runs. From these: searches are complete, keys
  mean one chunk, workspaces are isolated, the active generation is on disk,
  cited chunks are never rewritten, no step loses a chunk, and
  `CatalogRefinement`: ingestion implements the safety part of
  `SearchCatalog`. `BootSafety` needs the order in which a boot works
  (`BootInOrder`): vector indexes come first, and a workspace leaves `todo`
  when its generation is active and only the removal of the others is left.
* `MemoryProofs`, durable memory. Two lemmas carry the case analysis: a step
  leaves a memory alone, creates it or moves it along one transition
  (`MemorySteps`), and likewise a grant (`ShareSteps`). `MemoryInv` adds to the
  checked properties that grants are about memories that have been published
  and about the one version such a memory has while it is published
  (`GrantsFollowPublication`), from which follow that readers see the reviewed
  version and that exposure needs a review. `SupersessionEnds` is stated
  without counting: of any set of superseded memories, one leads out. When a
  memory is superseded its replacement is still published, so in any set that
  contains it that memory leads out, and other sets are as before.
  `KnowledgeRefinement` proves the refinement of `GovernedKnowledge`, and
  `QuotaSafety` the quota of a workspace in memories and in bytes.
* `MemoryProofs`, working memory. `DurableRefinement` proves that every step,
  promotion and restart included, is a step of `DurableMemory` for its tables,
  so its theorems hold here (`PromotionNeedsReview` cites one, `BudgetSafety`
  takes `QuotaSafety` from it and adds the bytes of a session). `WorkingInv`
  adds that the map and the entries are finite, which the arithmetic of the
  limits needs, and that only stored memories have an origin. `ClosureSafety`
  is the action property from it.
* `DataDirectoryProofs`. `RowsNameWholeBlobs` needs to know why a file is short
  (`ShortFilesAreKnown`); that a quiet backup is a snapshot needs what the copy
  has done so far (`QuietCopying`), and the restore that its backup stays in
  place (`RestoreOfBackup`). `FilesInv` joins them, one lemma per action.
  `DirectorySafety` adds the blob quota, of workspaces whose rows are their own: what a write was admitted for is what
  its row will add, since the mutex is held from the check to the commit.
* `OutboxProofs`. Unless some process started behind, keys grow across
  transactions and processes (`KeysGrow`); cursors point at committed events
  (`CursorsPointAtEvents`), so a page never steps over one.
* `GovernanceProofs`. The orders of all handlers fall into three classes
  (undecided, evaluated, decided) that their steps walk through (`Orders`), and
  every handler of the table begins in the right one (`ContentIsWellFormed`).
  The tables move only forward (`TablesStep`), so what a request has seen stays
  so (`HoldsStays`). `RequestsInv` says both of every request; the audit,
  denial, withdrawal and delegation theorems follow. `EntriesInv` is about the
  tables: finitely many versions of a name exist, so there is a newest one, and
  the next is above every version that was issued (`GovernanceInvariance`).
* `GraphProofs`. The reference is `Around`, the terms within n steps of the
  query, a recursive function; `AroundUnfolds` shows that it has the values its
  recursion says, by giving them: the ends of paths of length n. `RetrievalInv`
  is the argument of breadth-first search. The hops an entity was visited with
  are its true distance (`DistancesAreTrue`); the frontier holds entities of
  one distance and then of the next (`FrontierIsOrdered`), so none is ever
  improved; all neighbours of what was expanded have been visited
  (`ExpandedIsPassedOn`); the candidates are at their true distances
  (`ChunksAreNearest`); and each followed edge is paid for by a different end
  of it (`EdgesArePaired`). `AnswerSafety` follows when the frontier is empty,
  and, when the edge budget ended the walk, because all that is missing is at
  least as far as the last expansion.

Model-checked only: liveness under fairness and `ENABLED`
(`DocumentsBecomeSearchable`, and the `[]<>online` of `SearchCatalog` in
`ImplementsCatalog`), which the prover cannot do, and the violations of the last
two runs.

## Divergences read from the code

Beside the two that have runs, these statements differ from the code; the
modules follow the code.

* docs/ingestion-pipeline.md:26 promises "a bounded retry/dead-letter outcome":
  recovery requeues a job whatever its attempts (`store.rs` 1934), so a job
  that kills the process is tried at every restart. `AttemptsAreAccounted`
  bounds what is left: at most one attempt more per death.
* docs/ingestion-pipeline.md:26 also says that chunks and statuses commit
  together: chunks are committed earlier (`PrepareChunks`, `CommitDocument`).
* docs/ingestion-pipeline.md:36, "must not silently disappear": a failure that
  cannot be recorded leaves the job processing until the next boot (`main.rs`
  2225, `FailureNotRecorded`): its lease expires at a time that nothing reads.
  `StrandedUntilBoot` says how far this goes.
* docs/api.md:319, texts are used "to deduplicate equivalent work within the
  same workspace": two workspaces whose ids join to the same text share their
  keys (`store.rs` 1789, `ByContent`, `ByKey`). An upload to one is answered
  with the job and the document of the other, and its text is not ingested.
  `ReceiptsStayInScope` says that no other workspace is concerned.
* docs/ingestion-pipeline.md:19: an upload answered by its text does not record
  its idempotency key (`EnqueueDocument`).
* docs/architecture/decisions/0007-working-memory-boundary.md:14, "When an
  expiry is due, transition any non-terminal item to `expired`": an owner's
  transition does not look at the deadline (`store.rs` 2701); a due memory may
  be given a later one, or be superseded, without ever being expired.
* "`blobs/` is immutable after a successful write": a file that a fault cut
  short is taken for the content by the next upload of the same digest
  (`store.rs` 3915, `Stored`), and stays short.
* docs/skills-and-guardrails.md:50 names one target, `memory`, for reading and
  searching memories: the search over gRPC asks about `memories` (`grpc.rs`
  222), so a rule about `memory` does not concern it.

## Not modelled

Embedding, ranking, tokenization and the token budget of context packages are
numeric: searches return any permitted subset, so how good or how full an
answer is cannot be stated; in particular not how many candidates of a vector
search are taken up by pending keys (`store.rs` 2578). Wire formats, request
validation, status codes, health and metrics routes, the MCP server and the CLI
are stateless I/O. A fault in the middle of a redb commit is redb's to handle:
transactions are taken to be atomic and durable. Boot is atomic in
`DataDirectory` and a sequence of steps in `Ingestion`; the two modules are not
composed, because index files are rebuilt from tables that backups contain
whole.
