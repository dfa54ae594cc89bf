------------------------------ MODULE Ingestion ------------------------------
(***************************************************************************)
(* How a document becomes searchable.  This module adds to the queue what  *)
(* process_claimed_ingestion_job and the reconciliations do to chunks and  *)
(* to the three projections of a workspace: the vector index (one file per *)
(* embedding profile), the text index (immutable generations on disk, one  *)
(* of them active) and the graph (tables of canonical.redb).  The files    *)
(* and the tables share no transaction, so a document is published in      *)
(* steps, and the process may die between any two of them.                 *)
(*                                                                         *)
(* All steps of one operation happen under the store mutex: "step" says    *)
(* how far its holder got, and only the holder acts until it is "free".    *)
(* As in IngestionQueue, no action uses a definition named Bug_...: it is  *)
(* a plausible mistake in the definition that follows it.                  *)
(***************************************************************************)
EXTENDS IngestionQueue

CONSTANTS
  ChunkCount,  \* ChunkCount[c]: the number of chunks chunk_text cuts c into
  Profiles,    \* embedding profiles the server may be started with
  MaxRuns,     \* bound of the model on the processing runs of one job
  MaxLeftovers \* bound of the model on the text generations left to clean up

ASSUME IngestionAssumption ==
  /\ IsFiniteSet(Scopes)
  /\ ChunkCount \in [Contents -> Nat \ {0}]
  /\ MaxRuns \in Nat /\ MaxLeftovers \in Nat

VARIABLES
  runs,         \* number of times each job was processed
  chunkRows,    \* CHUNKS: for each document one chunk per ordinal
  manifests,    \* the chunks that have manifests, with VectorManifest.ann_key and profile
  ready,        \* projection -> chunks whose manifest there is Ready
  nextKey,      \* VECTOR_NEXT_KEYS
  vectorFile,   \* joined ids -> profile -> {<<ann key, chunk>>}: the published index
  textFiles,    \* the text generations on disk
  activeGen,    \* TEXT_ACTIVE_GENERATIONS
  graph,        \* GRAPH_EDGES: scope -> the chunks its edges have evidence of
  profile,      \* the embedding profile of this process
  step,         \* where the holder of the store mutex is
  newGen,       \* the generation it has put on disk but not yet activated
  todo          \* what the boot has still to reconcile before it serves

tables    == <<runs, chunkRows, manifests, ready, nextKey>>
processVars == <<profile, step, newGen, todo>>
projectionVars == <<tables, vectorFile, textFiles, activeGen, graph, processVars>>
allVars == <<vars, projectionVars>>

Projections == {"vector", "text", "graph"}
NoGen == [id |-> 0]

\* A chunk gets a new UUID in every run: <<job, run, ordinal>>.
ScopeOf(chunk) == input[chunk[1]][1]

RunChunks(j, n) == {<<j, n, i>> : i \in 1..ChunkCount[input[j][2]]}

Bug_AnyWorkspace(set, s) == set
ScopeChunks(set, s) == {x \in set : ScopeOf(x) = s}

-----------------------------------------------------------------------------
Bug_NoRecheck(p, s) == ScopeChunks(chunkRows, s)

\* What the projections are rebuilt from, and what a search rechecks: rows of
\* succeeded documents whose manifest is ready.
ReadyChunks(p, s) ==
  {x \in ScopeChunks(chunkRows, s) : x \in ready[p] /\ docStatus[x[1]] = "Succeeded"}

VectorEntries(set) ==
  {<<m.key, m.chunk>> : m \in {m \in manifests : m.chunk \in set /\ m.profile = profile}}

\* retrieve_chunks: the chunks a search of s may return on account of p.
Hits(p, s) ==
  {x \in ReadyChunks(p, s) :
     CASE p = "text"   -> \E f \in textFiles :
                            f.scope = s /\ f.id = activeGen[s] /\ x \in f.entries
       [] p = "vector" -> \E m \in manifests, e \in vectorFile[Joined[s]][profile] :
                            m.chunk = x /\ m.profile = profile /\ m.key = e[1]
       [] p = "graph"  -> x \in graph[s]}

-----------------------------------------------------------------------------
IngestionInit ==
  /\ Init
  /\ runs = [j \in JobIds |-> 0]
  /\ chunkRows = {}
  /\ manifests = {}
  /\ ready = [p \in Projections |-> {}]
  /\ nextKey = [s \in Scopes |-> 1]
  /\ vectorFile = [n \in Names |-> [p \in Profiles |-> {}]]
  /\ textFiles = {}
  /\ activeGen = [s \in Scopes |-> 0]
  /\ graph = [s \in Scopes |-> {}]
  /\ profile \in Profiles
  /\ step = "free"
  /\ newGen = NoGen
  /\ todo = {}

Serving == server = "up" /\ step = "free" /\ todo = {}

\* The operations that touch no projection.
QueueStep ==
  /\ Serving
  /\ \/ \E s \in Scopes, k \in Keys, c \in Contents : EnqueueDocument(s, k, c)
     \/ ClaimNextJob
     \/ ProcessingFails
     \/ RecordFailure
     \/ FailureNotRecorded
     \/ \E s \in Scopes, j \in JobIds : RetryDeadLetter(s, j)
  /\ UNCHANGED projectionVars

TimePasses ==
  /\ \E j \in JobIds : BackoffElapses(j)
  /\ UNCHANGED projectionVars

\* A row is keyed by its document and ordinal: a run replaces those of the last.
Bug_KeyedByOrdinal(j) == {x \in chunkRows : x[3] <= ChunkCount[input[j][2]]}
RowsReplaced(j) == {x \in chunkRows : x[1] = j}

Bug_KeyOffByOne(x, s) == nextKey[s] + x[3]
AnnKey(x, s) == nextKey[s] + x[3] - 1

\* The first transaction of a run: chunks, ANN keys, pending manifests.  The
\* loop that skips used keys is left out: VectorKeysAreFresh says it never runs.
PrepareChunks ==
  LET j == lease
      s == input[j][1]
      new == RunChunks(j, runs[j] + 1)
  IN
  /\ Serving
  /\ phase = "leased"
  /\ status[j] = "Processing"
  /\ runs[j] < MaxRuns
  /\ runs' = [runs EXCEPT ![j] = @ + 1]
  /\ chunkRows' = (chunkRows \ RowsReplaced(j)) \cup new
  /\ manifests' = manifests \cup
       {[chunk |-> x, key |-> AnnKey(x, s), profile |-> profile] : x \in new}
  /\ nextKey' = [nextKey EXCEPT ![s] = @ + ChunkCount[input[j][2]]]
  /\ step' = "prepared"
  /\ UNCHANGED <<vars, ready, vectorFile, textFiles, activeGen, graph, profile, newGen, todo>>

\* The chunks of the run in progress.
Current == RunChunks(lease, runs[lease])

Bug_PendingForgotten(p, s) == ReadyChunks(p, s)
Bug_PendingAlone(p, s) == Current

\* What a run publishes: everything ready so far and its own pending chunks.
WithPending(p, s) == ReadyChunks(p, s) \cup Current

PublishVectors ==
  LET s == input[lease][1] IN
  /\ step = "prepared"
  /\ vectorFile' = [vectorFile EXCEPT ![Joined[s]][profile] = VectorEntries(WithPending("vector", s))]
  /\ step' = "vectored"
  /\ UNCHANGED <<vars, tables, textFiles, activeGen, graph, profile, newGen, todo>>

\* The generations no workspace activates.  Failed runs and failed cleanups
\* leave them; the model stops starting new ones at MaxLeftovers, save for
\* the boot, which always has to go on.
Unreferenced == {f \in textFiles : activeGen[f.scope] # f.id}

RoomOnDisk == Cardinality(Unreferenced) < MaxLeftovers

\* A generation is named by a fresh UUID; only the names still in use matter.
PublishGeneration(s, entries) ==
  LET used == {f.id : f \in textFiles} \cup {activeGen[t] : t \in Scopes}
      id == CHOOSE g \in 1..(Cardinality(used) + 1) : g \notin used
      f == [id |-> id, scope |-> s, entries |-> entries]
  IN textFiles' = textFiles \cup {f} /\ newGen' = f

PublishText ==
  LET s == input[lease][1] IN
  /\ step = "vectored"
  /\ RoomOnDisk
  /\ PublishGeneration(s, WithPending("text", s))
  /\ step' = "indexed"
  /\ UNCHANGED <<vars, tables, vectorFile, activeGen, graph, profile, todo>>

\* The graph after the edges of s were materialized from chunks.  The id of an
\* edge is a digest of the joined ids and its ends, and its row names one
\* workspace: the last that made it, which takes over the evidence it has.
Sharing(s) == {t \in Scopes \ {s} : Joined[t] = Joined[s]}

Materialized(s, chunks) ==
  LET theirs == UNION {graph[t] : t \in Sharing(s)}
      After(moved, lost) ==
        [t \in Scopes |-> CASE t = s -> chunks \cup moved
                           [] t \in Sharing(s) -> graph[t] \ lost
                           [] OTHER -> graph[t]]
  IN UNION {{After(moved, lost) : lost \in SUBSET moved} : moved \in SUBSET theirs}

\* The last transaction of a run: manifests ready, graph materialized, text
\* generation active, document and job succeeded, all at once.
CommitDocument ==
  LET s == input[lease][1] IN
  /\ step = "indexed"
  /\ CompleteJob
  /\ ready' = [p \in Projections |-> ready[p] \cup Current]
  /\ graph' \in Materialized(s, graph[s] \cup Current)
  /\ activeGen' = [activeGen EXCEPT ![s] = newGen.id]
  /\ newGen' = NoGen
  /\ step' = "committed"
  /\ UNCHANGED <<runs, chunkRows, manifests, nextKey, vectorFile, textFiles, profile, todo>>

\* Embedding, an index or a transaction returns an error.
StepFails ==
  /\ step \in {"prepared", "vectored", "indexed"}
  /\ ProcessingFails
  /\ step' = "free"
  /\ newGen' = NoGen
  /\ UNCHANGED <<tables, vectorFile, textFiles, activeGen, graph, profile, todo>>

\* cleanup_text_generations removes the directories no workspace activates,
\* one by one; it may give up on an error, which only the boot minds.
Bug_AnyErrorIgnored == TRUE
CleanupMayStop == todo # {} => Unreferenced = {}

RemoveGeneration ==
  /\ step = "committed"
  /\ \E f \in Unreferenced : textFiles' = textFiles \ {f}
  /\ UNCHANGED <<vars, tables, vectorFile, activeGen, graph, processVars>>

EndCleanup ==
  /\ step = "committed"
  /\ CleanupMayStop
  /\ step' = "free"
  /\ UNCHANGED <<vars, tables, vectorFile, textFiles, activeGen, graph, profile, newGen, todo>>

-----------------------------------------------------------------------------
\* Rebuilding a projection of a workspace from its ready chunks: on an owner's
\* request while serving, and during the boot for every workspace that has
\* manifests: all vector indexes, then all text indexes, then all graphs.
Turn(p, s) ==
  \/ todo = {}
  \/ /\ <<p, s>> \in todo
     /\ \A t \in Scopes :
          /\ p \in {"text", "graph"} => <<"vector", t>> \notin todo
          /\ p = "graph" => <<"text", t>> \notin todo

MayRebuild(p, s) == server = "up" /\ step = "free" /\ Turn(p, s)

RebuildVectors(s) ==
  /\ MayRebuild("vector", s)
  /\ vectorFile' = [vectorFile EXCEPT ![Joined[s]][profile] = VectorEntries(ReadyChunks("vector", s))]
  /\ todo' = todo \ {<<"vector", s>>}
  /\ UNCHANGED <<vars, tables, textFiles, activeGen, graph, profile, step, newGen>>

RebuildText(s) ==
  /\ MayRebuild("text", s)
  /\ todo = {} => RoomOnDisk
  /\ PublishGeneration(s, ReadyChunks("text", s))
  /\ step' = "rebuilt"
  /\ UNCHANGED <<vars, tables, vectorFile, activeGen, graph, profile, todo>>

\* activate_text_generation, a transaction of its own.
ActivateText ==
  /\ step = "rebuilt"
  /\ activeGen' = [activeGen EXCEPT ![newGen.scope] = newGen.id]
  /\ newGen' = NoGen
  /\ step' = "committed"
  /\ todo' = todo \ {<<"text", newGen.scope>>}
  /\ UNCHANGED <<vars, tables, vectorFile, textFiles, graph, profile>>

\* The activation fails: the owner gets the error (the boot would exit: Die).
ActivationFails ==
  /\ step = "rebuilt"
  /\ todo = {}
  /\ newGen' = NoGen
  /\ step' = "free"
  /\ UNCHANGED <<vars, tables, vectorFile, textFiles, activeGen, graph, profile, todo>>

RebuildGraph(s) ==
  /\ MayRebuild("graph", s)
  /\ graph' \in Materialized(s, ReadyChunks("graph", s))
  /\ todo' = todo \ {<<"graph", s>>}
  /\ UNCHANGED <<vars, tables, vectorFile, textFiles, activeGen, profile, step, newGen>>

Die ==
  /\ \E how \in {"down", "poisoned"} : Crash(how)
  /\ step' = "free"
  /\ newGen' = NoGen
  /\ todo' = {}
  /\ UNCHANGED <<tables, vectorFile, textFiles, activeGen, graph, profile>>

Bug_BootWithoutRecovery ==
  /\ server # "up"
  /\ server' = "up"
  /\ profile' \in Profiles
  /\ todo' = Projections \X {ScopeOf(m.chunk) : m \in manifests}
  /\ UNCHANGED <<jobVars, keyVars, workerVars, crashes>>
  /\ UNCHANGED <<tables, vectorFile, textFiles, activeGen, graph, step, newGen>>

\* The boot recovers the queue, then reconciles before it serves.  The profile
\* comes from the command line of the new process.
Boot ==
  /\ RecoverIncompleteJobs
  /\ profile' \in Profiles
  /\ todo' = Projections \X {ScopeOf(m.chunk) : m \in manifests}
  /\ UNCHANGED <<tables, vectorFile, textFiles, activeGen, graph, step, newGen>>

-----------------------------------------------------------------------------
ProcessStep ==
  PrepareChunks \/ PublishVectors \/ PublishText \/ CommitDocument \/ StepFails

CleanupStep == RemoveGeneration \/ EndCleanup

RebuildStep ==
  \/ \E s \in Scopes : RebuildVectors(s) \/ RebuildText(s) \/ RebuildGraph(s)
  \/ ActivateText
  \/ ActivationFails

IngestionNext ==
  QueueStep \/ TimePasses \/ ProcessStep \/ CleanupStep \/ RebuildStep \/ Die \/ Boot

IngestionSpec == IngestionInit /\ [][IngestionNext]_allVars

\* The worker loops for ever, whoever holds the mutex releases it, a dead
\* process is restarted and time passes.  A boot that meets no error goes on.
BootStep == \E s \in Scopes : todo # {} /\ (RebuildVectors(s) \/ RebuildText(s) \/ RebuildGraph(s))

IngestionFairness ==
  /\ WF_allVars(Serving /\ ClaimNextJob /\ UNCHANGED projectionVars)
  /\ WF_allVars(Serving /\ RecordFailure /\ UNCHANGED projectionVars)
  /\ WF_allVars(PrepareChunks \/ (Serving /\ ProcessingFails /\ UNCHANGED projectionVars))
  /\ WF_allVars(PublishVectors \/ PublishText \/ CommitDocument \/ StepFails)
  /\ WF_allVars(ActivateText \/ ActivationFails \/ EndCleanup \/ RemoveGeneration)
  /\ WF_allVars(BootStep)
  /\ WF_allVars(Boot)
  /\ \A j \in JobIds : WF_allVars(BackoffElapses(j) /\ UNCHANGED projectionVars)

IngestionFairSpec == IngestionSpec /\ IngestionFairness
-----------------------------------------------------------------------------
ChunkIds == JobIds \X (1..MaxRuns) \X Nat

\* The type invariant of the projections.
IngestionTypeOK ==
  /\ TypeOK
  /\ runs \in [JobIds -> 0..MaxRuns]
  /\ chunkRows \subseteq ChunkIds
  /\ manifests \subseteq [chunk : ChunkIds, key : Nat \ {0}, profile : Profiles]
  /\ ready \in [Projections -> SUBSET ChunkIds]
  /\ nextKey \in [Scopes -> Nat \ {0}]
  /\ vectorFile \in [Names -> [Profiles -> SUBSET (Nat \X ChunkIds)]]
  /\ textFiles \subseteq [id : Nat \ {0}, scope : Scopes, entries : SUBSET ChunkIds]
  /\ IsFiniteSet(textFiles)
  /\ activeGen \in [Scopes -> Nat]
  /\ graph \in [Scopes -> SUBSET ChunkIds]
  /\ profile \in Profiles
  /\ step \in {"free", "prepared", "vectored", "indexed", "committed", "rebuilt"}
  /\ newGen = NoGen \/ newGen \in textFiles
  /\ todo \subseteq Projections \X Scopes

ChunksOf(j) == {x \in chunkRows : x[1] = j}

\* The chunks whose vectors belong to the profile of this process.
Embedded(set) == {m.chunk : m \in {m \in manifests : m.chunk \in set /\ m.profile = profile}}

InEveryIndex(j, s) ==
  /\ ChunksOf(j) # {}
  /\ ChunksOf(j) \subseteq Hits("text", s) \cap Hits("graph", s)
  /\ Embedded(ChunksOf(j)) \subseteq Hits("vector", s)

\* Whenever a search can run, every chunk of every succeeded document is in the
\* active text generation, in the graph and, if the current profile embedded
\* it, in the vector index: no failure, crash or rebuild on the way there
\* loses a chunk of this document or of an earlier one.  Workspaces that share
\* their joined ids replace each other's vector file and graph edges.
SearchIsComplete ==
  Serving => \A j \in Created :
               status[j] = "Succeeded" /\ input[j][1] \in Unambiguous => InEveryIndex(j, input[j][1])

\* The generation a workspace activates is on disk, whole, at every moment:
\* between two steps of a publication, during a cleanup, after a crash.
ActiveGenerationOnDisk ==
  \A s \in Scopes : activeGen[s] # 0 =>
    \E f \in textFiles : f.id = activeGen[s] /\ f.scope = s

\* A search maps a key of the vector file to a chunk by manifests alone, so a
\* key of the published file, and any key a manifest has, must mean one chunk:
\* also the keys of abandoned runs and of files written before the last crash.
VectorKeysNameOneChunk ==
  /\ \A m, n \in manifests :
       ScopeOf(m.chunk) = ScopeOf(n.chunk) /\ m.key = n.key => m.chunk = n.chunk
  /\ \A n \in Names, p \in Profiles : \A e \in vectorFile[n][p] :
       \E m \in manifests :
         m.chunk = e[2] /\ m.key = e[1] /\ m.profile = p /\ Joined[ScopeOf(m.chunk)] = n

\* Every key in use lies below the workspace's next one, so the loop of
\* process_claimed_ingestion_job that skips used keys never has to run, and no
\* key is ever issued twice, whichever runs failed or died in between.
VectorKeysAreFresh ==
  \A m \in manifests : m.key < nextKey[ScopeOf(m.chunk)]

BelongsTo(x, s) == x[1] \in Created /\ ScopeOf(x) = s

\* Indexes of a workspace hold chunks of its own documents only, including the
\* leftovers of failed runs, and its vector file and graph are its own.
ScopesAreIsolated ==
  /\ \A s \in Unambiguous, p \in Profiles : \A e \in vectorFile[Joined[s]][p] : BelongsTo(e[2], s)
  /\ \A f \in textFiles : \A x \in f.entries : BelongsTo(x, f.scope)
  /\ \A s \in Unambiguous : \A x \in graph[s] : BelongsTo(x, s)

\* What the proofs add to the properties above.  Chunk ids are those of runs
\* that took place, so a run never meets manifests of its own chunks.
ChunksAreOfRuns ==
  /\ \A x \in chunkRows : x[1] \in Created /\ x[2] <= runs[x[1]]
  /\ \A m \in manifests : m.chunk[1] \in Created /\ m.chunk[2] <= runs[m.chunk[1]]

\* A manifest becomes ready with its document and by nothing else.
ReadyWithDocument ==
  \A p \in Projections : \A x \in ready[p] : x[1] \in Created /\ status[x[1]] = "Succeeded"

\* What the holder of the mutex has done so far is still so at its next step.
StepsAreInOrder ==
  /\ step # "free" \/ todo # {} => server = "up"
  /\ newGen # NoGen => step \in {"indexed", "rebuilt"}
  /\ step \in {"prepared", "vectored", "indexed"} =>
       /\ phase = "leased"
       /\ todo = {}
       /\ ChunksOf(lease) = Current
       /\ \A m \in manifests : m.chunk \in Current => m.profile = profile
  /\ step \in {"vectored", "indexed"} =>
       VectorEntries(Current) \subseteq vectorFile[Joined[input[lease][1]]][profile]
  /\ step = "indexed" =>
       /\ newGen \in textFiles
       /\ newGen.scope = input[lease][1]
       /\ WithPending("text", newGen.scope) \subseteq newGen.entries
  /\ step = "rebuilt" =>
       /\ newGen \in textFiles
       /\ ReadyChunks("text", newGen.scope) \subseteq newGen.entries

\* A succeeded document is whole in the tables and in every index, those of
\* other embedding profiles included, whoever holds the mutex or has died.
IsPublished(j, s) ==
  /\ ChunksOf(j) # {}
  /\ \A p \in Projections : ChunksOf(j) \subseteq ready[p]
  /\ \E f \in textFiles : f.scope = s /\ f.id = activeGen[s] /\ ChunksOf(j) \subseteq f.entries
  /\ s \in Unambiguous =>
       /\ ChunksOf(j) \subseteq graph[s]
       /\ \A m \in manifests :
            m.chunk \in ChunksOf(j) => <<m.key, m.chunk>> \in vectorFile[Joined[s]][m.profile]

SucceededIsPublished ==
  \A j \in Created : status[j] = "Succeeded" => IsPublished(j, input[j][1])

\* The inductive invariant of the proofs, relative to that of the queue: no
\* step, failure, rebuild, death or boot leads out of it.
ProjectionInv ==
  /\ IngestionTypeOK
  /\ ChunksAreOfRuns
  /\ ReadyWithDocument
  /\ VectorKeysAreFresh
  /\ VectorKeysNameOneChunk
  /\ ScopesAreIsolated
  /\ ActiveGenerationOnDisk
  /\ StepsAreInOrder
  /\ SucceededIsPublished

\* Once a boot has reconciled the text indexes, the disk holds one generation
\* per workspace that has any: what crashed runs left is gone.
BootClearsTextFiles ==
  /\ server = "up" /\ step = "free" /\ todo # {}
  /\ \A s \in Scopes : <<"vector", s>> \notin todo /\ <<"text", s>> \notin todo
  => Unreferenced = {}

\* What the proof adds: a boot turns to the text indexes after all vector
\* indexes, and drops a workspace from the list once its generation is active.
BootInOrder ==
  /\ \A s \in Scopes : <<"vector", s>> \in todo => <<"text", s>> \in todo
  /\ step = "rebuilt" /\ todo # {} =>
       /\ <<"text", newGen.scope>> \in todo
       /\ \A s \in Scopes : <<"vector", s>> \notin todo

\* What a search may once have cited stays what it is: from the commit that
\* makes the first chunks of a document ready, its rows are never rewritten,
\* by a run of another job, by a recovery and a run after it, or by an owner's
\* retry and a run after that.
CitedChunksAreImmutable ==
  [][\A j \in JobIds : ChunksOf(j) \cap ready["text"] # {} =>
       {x \in chunkRows' : x[1] = j} = ChunksOf(j)]_allVars

\* A vector index is replaced only by one that still has every entry a search
\* may need: readers of the file never lose a ready chunk of its profile.
\* The same holds for the active text generation and the graph.
IndexesNeverLoseChunks ==
  [][\A j \in Created : status[j] = "Succeeded" =>
       /\ ChunksOf(j) \cap Hits("text", input[j][1]) \subseteq Hits("text", input[j][1])'
       /\ input[j][1] \in Unambiguous =>
            ChunksOf(j) \cap Hits("graph", input[j][1]) \subseteq Hits("graph", input[j][1])'
       /\ input[j][1] \in Unambiguous /\ profile' = profile =>
            ChunksOf(j) \cap Hits("vector", input[j][1]) \subseteq Hits("vector", input[j][1])']_allVars

\* The projections do not disturb the queue: every step is a queue step or
\* leaves the queue alone.
ImplementsQueue == Spec

AnyHit(s) == UNION {Hits(p, s) : p \in Projections}

\* The variables of SearchCatalog as functions of the state.  The promise is
\* made to the workspaces that have their files and keys to themselves.
Published == [s \in Unambiguous |-> {j \in DocumentsOf(s) : status[j] = "Succeeded"}]
Found == [s \in Unambiguous |-> IF Serving THEN {x[1] : x \in AnyHit(s)} ELSE {}]
Complete == [s \in Unambiguous |->
               IF Serving THEN {j \in DocumentsOf(s) : InEveryIndex(j, s)} ELSE {}]

Catalog == INSTANCE SearchCatalog WITH
  Documents <- JobIds, Scopes <- Unambiguous, published <- Published, online <- Serving, found <- Found, complete <- Complete

\* The steps, failures, crashes and rebuilds above amount to publishing one
\* whole document at a time, and the server always comes back to serve.
ImplementsCatalogSteps == Catalog!CatalogInit /\ [][Catalog!CatalogNext]_(Catalog!catalogVars)

ImplementsCatalog == Catalog!CatalogSpec

\* An accepted document becomes searchable or its job a dead letter, unless
\* owners reopen dead letters, or rebuild text indexes, for ever, or a failure
\* of its job could not be recorded.  A boot requeues such a job, and then the
\* same holds of it again.
OwnersAreDone ==
  <>[][~\E s \in Scopes : \/ \E j \in JobIds : RetryDeadLetter(s, j)
                          \/ todo = {} /\ RebuildText(s)]_allVars

DocumentsBecomeSearchable ==
  OwnersAreDone =>
    \A j \in JobIds :
      status[j] # "Absent" /\ input[j][1] \in Unambiguous ~>
        \/ status[j] = "DeadLetter"
        \/ Stranded(j)
        \/ Serving /\ status[j] = "Succeeded" /\ InEveryIndex(j, input[j][1])

\* "Changing the provider or model revision requires a controlled rebuild from
\* the canonical chunks" (docs/operations.md): after the rebuild that every
\* boot makes, the vector index of the current profile holds all chunks.  Both
\* rebuilds skip the manifests of other profiles, so it does not.
RebuildCoversCanonicalChunks ==
  Serving => \A j \in Created : status[j] = "Succeeded" /\ input[j][1] \in Unambiguous =>
               ChunksOf(j) \subseteq Hits("vector", input[j][1])
=============================================================================
