-------------------------- MODULE IngestionProofs ---------------------------
(***************************************************************************)
(* Publication is correct for any number of workspaces, texts, chunks,     *)
(* jobs, profiles, failures and deaths: the projections refine the queue,  *)
(* and the invariants of module Ingestion follow from ProjectionInv, which *)
(* is inductive relative to the invariant QueueInv of the queue.  So does  *)
(* the implementation of SearchCatalog, whose liveness is left to TLC.     *)
(***************************************************************************)
EXTENDS Ingestion, IngestionQueueProofs

-----------------------------------------------------------------------------
(* Every step is a step of the queue, or none.                             *)

\* Whatever happens to projections, the queue makes one of its own steps.
LEMMA StepIsQueueStep == [IngestionNext]_allVars => [Next]_vars
<1> SUFFICES ASSUME [IngestionNext]_allVars PROVE [Next]_vars
  OBVIOUS
<1>1. CASE QueueStep
  BY <1>1 DEF QueueStep, Next
<1>2. CASE TimePasses
  BY <1>2 DEF TimePasses, Next
<1>3. CASE ProcessStep
  <2>1. CASE PrepareChunks
    BY <2>1 DEF PrepareChunks
  <2>2. CASE PublishVectors
    BY <2>2 DEF PublishVectors
  <2>3. CASE PublishText
    BY <2>3 DEF PublishText
  <2>4. CASE CommitDocument
    BY <2>4 DEF CommitDocument, Next
  <2>5. CASE StepFails
    BY <2>5 DEF StepFails, Next
  <2> QED
    BY <1>3, <2>1, <2>2, <2>3, <2>4, <2>5 DEF ProcessStep
<1>4. CASE CleanupStep
  BY <1>4 DEF CleanupStep, RemoveGeneration, EndCleanup
<1>5. CASE RebuildStep
  BY <1>5 DEF RebuildStep, RebuildVectors, RebuildText, RebuildGraph, ActivateText, ActivationFails
<1>6. CASE Die
  BY <1>6 DEF Die, Next
<1>7. CASE Boot
  BY <1>7 DEF Boot, Next
<1>8. CASE UNCHANGED allVars
  BY <1>8 DEF allVars
<1> QED
  BY <1>1, <1>2, <1>3, <1>4, <1>5, <1>6, <1>7, <1>8 DEF IngestionNext

\* Ingestion with its projections implements the queue.
THEOREM QueueRefinement == IngestionSpec => ImplementsQueue
<1>1. IngestionInit => Init
  BY DEF IngestionInit
<1> QED
  BY <1>1, StepIsQueueStep, PTL DEF IngestionSpec, ImplementsQueue, Spec

\* So the queue's invariant holds whatever the projections do.
LEMMA QueueInvHolds == IngestionSpec => []QueueInv
BY QueueRefinement, QueueInvariance, PTL DEF ImplementsQueue

-----------------------------------------------------------------------------
(* What a step of the queue means for chunks.                              *)

\* An accepted job has a workspace and a text.
LEMMA CreatedJobs ==
  ASSUME QueueInv
  PROVE  \A j \in Created :
           /\ j \in JobIds /\ j \in Nat
           /\ status[j] # "Absent"
           /\ input[j] \in Scopes \X Contents
BY QueueAssumption DEF QueueInv, TypeOK, JobsHaveRecords, QueueAssumption, Created, JobIds

\* Jobs stay what they are, and successes stay successes.
LEMMA QueueFrame ==
  ASSUME QueueInv, [Next]_vars
  PROVE  /\ QueueInv'
         /\ Created \subseteq Created'
         /\ \A j \in Created :
              /\ j \in JobIds
              /\ input[j] \in Scopes \X Contents
              /\ input'[j] = input[j]
              /\ status[j] = "Succeeded" => status'[j] = "Succeeded"
<1>1. QueueInv'
  BY NextKeepsQueueInv
<1>2. \A j \in Created : j \in JobIds /\ status[j] # "Absent" /\ input[j] \in Scopes \X Contents
  BY CreatedJobs
<1>3. \A j \in Created : /\ input'[j] = input[j]
                         /\ status'[j] # "Absent"
                         /\ status[j] = "Succeeded" => status'[j] = "Succeeded"
  BY <1>2, StepKeepsOutcomes
<1>4. \A j \in JobIds : status'[j] # "Absent" => j \in Created'
  BY <1>1 DEF QueueInv, JobsHaveRecords
<1> QED
  BY <1>1, <1>2, <1>3, <1>4

\* Only CompleteJob makes a document succeed.
LEMMA OnlyCompletionSucceeds ==
  ASSUME QueueInv, [Next]_vars, ~CompleteJob, NEW j \in JobIds,
         docStatus'[j] = "Succeeded" \/ status'[j] = "Succeeded"
  PROVE  j \in Created /\ docStatus[j] = "Succeeded" /\ status[j] = "Succeeded"
<1> USE QueueAssumption DEF QueueAssumption, QueueInv, TypeOK, DocumentFollowsJob, SetStatus,
       keyVars, jobVars
<1> SUFFICES status[j] = "Succeeded"
  BY DEF JobsHaveRecords
<1>1. status'[j] = "Succeeded"
  BY NextKeepsQueueInv
<1>2. ASSUME NEW s \in Scopes, NEW k \in Keys, NEW c \in Contents, EnqueueDocument(s, k, c)
      PROVE  status[j] = "Succeeded"
  BY <1>1, <1>2 DEF EnqueueDocument
<1>3. CASE ClaimNextJob
  <2>1. PICK i \in Created : SetStatus(i, "Processing")
    BY <1>3 DEF ClaimNextJob
  <2> QED
    BY <1>1, <2>1
<1>4. CASE RecordFailure
  <2>1. \E to \in {"DeadLetter", "RetryWait"} : SetStatus(lease, to)
    BY <1>4, Zenon DEF RecordFailure
  <2> QED
    BY <1>1, <2>1
<1>5. ASSUME NEW s \in Scopes, NEW i \in JobIds, RetryDeadLetter(s, i)
      PROVE  status[j] = "Succeeded"
  BY <1>1, <1>5 DEF RetryDeadLetter
<1>6. CASE RecoverIncompleteJobs
  BY <1>1, <1>6 DEF RecoverIncompleteJobs
<1>7. CASE status' = status
  BY <1>1, <1>7
<1>8. ASSUME \/ ProcessingFails
             \/ FailureNotRecorded
             \/ \E i \in JobIds : BackoffElapses(i)
             \/ \E how \in {"down", "poisoned"} : Crash(how)
             \/ UNCHANGED vars
      PROVE  status' = status
  BY <1>8 DEF ProcessingFails, FailureNotRecorded, BackoffElapses, Crash, vars
<1> QED
  BY <1>2, <1>3, <1>4, <1>5, <1>6, <1>7, <1>8 DEF Next

-----------------------------------------------------------------------------
(* The files and keys that workspaces have to themselves, or share.        *)

\* An unambiguous workspace is the only one that goes by its joined ids.
LEMMA OwnNames ==
  /\ Unambiguous \subseteq Scopes
  /\ \A s \in Scopes : Joined[s] \in Names
  /\ \A s \in Unambiguous, t \in Scopes : Joined[t] = Joined[s] => t = s
BY DEF Unambiguous, Names

\* What becomes of a graph that nobody else can take edges from.
LEMMA MaterializedGraph ==
  ASSUME graph \in [Scopes -> SUBSET ChunkIds],
         NEW s \in Scopes, NEW chunks \in SUBSET ChunkIds, NEW g \in Materialized(s, chunks)
  PROVE  /\ g \in [Scopes -> SUBSET ChunkIds]
         /\ \A t \in Unambiguous : g[t] = IF t = s THEN chunks ELSE graph[t]
<1> DEFINE theirs == UNION {graph[t] : t \in Sharing(s)}
<1>1. PICK moved \in SUBSET theirs, lost \in SUBSET theirs :
        g = [t \in Scopes |-> CASE t = s -> chunks \cup moved
                               [] t \in Sharing(s) -> graph[t] \ lost
                               [] OTHER -> graph[t]]
  <2>1. g \in UNION {{[t \in Scopes |-> CASE t = s -> chunks \cup moved
                                          [] t \in Sharing(s) -> graph[t] \ lost
                                          [] OTHER -> graph[t]] : lost \in SUBSET moved} :
                      moved \in SUBSET theirs}
    BY DEF Materialized
  <2> HIDE DEF theirs
  <2> QED
    BY <2>1
<1>2. theirs \subseteq ChunkIds
  BY DEF Sharing
<1>3. s \in Unambiguous => theirs = {}
  BY OwnNames DEF Sharing
<1>4. \A t \in Unambiguous : t \in Scopes /\ t \notin Sharing(s)
  BY OwnNames DEF Sharing
<1> HIDE DEF theirs
<1>5. s \notin Sharing(s)
  BY DEF Sharing
<1>6. g \in [Scopes -> SUBSET ChunkIds]
  <2>1. ASSUME NEW t \in Scopes
        PROVE  g[t] \in SUBSET ChunkIds
    BY <1>1, <1>2
  <2> QED
    BY <1>1, <2>1
<1>7. ASSUME NEW t \in Unambiguous PROVE g[t] = IF t = s THEN chunks ELSE graph[t]
  BY <1>1, <1>3, <1>4, <1>7
<1> QED
  BY <1>6, <1>7

-----------------------------------------------------------------------------
(* Steps that leave tables and indexes alone.                              *)

\* A chunk of an accepted job belongs to the same workspace for ever.
LEMMA ScopesAreSettled ==
  ASSUME QueueInv, [Next]_vars
  PROVE  /\ \A x : x[1] \in Created => x[1] \in Created' /\ ScopeOf(x)' = ScopeOf(x)
         /\ \A x, s : BelongsTo(x, s) => BelongsTo(x, s)'
BY QueueFrame DEF ScopeOf, BelongsTo

\* Manifests stay those of succeeded documents while none becomes ready.
LEMMA ReadyStaysWithDocument ==
  ASSUME QueueInv, ProjectionInv, [Next]_vars, UNCHANGED ready
  PROVE  ReadyWithDocument'
BY QueueFrame DEF ProjectionInv, ReadyWithDocument

\* What is ready to be rebuilt from does not grow while no job completes.
LEMMA ReadyDoesNotGrow ==
  ASSUME QueueInv, ProjectionInv, [Next]_vars, ~CompleteJob,
         UNCHANGED <<chunkRows, ready>>, NEW p, NEW s
  PROVE  ReadyChunks(p, s)' \subseteq ReadyChunks(p, s)
<1> SUFFICES ASSUME NEW x \in ReadyChunks(p, s)' PROVE x \in ReadyChunks(p, s)
  OBVIOUS
<1>1. /\ x \in chunkRows
      /\ ScopeOf(x)' = s
      /\ x \in ready[p]
      /\ docStatus'[x[1]] = "Succeeded"
  BY DEF ReadyChunks, ScopeChunks
<1>2. x[1] \in Created /\ x[1] \in JobIds
  BY <1>1, QueueFrame DEF ProjectionInv, ChunksAreOfRuns
<1> QED
  BY <1>1, <1>2, OnlyCompletionSucceeds, ScopesAreSettled DEF ReadyChunks, ScopeChunks

\* If only the queue and the holder of the mutex move, it is enough to look
\* at types and at what the holder has done.
LEMMA QuietStepKeepsProjectionInv ==
  ASSUME QueueInv, ProjectionInv, [Next]_vars, ~CompleteJob,
         UNCHANGED <<tables, vectorFile, textFiles, activeGen, graph>>,
         IngestionTypeOK', StepsAreInOrder'
  PROVE  ProjectionInv'
<1> USE DEF tables
<1>1. ChunksAreOfRuns'
  BY ScopesAreSettled DEF ProjectionInv, ChunksAreOfRuns
<1>2. \A m \in manifests : ScopeOf(m.chunk)' = ScopeOf(m.chunk)
  BY ScopesAreSettled DEF ProjectionInv, ChunksAreOfRuns
<1>3. VectorKeysAreFresh'
  BY <1>2 DEF ProjectionInv, VectorKeysAreFresh
<1>4. VectorKeysNameOneChunk'
  BY <1>2 DEF ProjectionInv, VectorKeysNameOneChunk
<1>5. ScopesAreIsolated'
  BY ScopesAreSettled DEF ProjectionInv, ScopesAreIsolated
<1>6. ActiveGenerationOnDisk'
  BY DEF ProjectionInv, ActiveGenerationOnDisk
<1>7. SucceededIsPublished'
  <2>1. ASSUME NEW j \in Created', status'[j] = "Succeeded"
        PROVE  /\ j \in Created
               /\ status[j] = "Succeeded"
               /\ input'[j] = input[j]
    <3>1. j \in JobIds
      BY QueueFrame, QueueAssumption DEF QueueInv, TypeOK, QueueAssumption, Created, JobIds
    <3> QED
      BY <2>1, <3>1, OnlyCompletionSucceeds, QueueFrame
  <2>2. \A j, s : IsPublished(j, s) => IsPublished(j, s)'
    BY DEF IsPublished, ChunksOf
  <2> QED
    BY <2>1, <2>2 DEF ProjectionInv, SucceededIsPublished
<1>8. ReadyWithDocument'
  BY ReadyStaysWithDocument
<1> QED
  BY <1>1, <1>3, <1>4, <1>5, <1>6, <1>7, <1>8 DEF ProjectionInv

\* The queue's own operations and the clock; failures, ends of cleanups,
\* deaths and boots; and nothing at all.
LEMMA QuietActionsKeepProjectionInv ==
  ASSUME QueueInv, ProjectionInv,
         \/ QueueStep
         \/ TimePasses
         \/ StepFails
         \/ EndCleanup
         \/ ActivationFails
         \/ Die
         \/ Boot
         \/ UNCHANGED allVars
  PROVE  ProjectionInv'
<1>1. IngestionTypeOK /\ StepsAreInOrder
  BY DEF ProjectionInv
<1>2. [Next]_vars
  <2>1. [IngestionNext]_allVars
    BY DEF IngestionNext, ProcessStep, CleanupStep, RebuildStep
  <2> QED
    BY <2>1, StepIsQueueStep
<1>3. TypeOK'
  BY <1>2, QueueFrame DEF QueueInv
<1> USE <1>1, <1>2, <1>3 DEF projectionVars, processVars, tables
<1>4. CASE QueueStep
  <2>1. UNCHANGED projectionVars /\ step = "free" /\ todo = {}
    BY <1>4 DEF QueueStep, Serving
  <2>2. ~CompleteJob
    BY <1>4 DEF QueueStep, CompleteJob, EnqueueDocument, ClaimNextJob, ProcessingFails,
                RecordFailure, FailureNotRecorded, RetryDeadLetter, SetStatus, workerVars
  <2>3. IngestionTypeOK'
    BY <2>1 DEF IngestionTypeOK
  <2>4. StepsAreInOrder'
    BY <2>1 DEF StepsAreInOrder
  <2> QED
    BY <2>1, <2>2, <2>3, <2>4, QuietStepKeepsProjectionInv
<1>5. CASE TimePasses \/ UNCHANGED allVars
  <2>1. /\ UNCHANGED projectionVars
        /\ UNCHANGED <<accepted, input, status, docStatus, phase, lease, server>>
    BY <1>5 DEF TimePasses, BackoffElapses, allVars, vars, keyVars, jobVars, workerVars
  <2>2. ~CompleteJob
    BY <2>1 DEF CompleteJob
  <2>3. IngestionTypeOK'
    BY <2>1 DEF IngestionTypeOK
  <2>4. StepsAreInOrder'
    BY <2>1 DEF StepsAreInOrder, ChunksOf, Current, RunChunks, VectorEntries, WithPending,
                ReadyChunks, ScopeChunks, ScopeOf
  <2> QED
    BY <2>1, <2>2, <2>3, <2>4, QuietStepKeepsProjectionInv
<1>6. CASE StepFails \/ EndCleanup \/ ActivationFails
  <2>1. /\ UNCHANGED <<tables, vectorFile, textFiles, activeGen, graph, profile, todo, server>>
        /\ step' = "free"
        /\ newGen' = NoGen
        /\ step # "free"
    BY <1>6 DEF StepFails, EndCleanup, ActivationFails, ProcessingFails, vars, StepsAreInOrder
  <2>2. ~CompleteJob
    BY <1>6 DEF StepFails, EndCleanup, ActivationFails, ProcessingFails, CompleteJob, vars, workerVars
  <2>3. IngestionTypeOK'
    BY <2>1 DEF IngestionTypeOK
  <2>4. StepsAreInOrder'
    BY <2>1 DEF StepsAreInOrder
  <2> QED
    BY <2>1, <2>2, <2>3, <2>4, QuietStepKeepsProjectionInv
<1>7. CASE Die
  <2>1. /\ UNCHANGED <<tables, vectorFile, textFiles, activeGen, graph, profile>>
        /\ step' = "free" /\ newGen' = NoGen /\ todo' = {}
    BY <1>7 DEF Die
  <2>2. ~CompleteJob
    BY <1>7 DEF Die, Crash, CompleteJob
  <2>3. IngestionTypeOK'
    BY <2>1 DEF IngestionTypeOK
  <2>4. StepsAreInOrder'
    BY <2>1 DEF StepsAreInOrder
  <2> QED
    BY <2>1, <2>2, <2>3, <2>4, QuietStepKeepsProjectionInv
<1>8. CASE Boot
  <2>1. /\ UNCHANGED <<tables, vectorFile, textFiles, activeGen, graph, newGen>>
        /\ server # "up" /\ server' = "up"
        /\ profile' \in Profiles
        /\ step' = step
        /\ todo' = Projections \X {ScopeOf(m.chunk) : m \in manifests}
    BY <1>8 DEF Boot, RecoverIncompleteJobs
  <2>2. ~CompleteJob
    BY <2>1 DEF CompleteJob
  <2>3. \A m \in manifests : ScopeOf(m.chunk) \in Scopes
    BY QueueFrame DEF ProjectionInv, ChunksAreOfRuns, ScopeOf
  <2>4. IngestionTypeOK'
    BY <2>1, <2>3 DEF IngestionTypeOK
  <2>5. StepsAreInOrder'
    BY <2>1 DEF StepsAreInOrder
  <2> QED
    BY <2>1, <2>2, <2>4, <2>5, QuietStepKeepsProjectionInv
<1> QED
  BY <1>4, <1>5, <1>6, <1>7, <1>8

-----------------------------------------------------------------------------
(* The steps of a run.                                                     *)

\* The chunks of a run: at least one, told apart by their ordinals.
LEMMA ChunksOfRun ==
  ASSUME QueueInv, NEW j \in Created, NEW n \in 1..MaxRuns
  PROVE  LET k == ChunkCount[input[j][2]] IN
         /\ k \in Nat \ {0}
         /\ input[j][1] \in Scopes
         /\ RunChunks(j, n) # {}
         /\ \A x \in RunChunks(j, n) :
              /\ x \in ChunkIds
              /\ x[1] = j /\ x[2] = n /\ x[3] \in 1..k
              /\ x = <<j, n, x[3]>>
<1> DEFINE k == ChunkCount[input[j][2]]
<1>1. /\ j \in JobIds
      /\ input[j][1] \in Scopes
      /\ k \in Nat \ {0}
  BY CreatedJobs, IngestionAssumption DEF IngestionAssumption
<1>2. <<j, n, 1>> \in RunChunks(j, n)
  BY <1>1 DEF RunChunks
<1>3. ASSUME NEW x \in RunChunks(j, n)
      PROVE  /\ x \in ChunkIds
             /\ x[1] = j /\ x[2] = n /\ x[3] \in 1..k
             /\ x = <<j, n, x[3]>>
  <2>1. PICK i \in 1..k : x = <<j, n, i>>
    BY <1>3 DEF RunChunks
  <2> QED
    BY <1>1, <2>1 DEF ChunkIds
<1> HIDE DEF k
<1>4. RunChunks(j, n) # {}
  BY <1>2
<1>5. /\ k \in Nat \ {0}
      /\ input[j][1] \in Scopes
      /\ RunChunks(j, n) # {}
      /\ \A x \in RunChunks(j, n) :
           /\ x \in ChunkIds
           /\ x[1] = j /\ x[2] = n /\ x[3] \in 1..k
           /\ x = <<j, n, x[3]>>
  BY <1>1, <1>3, <1>4
<1> QED
  BY <1>5 DEF k

\* The first transaction: new rows for the leased document, new keys, and
\* nothing that a search could see.
LEMMA PrepareKeepsProjectionInv ==
  ASSUME QueueInv, ProjectionInv, PrepareChunks
  PROVE  ProjectionInv'
<1> DEFINE j == lease
           s == input[j][1]
           n == runs[j] + 1
           k == ChunkCount[input[j][2]]
           new == RunChunks(j, n)
           entered == {[chunk |-> x, key |-> AnnKey(x, s), profile |-> profile] : x \in new}
<1>1. /\ j \in Created /\ j \in JobIds
      /\ status[j] = "Processing"
      /\ server = "up"
      /\ n \in 1..MaxRuns
  BY CreatedJobs, IngestionAssumption
     DEF PrepareChunks, Serving, QueueInv, LeaseIsHeld, ProjectionInv, IngestionTypeOK,
         IngestionAssumption
<1>2. /\ k \in Nat \ {0}
      /\ s \in Scopes
      /\ new # {}
      /\ \A x \in new : /\ x \in ChunkIds
                        /\ x[1] = j /\ x[2] = n /\ x[3] \in 1..k
                        /\ x = <<j, n, x[3]>>
  BY <1>1, ChunksOfRun
<1>3. /\ runs' = [runs EXCEPT ![j] = n]
      /\ chunkRows' = (chunkRows \ RowsReplaced(j)) \cup new
      /\ manifests' = manifests \cup entered
      /\ nextKey' = [nextKey EXCEPT ![s] = @ + k]
      /\ step' = "prepared" /\ todo = {} /\ phase = "leased"
      /\ UNCHANGED <<vars, ready, vectorFile, textFiles, activeGen, graph, profile, newGen, todo>>
  BY DEF PrepareChunks, Serving
<1>4. UNCHANGED <<accepted, input, status, docStatus, phase, lease, server>>
  BY <1>3 DEF vars, keyVars, jobVars, workerVars
<1>5. IngestionTypeOK
  BY DEF ProjectionInv
<1> HIDE DEF k, n, new, entered
<1>6. ASSUME NEW m \in entered
      PROVE  /\ m.chunk \in new
             /\ m.key = nextKey[s] + m.chunk[3] - 1
             /\ m.key \in Nat \ {0}
             /\ m.profile = profile
             /\ m \in [chunk : ChunkIds, key : Nat \ {0}, profile : Profiles]
  BY <1>2, <1>5, <1>6 DEF entered, AnnKey, IngestionTypeOK
<1>7. \A x : ScopeOf(x)' = ScopeOf(x)
  BY <1>4 DEF ScopeOf
<1>8. \A x \in new : ScopeOf(x) = s
  BY <1>2 DEF ScopeOf
<1>9. IngestionTypeOK'
  <2>1. TypeOK'
    BY <1>3, <1>5 DEF IngestionTypeOK, TypeOK, vars, keyVars, jobVars, workerVars
  <2>2. runs' \in [JobIds -> 0..MaxRuns]
    BY <1>1, <1>3, <1>5, IngestionAssumption DEF IngestionTypeOK, IngestionAssumption
  <2>3. nextKey' \in [Scopes -> Nat \ {0}]
    BY <1>2, <1>3, <1>5 DEF IngestionTypeOK
  <2>4. chunkRows' \subseteq ChunkIds
    BY <1>2, <1>3, <1>5 DEF IngestionTypeOK
  <2>5. manifests' \subseteq [chunk : ChunkIds, key : Nat \ {0}, profile : Profiles]
    BY <1>3, <1>5, <1>6 DEF IngestionTypeOK
  <2> QED
    BY <1>3, <1>5, <2>1, <2>2, <2>3, <2>4, <2>5 DEF IngestionTypeOK
<1>10. ChunksAreOfRuns'
  <2>1. ASSUME NEW x \in ChunkIds, x[1] \in Created, x[2] <= runs[x[1]]
        PROVE  x[2] <= runs'[x[1]]
    <3>1. x[1] \in JobIds /\ x[2] \in Nat
      BY <2>1 DEF ChunkIds
    <3> QED
      BY <1>1, <1>3, <1>5, <2>1, <3>1 DEF IngestionTypeOK, n
  <2>2. ASSUME NEW x \in new PROVE x[1] \in Created /\ x[2] <= runs'[x[1]]
    BY <1>1, <1>2, <1>3, <1>5 DEF IngestionTypeOK
  <2>3. Created' = Created
    BY <1>4 DEF Created
  <2>4. \A x \in chunkRows' : x[1] \in Created' /\ x[2] <= runs'[x[1]]
    BY <1>3, <1>5, <2>1, <2>2, <2>3 DEF ProjectionInv, ChunksAreOfRuns, IngestionTypeOK
  <2>5. \A m \in manifests' : m.chunk[1] \in Created' /\ m.chunk[2] <= runs'[m.chunk[1]]
    BY <1>3, <1>5, <1>6, <2>1, <2>2, <2>3 DEF ProjectionInv, ChunksAreOfRuns, IngestionTypeOK
  <2> QED
    BY <2>4, <2>5 DEF ChunksAreOfRuns
\* Old keys lie below nextKey, the new ones from there up, one per ordinal.
<1>11. \A m \in manifests : /\ m.key < nextKey[ScopeOf(m.chunk)]
                            /\ m.key \in Nat
                            /\ ScopeOf(m.chunk) \in Scopes
  BY <1>5, CreatedJobs DEF ProjectionInv, VectorKeysAreFresh, ChunksAreOfRuns, IngestionTypeOK, ScopeOf
<1>12. VectorKeysAreFresh'
  <2>1. ASSUME NEW m \in manifests PROVE m.key < nextKey'[ScopeOf(m.chunk)]
    BY <1>2, <1>3, <1>5, <1>11 DEF IngestionTypeOK
  <2>2. ASSUME NEW m \in entered PROVE m.key < nextKey'[ScopeOf(m.chunk)]
    <3>1. m.chunk[3] \in 1..k /\ ScopeOf(m.chunk) = s /\ m.key = nextKey[s] + m.chunk[3] - 1
      BY <1>2, <1>6, <1>8
    <3> QED
      BY <1>2, <1>3, <1>5, <3>1 DEF IngestionTypeOK
  <2> QED
    BY <1>3, <1>7, <2>1, <2>2 DEF VectorKeysAreFresh
<1>13. VectorKeysNameOneChunk'
  <2>1. ASSUME NEW m \in manifests', NEW l \in manifests',
               ScopeOf(m.chunk) = ScopeOf(l.chunk), m.key = l.key
        PROVE  m.chunk = l.chunk
    <3>1. CASE m \in manifests /\ l \in manifests
      BY <2>1, <3>1 DEF ProjectionInv, VectorKeysNameOneChunk
    <3>2. ASSUME NEW a \in manifests, NEW b \in entered, ScopeOf(a.chunk) = ScopeOf(b.chunk)
          PROVE  a.key # b.key
      <4>1. b.chunk[3] \in 1..k /\ ScopeOf(b.chunk) = s /\ b.key = nextKey[s] + b.chunk[3] - 1
        BY <1>2, <1>6, <1>8
      <4> QED
        BY <1>2, <1>5, <1>11, <3>2, <4>1 DEF IngestionTypeOK
    <3>3. CASE m \in entered /\ l \in entered
      <4>1. /\ m.chunk[3] \in 1..k /\ m.key = nextKey[s] + m.chunk[3] - 1
            /\ l.chunk[3] \in 1..k /\ l.key = nextKey[s] + l.chunk[3] - 1
            /\ m.chunk = <<j, n, m.chunk[3]>> /\ l.chunk = <<j, n, l.chunk[3]>>
        BY <1>2, <1>6, <3>3
      <4>2. nextKey[s] \in Nat
        BY <1>2, <1>5 DEF IngestionTypeOK
      <4>3. \A a, b \in 1..k : nextKey[s] + a - 1 = nextKey[s] + b - 1 => a = b
        BY <1>2, <4>2
      <4>4. m.chunk[3] = l.chunk[3]
        BY <2>1, <4>1, <4>3
      <4> QED
        BY <4>1, <4>4
    <3> QED
      BY <1>3, <2>1, <3>1, <3>2, <3>3
  <2> QED
    BY <1>3, <1>7, <2>1 DEF ProjectionInv, VectorKeysNameOneChunk
<1>14. ScopesAreIsolated'
  BY <1>3, <1>4 DEF ProjectionInv, ScopesAreIsolated, BelongsTo, ScopeOf, Created
<1>15. ActiveGenerationOnDisk'
  BY <1>3 DEF ProjectionInv, ActiveGenerationOnDisk
<1>16. StepsAreInOrder'
  <2>1. Current' = new
    BY <1>1, <1>3, <1>4, <1>5 DEF Current, RunChunks, IngestionTypeOK, new
  <2>2. ChunksOf(j)' = new
    BY <1>2, <1>3, <1>4 DEF ChunksOf, RowsReplaced
  <2>3. ASSUME NEW m \in manifests, m.chunk \in new PROVE FALSE
    BY <1>1, <1>2, <1>5, <2>3 DEF ProjectionInv, ChunksAreOfRuns, IngestionTypeOK, n
  <2>4. newGen = NoGen
    BY DEF PrepareChunks, Serving, ProjectionInv, StepsAreInOrder
  <2> QED
    BY <1>1, <1>3, <1>4, <1>6, <2>1, <2>2, <2>3, <2>4 DEF StepsAreInOrder
<1>17. SucceededIsPublished'
  <2>1. ASSUME NEW i \in Created, status[i] = "Succeeded", IsPublished(i, input[i][1])
        PROVE  IsPublished(i, input[i][1])'
    <3>1. i # j
      BY <1>1, <2>1
    <3>2. ChunksOf(i)' = ChunksOf(i)
      BY <1>2, <1>3, <3>1 DEF ChunksOf, RowsReplaced
    <3>3. \A m \in entered : m.chunk \notin ChunksOf(i)
      BY <1>2, <1>6, <3>1 DEF ChunksOf
    <3> QED
      BY <1>3, <1>4, <2>1, <3>2, <3>3 DEF IsPublished
  <2> QED
    BY <1>4, <2>1 DEF ProjectionInv, SucceededIsPublished, Created
<1>18. ReadyWithDocument'
  BY <1>3, ReadyStaysWithDocument
<1> QED
  BY <1>9, <1>10, <1>12, <1>13, <1>14, <1>15, <1>16, <1>17, <1>18 DEF ProjectionInv

\* Between the first transaction of a run and its last, the leased document
\* has its chunks, and they are of its workspace.
LEMMA RunInProgress ==
  ASSUME QueueInv, ProjectionInv, step \in {"prepared", "vectored", "indexed"}
  PROVE  /\ lease \in Created /\ lease \in JobIds
         /\ status[lease] = "Processing"
         /\ phase = "leased" /\ server = "up" /\ todo = {}
         /\ input[lease][1] \in Scopes
         /\ Current = ChunksOf(lease)
         /\ Current # {}
         /\ \A x \in Current : /\ x \in chunkRows /\ x \in ChunkIds
                               /\ x[1] = lease
                               /\ ScopeOf(x) = input[lease][1]
<1>1. /\ phase = "leased" /\ server = "up" /\ todo = {}
      /\ Current = ChunksOf(lease)
  BY DEF ProjectionInv, StepsAreInOrder
<1>2. lease \in Created /\ status[lease] = "Processing"
  BY <1>1 DEF QueueInv, LeaseIsHeld
<1>3. lease \in JobIds /\ input[lease][1] \in Scopes /\ ChunkCount[input[lease][2]] \in Nat \ {0}
  BY <1>2, CreatedJobs, IngestionAssumption DEF IngestionAssumption
<1>4. <<lease, runs[lease], 1>> \in Current
  BY <1>3 DEF Current, RunChunks
<1>5. \A x \in Current : x \in chunkRows /\ x[1] = lease
  BY <1>1 DEF ChunksOf
<1>6. \A x \in Current : x \in ChunkIds /\ ScopeOf(x) = input[lease][1]
  BY <1>5 DEF ProjectionInv, IngestionTypeOK, ScopeOf
<1> QED
  BY <1>1, <1>2, <1>3, <1>4, <1>5, <1>6

\* A vector file may be replaced by one made from the rows of the workspace
\* as long as the ready ones are among them.
LEMMA NewVectorFile ==
  ASSUME QueueInv, ProjectionInv, NEW s \in Scopes, NEW set \in SUBSET chunkRows,
         \A x \in set : ScopeOf(x) = s,
         ReadyChunks("vector", s) \subseteq set,
         vectorFile' = [vectorFile EXCEPT ![Joined[s]][profile] = VectorEntries(set)],
         UNCHANGED <<vars, tables, textFiles, activeGen, graph, profile, newGen>>
  PROVE  /\ TypeOK'
         /\ vectorFile' \in [Names -> [Profiles -> SUBSET (Nat \X ChunkIds)]]
         /\ vectorFile'[Joined[s]][profile] = VectorEntries(set)
         /\ ChunksAreOfRuns'
         /\ ReadyWithDocument'
         /\ VectorKeysAreFresh'
         /\ VectorKeysNameOneChunk'
         /\ ScopesAreIsolated'
         /\ ActiveGenerationOnDisk'
         /\ SucceededIsPublished'
<1> USE DEF tables
<1>1. /\ UNCHANGED <<accepted, input, status, docStatus, phase, lease, server>>
      /\ Created' = Created
      /\ \A x : ScopeOf(x)' = ScopeOf(x)
  BY DEF vars, keyVars, jobVars, workerVars, Created, ScopeOf
<1>2. /\ IngestionTypeOK /\ profile \in Profiles
      /\ vectorFile \in [Names -> [Profiles -> SUBSET (Nat \X ChunkIds)]]
  BY DEF ProjectionInv, IngestionTypeOK
<1>3. TypeOK'
  BY <1>2 DEF IngestionTypeOK, TypeOK, vars, keyVars, jobVars, workerVars
<1>4. ASSUME NEW e \in VectorEntries(set)
      PROVE  \E m \in manifests : /\ m.chunk = e[2] /\ m.key = e[1] /\ m.profile = profile
                                  /\ m.chunk \in set /\ e = <<m.key, m.chunk>>
  BY <1>4 DEF VectorEntries
<1>5. VectorEntries(set) \subseteq Nat \X ChunkIds
  BY <1>2, <1>4 DEF IngestionTypeOK
<1>6. /\ vectorFile'[Joined[s]][profile] = VectorEntries(set)
      /\ \A n \in Names, p \in Profiles :
           vectorFile'[n][p] = IF n = Joined[s] /\ p = profile THEN VectorEntries(set)
                                                             ELSE vectorFile[n][p]
      /\ vectorFile' \in [Names -> [Profiles -> SUBSET (Nat \X ChunkIds)]]
  BY <1>2, <1>5, OwnNames
<1>7. ChunksAreOfRuns'
  BY <1>1 DEF ProjectionInv, ChunksAreOfRuns
<1>8. VectorKeysAreFresh'
  BY <1>1 DEF ProjectionInv, VectorKeysAreFresh
<1>9. VectorKeysNameOneChunk'
  <2>1. ASSUME NEW n \in Names, NEW p \in Profiles, NEW e \in vectorFile'[n][p]
        PROVE  \E m \in manifests : m.chunk = e[2] /\ m.key = e[1] /\ m.profile = p
                                    /\ Joined[ScopeOf(m.chunk)] = n
    BY <1>4, <1>6, <2>1 DEF ProjectionInv, VectorKeysNameOneChunk
  <2> QED
    BY <1>1, <2>1 DEF ProjectionInv, VectorKeysNameOneChunk
<1>10. ScopesAreIsolated'
  <2>1. \A x \in set : BelongsTo(x, s)
    BY DEF ProjectionInv, ChunksAreOfRuns, BelongsTo
  <2>2. ASSUME NEW t \in Unambiguous, NEW p \in Profiles, NEW e \in vectorFile'[Joined[t]][p]
        PROVE  BelongsTo(e[2], t)
    <3>1. Joined[t] \in Names /\ (Joined[t] = Joined[s] => t = s)
      BY OwnNames
    <3> QED
      BY <1>4, <1>6, <2>1, <2>2, <3>1 DEF ProjectionInv, ScopesAreIsolated
  <2> QED
    BY <1>1, <2>2 DEF ProjectionInv, ScopesAreIsolated, BelongsTo
<1>11. ActiveGenerationOnDisk'
  BY DEF ProjectionInv, ActiveGenerationOnDisk
<1>12. SucceededIsPublished'
  <2>1. ASSUME NEW j \in Created, status[j] = "Succeeded", input[j][1] \in Unambiguous,
               NEW m \in manifests, m.chunk \in ChunksOf(j)
        PROVE  <<m.key, m.chunk>> \in vectorFile'[Joined[input[j][1]]][m.profile]
    <3>1. /\ <<m.key, m.chunk>> \in vectorFile[Joined[input[j][1]]][m.profile]
          /\ m.chunk \in ready["vector"]
          /\ m.profile \in Profiles /\ Joined[input[j][1]] \in Names
          /\ Joined[input[j][1]] = Joined[s] => input[j][1] = s
          /\ docStatus[j] = "Succeeded"
      BY <1>2, <2>1, CreatedJobs, OwnNames
         DEF ProjectionInv, SucceededIsPublished, IsPublished, IngestionTypeOK, Projections,
             QueueInv, DocumentFollowsJob
    <3>2. input[j][1] = s => m.chunk \in set
      BY <2>1, <3>1 DEF ReadyChunks, ScopeChunks, ChunksOf, ScopeOf
    <3>3. input[j][1] = s /\ m.profile = profile => <<m.key, m.chunk>> \in VectorEntries(set)
      BY <3>2 DEF VectorEntries
    <3> QED
      BY <1>6, <3>1, <3>3
  <2>2. ASSUME NEW j \in Created, status[j] = "Succeeded"
        PROVE  IsPublished(j, input[j][1])'
    <3>1. IsPublished(j, input[j][1]) /\ ChunksOf(j)' = ChunksOf(j) /\ input'[j] = input[j]
      BY <1>1, <2>2 DEF ProjectionInv, SucceededIsPublished, ChunksOf
    <3> QED
      BY <2>1, <2>2, <3>1 DEF IsPublished
  <2> QED
    BY <1>1, <2>2 DEF SucceededIsPublished
<1>13. ReadyWithDocument'
  BY ReadyStaysWithDocument
<1> QED
  BY <1>3, <1>6, <1>7, <1>8, <1>9, <1>10, <1>11, <1>12, <1>13

LEMMA PublishVectorsKeepsProjectionInv ==
  ASSUME QueueInv, ProjectionInv, PublishVectors
  PROVE  ProjectionInv'
<1> DEFINE s == input[lease][1]
           set == WithPending("vector", s)
<1> USE DEF tables
<1>1. /\ step = "prepared" /\ step' = "vectored"
      /\ vectorFile' = [vectorFile EXCEPT ![Joined[s]][profile] = VectorEntries(set)]
      /\ UNCHANGED <<vars, tables, textFiles, activeGen, graph, profile, newGen, todo>>
  BY DEF PublishVectors
<1>2. /\ s \in Scopes
      /\ set \in SUBSET chunkRows
      /\ \A x \in set : ScopeOf(x) = s
      /\ ReadyChunks("vector", s) \subseteq set
  BY <1>1, RunInProgress DEF WithPending, ReadyChunks, ScopeChunks
<1>3. VectorEntries(Current) \subseteq VectorEntries(set)
  BY DEF VectorEntries, WithPending
<1> HIDE DEF s, set
<1>4. /\ TypeOK'
      /\ vectorFile' \in [Names -> [Profiles -> SUBSET (Nat \X ChunkIds)]]
      /\ vectorFile'[Joined[s]][profile] = VectorEntries(set)
      /\ ChunksAreOfRuns'
      /\ ReadyWithDocument'
      /\ VectorKeysAreFresh'
      /\ VectorKeysNameOneChunk'
      /\ ScopesAreIsolated'
      /\ ActiveGenerationOnDisk'
      /\ SucceededIsPublished'
  BY <1>1, <1>2, NewVectorFile
<1>5. IngestionTypeOK'
  BY <1>1, <1>4 DEF ProjectionInv, IngestionTypeOK
<1>6. /\ Current' = Current
      /\ VectorEntries(Current)' = VectorEntries(Current)
      /\ ChunksOf(lease)' = ChunksOf(lease)
      /\ UNCHANGED <<phase, lease, server, input>>
  BY <1>1 DEF Current, RunChunks, VectorEntries, ChunksOf, vars, keyVars, jobVars, workerVars
<1>7. StepsAreInOrder'
  BY <1>1, <1>3, <1>4, <1>6 DEF ProjectionInv, StepsAreInOrder, s
<1> QED
  BY <1>4, <1>5, <1>7 DEF ProjectionInv

LEMMA RebuildVectorsKeepsProjectionInv ==
  ASSUME QueueInv, ProjectionInv, NEW s \in Scopes, RebuildVectors(s)
  PROVE  ProjectionInv'
<1> USE DEF tables
<1>1. /\ step = "free" /\ server = "up"
      /\ vectorFile' = [vectorFile EXCEPT ![Joined[s]][profile] = VectorEntries(ReadyChunks("vector", s))]
      /\ todo' = todo \ {<<"vector", s>>}
      /\ UNCHANGED <<vars, tables, textFiles, activeGen, graph, profile, step, newGen>>
  BY DEF RebuildVectors, MayRebuild
<1>2. /\ ReadyChunks("vector", s) \in SUBSET chunkRows
      /\ \A x \in ReadyChunks("vector", s) : ScopeOf(x) = s
  BY DEF ReadyChunks, ScopeChunks
<1>3. /\ TypeOK'
      /\ vectorFile' \in [Names -> [Profiles -> SUBSET (Nat \X ChunkIds)]]
      /\ ChunksAreOfRuns'
      /\ ReadyWithDocument'
      /\ VectorKeysAreFresh'
      /\ VectorKeysNameOneChunk'
      /\ ScopesAreIsolated'
      /\ ActiveGenerationOnDisk'
      /\ SucceededIsPublished'
  BY <1>1, <1>2, NewVectorFile
<1>4. IngestionTypeOK'
  BY <1>1, <1>3 DEF ProjectionInv, IngestionTypeOK
<1>5. StepsAreInOrder'
  BY <1>1 DEF ProjectionInv, StepsAreInOrder, vars
<1> QED
  BY <1>3, <1>4, <1>5 DEF ProjectionInv

\* Finitely many names are in use, so there is another one.
LEMMA FreshGeneration ==
  ASSUME IngestionTypeOK, NEW used,
         used = {f.id : f \in textFiles} \cup {activeGen[t] : t \in Scopes}
  PROVE  /\ Cardinality(used) \in Nat
         /\ \E g \in 1..(Cardinality(used) + 1) : g \notin used
<1> DEFINE ids == {f.id : f \in textFiles}
           active == {activeGen[t] : t \in Scopes}
<1>1. IsFiniteSet(ids)
  <2> DEFINE h == [f \in textFiles |-> f.id]
  <2>1. h \in Surjection(textFiles, ids)
    BY DEF Surjection
  <2> QED
    BY <2>1, FS_Surjection DEF IngestionTypeOK
<1>2. IsFiniteSet(active)
  <2> DEFINE h == [t \in Scopes |-> activeGen[t]]
  <2>1. h \in Surjection(Scopes, active)
    BY DEF Surjection
  <2> QED
    BY <2>1, FS_Surjection, IngestionAssumption DEF IngestionAssumption
<1>3. IsFiniteSet(used)
  BY <1>1, <1>2, FS_Union
<1> DEFINE c == Cardinality(used)
<1>4. c \in Nat
  BY <1>3, FS_CardinalityType
<1>5. Cardinality(1..(c + 1)) = c + 1
  BY <1>4, FS_Interval
<1> HIDE DEF c
<1>6. ASSUME 1..(c + 1) \subseteq used PROVE FALSE
  <2>1. Cardinality(1..(c + 1)) <= Cardinality(used)
    BY <1>3, <1>6, FS_Subset
  <2> QED
    BY <1>4, <1>5, <2>1 DEF c
<1> QED
  BY <1>4, <1>6 DEF c

\* A new text generation made from the ready rows of a workspace, and more of
\* its rows, changes nothing as long as no workspace activates it.
LEMMA NewGeneration ==
  ASSUME QueueInv, ProjectionInv, NEW s \in Scopes, NEW set \in SUBSET chunkRows,
         \A x \in set : ScopeOf(x) = s,
         PublishGeneration(s, set),
         UNCHANGED <<vars, tables, vectorFile, activeGen, graph, profile>>
  PROVE  /\ TypeOK'
         /\ textFiles' \subseteq [id : Nat \ {0}, scope : Scopes, entries : SUBSET ChunkIds]
         /\ IsFiniteSet(textFiles')
         /\ newGen' \in textFiles' /\ newGen'.scope = s /\ newGen'.entries = set
         /\ ChunksAreOfRuns'
         /\ ReadyWithDocument'
         /\ VectorKeysAreFresh'
         /\ VectorKeysNameOneChunk'
         /\ ScopesAreIsolated'
         /\ ActiveGenerationOnDisk'
         /\ SucceededIsPublished'
<1> USE DEF tables
<1>1. /\ UNCHANGED <<accepted, input, status, docStatus, phase, lease, server>>
      /\ Created' = Created
      /\ \A x : ScopeOf(x)' = ScopeOf(x)
  BY DEF vars, keyVars, jobVars, workerVars, Created, ScopeOf
<1>2. IngestionTypeOK
  BY DEF ProjectionInv
<1>3. PICK g \in Nat \ {0} : /\ newGen' = [id |-> g, scope |-> s, entries |-> set]
                             /\ textFiles' = textFiles \cup {newGen'}
  <2> DEFINE used == {f.id : f \in textFiles} \cup {activeGen[t] : t \in Scopes}
             id == CHOOSE g \in 1..(Cardinality(used) + 1) : g \notin used
  <2>1. newGen' = [id |-> id, scope |-> s, entries |-> set] /\ textFiles' = textFiles \cup {newGen'}
    BY DEF PublishGeneration
  <2>2. /\ Cardinality(used) \in Nat
        /\ \E g \in 1..(Cardinality(used) + 1) : g \notin used
    BY <1>2, FreshGeneration
  <2> HIDE DEF used
  <2>3. id \in Nat \ {0}
    BY <2>2
  <2> HIDE DEF id
  <2> QED
    BY <2>1, <2>3
<1>4. TypeOK'
  BY <1>2 DEF IngestionTypeOK, TypeOK, vars, keyVars, jobVars, workerVars
<1>5. set \subseteq ChunkIds
  BY <1>2 DEF IngestionTypeOK
<1>6. textFiles' \subseteq [id : Nat \ {0}, scope : Scopes, entries : SUBSET ChunkIds]
  BY <1>2, <1>3, <1>5 DEF IngestionTypeOK
<1>7. IsFiniteSet(textFiles')
  BY <1>2, <1>3, FS_AddElement DEF IngestionTypeOK
<1>8. ChunksAreOfRuns' /\ VectorKeysAreFresh' /\ VectorKeysNameOneChunk'
  BY <1>1 DEF ProjectionInv, ChunksAreOfRuns, VectorKeysAreFresh, VectorKeysNameOneChunk
<1>9. ScopesAreIsolated'
  <2>1. \A x \in set : BelongsTo(x, s)
    BY DEF ProjectionInv, ChunksAreOfRuns, BelongsTo
  <2>2. \A f \in textFiles' : \A x \in f.entries : BelongsTo(x, f.scope)
    BY <1>3, <2>1 DEF ProjectionInv, ScopesAreIsolated
  <2> QED
    BY <1>1, <2>2 DEF ProjectionInv, ScopesAreIsolated, BelongsTo
<1>10. ActiveGenerationOnDisk'
  BY <1>3 DEF ProjectionInv, ActiveGenerationOnDisk
<1>11. SucceededIsPublished'
  BY <1>1, <1>3 DEF ProjectionInv, SucceededIsPublished, IsPublished, ChunksOf
<1>12. ReadyWithDocument'
  BY ReadyStaysWithDocument
<1> QED
  BY <1>3, <1>4, <1>6, <1>7, <1>8, <1>9, <1>10, <1>11, <1>12

LEMMA PublishTextKeepsProjectionInv ==
  ASSUME QueueInv, ProjectionInv, PublishText
  PROVE  ProjectionInv'
<1> DEFINE s == input[lease][1]
           set == WithPending("text", s)
<1> USE DEF tables
<1>1. /\ step = "vectored" /\ step' = "indexed"
      /\ PublishGeneration(s, set)
      /\ UNCHANGED <<vars, tables, vectorFile, activeGen, graph, profile, todo>>
  BY DEF PublishText
<1>2. /\ s \in Scopes
      /\ set \in SUBSET chunkRows
      /\ \A x \in set : ScopeOf(x) = s
  BY <1>1, RunInProgress DEF WithPending, ReadyChunks, ScopeChunks
<1>3. UNCHANGED <<phase, lease, server, input, docStatus>>
  BY <1>1 DEF vars, keyVars, jobVars, workerVars
<1>4. set' = set /\ Current' = Current /\ ChunksOf(lease)' = ChunksOf(lease)
  BY <1>1, <1>3 DEF WithPending, ReadyChunks, ScopeChunks, ScopeOf, Current, RunChunks, ChunksOf
<1>5. VectorEntries(Current)' = VectorEntries(Current)
  BY <1>1, <1>3 DEF VectorEntries, Current, RunChunks
<1> HIDE DEF set
<1>6. /\ TypeOK'
      /\ textFiles' \subseteq [id : Nat \ {0}, scope : Scopes, entries : SUBSET ChunkIds]
      /\ IsFiniteSet(textFiles')
      /\ newGen' \in textFiles' /\ newGen'.scope = s /\ newGen'.entries = set
      /\ ChunksAreOfRuns'
      /\ ReadyWithDocument'
      /\ VectorKeysAreFresh'
      /\ VectorKeysNameOneChunk'
      /\ ScopesAreIsolated'
      /\ ActiveGenerationOnDisk'
      /\ SucceededIsPublished'
  BY <1>1, <1>2, NewGeneration
<1>7. IngestionTypeOK'
  BY <1>1, <1>6 DEF ProjectionInv, IngestionTypeOK
<1>8. WithPending("text", newGen.scope)' \subseteq newGen'.entries
  BY <1>3, <1>4, <1>6 DEF set
<1>9. StepsAreInOrder'
  BY <1>1, <1>3, <1>4, <1>5, <1>6, <1>8 DEF ProjectionInv, StepsAreInOrder
<1> QED
  BY <1>6, <1>7, <1>9 DEF ProjectionInv

LEMMA RebuildTextKeepsProjectionInv ==
  ASSUME QueueInv, ProjectionInv, NEW s \in Scopes, RebuildText(s)
  PROVE  ProjectionInv'
<1> DEFINE set == ReadyChunks("text", s)
<1> USE DEF tables
<1>1. /\ step = "free" /\ server = "up" /\ step' = "rebuilt"
      /\ PublishGeneration(s, set)
      /\ UNCHANGED <<vars, tables, vectorFile, activeGen, graph, profile, todo>>
  BY DEF RebuildText, MayRebuild
<1>2. /\ set \in SUBSET chunkRows
      /\ \A x \in set : ScopeOf(x) = s
  BY DEF ReadyChunks, ScopeChunks
<1>3. UNCHANGED <<phase, lease, server, input, docStatus>>
  BY <1>1 DEF vars, keyVars, jobVars, workerVars
<1>4. set' = set
  BY <1>1, <1>3 DEF ReadyChunks, ScopeChunks, ScopeOf
<1> HIDE DEF set
<1>5. /\ TypeOK'
      /\ textFiles' \subseteq [id : Nat \ {0}, scope : Scopes, entries : SUBSET ChunkIds]
      /\ IsFiniteSet(textFiles')
      /\ newGen' \in textFiles' /\ newGen'.scope = s /\ newGen'.entries = set
      /\ ChunksAreOfRuns'
      /\ ReadyWithDocument'
      /\ VectorKeysAreFresh'
      /\ VectorKeysNameOneChunk'
      /\ ScopesAreIsolated'
      /\ ActiveGenerationOnDisk'
      /\ SucceededIsPublished'
  BY <1>1, <1>2, NewGeneration
<1>6. IngestionTypeOK'
  BY <1>1, <1>5 DEF ProjectionInv, IngestionTypeOK
<1>7. ReadyChunks("text", newGen.scope)' \subseteq newGen'.entries
  BY <1>4, <1>5 DEF set
<1>8. StepsAreInOrder'
  BY <1>1, <1>3, <1>5, <1>7 DEF StepsAreInOrder
<1> QED
  BY <1>5, <1>6, <1>8 DEF ProjectionInv

\* The last transaction: the new generation holds what the old one did and
\* the chunks of the document, whose vectors are already in the file.
LEMMA CommitKeepsProjectionInv ==
  ASSUME QueueInv, ProjectionInv, CommitDocument
  PROVE  ProjectionInv'
<1> DEFINE j == lease
           s == input[j][1]
<1> USE DEF tables
<1>1. /\ step = "indexed" /\ step' = "committed"
      /\ CompleteJob
      /\ ready' = [p \in Projections |-> ready[p] \cup Current]
      /\ graph' \in Materialized(s, graph[s] \cup Current)
      /\ activeGen' = [activeGen EXCEPT ![s] = newGen.id]
      /\ newGen' = NoGen
      /\ UNCHANGED <<runs, chunkRows, manifests, nextKey, vectorFile, textFiles, profile, todo>>
  BY DEF CommitDocument
<1>2. /\ IngestionTypeOK
      /\ TypeOK'
      /\ DocumentFollowsJob
  <2>1. Next
    BY <1>1 DEF Next
  <2>2. TypeOK'
    BY <2>1, NextKeepsQueueInv DEF QueueInv
  <2> QED
    BY <2>2 DEF ProjectionInv, QueueInv
<1>3. /\ UNCHANGED <<input, accepted, server>>
      /\ Created' = Created
      /\ \A x : ScopeOf(x)' = ScopeOf(x)
      /\ \A i \in JobIds : i # j => status'[i] = status[i]
  BY <1>1, <1>2 DEF CompleteJob, SetStatus, keyVars, Created, ScopeOf, IngestionTypeOK, TypeOK
<1>4. /\ j \in Created /\ s \in Scopes /\ server = "up"
      /\ Current = ChunksOf(j) /\ Current # {}
      /\ \A x \in Current : /\ x \in chunkRows /\ x \in ChunkIds
                            /\ x[1] = j
                            /\ ScopeOf(x) = s
  BY <1>1, RunInProgress
<1>5. /\ newGen \in textFiles /\ newGen.scope = s
      /\ newGen.id \in Nat \ {0}
      /\ ReadyChunks("text", s) \subseteq newGen.entries
      /\ Current \subseteq newGen.entries
      /\ VectorEntries(Current) \subseteq vectorFile[Joined[s]][profile]
      /\ \A m \in manifests : m.chunk \in Current => m.profile = profile
  BY <1>1, <1>2 DEF ProjectionInv, StepsAreInOrder, WithPending, IngestionTypeOK
<1> DEFINE new == Current
<1> HIDE DEF new
<1>6. /\ graph' \in [Scopes -> SUBSET ChunkIds]
      /\ \A t \in Unambiguous :
           /\ t \in Scopes
           /\ graph'[t] = IF t = s THEN graph[t] \cup new ELSE graph[t]
      /\ ready' = [p \in Projections |-> ready[p] \cup new]
      /\ new \subseteq ChunkIds
  <2>1. new \subseteq ChunkIds /\ graph \in [Scopes -> SUBSET ChunkIds]
    BY <1>2, <1>4 DEF new, IngestionTypeOK
  <2>2. graph' \in Materialized(s, graph[s] \cup new) /\ s \in Scopes
    BY <1>1, <1>4 DEF new
  <2> HIDE DEF s
  <2>3. graph[s] \cup new \in SUBSET ChunkIds
    BY <2>1, <2>2
  <2>4. /\ graph' \in [Scopes -> SUBSET ChunkIds]
        /\ \A t \in Unambiguous : graph'[t] = IF t = s THEN graph[s] \cup new ELSE graph[t]
    BY <2>1, <2>2, <2>3, MaterializedGraph
  <2> QED
    BY <1>1, <2>1, <2>4, OwnNames DEF new
<1>7. IngestionTypeOK'
  <2>1. graph' \in [Scopes -> SUBSET ChunkIds]
    BY <1>6
  <2>2. ready' \in [Projections -> SUBSET ChunkIds]
    BY <1>2, <1>6 DEF IngestionTypeOK
  <2>3. activeGen' \in [Scopes -> Nat]
    BY <1>1, <1>2, <1>5 DEF IngestionTypeOK
  <2> QED
    BY <1>1, <1>2, <2>1, <2>2, <2>3 DEF IngestionTypeOK
<1>8. ChunksAreOfRuns'
  BY <1>1, <1>3 DEF ProjectionInv, ChunksAreOfRuns
<1>9. VectorKeysAreFresh'
  BY <1>1, <1>3 DEF ProjectionInv, VectorKeysAreFresh
<1>10. VectorKeysNameOneChunk'
  BY <1>1, <1>3 DEF ProjectionInv, VectorKeysNameOneChunk
<1>11. ScopesAreIsolated'
  <2>1. \A x \in new : BelongsTo(x, s)
    BY <1>4 DEF BelongsTo, new
  <2>2. \A t \in Unambiguous : \A x \in graph'[t] : BelongsTo(x, t)
    BY <1>6, <2>1 DEF ProjectionInv, ScopesAreIsolated
  <2> QED
    BY <1>1, <1>3, <2>2 DEF ProjectionInv, ScopesAreIsolated, BelongsTo
<1>12. ActiveGenerationOnDisk'
  BY <1>1, <1>2, <1>4, <1>5 DEF ProjectionInv, ActiveGenerationOnDisk, IngestionTypeOK
<1>13. StepsAreInOrder'
  BY <1>1, <1>3, <1>4 DEF StepsAreInOrder
<1>14. SucceededIsPublished'
  <2>1. ASSUME NEW i \in Created, status'[i] = "Succeeded"
        PROVE  IsPublished(i, input[i][1])'
    <3> DEFINE t == input[i][1]
    <3>1. /\ t \in Scopes /\ i \in JobIds
          /\ ChunksOf(i)' = ChunksOf(i)
      BY <1>1, <2>1, CreatedJobs DEF ChunksOf
    <3>2. /\ t \in Unambiguous => graph[t] \subseteq graph'[t]
          /\ \A p \in Projections : ready[p] \subseteq ready'[p]
      BY <1>2, <1>6, <3>1 DEF IngestionTypeOK
    <3>3. CASE i = j
      <4>1. /\ t \in Unambiguous => ChunksOf(i) \subseteq graph'[t]
            /\ \A p \in Projections : ChunksOf(i) \subseteq ready'[p]
        BY <1>2, <1>4, <1>6, <3>1, <3>3 DEF IngestionTypeOK, new
      <4>2. newGen.id = activeGen'[t]
        BY <1>1, <1>2, <1>4, <3>3 DEF IngestionTypeOK
      <4>3. ASSUME NEW m \in manifests, m.chunk \in ChunksOf(i)
            PROVE  <<m.key, m.chunk>> \in vectorFile[Joined[t]][m.profile]
        BY <1>4, <1>5, <3>3, <4>3 DEF VectorEntries
      <4>4. ChunksOf(i) # {} /\ t = s /\ ChunksOf(i) \subseteq newGen.entries
        BY <1>4, <1>5, <3>3
      <4>5. \E f \in textFiles : f.scope = t /\ f.id = activeGen'[t] /\ ChunksOf(i) \subseteq f.entries
        BY <1>5, <4>2, <4>4
      <4> QED
        BY <1>1, <1>3, <3>1, <4>1, <4>3, <4>4, <4>5 DEF IsPublished
    <3>4. CASE i # j
      <4>1. IsPublished(i, t) /\ docStatus[i] = "Succeeded"
        BY <1>2, <1>3, <2>1, <3>1, <3>4 DEF ProjectionInv, SucceededIsPublished, DocumentFollowsJob
      <4>2. PICK f \in textFiles : f.scope = t /\ f.id = activeGen[t] /\ ChunksOf(i) \subseteq f.entries
        BY <4>1 DEF IsPublished
      <4>3. \E h \in textFiles : h.scope = t /\ h.id = activeGen'[t] /\ ChunksOf(i) \subseteq h.entries
        <5>1. CASE t = s
          <6>1. ChunksOf(i) \subseteq ReadyChunks("text", s)
            BY <4>1, <5>1 DEF IsPublished, ReadyChunks, ScopeChunks, ChunksOf, ScopeOf, Projections
          <6>2. newGen.id = activeGen'[t]
            BY <1>1, <1>2, <1>4, <5>1 DEF IngestionTypeOK
          <6> QED
            BY <1>5, <5>1, <6>1, <6>2
        <5>2. CASE t # s
          BY <1>1, <1>2, <3>1, <4>2, <5>2 DEF IngestionTypeOK
        <5> QED
          BY <5>1, <5>2
      <4> QED
        BY <1>1, <1>3, <3>1, <3>2, <4>1, <4>3, SMTT(30) DEF IsPublished
    <3> QED
      BY <3>3, <3>4
  <2> QED
    BY <1>3, <2>1 DEF SucceededIsPublished
<1>15. ReadyWithDocument'
  <2>1. status'[j] = "Succeeded" /\ \A i \in Created : status[i] = "Succeeded" => status'[i] = "Succeeded"
    BY <1>1, <1>2, <1>4, CreatedJobs DEF CompleteJob, SetStatus, IngestionTypeOK, TypeOK
  <2>2. \A x \in new : x[1] = j
    BY <1>4 DEF new
  <2> QED
    BY <1>3, <1>4, <1>6, <2>1, <2>2 DEF ProjectionInv, ReadyWithDocument
<1> QED
  BY <1>7, <1>8, <1>9, <1>10, <1>11, <1>12, <1>13, <1>14, <1>15 DEF ProjectionInv

-----------------------------------------------------------------------------
(* Cleanups and rebuilds.                                                  *)

\* A cleanup removes what no workspace activates.
LEMMA RemovalKeepsProjectionInv ==
  ASSUME QueueInv, ProjectionInv, RemoveGeneration
  PROVE  ProjectionInv'
<1> USE DEF tables, processVars
<1>1. PICK f \in textFiles : activeGen[f.scope] # f.id /\ textFiles' = textFiles \ {f}
  BY DEF RemoveGeneration, Unreferenced
<1>2. /\ step = "committed"
      /\ UNCHANGED <<vars, tables, vectorFile, activeGen, graph, profile, step, newGen, todo>>
  BY DEF RemoveGeneration
<1>3. /\ UNCHANGED <<accepted, input, status, docStatus, phase, lease, server>>
      /\ Created' = Created
      /\ \A x : ScopeOf(x)' = ScopeOf(x)
      /\ IngestionTypeOK
  BY <1>2 DEF vars, keyVars, jobVars, workerVars, Created, ScopeOf, ProjectionInv
<1>4. newGen = NoGen
  BY <1>2 DEF ProjectionInv, StepsAreInOrder
<1>5. IsFiniteSet(textFiles')
  BY <1>1, <1>3, FS_RemoveElement DEF IngestionTypeOK
<1>6. IngestionTypeOK'
  <2>1. TypeOK'
    BY <1>2, <1>3 DEF IngestionTypeOK, TypeOK, vars, keyVars, jobVars, workerVars
  <2> QED
    BY <1>1, <1>2, <1>3, <1>4, <1>5, <2>1 DEF IngestionTypeOK
<1>7. /\ ChunksAreOfRuns' /\ VectorKeysAreFresh' /\ VectorKeysNameOneChunk'
  BY <1>2, <1>3 DEF ProjectionInv, ChunksAreOfRuns, VectorKeysAreFresh, VectorKeysNameOneChunk
<1>8. ScopesAreIsolated'
  BY <1>1, <1>2, <1>3 DEF ProjectionInv, ScopesAreIsolated, BelongsTo
<1>9. ActiveGenerationOnDisk'
  BY <1>1, <1>2 DEF ProjectionInv, ActiveGenerationOnDisk
<1>10. StepsAreInOrder'
  BY <1>2, <1>3, <1>4 DEF ProjectionInv, StepsAreInOrder
<1>11. SucceededIsPublished'
  <2>1. ASSUME NEW j, NEW s, IsPublished(j, s) PROVE IsPublished(j, s)'
    BY <1>1, <1>2, <2>1 DEF IsPublished, ChunksOf
  <2> QED
    BY <1>3, <2>1 DEF ProjectionInv, SucceededIsPublished
<1>12. ReadyWithDocument'
  BY <1>2, ReadyStaysWithDocument
<1> QED
  BY <1>6, <1>7, <1>8, <1>9, <1>10, <1>11, <1>12 DEF ProjectionInv

\* An activation replaces a generation by one that holds all ready chunks.
LEMMA ActivationKeepsProjectionInv ==
  ASSUME QueueInv, ProjectionInv, ActivateText
  PROVE  ProjectionInv'
<1> DEFINE s == newGen.scope
<1> USE DEF tables
<1>1. /\ step = "rebuilt" /\ step' = "committed"
      /\ activeGen' = [activeGen EXCEPT ![s] = newGen.id]
      /\ newGen' = NoGen
      /\ todo' = todo \ {<<"text", s>>}
      /\ UNCHANGED <<vars, tables, vectorFile, textFiles, graph, profile>>
  BY DEF ActivateText
<1>2. /\ UNCHANGED <<accepted, input, status, docStatus, phase, lease, server>>
      /\ Created' = Created
      /\ \A x : ScopeOf(x)' = ScopeOf(x)
      /\ IngestionTypeOK
      /\ DocumentFollowsJob
  BY <1>1 DEF vars, keyVars, jobVars, workerVars, Created, ScopeOf, ProjectionInv, QueueInv
<1>3. /\ newGen \in textFiles
      /\ s \in Scopes /\ newGen.id \in Nat \ {0}
      /\ ReadyChunks("text", s) \subseteq newGen.entries
  BY <1>1, <1>2 DEF ProjectionInv, StepsAreInOrder, IngestionTypeOK
<1>4. \A t \in Scopes : activeGen'[t] = IF t = s THEN newGen.id ELSE activeGen[t]
  BY <1>1, <1>2, <1>3 DEF IngestionTypeOK
<1>5. IngestionTypeOK'
  <2>1. TypeOK'
    BY <1>1, <1>2 DEF IngestionTypeOK, TypeOK, vars, keyVars, jobVars, workerVars
  <2>2. activeGen' \in [Scopes -> Nat]
    BY <1>1, <1>2, <1>3 DEF IngestionTypeOK
  <2> QED
    BY <1>1, <1>2, <2>1, <2>2 DEF IngestionTypeOK
<1>6. /\ ChunksAreOfRuns' /\ VectorKeysAreFresh' /\ VectorKeysNameOneChunk'
  BY <1>1, <1>2 DEF ProjectionInv, ChunksAreOfRuns, VectorKeysAreFresh, VectorKeysNameOneChunk
<1>7. ScopesAreIsolated'
  BY <1>1, <1>2 DEF ProjectionInv, ScopesAreIsolated, BelongsTo
<1>8. ActiveGenerationOnDisk'
  BY <1>1, <1>3, <1>4 DEF ProjectionInv, ActiveGenerationOnDisk
<1>9. StepsAreInOrder'
  BY <1>1, <1>2 DEF ProjectionInv, StepsAreInOrder
<1>10. SucceededIsPublished'
  <2>1. ASSUME NEW i \in Created, status[i] = "Succeeded"
        PROVE  IsPublished(i, input[i][1])'
    <3> DEFINE t == input[i][1]
    <3>1. IsPublished(i, t) /\ t \in Scopes /\ docStatus[i] = "Succeeded"
      BY <1>2, <2>1, CreatedJobs DEF ProjectionInv, SucceededIsPublished, DocumentFollowsJob
    <3>2. t = s => ChunksOf(i) \subseteq newGen.entries
      BY <1>3, <3>1 DEF IsPublished, ReadyChunks, ScopeChunks, ChunksOf, ScopeOf, Projections
    <3>3. PICK f \in textFiles : f.scope = t /\ f.id = activeGen[t] /\ ChunksOf(i) \subseteq f.entries
      BY <3>1 DEF IsPublished
    <3>4. \E h \in textFiles : h.scope = t /\ h.id = activeGen'[t] /\ ChunksOf(i) \subseteq h.entries
      BY <1>3, <1>4, <3>1, <3>2, <3>3
    <3> QED
      BY <1>1, <1>2, <3>1, <3>4 DEF IsPublished, ChunksOf
  <2> QED
    BY <1>2, <2>1 DEF ProjectionInv, SucceededIsPublished
<1>11. ReadyWithDocument'
  BY <1>1, ReadyStaysWithDocument
<1> QED
  BY <1>5, <1>6, <1>7, <1>8, <1>9, <1>10, <1>11 DEF ProjectionInv

\* The rebuilt graph of a workspace holds all ready chunks.
LEMMA RebuildGraphKeepsProjectionInv ==
  ASSUME QueueInv, ProjectionInv, NEW s \in Scopes, RebuildGraph(s)
  PROVE  ProjectionInv'
<1> DEFINE set == ReadyChunks("graph", s)
<1> USE DEF tables
<1>1. /\ step = "free" /\ server = "up"
      /\ graph' \in Materialized(s, set)
      /\ todo' = todo \ {<<"graph", s>>}
      /\ UNCHANGED <<vars, tables, vectorFile, textFiles, activeGen, profile, step, newGen>>
  BY DEF RebuildGraph, MayRebuild
<1>2. /\ UNCHANGED <<accepted, input, status, docStatus, phase, lease, server>>
      /\ Created' = Created
      /\ \A x : ScopeOf(x)' = ScopeOf(x)
      /\ IngestionTypeOK
      /\ DocumentFollowsJob
  BY <1>1 DEF vars, keyVars, jobVars, workerVars, Created, ScopeOf, ProjectionInv, QueueInv
<1>3. \A x \in set : /\ x \in ChunkIds
                     /\ BelongsTo(x, s)
  BY <1>2 DEF ReadyChunks, ScopeChunks, BelongsTo, ProjectionInv, ChunksAreOfRuns, IngestionTypeOK
<1>4. \A i \in Created : status[i] = "Succeeded" /\ input[i][1] = s => ChunksOf(i) \subseteq set
  BY <1>2, CreatedJobs
     DEF ProjectionInv, SucceededIsPublished, IsPublished, ReadyChunks, ScopeChunks, ChunksOf,
         ScopeOf, Projections, DocumentFollowsJob
<1> HIDE DEF set
<1>5. /\ graph' \in [Scopes -> SUBSET ChunkIds]
      /\ \A t \in Unambiguous : graph'[t] = IF t = s THEN set ELSE graph[t]
  BY <1>1, <1>2, <1>3, MaterializedGraph DEF IngestionTypeOK
<1>6. IngestionTypeOK'
  <2>1. TypeOK'
    BY <1>1, <1>2 DEF IngestionTypeOK, TypeOK, vars, keyVars, jobVars, workerVars
  <2> QED
    BY <1>1, <1>2, <1>5, <2>1 DEF IngestionTypeOK
<1>7. /\ ChunksAreOfRuns' /\ VectorKeysAreFresh' /\ VectorKeysNameOneChunk'
  BY <1>1, <1>2 DEF ProjectionInv, ChunksAreOfRuns, VectorKeysAreFresh, VectorKeysNameOneChunk
<1>8. ScopesAreIsolated'
  BY <1>1, <1>2, <1>3, <1>5 DEF ProjectionInv, ScopesAreIsolated, BelongsTo
<1>9. ActiveGenerationOnDisk'
  BY <1>1 DEF ProjectionInv, ActiveGenerationOnDisk
<1>10. StepsAreInOrder'
  BY <1>1, <1>2 DEF ProjectionInv, StepsAreInOrder
<1>11. SucceededIsPublished'
  <2>1. ASSUME NEW i \in Created, status[i] = "Succeeded"
        PROVE  IsPublished(i, input[i][1])'
    <3>1. IsPublished(i, input[i][1]) /\ input[i][1] \in Scopes
      BY <2>1, CreatedJobs DEF ProjectionInv, SucceededIsPublished
    <3>2. input[i][1] \in Unambiguous => ChunksOf(i) \subseteq graph'[input[i][1]]
      BY <1>4, <1>5, <2>1, <3>1 DEF IsPublished
    <3> QED
      BY <1>1, <1>2, <3>1, <3>2 DEF IsPublished, ChunksOf
  <2> QED
    BY <1>2, <2>1 DEF ProjectionInv, SucceededIsPublished
<1>12. ReadyWithDocument'
  BY <1>1, ReadyStaysWithDocument
<1> QED
  BY <1>6, <1>7, <1>8, <1>9, <1>10, <1>11, <1>12 DEF ProjectionInv

-----------------------------------------------------------------------------
(* The invariant, and what follows from it.                                *)

LEMMA InitEstablishesProjectionInv == IngestionInit => ProjectionInv
<1> SUFFICES ASSUME IngestionInit PROVE ProjectionInv
  OBVIOUS
<1> USE DEF IngestionInit
<1>1. QueueInv
  BY InitEstablishesQueueInv
<1>2. Created = {}
  BY DEF Init, Created
<1>3. IngestionTypeOK
  <2>1. TypeOK
    BY <1>1 DEF QueueInv
  <2>2. runs \in [JobIds -> 0..MaxRuns]
    BY IngestionAssumption DEF IngestionAssumption
  <2>3. IsFiniteSet(textFiles)
    BY FS_EmptySet
  <2> QED
    BY <2>1, <2>2, <2>3 DEF IngestionTypeOK
<1>4. ChunksAreOfRuns /\ VectorKeysAreFresh /\ ReadyWithDocument
  BY DEF ChunksAreOfRuns, VectorKeysAreFresh, ReadyWithDocument
<1>5. VectorKeysNameOneChunk
  BY DEF VectorKeysNameOneChunk
<1>6. ScopesAreIsolated
  BY OwnNames DEF ScopesAreIsolated
<1>7. ActiveGenerationOnDisk
  BY DEF ActiveGenerationOnDisk
<1>8. StepsAreInOrder
  BY DEF StepsAreInOrder
<1>9. SucceededIsPublished
  BY <1>2 DEF SucceededIsPublished
<1> QED
  BY <1>3, <1>4, <1>5, <1>6, <1>7, <1>8, <1>9 DEF ProjectionInv

\* No step, failure, rebuild, death or boot leads out of ProjectionInv.
LEMMA NextKeepsProjectionInv == QueueInv /\ ProjectionInv /\ [IngestionNext]_allVars => ProjectionInv'
<1> SUFFICES ASSUME QueueInv, ProjectionInv, [IngestionNext]_allVars PROVE ProjectionInv'
  OBVIOUS
<1>1. CASE QueueStep \/ TimePasses \/ Die \/ Boot \/ UNCHANGED allVars
  BY <1>1, QuietActionsKeepProjectionInv
<1>2. CASE ProcessStep
  BY <1>2, PrepareKeepsProjectionInv, PublishVectorsKeepsProjectionInv,
     PublishTextKeepsProjectionInv, CommitKeepsProjectionInv, QuietActionsKeepProjectionInv
     DEF ProcessStep
<1>3. CASE CleanupStep
  BY <1>3, RemovalKeepsProjectionInv, QuietActionsKeepProjectionInv DEF CleanupStep
<1>4. CASE RebuildStep
  BY <1>4, RebuildVectorsKeepsProjectionInv, RebuildTextKeepsProjectionInv,
     RebuildGraphKeepsProjectionInv, ActivationKeepsProjectionInv, QuietActionsKeepProjectionInv
     DEF RebuildStep
<1> QED
  BY <1>1, <1>2, <1>3, <1>4 DEF IngestionNext

\* The inductive invariant holds of every behaviour.
THEOREM ProjectionInvariance == IngestionSpec => []ProjectionInv
<1>1. IngestionInit => ProjectionInv
  BY InitEstablishesProjectionInv
<1>2. QueueInv /\ ProjectionInv /\ [IngestionNext]_allVars => ProjectionInv'
  BY NextKeepsProjectionInv
<1> QED
  BY <1>1, <1>2, QueueInvHolds, PTL DEF IngestionSpec

-----------------------------------------------------------------------------
(* What a succeeded document means to a search.                            *)

\* Its chunks can be found on account of the words they contain, and on
\* account of every projection that has them if the files are its workspace's.
LEMMA PublishedIsFound ==
  ASSUME QueueInv, ProjectionInv, NEW j \in Created, status[j] = "Succeeded"
  PROVE  /\ j \in DocumentsOf(input[j][1])
         /\ ChunksOf(j) \subseteq Hits("text", input[j][1])
         /\ input[j][1] \in Unambiguous => InEveryIndex(j, input[j][1])
<1> DEFINE s == input[j][1]
<1>1. /\ IsPublished(j, s) /\ s \in Scopes
      /\ docStatus[j] = "Succeeded"
  BY CreatedJobs DEF ProjectionInv, SucceededIsPublished, QueueInv, DocumentFollowsJob
<1>2. ASSUME NEW p \in Projections PROVE ChunksOf(j) \subseteq ReadyChunks(p, s)
  BY <1>1 DEF IsPublished, ReadyChunks, ScopeChunks, ChunksOf, ScopeOf
<1>3. ChunksOf(j) \subseteq Hits("text", s)
  BY <1>1, <1>2 DEF IsPublished, Hits, Projections
<1>4. s \in Unambiguous => ChunksOf(j) \subseteq Hits("graph", s)
  BY <1>1, <1>2 DEF IsPublished, Hits, Projections
<1>5. s \in Unambiguous => Embedded(ChunksOf(j)) \subseteq Hits("vector", s)
  <2>1. ASSUME s \in Unambiguous, NEW x \in Embedded(ChunksOf(j)) PROVE x \in Hits("vector", s)
    <3>1. PICK m \in manifests : m.chunk = x /\ x \in ChunksOf(j) /\ m.profile = profile
      BY <2>1 DEF Embedded
    <3>2. <<m.key, x>> \in vectorFile[Joined[s]][profile]
      BY <1>1, <2>1, <3>1 DEF IsPublished
    <3>3. \E e \in vectorFile[Joined[s]][profile] : m.key = e[1]
      BY <3>2
    <3> QED
      BY <1>2, <3>1, <3>3 DEF Hits, Projections
  <2> QED
    BY <2>1
<1> QED
  BY <1>1, <1>3, <1>4, <1>5 DEF InEveryIndex, IsPublished, DocumentsOf

\* The same, of the next state.
LEMMA PublishedIsFoundNext ==
  (QueueInv /\ ProjectionInv =>
     \A j \in Created : status[j] = "Succeeded" =>
       /\ ChunksOf(j) \subseteq Hits("text", input[j][1])
       /\ input[j][1] \in Unambiguous => InEveryIndex(j, input[j][1]))'
<1>1. QueueInv /\ ProjectionInv =>
        \A j \in Created : status[j] = "Succeeded" =>
          /\ ChunksOf(j) \subseteq Hits("text", input[j][1])
          /\ input[j][1] \in Unambiguous => InEveryIndex(j, input[j][1])
  BY PublishedIsFound
<1> QED
  BY <1>1, PTL

\* What a search finds is a chunk of a succeeded document of its workspace.
LEMMA FoundIsPublished ==
  ASSUME QueueInv, ProjectionInv, NEW s, NEW p, NEW x \in Hits(p, s)
  PROVE  x[1] \in DocumentsOf(s) /\ status[x[1]] = "Succeeded"
<1>1. x \in ReadyChunks(p, s)
  BY DEF Hits
<1> QED
  BY <1>1 DEF ReadyChunks, ScopeChunks, ScopeOf, DocumentsOf, ProjectionInv, ChunksAreOfRuns,
              QueueInv, DocumentFollowsJob

\* Whenever a search can run it finds every chunk of every succeeded document
\* of the workspaces that have their files to themselves.
THEOREM SearchSafety == IngestionSpec => []SearchIsComplete
<1>1. QueueInv /\ ProjectionInv => SearchIsComplete
  BY PublishedIsFound DEF SearchIsComplete
<1> QED
  BY <1>1, QueueInvHolds, ProjectionInvariance, PTL

\* Keys of the vector index are issued once and mean one chunk.
THEOREM KeysSafety == IngestionSpec => [](VectorKeysAreFresh /\ VectorKeysNameOneChunk)
<1>1. ProjectionInv => VectorKeysAreFresh /\ VectorKeysNameOneChunk
  BY DEF ProjectionInv
<1> QED
  BY <1>1, ProjectionInvariance, PTL

\* No text generation of a workspace ever holds a chunk of another one, nor do
\* the vector file and the graph of a workspace that has them to itself.
THEOREM IsolationSafety == IngestionSpec => []ScopesAreIsolated
<1>1. ProjectionInv => ScopesAreIsolated
  BY DEF ProjectionInv
<1> QED
  BY <1>1, ProjectionInvariance, PTL

\* The generation a workspace activates is always on disk.
THEOREM GenerationSafety == IngestionSpec => []ActiveGenerationOnDisk
<1>1. ProjectionInv => ActiveGenerationOnDisk
  BY DEF ProjectionInv
<1> QED
  BY <1>1, ProjectionInvariance, PTL

-----------------------------------------------------------------------------
(* What no step may do.                                                    *)

\* Only the first transaction of a run touches rows and manifests, and only
\* rows of the leased document, which has not succeeded.
LEMMA StepKeepsCitedChunks ==
  ASSUME QueueInv, ProjectionInv, [IngestionNext]_allVars
  PROVE  /\ manifests \subseteq manifests'
         /\ \A j \in JobIds : status[j] = "Succeeded" => ChunksOf(j)' = ChunksOf(j)
<1>1. CASE PrepareChunks
  <2>1. /\ status[lease] = "Processing"
        /\ lease \in JobIds
    BY <1>1, CreatedJobs DEF PrepareChunks, Serving, QueueInv, LeaseIsHeld
  <2>2. \A x \in RunChunks(lease, runs[lease] + 1) : x[1] = lease
    BY DEF RunChunks
  <2> QED
    BY <1>1, <2>1, <2>2 DEF PrepareChunks, ChunksOf, RowsReplaced
<1>2. CASE UNCHANGED <<chunkRows, manifests>>
  BY <1>2 DEF ChunksOf
<1>3. ASSUME ~PrepareChunks PROVE UNCHANGED <<chunkRows, manifests>>
  <2> USE DEF tables, projectionVars, processVars
  <2>1. CASE QueueStep \/ TimePasses \/ Die \/ Boot \/ UNCHANGED allVars
    BY <2>1 DEF QueueStep, TimePasses, Die, Boot, allVars
  <2>2. CASE ProcessStep
    BY <1>3, <2>2 DEF ProcessStep, PublishVectors, PublishText, CommitDocument, StepFails
  <2>3. CASE CleanupStep
    BY <2>3 DEF CleanupStep, RemoveGeneration, EndCleanup
  <2>4. CASE RebuildStep
    BY <2>4 DEF RebuildStep, RebuildVectors, RebuildText, RebuildGraph, ActivateText, ActivationFails
  <2> QED
    BY <2>1, <2>2, <2>3, <2>4 DEF IngestionNext
<1> QED
  BY <1>1, <1>2, <1>3

\* The rows of a document that ever had a ready chunk are never rewritten.
THEOREM CitedChunksSafety == IngestionSpec => CitedChunksAreImmutable
<1>1. ASSUME QueueInv, ProjectionInv, [IngestionNext]_allVars,
             NEW j \in JobIds, ChunksOf(j) \cap ready["text"] # {}
      PROVE  {x \in chunkRows' : x[1] = j} = ChunksOf(j)
  <2>1. status[j] = "Succeeded"
    BY <1>1 DEF ProjectionInv, ReadyWithDocument, ChunksOf, Projections
  <2> QED
    BY <1>1, <2>1, StepKeepsCitedChunks DEF ChunksOf
<1>2. QueueInv /\ ProjectionInv /\ [IngestionNext]_allVars
        => [\A j \in JobIds : ChunksOf(j) \cap ready["text"] # {} =>
              {x \in chunkRows' : x[1] = j} = ChunksOf(j)]_allVars
  BY <1>1
<1> QED
  BY <1>2, QueueInvHolds, ProjectionInvariance, PTL DEF IngestionSpec, CitedChunksAreImmutable

\* No step takes a chunk of a succeeded document out of the text that searches
\* read, or out of the vector file and the graph of a workspace they belong to.
THEOREM NoChunkIsLost == IngestionSpec => IndexesNeverLoseChunks
<1>1. ASSUME QueueInv, ProjectionInv, [IngestionNext]_allVars,
             NEW j \in Created, status[j] = "Succeeded"
      PROVE  /\ ChunksOf(j) \cap Hits("text", input[j][1]) \subseteq Hits("text", input[j][1])'
             /\ input[j][1] \in Unambiguous =>
                  ChunksOf(j) \cap Hits("graph", input[j][1]) \subseteq Hits("graph", input[j][1])'
             /\ input[j][1] \in Unambiguous /\ profile' = profile =>
                  ChunksOf(j) \cap Hits("vector", input[j][1]) \subseteq Hits("vector", input[j][1])'
  <2>1. /\ QueueInv' /\ ProjectionInv'
        /\ j \in Created' /\ j \in JobIds
        /\ status'[j] = "Succeeded" /\ input'[j] = input[j]
    BY <1>1, StepIsQueueStep, QueueFrame, NextKeepsProjectionInv
  <2>2. /\ ChunksOf(j)' = ChunksOf(j)
        /\ manifests \subseteq manifests'
    BY <1>1, <2>1, StepKeepsCitedChunks
  <2>3. /\ ChunksOf(j)' \subseteq Hits("text", input[j][1])'
        /\ input[j][1] \in Unambiguous => InEveryIndex(j, input[j][1])'
    BY <2>1, PublishedIsFoundNext
  <2>4. /\ ChunksOf(j) \subseteq Hits("text", input[j][1])'
        /\ input[j][1] \in Unambiguous =>
             /\ ChunksOf(j) \subseteq Hits("graph", input[j][1])'
             /\ Embedded(ChunksOf(j))' \subseteq Hits("vector", input[j][1])'
    BY <2>2, <2>3 DEF InEveryIndex
  <2>5. ASSUME profile' = profile, NEW x \in ChunksOf(j) \cap Hits("vector", input[j][1])
        PROVE  x \in Embedded(ChunksOf(j))'
    <3>1. PICK m \in manifests : m.chunk = x /\ m.profile = profile
      BY <2>5 DEF Hits
    <3> QED
      BY <2>2, <2>5, <3>1 DEF Embedded
  <2> QED
    BY <2>4, <2>5
<1>2. QueueInv /\ ProjectionInv /\ [IngestionNext]_allVars
        => [\A j \in Created : status[j] = "Succeeded" =>
              /\ ChunksOf(j) \cap Hits("text", input[j][1]) \subseteq Hits("text", input[j][1])'
              /\ input[j][1] \in Unambiguous =>
                   ChunksOf(j) \cap Hits("graph", input[j][1]) \subseteq Hits("graph", input[j][1])'
              /\ input[j][1] \in Unambiguous /\ profile' = profile =>
                   ChunksOf(j) \cap Hits("vector", input[j][1]) \subseteq Hits("vector", input[j][1])']_allVars
  BY <1>1
<1> QED
  BY <1>2, QueueInvHolds, ProjectionInvariance, PTL DEF IngestionSpec, IndexesNeverLoseChunks

-----------------------------------------------------------------------------
(* The boot.                                                               *)

\* Steps that leave the text indexes and the list of the boot alone.
LEMMA QuietStepKeepsBootInOrder ==
  ASSUME BootInOrder, BootClearsTextFiles,
         UNCHANGED <<textFiles, activeGen, todo>>,
         step' # "rebuilt" \/ UNCHANGED <<step, newGen>>,
         server' = "up" /\ step' = "free" /\ todo # {} =>
           \/ server = "up" /\ step = "free"
           \/ Unreferenced = {}
  PROVE  BootInOrder' /\ BootClearsTextFiles'
BY DEF BootInOrder, BootClearsTextFiles, Unreferenced

\* One removal or replacement at a time, vectors first, then text, then graphs.
LEMMA NextKeepsBootInOrder ==
  ASSUME QueueInv, StepsAreInOrder, ChunksAreOfRuns,
         BootInOrder, BootClearsTextFiles, [IngestionNext]_allVars
  PROVE  BootInOrder' /\ BootClearsTextFiles'
<1> USE DEF projectionVars, processVars, tables
<1>1. CASE QueueStep
  BY <1>1, QuietStepKeepsBootInOrder DEF QueueStep, Serving
<1>2. CASE TimePasses \/ UNCHANGED allVars
  <2>1. UNCHANGED <<projectionVars, server>>
    BY <1>2 DEF TimePasses, BackoffElapses, allVars, vars, keyVars, jobVars, workerVars
  <2> QED
    BY <2>1, QuietStepKeepsBootInOrder
<1>3. CASE PrepareChunks \/ PublishVectors \/ CommitDocument \/ StepFails
  <2>1. /\ todo = {} /\ todo' = {}
        /\ step' # "rebuilt"
    BY <1>3 DEF PrepareChunks, PublishVectors, CommitDocument, StepFails, Serving, StepsAreInOrder
  <2> QED
    BY <2>1 DEF BootInOrder, BootClearsTextFiles
<1>4. CASE PublishText \/ ActivationFails
  <2>1. /\ todo = {} /\ todo' = {}
    BY <1>4 DEF PublishText, ActivationFails, StepsAreInOrder
  <2> QED
    BY <2>1 DEF BootInOrder, BootClearsTextFiles
<1>5. CASE RemoveGeneration
  <2>1. step' = "committed" /\ todo' = todo
    BY <1>5 DEF RemoveGeneration
  <2> QED
    BY <2>1 DEF BootInOrder, BootClearsTextFiles
<1>6. CASE EndCleanup
  BY <1>6, QuietStepKeepsBootInOrder DEF EndCleanup, CleanupMayStop
<1>7. ASSUME NEW s \in Scopes, RebuildVectors(s)
      PROVE  BootInOrder' /\ BootClearsTextFiles'
  <2>1. /\ todo' = todo \ {<<"vector", s>>}
        /\ step = "free" /\ server = "up"
        /\ UNCHANGED <<textFiles, activeGen, step, server>>
        /\ todo = {} \/ <<"vector", s>> \in todo
    BY <1>7 DEF RebuildVectors, MayRebuild, Turn, vars, workerVars
  <2>2. BootInOrder'
    BY <2>1 DEF BootInOrder
  <2>3. todo # {} => <<"text", s>> \in todo'
    BY <2>1 DEF BootInOrder
  <2> QED
    BY <2>1, <2>2, <2>3 DEF BootClearsTextFiles
<1>8. ASSUME NEW s \in Scopes, RebuildText(s)
      PROVE  BootInOrder' /\ BootClearsTextFiles'
  <2>1. /\ UNCHANGED todo
        /\ step' = "rebuilt"
        /\ newGen'.scope = s
        /\ todo # {} => <<"text", s>> \in todo /\ \A t \in Scopes : <<"vector", t>> \notin todo
    BY <1>8 DEF RebuildText, MayRebuild, Turn, PublishGeneration
  <2> QED
    BY <2>1 DEF BootInOrder, BootClearsTextFiles
<1>9. CASE ActivateText
  <2>1. /\ todo' = todo \ {<<"text", newGen.scope>>}
        /\ step = "rebuilt" /\ step' = "committed"
    BY <1>9 DEF ActivateText
  <2>2. \A t \in Scopes : <<"vector", t>> \notin todo
    BY <2>1 DEF BootInOrder
  <2> QED
    BY <2>1, <2>2 DEF BootInOrder, BootClearsTextFiles
<1>10. ASSUME NEW s \in Scopes, RebuildGraph(s)
       PROVE  BootInOrder' /\ BootClearsTextFiles'
  <2>1. /\ todo' = todo \ {<<"graph", s>>}
        /\ step = "free" /\ server = "up"
        /\ UNCHANGED <<textFiles, activeGen, step, newGen, server>>
    BY <1>10 DEF RebuildGraph, MayRebuild, vars, workerVars
  <2>2. \A t \in Scopes : /\ <<"vector", t>> \in todo <=> <<"vector", t>> \in todo'
                          /\ <<"text", t>> \in todo <=> <<"text", t>> \in todo'
    BY <2>1
  <2>3. BootInOrder'
    BY <2>1, <2>2 DEF BootInOrder
  <2>4. BootClearsTextFiles'
    BY <2>1, <2>2 DEF BootClearsTextFiles, Unreferenced
  <2> QED
    BY <2>3, <2>4
<1>11. CASE Die
  BY <1>11 DEF Die, BootInOrder, BootClearsTextFiles
<1>12. CASE Boot
  <2> DEFINE named == {ScopeOf(m.chunk) : m \in manifests}
  <2>1. /\ todo' = Projections \X named
        /\ step = "free" /\ step' = "free"
    BY <1>12 DEF Boot, RecoverIncompleteJobs, StepsAreInOrder
  <2> HIDE DEF named
  <2>2. \A s \in Scopes : s \in named => <<"vector", s>> \in todo'
    BY <2>1 DEF Projections
  <2>3. \A s \in Scopes : <<"vector", s>> \in todo' => <<"text", s>> \in todo'
    BY <2>1 DEF Projections
  <2>4. named \subseteq Scopes
    <3>1. \A m \in manifests : ScopeOf(m.chunk) \in Scopes
      BY CreatedJobs DEF ChunksAreOfRuns, ScopeOf
    <3> QED
      BY <3>1 DEF named
  <2>5. BootInOrder'
    BY <2>1, <2>3 DEF BootInOrder
  <2>6. BootClearsTextFiles'
    BY <2>1, <2>2, <2>4 DEF BootClearsTextFiles
  <2> QED
    BY <2>5, <2>6
<1> QED
  BY <1>1, <1>2, <1>3, <1>4, <1>5, <1>6, <1>7, <1>8, <1>9, <1>10, <1>11, <1>12
     DEF IngestionNext, ProcessStep, CleanupStep, RebuildStep

\* A boot that has reconciled the text indexes has cleared the disk, whatever
\* earlier runs, crashes and boots left there.
THEOREM BootSafety == IngestionSpec => []BootClearsTextFiles
<1>1. IngestionInit => BootInOrder /\ BootClearsTextFiles
  BY DEF IngestionInit, BootInOrder, BootClearsTextFiles
<1>2. QueueInv /\ ProjectionInv /\ BootInOrder /\ BootClearsTextFiles /\ [IngestionNext]_allVars
        => BootInOrder' /\ BootClearsTextFiles'
  BY NextKeepsBootInOrder DEF ProjectionInv
<1> QED
  BY <1>1, <1>2, QueueInvHolds, ProjectionInvariance, PTL DEF IngestionSpec

-----------------------------------------------------------------------------
(* The refinement of SearchCatalog.                                        *)

\* While searches are answered, they are about the published documents.
LEMMA CatalogOnline ==
  ASSUME QueueInv, ProjectionInv, Serving
  PROVE  Found = Published /\ Complete = Published
<1>1. ASSUME NEW s \in Unambiguous
      PROVE  /\ {x[1] : x \in AnyHit(s)} = {j \in DocumentsOf(s) : status[j] = "Succeeded"}
             /\ {j \in DocumentsOf(s) : InEveryIndex(j, s)}
                  = {j \in DocumentsOf(s) : status[j] = "Succeeded"}
  <2>1. ASSUME NEW x \in AnyHit(s) PROVE x[1] \in DocumentsOf(s) /\ status[x[1]] = "Succeeded"
    BY <2>1, FoundIsPublished DEF AnyHit
  <2>2. ASSUME NEW j \in DocumentsOf(s), status[j] = "Succeeded"
        PROVE  InEveryIndex(j, s)
    BY <2>2, PublishedIsFound DEF DocumentsOf
  <2>3. ASSUME NEW j \in DocumentsOf(s), InEveryIndex(j, s)
        PROVE  \E x \in AnyHit(s) : x[1] = j
    <3>1. PICK x \in ChunksOf(j) : x \in Hits("text", s)
      BY <2>3 DEF InEveryIndex
    <3> QED
      BY <3>1 DEF ChunksOf, AnyHit, Projections
  <2> QED
    BY <2>1, <2>2, <2>3
<1> QED
  BY <1>1 DEF Found, Complete, Published

LEMMA CatalogOffline ==
  ASSUME ~Serving
  PROVE  Found = [s \in Unambiguous |-> {}] /\ Complete = [s \in Unambiguous |-> {}]
BY DEF Found, Complete

\* Both, of the next state.
LEMMA CatalogNextState ==
  (QueueInv /\ ProjectionInv =>
     /\ Serving => Found = Published /\ Complete = Published
     /\ ~Serving => Found = [s \in Unambiguous |-> {}] /\ Complete = [s \in Unambiguous |-> {}])'
<1>1. QueueInv /\ ProjectionInv =>
        /\ Serving => Found = Published /\ Complete = Published
        /\ ~Serving => Found = [s \in Unambiguous |-> {}] /\ Complete = [s \in Unambiguous |-> {}]
  BY CatalogOnline, CatalogOffline
<1> QED
  BY <1>1, PTL

\* Documents are published by the last transaction of a run only, one at a
\* time, while the mutex is held.
LEMMA PublicationIsAtomic ==
  ASSUME QueueInv, ProjectionInv, [IngestionNext]_allVars
  PROVE  \/ Published' = Published
         \/ /\ ~Serving /\ ~Serving'
            /\ \E s \in Unambiguous, d \in JobIds :
                 /\ \A t \in Unambiguous : d \notin Published[t]
                 /\ Published' = [Published EXCEPT ![s] = @ \cup {d}]
<1>1. [Next]_vars
  BY StepIsQueueStep
<1>2. CASE CommitDocument
  <2>1. /\ CompleteJob /\ step = "indexed" /\ step' = "committed"
        /\ UNCHANGED <<input, accepted>>
    BY <1>2 DEF CommitDocument, CompleteJob, keyVars
  <2>2. /\ lease \in Created /\ lease \in JobIds /\ input[lease][1] \in Scopes
        /\ status[lease] = "Processing"
        /\ status \in [JobIds -> JobStatus \cup {"Absent"}]
        /\ status' = [status EXCEPT ![lease] = "Succeeded"]
    BY <2>1, RunInProgress DEF QueueInv, TypeOK, CompleteJob, SetStatus
  <2>3. \A s : DocumentsOf(s)' = DocumentsOf(s)
    BY <2>1 DEF DocumentsOf, Created
  <2>4. \A s : DocumentsOf(s) \subseteq JobIds
    BY CreatedJobs DEF DocumentsOf
  <2>5. ASSUME NEW t \in Unambiguous
        PROVE  {j \in DocumentsOf(t)' : status'[j] = "Succeeded"}
                 = {j \in DocumentsOf(t) : status[j] = "Succeeded"}
                     \cup (IF t = input[lease][1] THEN {lease} ELSE {})
    <3>1. lease \in DocumentsOf(t) <=> t = input[lease][1]
      BY <2>2 DEF DocumentsOf
    <3> QED
      BY <2>2, <2>3, <2>4, <3>1
  <2>6. input[lease][1] \in Unambiguous =>
          Published' = [Published EXCEPT ![input[lease][1]] = @ \cup {lease}]
    BY <2>2, <2>5 DEF Published
  <2>7. input[lease][1] \notin Unambiguous => Published' = Published
    BY <2>5 DEF Published
  <2>8. \A t \in Unambiguous : lease \notin Published[t]
    BY <2>2 DEF Published
  <2> QED
    BY <2>1, <2>2, <2>6, <2>7, <2>8 DEF Serving
<1>3. CASE ~CompleteJob
  <2>1. ASSUME NEW s \in Unambiguous
        PROVE  {j \in DocumentsOf(s)' : status'[j] = "Succeeded"}
                 = {j \in DocumentsOf(s) : status[j] = "Succeeded"}
    <3>1. ASSUME NEW j \in DocumentsOf(s), status[j] = "Succeeded"
          PROVE  j \in DocumentsOf(s)' /\ status'[j] = "Succeeded"
      BY <1>1, <3>1, QueueFrame DEF DocumentsOf
    <3>2. ASSUME NEW j \in DocumentsOf(s)', status'[j] = "Succeeded"
          PROVE  j \in DocumentsOf(s) /\ status[j] = "Succeeded"
      <4>1. j \in Created' /\ input'[j][1] = s
        BY <3>2 DEF DocumentsOf
      <4>2. j \in JobIds
        BY <1>1, <4>1, QueueFrame, QueueAssumption DEF QueueInv, TypeOK, QueueAssumption, Created, JobIds
      <4>3. j \in Created /\ status[j] = "Succeeded" /\ input'[j] = input[j]
        BY <1>1, <1>3, <3>2, <4>2, OnlyCompletionSucceeds, QueueFrame
      <4> QED
        BY <4>1, <4>3 DEF DocumentsOf
    <3> QED
      BY <3>1, <3>2
  <2> QED
    BY <2>1 DEF Published
<1>4. ASSUME CompleteJob PROVE CommitDocument
  <2>1. /\ phase = "leased" /\ phase' = "idle"
        /\ status[lease] = "Processing" /\ status'[lease] = "Succeeded"
    BY <1>4, CreatedJobs DEF CompleteJob, SetStatus, QueueInv, TypeOK, LeaseIsHeld
  <2>2. CASE QueueStep \/ TimePasses
    BY <2>1, <2>2 DEF QueueStep, TimePasses, EnqueueDocument, ClaimNextJob, ProcessingFails,
       RecordFailure, FailureNotRecorded, RetryDeadLetter, SetStatus, BackoffElapses, workerVars
  <2>3. CASE ProcessStep
    BY <2>1, <2>3 DEF ProcessStep, PrepareChunks, PublishVectors, PublishText, StepFails,
                      ProcessingFails, vars, workerVars
  <2>4. CASE CleanupStep
    BY <2>1, <2>4 DEF CleanupStep, RemoveGeneration, EndCleanup, vars, workerVars
  <2>5. CASE RebuildStep
    BY <2>1, <2>5 DEF RebuildStep, RebuildVectors, RebuildText, RebuildGraph, ActivateText,
                      ActivationFails, vars, workerVars
  <2>6. CASE Die \/ Boot
    BY <2>1, <2>6 DEF Die, Crash, Boot, RecoverIncompleteJobs, jobVars, workerVars
  <2>7. CASE UNCHANGED allVars
    BY <2>1, <2>7 DEF allVars, vars, workerVars
  <2> QED
    BY <2>2, <2>3, <2>4, <2>5, <2>6, <2>7 DEF IngestionNext
<1> QED
  BY <1>2, <1>3, <1>4

\* Publication in steps, with its failures, deaths and rebuilds, is publication
\* of one whole document at a time while no search is being answered.
THEOREM CatalogRefinement == IngestionSpec => ImplementsCatalogSteps
<1>1. IngestionInit => Catalog!CatalogInit
  <2> SUFFICES ASSUME IngestionInit PROVE Catalog!CatalogInit
    OBVIOUS
  <2>1. QueueInv /\ ProjectionInv
    BY InitEstablishesQueueInv, InitEstablishesProjectionInv DEF IngestionInit
  <2>2. Serving /\ Created = {}
    BY DEF IngestionInit, Init, Serving, Created
  <2>3. Published = [s \in Unambiguous |-> {}]
    BY <2>2 DEF DocumentsOf, Published
  <2> QED
    BY <2>1, <2>2, <2>3, CatalogOnline DEF Catalog!CatalogInit, Catalog!Nothing
<1>2. QueueInv /\ ProjectionInv /\ QueueInv' /\ ProjectionInv' /\ [IngestionNext]_allVars
        => [Catalog!CatalogNext]_(Catalog!catalogVars)
  <2> SUFFICES ASSUME QueueInv, ProjectionInv, QueueInv', ProjectionInv', [IngestionNext]_allVars
               PROVE  [Catalog!CatalogNext]_(Catalog!catalogVars)
    OBVIOUS
  <2>1. Serving => Found = Published /\ Complete = Published
    BY CatalogOnline
  <2>2. Serving' => Found' = Published' /\ Complete' = Published'
    BY CatalogNextState
  <2>3. ~Serving => Found = [s \in Unambiguous |-> {}] /\ Complete = [s \in Unambiguous |-> {}]
    BY CatalogOffline
  <2>4. ~Serving' => Found' = [s \in Unambiguous |-> {}] /\ Complete' = [s \in Unambiguous |-> {}]
    BY CatalogNextState
  <2>5. Serving \in BOOLEAN /\ Serving' \in BOOLEAN
    BY DEF Serving
  <2>6. CASE Published' # Published
    <3>1. PICK s \in Unambiguous, d \in JobIds :
            /\ ~Serving /\ ~Serving'
            /\ \A t \in Unambiguous : d \notin Published[t]
            /\ Published' = [Published EXCEPT ![s] = @ \cup {d}]
      BY <2>6, PublicationIsAtomic
    <3>2. Catalog!Publish(s, d)
      BY <2>3, <2>4, <2>5, <3>1 DEF Catalog!Publish
    <3> QED
      BY <3>2 DEF Catalog!CatalogNext
  <2>7. CASE Published' = Published /\ Serving' = Serving
    <3>1. UNCHANGED <<Published, Serving, Found, Complete>>
      BY <2>1, <2>2, <2>3, <2>4, <2>7
    <3> QED
      BY <3>1 DEF Catalog!catalogVars
  <2>8. CASE Published' = Published /\ Serving /\ ~Serving'
    <3>1. Catalog!GoOffline
      BY <2>4, <2>5, <2>8 DEF Catalog!GoOffline, Catalog!Nothing
    <3> QED
      BY <3>1 DEF Catalog!CatalogNext
  <2>9. CASE Published' = Published /\ ~Serving /\ Serving'
    <3>1. Catalog!GoOnline
      BY <2>2, <2>5, <2>9 DEF Catalog!GoOnline
    <3> QED
      BY <3>1 DEF Catalog!CatalogNext
  <2> QED
    BY <2>5, <2>6, <2>7, <2>8, <2>9
<1> QED
  BY <1>1, <1>2, QueueInvHolds, ProjectionInvariance, PTL DEF IngestionSpec, ImplementsCatalogSteps
=============================================================================
