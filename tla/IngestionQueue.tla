--------------------------- MODULE IngestionQueue ---------------------------
(***************************************************************************)
(* The durable ingestion queue of hangar-server: the tables DOCUMENTS,     *)
(* INGESTION_JOBS, INGESTION_DEDUPLICATION and INGESTION_IDEMPOTENCY of    *)
(* store.rs, the handlers that write them, and the one worker task of      *)
(* main.rs that leases jobs and reports their outcome.                     *)
(*                                                                         *)
(* Every handler runs under the one store mutex and commits one redb       *)
(* transaction, so it is one action here.  The worker takes the mutex      *)
(* separately to claim a job, to process it and, when processing failed,   *)
(* to record the failure: any other operation may fall between these       *)
(* steps, and so may a crash.  What processing does to chunks and indexes  *)
(* is left to module Ingestion; here it succeeds or fails.                 *)
(*                                                                         *)
(* A definition named Bug_... is a mutant: a plausible mistake in the      *)
(* definition that follows it, which no action uses.                       *)
(***************************************************************************)
EXTENDS Naturals, FiniteSets, FiniteSetsExt

CONSTANTS
  Scopes,             \* (organization_id, workspace_id) pairs
  Joined,             \* Joined[s]: the text "organization_id:workspace_id"
  Contents,           \* document texts, told apart by their SHA-256
  IdemKeys,           \* values of the Idempotency-Key header
  NoKey,              \* the request has no such header
  Bytes,              \* Bytes[c] is the length of content c
  MaxAttempts,        \* MAX_INGESTION_ATTEMPTS
  MaxDocumentBytes,   \* WorkspaceLimits.max_document_bytes
  MaxDocuments,       \* WorkspaceLimits.max_documents
  MaxIngestionBytes,  \* WorkspaceLimits.max_ingestion_bytes
  MaxJobs,            \* bound of the model on the jobs ever accepted
  MaxCrashes          \* bound of the model on the process deaths

ASSUME QueueAssumption ==
  /\ NoKey \notin IdemKeys
  /\ Bytes \in [Contents -> Nat \ {0}]
  /\ MaxAttempts \in Nat \ {0}
  /\ MaxDocumentBytes \in Nat /\ MaxDocuments \in Nat /\ MaxIngestionBytes \in Nat
  /\ MaxJobs \in Nat /\ MaxCrashes \in Nat

\* Job ids are UUIDv7 values: they sort by creation, and the jobs table is
\* iterated in that order.  A job and its document are created together and
\* refer to each other, so one number names both.
JobIds == 1..MaxJobs
NoJob == 0
NoInput == <<>>

\* Keys and file names begin with the joined ids of their workspace.  An id may
\* contain a colon itself, so two workspaces may have the same joined ids;
\* unambiguous are those that have theirs alone.
Names == {Joined[s] : s \in Scopes}
Unambiguous == {s \in Scopes : \A t \in Scopes : Joined[t] = Joined[s] => t = s}

VARIABLES
  accepted,    \* number of jobs created so far; their ids are 1..accepted
  input,       \* scope and content of each job: its payload and its document
  status,      \* IngestionJob.status
  docStatus,   \* Document.ingestion_status
  attempts,    \* IngestionJob.attempts
  backingOff,  \* jobs whose next_attempt_at_unix_ms lies in the future
  dedup,       \* (joined ids, content) -> job     INGESTION_DEDUPLICATION
  idem,        \* (joined ids, key) -> job         INGESTION_IDEMPOTENCY
  server,      \* the process: "up", "down", or "poisoned" by a panic
  phase,       \* the worker between lock acquisitions: "idle", "leased", "failing"
  lease,       \* the job the worker claimed, NoJob when idle
  crashes      \* process deaths so far

jobVars    == <<input, status, docStatus, attempts, backingOff>>
keyVars    == <<accepted, dedup, idem>>
workerVars == <<phase, lease>>
vars == <<jobVars, keyVars, workerVars, server, crashes>>

JobStatus == {"Queued", "Processing", "Succeeded", "RetryWait", "DeadLetter"}
Keys == IdemKeys \cup {NoKey}

-----------------------------------------------------------------------------
Init ==
  /\ accepted = 0
  /\ input = [j \in JobIds |-> NoInput]
  /\ status = [j \in JobIds |-> "Absent"]
  /\ docStatus = [j \in JobIds |-> "Absent"]
  /\ attempts = [j \in JobIds |-> 0]
  /\ backingOff = {}
  /\ dedup = [x \in Names \X Contents |-> NoJob]
  /\ idem = [x \in Names \X IdemKeys |-> NoJob]
  /\ server = "up"
  /\ phase = "idle"
  /\ lease = NoJob
  /\ crashes = 0

Created == 1..accepted

ByContent(s, c) == dedup[<<Joined[s], c>>]
ByKey(s, k) == IF k = NoKey THEN NoJob ELSE idem[<<Joined[s], k>>]

Bug_KeyReplacesContent(s, k, c) == IF k # NoKey THEN ByKey(s, k) ELSE ByContent(s, c)
Bug_ContentBeforeKey(s, k, c) ==
  IF ByContent(s, c) = NoJob THEN ByKey(s, k) ELSE ByContent(s, c)

\* The job an upload is answered with instead of a new one: the idempotency
\* key is looked up first, the content only when the key is unknown.
ExistingJob(s, k, c) == IF ByKey(s, k) # NoJob THEN ByKey(s, k) ELSE ByContent(s, c)

DocumentsOf(s) == {j \in Created : input[j][1] = s}
DocumentBytes(j) == Bytes[input[j][2]]
IngestionBytes(s) == SumFunction([j \in DocumentsOf(s) |-> DocumentBytes(j)])

Bug_NewBytesNotCounted(s, c) ==
  /\ Bytes[c] <= MaxDocumentBytes
  /\ Cardinality(DocumentsOf(s)) < MaxDocuments
  /\ IngestionBytes(s) <= MaxIngestionBytes

\* Limits are checked only for an upload that creates a document.
AdmitsDocument(s, c) ==
  /\ Bytes[c] <= MaxDocumentBytes
  /\ Cardinality(DocumentsOf(s)) < MaxDocuments
  /\ IngestionBytes(s) + Bytes[c] <= MaxIngestionBytes

Bug_KeyOfEveryone(s, k, c, j) ==
  /\ dedup' = [dedup EXCEPT ![<<Joined[s], c>>] = j]
  /\ idem' = [x \in DOMAIN idem |-> IF x[2] = k THEN j ELSE idem[x]]

\* A new job is entered under its content, and under the key if there is one.
RecordKeys(s, k, c, j) ==
  /\ dedup' = [dedup EXCEPT ![<<Joined[s], c>>] = j]
  /\ idem' = IF k = NoKey THEN idem ELSE [idem EXCEPT ![<<Joined[s], k>>] = j]

\* POST /v1/documents.  An upload that finds an existing job, or is refused by
\* a limit, changes nothing and is a stuttering step.
EnqueueDocument(s, k, c) ==
  LET j == accepted + 1 IN
  /\ server = "up"
  /\ j <= MaxJobs
  /\ ExistingJob(s, k, c) = NoJob
  /\ AdmitsDocument(s, c)
  /\ accepted' = j
  /\ input' = [input EXCEPT ![j] = <<s, c>>]
  /\ status' = [status EXCEPT ![j] = "Queued"]
  /\ docStatus' = [docStatus EXCEPT ![j] = "Queued"]
  /\ RecordKeys(s, k, c, j)
  /\ UNCHANGED <<attempts, backingOff, server, workerVars, crashes>>

\* Both records always carry the status of the same transaction.
SetStatus(j, to) ==
  /\ status' = [status EXCEPT ![j] = to]
  /\ docStatus' = [docStatus EXCEPT ![j] = to]

Eligible(j) ==
  \/ status[j] = "Queued"
  \/ status[j] = "RetryWait" /\ j \notin backingOff

\* The worker leases the eligible job with the smallest id.
ClaimNextJob ==
  /\ server = "up"
  /\ phase = "idle"
  /\ \E j \in Created :
       /\ Eligible(j)
       /\ \A i \in Created : Eligible(i) => j <= i
       /\ SetStatus(j, "Processing")
       /\ attempts' = [attempts EXCEPT ![j] = @ + 1]
       /\ lease' = j
  /\ phase' = "leased"
  /\ UNCHANGED <<input, backingOff, keyVars, server, crashes>>

\* process_claimed_ingestion_job returns Ok.  It refuses a job that is not
\* Processing; the refusal is an error like any other (ProcessingFails).
CompleteJob ==
  /\ server = "up"
  /\ phase = "leased"
  /\ status[lease] = "Processing"
  /\ SetStatus(lease, "Succeeded")
  /\ phase' = "idle"
  /\ lease' = NoJob
  /\ UNCHANGED <<input, attempts, backingOff, keyVars, server, crashes>>

\* process_claimed_ingestion_job returns an error: no status was committed.
ProcessingFails ==
  /\ server = "up"
  /\ phase = "leased"
  /\ phase' = "failing"
  /\ UNCHANGED <<jobVars, keyVars, lease, server, crashes>>

Bug_OneAttemptMore(j) == attempts[j] > MaxAttempts
Exhausted(j) == attempts[j] >= MaxAttempts

\* fail_claimed_ingestion_job: back off, or give up after MaxAttempts.
RecordFailure ==
  /\ server = "up"
  /\ phase = "failing"
  /\ status[lease] = "Processing"
  /\ IF Exhausted(lease)
       THEN /\ SetStatus(lease, "DeadLetter")
            /\ UNCHANGED backingOff
       ELSE /\ SetStatus(lease, "RetryWait")
            /\ backingOff' = backingOff \cup {lease}
  /\ phase' = "idle"
  /\ lease' = NoJob
  /\ UNCHANGED <<input, attempts, keyVars, server, crashes>>

\* Recording the failure fails too (a full disk, say).  The worker only logs
\* it and goes on to the next job; the record stays Processing.
FailureNotRecorded ==
  /\ server = "up"
  /\ phase = "failing"
  /\ phase' = "idle"
  /\ lease' = NoJob
  /\ UNCHANGED <<jobVars, keyVars, server, crashes>>

\* The backoff of retry_backoff_ms elapses; how long it is, is abstracted.
BackoffElapses(j) ==
  /\ j \in backingOff
  /\ backingOff' = backingOff \ {j}
  /\ UNCHANGED <<input, status, docStatus, attempts, keyVars, workerVars, server, crashes>>

Bug_RetryAnyFailure(j) == attempts[j] > 0 /\ status[j] # "Succeeded"
Retryable(j) == status[j] = "DeadLetter"

\* POST /v1/ingestion/jobs/{id}/retry, by an owner of the job's scope.
RetryDeadLetter(s, j) ==
  /\ server = "up"
  /\ j \in Created
  /\ input[j][1] = s
  /\ Retryable(j)
  /\ SetStatus(j, "Queued")
  /\ attempts' = [attempts EXCEPT ![j] = 0]
  /\ UNCHANGED <<input, backingOff, keyVars, workerVars, server, crashes>>

\* The process dies ("down"), or a panic under the store lock poisons it
\* ("poisoned"): then every later operation fails until a restart.  Either
\* way what the worker held in memory is gone and the tables are as last
\* committed.
Crash(how) ==
  /\ server = "up"
  /\ crashes < MaxCrashes
  /\ server' = how
  /\ crashes' = crashes + 1
  /\ phase' = "idle"
  /\ lease' = NoJob
  /\ UNCHANGED <<jobVars, keyVars>>

Bug_EveryUnfinishedJob(j) == status[j] \notin {"Absent", "Succeeded"}
Bug_WithAttemptsLeft(j) == status[j] = "Processing" /\ attempts[j] < MaxAttempts
Interrupted(j) == status[j] = "Processing"

Bug_RefundAttempts ==
  /\ server # "up"
  /\ server' = "up"
  /\ status' = [j \in JobIds |-> IF Interrupted(j) THEN "Queued" ELSE status[j]]
  /\ docStatus' = [j \in JobIds |-> IF Interrupted(j) THEN "Queued" ELSE docStatus[j]]
  /\ attempts' = [j \in JobIds |-> attempts[j] - 1]
  /\ UNCHANGED <<input, backingOff, keyVars, workerVars, crashes>>

\* recover_incomplete_ingestion_jobs, which the boot runs before it serves.
RecoverIncompleteJobs ==
  /\ server # "up"
  /\ server' = "up"
  /\ status' = [j \in JobIds |-> IF Interrupted(j) THEN "Queued" ELSE status[j]]
  /\ docStatus' = [j \in JobIds |-> IF Interrupted(j) THEN "Queued" ELSE docStatus[j]]
  /\ UNCHANGED <<input, attempts, backingOff, keyVars, workerVars, crashes>>

-----------------------------------------------------------------------------
Next ==
  \/ \E s \in Scopes, k \in Keys, c \in Contents : EnqueueDocument(s, k, c)
  \/ ClaimNextJob
  \/ CompleteJob
  \/ ProcessingFails
  \/ RecordFailure
  \/ FailureNotRecorded
  \/ \E j \in JobIds : BackoffElapses(j)
  \/ \E s \in Scopes, j \in JobIds : RetryDeadLetter(s, j)
  \/ \E how \in {"down", "poisoned"} : Crash(how)
  \/ RecoverIncompleteJobs

Spec == Init /\ [][Next]_vars

-----------------------------------------------------------------------------
\* The type invariant: every table holds records of the shape its handler writes.
TypeOK ==
  /\ accepted \in 0..MaxJobs
  /\ input \in [JobIds -> (Scopes \X Contents) \cup {NoInput}]
  /\ status \in [JobIds -> JobStatus \cup {"Absent"}]
  /\ docStatus \in [JobIds -> JobStatus \cup {"Absent"}]
  /\ attempts \in [JobIds -> Nat]
  /\ backingOff \subseteq JobIds
  /\ dedup \in [Names \X Contents -> JobIds \cup {NoJob}]
  /\ idem \in [Names \X IdemKeys -> JobIds \cup {NoJob}]
  /\ server \in {"up", "down", "poisoned"}
  /\ phase \in {"idle", "leased", "failing"}
  /\ lease \in JobIds \cup {NoJob}
  /\ crashes \in Nat

\* Search reads the document's status and the job API the job's: whatever
\* handler or crash came last, the two records never disagree.
DocumentFollowsJob == docStatus = status

\* From the claim to the recorded outcome the worker's job is an accepted one
\* that no other operation (an owner's retry, a recovery) has moved out of
\* Processing, although the mutex is free between the worker's steps.
LeaseIsHeld ==
  phase # "idle" => /\ server = "up"
                    /\ lease \in Created
                    /\ status[lease] = "Processing"

\* A job is Processing although the worker is not at it.  Nothing reads
\* lease_expires_at_unix_ms, so it stays so as long as the server runs.
Stranded(j) == server = "up" /\ status[j] = "Processing" /\ ~(phase # "idle" /\ lease = j)

\* A text is ingested at most once per workspace, however often it is uploaded,
\* with whatever keys, before or after crashes and dead letters.
OneJobPerContent ==
  \A i, j \in Created : input[i] = input[j] => i = j

\* What the key tables say of the jobs they lead to: the text of a job, and the
\* joined ids of its workspace, are those it was entered under.
KeysLeadBack ==
  /\ \A x \in Names \X Contents : dedup[x] # NoJob =>
       dedup[x] \in Created /\ Joined[input[dedup[x]][1]] = x[1] /\ input[dedup[x]][2] = x[2]
  /\ \A x \in Names \X IdemKeys : idem[x] # NoJob =>
       idem[x] \in Created /\ Joined[input[idem[x]][1]] = x[1]

\* An upload to an unambiguous workspace is answered with a job of that
\* workspace: no key or text that another workspace used, whether its ids are
\* ambiguous or not, leads an upload there.
ReceiptsStayInScope ==
  \A s \in Unambiguous, k \in Keys, c \in Contents :
    ExistingJob(s, k, c) # NoJob => input[ExistingJob(s, k, c)][1] = s

DocumentsWithinLimit == \A s \in Scopes : Cardinality(DocumentsOf(s)) <= MaxDocuments

\* "concurrent HTTP requests cannot over-admit a workspace" (WorkspaceLimits):
\* a workspace's documents and bytes never exceed its limits.
WorkspaceWithinLimits ==
  /\ DocumentsWithinLimit
  /\ \A s \in Scopes : IngestionBytes(s) <= MaxIngestionBytes

\* The worker tries a job at most MaxAttempts times per owner's decision, plus
\* once for every death of the process, and gives up no earlier than that.
AttemptsAreAccounted ==
  \A j \in Created :
    /\ attempts[j] <= MaxAttempts + crashes
    /\ status[j] = "DeadLetter" => attempts[j] >= MaxAttempts

\* What makes AttemptsAreAccounted inductive: a waiting job has an attempt in
\* hand, and a job a dead process left Processing has the one its death paid for.
AttemptsInHand ==
  \A j \in JobIds :
    /\ j \notin Created => attempts[j] = 0
    /\ status[j] \in {"Queued", "RetryWait"} => attempts[j] < MaxAttempts + crashes
    /\ status[j] = "Processing" /\ server # "up" => attempts[j] < MaxAttempts + crashes

\* The records are those of the jobs created, each with its payload.
JobsHaveRecords ==
  \A j \in JobIds :
    /\ j \in Created <=> status[j] # "Absent"
    /\ j \in Created => input[j] \in Scopes \X Contents

\* What makes OneJobPerContent inductive: the content table knows every job.
EveryJobIsKnown == \A j \in Created : ByContent(input[j][1], input[j][2]) = j

\* The inductive invariant the proofs use: nothing a handler or a crash does
\* leads out of it.
QueueInv ==
  /\ TypeOK
  /\ DocumentFollowsJob
  /\ LeaseIsHeld
  /\ KeysLeadBack
  /\ JobsHaveRecords
  /\ EveryJobIsKnown
  /\ AttemptsInHand
  /\ AttemptsAreAccounted

\* An accepted job never vanishes, a success is never undone, and a dead
\* letter is reopened only with its attempts cleared while the server is up:
\* recovery after a crash must not reopen what already has an outcome.
OutcomesAreFinal ==
  [][\A j \in JobIds :
       /\ status[j] # "Absent" => status'[j] # "Absent" /\ input'[j] = input[j]
       /\ status[j] = "Succeeded" => status'[j] = "Succeeded"
       /\ status[j] = "DeadLetter" /\ status'[j] # "DeadLetter" =>
             server = "up" /\ status'[j] = "Queued" /\ attempts'[j] = 0]_vars

\* An upload without a key, or with a key its workspace has used before, is
\* answered with the same job for ever once it is answered with one.
ReceiptsAreStable ==
  [][\A s \in Scopes, k \in Keys, c \in Contents :
       (k # NoKey => ByKey(s, k) # NoJob) /\ ExistingJob(s, k, c) # NoJob
         => ExistingJob(s, k, c)' = ExistingJob(s, k, c)]_vars

\* A job is stranded by one thing, the failure to record that its processing
\* failed, never by an interleaving, a crash or a recovery; and nothing but the
\* end of the process puts an end to it: a boot leaves no job stranded.
StrandedUntilBoot ==
  [][\A j \in JobIds :
       /\ Stranded(j)' => Stranded(j) \/ (phase = "failing" /\ lease = j)
       /\ Stranded(j) => Stranded(j)' \/ server' # "up"]_vars

=============================================================================
