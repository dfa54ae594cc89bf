------------------------ MODULE IngestionQueueProofs ------------------------
(***************************************************************************)
(* The ingestion queue's invariants, for any number of workspaces, texts,  *)
(* keys, attempts, jobs and crashes.                                       *)
(***************************************************************************)
EXTENDS IngestionQueue, SumTheorems

USE DEF JobIds, NoJob, NoInput, JobStatus, Keys, Created, RecordKeys, Exhausted, Retryable,
        Interrupted

\* The empty queue is in the invariant.
LEMMA InitEstablishesQueueInv == Init => QueueInv
BY QueueAssumption
   DEF QueueAssumption, Init, QueueInv, TypeOK, DocumentFollowsJob, LeaseIsHeld,
       KeysLeadBack, JobsHaveRecords, EveryJobIsKnown,
       AttemptsInHand, AttemptsAreAccounted

LEMMA EnqueueKeepsQueueInv ==
  ASSUME QueueInv, NEW s \in Scopes, NEW k \in Keys, NEW c \in Contents,
         EnqueueDocument(s, k, c)
  PROVE  QueueInv'
<1> USE QueueAssumption DEF QueueAssumption, QueueInv, EnqueueDocument, workerVars
<1>1. TypeOK'
  <2>1. accepted' \in JobIds /\ accepted' \in 0..MaxJobs
    BY DEF TypeOK
  <2>2. dedup' \in [Names \X Contents -> JobIds \cup {NoJob}]
    BY <2>1 DEF TypeOK
  <2>3. idem' \in [Names \X IdemKeys -> JobIds \cup {NoJob}]
    <3>1. CASE k = NoKey
      BY <3>1 DEF TypeOK
    <3>2. CASE k # NoKey
      BY <2>1, <3>2 DEF TypeOK
    <3> QED
      BY <3>1, <3>2
  <2>4. input' \in [JobIds -> (Scopes \X Contents) \cup {NoInput}]
    BY DEF TypeOK
  <2>5. status' \in [JobIds -> JobStatus \cup {"Absent"}] /\ docStatus' \in [JobIds -> JobStatus \cup {"Absent"}]
    BY DEF TypeOK
  <2> QED
    BY <2>1, <2>2, <2>3, <2>4, <2>5 DEF TypeOK
<1>2. DocumentFollowsJob'
  BY DEF TypeOK, DocumentFollowsJob
<1>3. LeaseIsHeld'
  BY DEF TypeOK, LeaseIsHeld
<1>4. KeysLeadBack'
  <2> DEFINE j == accepted + 1
  <2>1. input' = [input EXCEPT ![j] = <<s, c>>] /\ j \in JobIds /\ accepted' = j
    BY DEF TypeOK
  <2>2. \A i \in Created : i \in Created' /\ input'[i] = input[i]
    BY <2>1 DEF TypeOK
  <2>3. j \in Created' /\ input'[j] = <<s, c>>
    BY <2>1 DEF TypeOK
  <2>4. ASSUME NEW x \in Names \X Contents, dedup'[x] # NoJob
        PROVE  /\ dedup'[x] \in Created'
               /\ Joined[input'[dedup'[x]][1]] = x[1] /\ input'[dedup'[x]][2] = x[2]
    <3>1. CASE x = <<Joined[s], c>>
      <4>1. dedup'[x] = j
        BY <3>1 DEF TypeOK
      <4> QED
        BY <4>1, <2>3, <3>1
    <3>2. CASE x # <<Joined[s], c>>
      <4>1. dedup'[x] = dedup[x]
        BY <3>2 DEF TypeOK
      <4> QED
        BY <4>1, <2>2, <2>4 DEF KeysLeadBack
    <3> QED
      BY <3>1, <3>2
  <2>5. ASSUME NEW x \in Names \X IdemKeys, idem'[x] # NoJob
        PROVE  idem'[x] \in Created' /\ Joined[input'[idem'[x]][1]] = x[1]
    <3>1. CASE k # NoKey /\ x = <<Joined[s], k>>
      <4>1. idem'[x] = j
        BY <3>1 DEF TypeOK
      <4> QED
        BY <4>1, <2>3, <3>1
    <3>2. CASE ~(k # NoKey /\ x = <<Joined[s], k>>)
      <4>1. idem'[x] = idem[x]
        BY <3>2 DEF TypeOK
      <4> QED
        BY <4>1, <2>2, <2>5 DEF KeysLeadBack
    <3> QED
      BY <3>1, <3>2
  <2> QED
    BY <2>4, <2>5 DEF KeysLeadBack
<1>5. JobsHaveRecords'
  <2> DEFINE j == accepted + 1
  <2>1. j \in JobIds /\ Created' = Created \cup {j} /\ j \notin Created
    BY DEF TypeOK
  <2>2. input'[j] = <<s, c>> /\ status'[j] = "Queued"
    BY <2>1 DEF TypeOK
  <2>3. \A i \in JobIds : i # j => status'[i] = status[i] /\ input'[i] = input[i]
    BY <2>1 DEF TypeOK
  <2> QED
    BY <2>1, <2>2, <2>3 DEF JobsHaveRecords
<1>6. EveryJobIsKnown'
  <2> DEFINE j == accepted + 1
             Key(x) == <<Joined[x[1]], x[2]>>
  <2>1. \A x \in Scopes \X Contents : Key(x) \in Names \X Contents
    BY DEF Names
  <2>2. /\ j \in JobIds /\ Created' = Created \cup {j} /\ j \notin Created
        /\ \A i \in Created : i \in JobIds /\ i # NoJob
    BY DEF TypeOK
  <2>3. dedup[Key(<<s, c>>)] = NoJob
    BY DEF ExistingJob, ByContent
  <2>4. dedup' = [dedup EXCEPT ![Key(<<s, c>>)] = j] /\ dedup \in [Names \X Contents -> JobIds \cup {NoJob}]
    BY DEF TypeOK
  <2>5. ASSUME NEW i \in Created PROVE dedup'[Key(input'[i])] = i
    <3>1. input[i] \in Scopes \X Contents /\ dedup[Key(input[i])] = i
      BY <2>2 DEF JobsHaveRecords, EveryJobIsKnown, ByContent
    <3>2. Key(input[i]) # Key(<<s, c>>)
      BY <3>1, <2>2, <2>3
    <3>3. input'[i] = input[i]
      BY <2>2 DEF TypeOK
    <3>4. dedup'[Key(input[i])] = dedup[Key(input[i])]
      <4> HIDE DEF Key, j
      <4> QED
        BY <2>1, <2>4, <3>1, <3>2
    <3> QED
      BY <3>1, <3>3, <3>4
  <2>6. dedup'[Key(input'[j])] = j
    <3>1. input'[j] = <<s, c>> /\ <<s, c>> \in Scopes \X Contents
      BY <2>2 DEF TypeOK
    <3> HIDE DEF Key, j
    <3> QED
      BY <2>1, <2>4, <3>1
  <2> QED
    BY <2>2, <2>5, <2>6 DEF EveryJobIsKnown, ByContent
<1>7. AttemptsInHand'
  BY DEF TypeOK, AttemptsInHand
<1>8. AttemptsAreAccounted'
  BY DEF TypeOK, AttemptsAreAccounted, AttemptsInHand
<1> QED
  BY <1>1, <1>2, <1>3, <1>4, <1>5, <1>6, <1>7, <1>8

LEMMA ClaimKeepsQueueInv ==
  ASSUME QueueInv, ClaimNextJob
  PROVE  QueueInv'
<1> USE QueueAssumption DEF QueueAssumption, QueueInv, SetStatus, Eligible, keyVars
<1>1. PICK j \in Created :
        /\ Eligible(j)
        /\ SetStatus(j, "Processing")
        /\ attempts' = [attempts EXCEPT ![j] = @ + 1]
        /\ lease' = j
  BY DEF ClaimNextJob
<1>2. j \in JobIds
  BY DEF TypeOK
<1>3. TypeOK'
  BY <1>1, <1>2 DEF TypeOK, ClaimNextJob
<1>4. DocumentFollowsJob'
  BY <1>1 DEF DocumentFollowsJob
<1>5. LeaseIsHeld'
  BY <1>1, <1>2 DEF TypeOK, LeaseIsHeld, ClaimNextJob
<1>6. KeysLeadBack'
  BY DEF KeysLeadBack, ClaimNextJob
<1>7. JobsHaveRecords' /\ EveryJobIsKnown'
  <2>1. JobsHaveRecords'
    BY <1>1, <1>2 DEF TypeOK, JobsHaveRecords, ClaimNextJob
  <2>2. EveryJobIsKnown'
    BY DEF EveryJobIsKnown, ByContent, ClaimNextJob
  <2> QED
    BY <2>1, <2>2
<1>8. AttemptsInHand'
  BY <1>1, <1>2 DEF TypeOK, AttemptsInHand, ClaimNextJob
<1>9. AttemptsAreAccounted'
  BY <1>1, <1>2 DEF TypeOK, AttemptsAreAccounted, AttemptsInHand, ClaimNextJob
<1> QED
  BY <1>3, <1>4, <1>5, <1>6, <1>7, <1>8, <1>9

LEMMA CompleteKeepsQueueInv ==
  ASSUME QueueInv, CompleteJob
  PROVE  QueueInv'
<1> USE QueueAssumption DEF QueueAssumption, QueueInv, CompleteJob, SetStatus, keyVars
<1>1. lease \in JobIds /\ lease \in Created
  BY DEF TypeOK, LeaseIsHeld
<1>2. TypeOK'
  BY <1>1 DEF TypeOK
<1>3. DocumentFollowsJob' /\ LeaseIsHeld' /\ KeysLeadBack'
  BY DEF DocumentFollowsJob, LeaseIsHeld, KeysLeadBack
<1>4. JobsHaveRecords' /\ EveryJobIsKnown'
  <2>1. JobsHaveRecords'
    BY <1>1 DEF TypeOK, JobsHaveRecords
  <2>2. EveryJobIsKnown'
    BY DEF EveryJobIsKnown, ByContent
  <2> QED
    BY <2>1, <2>2
<1>5. AttemptsInHand'
  BY <1>1 DEF TypeOK, AttemptsInHand
<1>6. AttemptsAreAccounted'
  BY <1>1 DEF TypeOK, AttemptsAreAccounted
<1> QED
  BY <1>2, <1>3, <1>4, <1>5, <1>6

LEMMA RecordFailureKeepsQueueInv ==
  ASSUME QueueInv, RecordFailure
  PROVE  QueueInv'
<1> USE QueueAssumption DEF QueueAssumption, QueueInv, RecordFailure, SetStatus, keyVars
<1>1. lease \in JobIds /\ lease \in Created
  BY DEF TypeOK, LeaseIsHeld
<1>2. TypeOK'
  <2>1. \E to \in {"DeadLetter", "RetryWait"} : SetStatus(lease, to)
    BY Zenon
  <2>2. /\ status' \in [JobIds -> JobStatus \cup {"Absent"}]
        /\ docStatus' \in [JobIds -> JobStatus \cup {"Absent"}]
    BY <1>1, <2>1 DEF TypeOK
  <2>3. backingOff' = backingOff \/ backingOff' = backingOff \cup {lease}
    BY Zenon
  <2>4. backingOff' \subseteq JobIds
    BY <1>1, <2>3, ZenonT(60) DEF TypeOK
  <2> QED
    BY <2>2, <2>4 DEF TypeOK
<1>3. DocumentFollowsJob' /\ LeaseIsHeld' /\ KeysLeadBack'
  <2>1. DocumentFollowsJob'
    BY <1>1 DEF TypeOK, DocumentFollowsJob
  <2>2. LeaseIsHeld' /\ KeysLeadBack'
    BY DEF LeaseIsHeld, KeysLeadBack
  <2> QED
    BY <2>1, <2>2
<1>4. JobsHaveRecords' /\ EveryJobIsKnown'
  <2>1. JobsHaveRecords'
    BY <1>1 DEF TypeOK, JobsHaveRecords
  <2>2. EveryJobIsKnown'
    BY DEF EveryJobIsKnown, ByContent
  <2> QED
    BY <2>1, <2>2
<1>5. AttemptsInHand'
  BY <1>1 DEF TypeOK, AttemptsInHand
<1>6. AttemptsAreAccounted'
  BY <1>1 DEF TypeOK, AttemptsAreAccounted
<1> QED
  BY <1>2, <1>3, <1>4, <1>5, <1>6

LEMMA RetryKeepsQueueInv ==
  ASSUME QueueInv, NEW s \in Scopes, NEW j \in JobIds, RetryDeadLetter(s, j)
  PROVE  QueueInv'
<1> USE QueueAssumption
    DEF QueueAssumption, QueueInv, RetryDeadLetter, SetStatus, keyVars, workerVars
<1>1. TypeOK'
  BY DEF TypeOK
<1>2. DocumentFollowsJob' /\ LeaseIsHeld' /\ KeysLeadBack'
  BY DEF TypeOK, DocumentFollowsJob, LeaseIsHeld, KeysLeadBack
<1>3. JobsHaveRecords' /\ EveryJobIsKnown'
  <2>1. JobsHaveRecords'
    BY DEF TypeOK, JobsHaveRecords
  <2>2. EveryJobIsKnown'
    BY DEF EveryJobIsKnown, ByContent
  <2> QED
    BY <2>1, <2>2
<1>4. AttemptsInHand' /\ AttemptsAreAccounted'
  BY DEF TypeOK, AttemptsInHand, AttemptsAreAccounted
<1> QED
  BY <1>1, <1>2, <1>3, <1>4

\* A crash keeps every table; what recovery puts back has an attempt in hand.
LEMMA CrashKeepsQueueInv ==
  ASSUME QueueInv, NEW how \in {"down", "poisoned"}, Crash(how)
  PROVE  QueueInv'
BY QueueAssumption, SMTT(30)
   DEF QueueAssumption, QueueInv, Crash, jobVars, keyVars, TypeOK, DocumentFollowsJob,
       LeaseIsHeld, KeysLeadBack, JobsHaveRecords, EveryJobIsKnown, ByContent, AttemptsInHand,
       AttemptsAreAccounted

LEMMA RecoverKeepsQueueInv ==
  ASSUME QueueInv, RecoverIncompleteJobs
  PROVE  QueueInv'
<1> USE QueueAssumption
    DEF QueueAssumption, QueueInv, RecoverIncompleteJobs, keyVars, workerVars
<1>1. TypeOK'
  BY DEF TypeOK
<1>2. DocumentFollowsJob' /\ LeaseIsHeld' /\ KeysLeadBack'
  BY DEF TypeOK, DocumentFollowsJob, LeaseIsHeld, KeysLeadBack
<1>3. JobsHaveRecords' /\ EveryJobIsKnown'
  <2>1. JobsHaveRecords'
    BY DEF TypeOK, JobsHaveRecords
  <2>2. EveryJobIsKnown'
    BY DEF EveryJobIsKnown, ByContent
  <2> QED
    BY <2>1, <2>2
<1>4. AttemptsInHand' /\ AttemptsAreAccounted'
  BY DEF TypeOK, AttemptsInHand, AttemptsAreAccounted
<1> QED
  BY <1>1, <1>2, <1>3, <1>4

\* Steps that move the worker or the clock but no record.
LEMMA QuietStepsKeepQueueInv ==
  ASSUME QueueInv,
         \/ ProcessingFails
         \/ FailureNotRecorded
         \/ \E j \in JobIds : BackoffElapses(j)
         \/ UNCHANGED vars
  PROVE  QueueInv'
<1> USE DEF QueueInv, TypeOK, DocumentFollowsJob, LeaseIsHeld, KeysLeadBack,
            JobsHaveRecords, EveryJobIsKnown, ByContent, AttemptsInHand, AttemptsAreAccounted,
            jobVars, keyVars, workerVars
<1>1. CASE ProcessingFails
  BY <1>1 DEF ProcessingFails
<1>2. CASE FailureNotRecorded
  BY <1>2 DEF FailureNotRecorded
<1>3. ASSUME NEW j \in JobIds, BackoffElapses(j) PROVE QueueInv'
  BY <1>3 DEF BackoffElapses
<1>4. CASE UNCHANGED vars
  BY <1>4 DEF vars
<1> QED
  BY <1>1, <1>2, <1>3, <1>4

LEMMA NextKeepsQueueInv == QueueInv /\ [Next]_vars => QueueInv'
<1> SUFFICES ASSUME QueueInv, [Next]_vars PROVE QueueInv'
  OBVIOUS
<1>1. ASSUME NEW s \in Scopes, NEW k \in Keys, NEW c \in Contents, EnqueueDocument(s, k, c)
      PROVE  QueueInv'
  BY <1>1, EnqueueKeepsQueueInv
<1>2. CASE ClaimNextJob
  BY <1>2, ClaimKeepsQueueInv
<1>3. CASE CompleteJob
  BY <1>3, CompleteKeepsQueueInv
<1>4. CASE RecordFailure
  BY <1>4, RecordFailureKeepsQueueInv
<1>5. ASSUME NEW s \in Scopes, NEW j \in JobIds, RetryDeadLetter(s, j) PROVE QueueInv'
  BY <1>5, RetryKeepsQueueInv
<1>6. ASSUME NEW how \in {"down", "poisoned"}, Crash(how) PROVE QueueInv'
  BY <1>6, CrashKeepsQueueInv
<1>7. CASE RecoverIncompleteJobs
  BY <1>7, RecoverKeepsQueueInv
<1>8. CASE \/ ProcessingFails
           \/ FailureNotRecorded
           \/ \E j \in JobIds : BackoffElapses(j)
           \/ UNCHANGED vars
  BY <1>8, QuietStepsKeepQueueInv
<1> QED
  BY <1>1, <1>2, <1>3, <1>4, <1>5, <1>6, <1>7, <1>8 DEF Next

\* QueueInv holds in every reachable state of the queue.
THEOREM QueueInvariance == Spec => []QueueInv
BY InitEstablishesQueueInv, NextKeepsQueueInv, PTL DEF Spec

\* The tables always hold records of the declared shapes.
THEOREM TypeCorrect == Spec => []TypeOK
<1>1. QueueInv => TypeOK
  BY DEF QueueInv
<1> QED
  BY <1>1, QueueInvariance, PTL

\* A leased job stays an accepted, Processing job until the worker reports.
THEOREM LeaseSafety == Spec => []LeaseIsHeld
<1>1. QueueInv => LeaseIsHeld
  BY DEF QueueInv
<1> QED
  BY <1>1, QueueInvariance, PTL

\* A text has at most one job in a workspace.
THEOREM ContentSafety == Spec => []OneJobPerContent
<1>1. ASSUME QueueInv PROVE OneJobPerContent
  <2>1. SUFFICES ASSUME NEW i \in Created, NEW j \in Created, input[i] = input[j]
                 PROVE  i = j
    BY DEF OneJobPerContent
  <2>2. i \in JobIds /\ j \in JobIds
    BY <1>1, QueueAssumption DEF QueueInv, TypeOK, QueueAssumption
  <2>3. ByContent(input[i][1], input[i][2]) = i /\ ByContent(input[j][1], input[j][2]) = j
    BY <1>1, <2>2 DEF QueueInv, EveryJobIsKnown
  <2> QED
    BY <2>1, <2>3
<1> QED
  BY <1>1, QueueInvariance, PTL

\* Attempts exceed the maximum by no more than the deaths of the process.
THEOREM AttemptsSafety == Spec => []AttemptsAreAccounted
<1>1. QueueInv => AttemptsAreAccounted
  BY DEF QueueInv
<1> QED
  BY <1>1, QueueInvariance, PTL

\* An upload to a workspace whose joined ids are its own is answered with a
\* job of that workspace.
THEOREM ScopeSafety == Spec => []ReceiptsStayInScope
<1>1. ASSUME QueueInv PROVE ReceiptsStayInScope
  <2> SUFFICES ASSUME NEW s \in Unambiguous, NEW k \in Keys, NEW c \in Contents,
                      ExistingJob(s, k, c) # NoJob
               PROVE  input[ExistingJob(s, k, c)][1] = s
    BY DEF ReceiptsStayInScope
  <2> DEFINE j == ExistingJob(s, k, c)
  <2>1. Joined[s] \in Names /\ s \in Scopes
    BY DEF Names, Unambiguous
  <2>2. j \in Created /\ Joined[input[j][1]] = Joined[s]
    BY <1>1, <2>1 DEF QueueInv, KeysLeadBack, ExistingJob, ByContent, ByKey
  <2>3. input[j][1] \in Scopes
    BY <1>1, <2>2, QueueAssumption DEF QueueInv, TypeOK, JobsHaveRecords, QueueAssumption
  <2> QED
    BY <2>2, <2>3 DEF Unambiguous
<1> QED
  BY <1>1, QueueInvariance, PTL

-----------------------------------------------------------------------------
\* Success is for ever; only an owner reopens a dead letter.
LEMMA StepKeepsOutcomes ==
  ASSUME QueueInv, [Next]_vars, NEW j \in JobIds
  PROVE  /\ status[j] # "Absent" => status'[j] # "Absent" /\ input'[j] = input[j]
         /\ status[j] = "Succeeded" => status'[j] = "Succeeded"
         /\ status[j] = "DeadLetter" /\ status'[j] # "DeadLetter" =>
               server = "up" /\ status'[j] = "Queued" /\ attempts'[j] = 0
<1> USE QueueAssumption DEF QueueAssumption, QueueInv, TypeOK, SetStatus, keyVars
<1>1. ASSUME NEW s \in Scopes, NEW k \in Keys, NEW c \in Contents, EnqueueDocument(s, k, c)
      PROVE  (status[j] # "Absent" => status'[j] = status[j] /\ input'[j] = input[j])
  BY <1>1 DEF EnqueueDocument, JobsHaveRecords
<1>2. CASE ClaimNextJob
  <2>1. PICK i \in Created : Eligible(i) /\ SetStatus(i, "Processing")
    BY <1>2 DEF ClaimNextJob
  <2> QED
    BY <1>2, <2>1 DEF ClaimNextJob, Eligible
<1>3. CASE CompleteJob
  BY <1>3 DEF CompleteJob, LeaseIsHeld
<1>4. CASE RecordFailure
  <2>1. \E to \in {"DeadLetter", "RetryWait"} : SetStatus(lease, to)
    BY <1>4, Zenon DEF RecordFailure
  <2> QED
    BY <1>4, <2>1 DEF RecordFailure, LeaseIsHeld
<1>5. ASSUME NEW s \in Scopes, NEW i \in JobIds, RetryDeadLetter(s, i)
      PROVE  /\ input' = input /\ server = "up"
             /\ \/ status'[j] = status[j]
                \/ status[j] = "DeadLetter" /\ status'[j] = "Queued" /\ attempts'[j] = 0
  BY <1>5 DEF RetryDeadLetter
<1>6. CASE RecoverIncompleteJobs
  BY <1>6 DEF RecoverIncompleteJobs
<1>7. CASE UNCHANGED <<input, status>>
  BY <1>7
<1>8. \/ ProcessingFails
      \/ FailureNotRecorded
      \/ \E i \in JobIds : BackoffElapses(i)
      \/ \E how \in {"down", "poisoned"} : Crash(how)
      \/ UNCHANGED vars
      => UNCHANGED <<input, status>>
  BY DEF ProcessingFails, FailureNotRecorded, BackoffElapses, Crash, vars, jobVars
<1> QED
  BY <1>1, <1>2, <1>3, <1>4, <1>5, <1>6, <1>7, <1>8 DEF Next

\* No accepted job vanishes and no outcome is undone, but for an owner's retry.
THEOREM OutcomesSafety == Spec => OutcomesAreFinal
<1>1. QueueInv /\ [Next]_vars =>
        [\A j \in JobIds :
           /\ status[j] # "Absent" => status'[j] # "Absent" /\ input'[j] = input[j]
           /\ status[j] = "Succeeded" => status'[j] = "Succeeded"
           /\ status[j] = "DeadLetter" /\ status'[j] # "DeadLetter" =>
                 server = "up" /\ status'[j] = "Queued" /\ attempts'[j] = 0]_vars
  BY StepKeepsOutcomes
<1> QED
  BY <1>1, QueueInvariance, PTL DEF Spec, OutcomesAreFinal

-----------------------------------------------------------------------------
\* What strands a job, and what does not put an end to it.
LEMMA StepStrandsOnlyFailures ==
  ASSUME QueueInv, [Next]_vars, NEW j \in JobIds
  PROVE  /\ Stranded(j)' => Stranded(j) \/ (phase = "failing" /\ lease = j)
         /\ Stranded(j) => Stranded(j)' \/ server' # "up"
<1> DEFINE Goal == /\ Stranded(j)' => Stranded(j) \/ (phase = "failing" /\ lease = j)
                   /\ Stranded(j) => Stranded(j)' \/ server' # "up"
<1> USE QueueAssumption DEF QueueAssumption, QueueInv, TypeOK, SetStatus, keyVars, Stranded
<1>1. ASSUME NEW s \in Scopes, NEW k \in Keys, NEW c \in Contents, EnqueueDocument(s, k, c)
      PROVE  Goal
  <2>1. accepted + 1 \in JobIds /\ status'[accepted + 1] = "Queued" /\ status[accepted + 1] = "Absent"
    BY <1>1 DEF EnqueueDocument, JobsHaveRecords
  <2>2. \A i \in JobIds : i # accepted + 1 => status'[i] = status[i]
    BY <1>1 DEF EnqueueDocument
  <2>3. UNCHANGED <<server, phase, lease>>
    BY <1>1 DEF EnqueueDocument, workerVars
  <2> QED
    BY <2>1, <2>2, <2>3
<1>2. CASE ClaimNextJob
  <2>1. PICK i \in Created : Eligible(i) /\ SetStatus(i, "Processing") /\ lease' = i
    BY <1>2 DEF ClaimNextJob
  <2> QED
    BY <1>2, <2>1 DEF ClaimNextJob, Eligible
<1>3. CASE CompleteJob
  BY <1>3 DEF CompleteJob, LeaseIsHeld
<1>4. CASE RecordFailure
  <2>1. \E to \in {"DeadLetter", "RetryWait"} : SetStatus(lease, to)
    BY <1>4, Zenon DEF RecordFailure
  <2> QED
    BY <1>4, <2>1 DEF RecordFailure, LeaseIsHeld
<1>5. ASSUME NEW s \in Scopes, NEW i \in JobIds, RetryDeadLetter(s, i) PROVE Goal
  BY <1>5 DEF RetryDeadLetter, workerVars
<1>6. ASSUME NEW how \in {"down", "poisoned"}, Crash(how) PROVE Goal
  BY <1>6 DEF Crash
<1>7. CASE RecoverIncompleteJobs
  BY <1>7 DEF RecoverIncompleteJobs
<1>8. CASE ProcessingFails
  BY <1>8 DEF ProcessingFails, jobVars
<1>9. CASE FailureNotRecorded
  BY <1>9 DEF FailureNotRecorded, jobVars
<1>10. CASE \E i \in JobIds : BackoffElapses(i)
  BY <1>10 DEF BackoffElapses, workerVars
<1>11. CASE UNCHANGED vars
  BY <1>11 DEF vars, jobVars, workerVars
<1> QED
  BY <1>1, <1>2, <1>3, <1>4, <1>5, <1>6, <1>7, <1>8, <1>9, <1>10, <1>11 DEF Next

\* A job is left Processing by a failure that could not be recorded and by
\* nothing else, and then until the process ends.
THEOREM StrandingSafety == Spec => StrandedUntilBoot
<1>1. QueueInv /\ [Next]_vars =>
        [\A j \in JobIds :
           /\ Stranded(j)' => Stranded(j) \/ (phase = "failing" /\ lease = j)
           /\ Stranded(j) => Stranded(j)' \/ server' # "up"]_vars
  BY StepStrandsOnlyFailures
<1> QED
  BY <1>1, QueueInvariance, PTL DEF Spec, StrandedUntilBoot

-----------------------------------------------------------------------------
LEMMA DocumentsAreFinite ==
  ASSUME TypeOK, NEW s \in Scopes
  PROVE  IsFiniteSet(DocumentsOf(s)) /\ Cardinality(DocumentsOf(s)) \in Nat
<1>1. IsFiniteSet(1..accepted)
  BY FS_Interval, QueueAssumption DEF TypeOK, QueueAssumption
<1>2. DocumentsOf(s) \in SUBSET (1..accepted)
  BY DEF DocumentsOf
<1> QED
  BY <1>1, <1>2, FS_Subset, FS_CardinalityType

LEMMA EnqueueKeepsDocumentsWithinLimit ==
  ASSUME QueueInv, DocumentsWithinLimit,
         NEW s \in Scopes, NEW k \in Keys, NEW c \in Contents, EnqueueDocument(s, k, c),
         NEW t \in Scopes
  PROVE  Cardinality(DocumentsOf(t)') <= MaxDocuments
<1> USE QueueAssumption DEF QueueAssumption, QueueInv, TypeOK
<1> DEFINE j == accepted + 1
<1>1. /\ j \in JobIds /\ j \notin Created /\ Created' = Created \cup {j}
      /\ input'[j] = <<s, c>>
      /\ \A i \in Created : input'[i] = input[i]
  BY DEF EnqueueDocument
<1>2. CASE t = s
  <2>1. DocumentsOf(t)' = DocumentsOf(t) \cup {j} /\ j \notin DocumentsOf(t)
    BY <1>1, <1>2, SMTT(30) DEF DocumentsOf
  <2>2. Cardinality(DocumentsOf(t)') = Cardinality(DocumentsOf(t)) + 1
    BY <2>1, DocumentsAreFinite, FS_AddElement, ZenonT(60)
  <2>3. Cardinality(DocumentsOf(t)) < MaxDocuments
    BY <1>2 DEF EnqueueDocument, AdmitsDocument
  <2> QED
    BY <2>2, <2>3, DocumentsAreFinite
<1>3. CASE t # s
  <2>1. DocumentsOf(t)' = DocumentsOf(t)
    BY <1>1, <1>3, SMTT(30) DEF DocumentsOf
  <2> QED
    BY <2>1 DEF DocumentsWithinLimit
<1> QED
  BY <1>2, <1>3

LEMMA OtherStepsKeepDocuments ==
  ASSUME QueueInv, [Next]_vars,
         ~\E s \in Scopes, k \in Keys, c \in Contents : EnqueueDocument(s, k, c)
  PROVE  UNCHANGED <<accepted, input>>
BY DEF Next, vars, jobVars, keyVars, workerVars, ClaimNextJob, CompleteJob, ProcessingFails,
       RecordFailure, FailureNotRecorded, BackoffElapses, RetryDeadLetter, Crash,
       RecoverIncompleteJobs

\* No interleaving of uploads, workers and crashes over-admits a workspace.
THEOREM AdmissionSafety == Spec => []DocumentsWithinLimit
<1>1. Init => DocumentsWithinLimit
  <2> SUFFICES ASSUME Init, NEW s \in Scopes PROVE Cardinality(DocumentsOf(s)) <= MaxDocuments
    BY DEF DocumentsWithinLimit
  <2>1. DocumentsOf(s) = {}
    BY DEF Init, DocumentsOf
  <2> QED
    BY <2>1, FS_EmptySet, QueueAssumption DEF QueueAssumption
<1>2. QueueInv /\ DocumentsWithinLimit /\ [Next]_vars => DocumentsWithinLimit'
  <2> SUFFICES ASSUME QueueInv, DocumentsWithinLimit, [Next]_vars, NEW t \in Scopes
               PROVE  Cardinality(DocumentsOf(t)') <= MaxDocuments
    BY DEF DocumentsWithinLimit
  <2>1. CASE \E s \in Scopes, k \in Keys, c \in Contents : EnqueueDocument(s, k, c)
    BY <2>1, EnqueueKeepsDocumentsWithinLimit
  <2>2. CASE ~\E s \in Scopes, k \in Keys, c \in Contents : EnqueueDocument(s, k, c)
    <3>1. DocumentsOf(t)' = DocumentsOf(t)
      BY <2>2, OtherStepsKeepDocuments DEF DocumentsOf
    <3> QED
      BY <3>1 DEF DocumentsWithinLimit
  <2> QED
    BY <2>1, <2>2
<1> QED
  BY <1>1, <1>2, QueueInvariance, PTL DEF Spec
-----------------------------------------------------------------------------
BytesOfJobs(D, in) == [j \in D |-> Bytes[in[j][2]]]

\* The bytes of a workspace are a sum over a finite set of jobs.
LEMMA BytesAreNatural ==
  ASSUME QueueInv, NEW s \in Scopes
  PROVE  /\ \A j \in DocumentsOf(s) : Bytes[input[j][2]] \in Nat
         /\ IngestionBytes(s) = SumFunction(BytesOfJobs(DocumentsOf(s), input))
         /\ IngestionBytes(s) \in Nat
<1>1. ASSUME NEW j \in DocumentsOf(s) PROVE Bytes[input[j][2]] \in Nat
  <2>1. input[j] \in Scopes \X Contents
    BY QueueAssumption DEF DocumentsOf, QueueAssumption, QueueInv, TypeOK, JobsHaveRecords
  <2> QED
    BY <2>1, QueueAssumption DEF QueueAssumption
<1>2. IngestionBytes(s) = SumFunction(BytesOfJobs(DocumentsOf(s), input))
  BY DEF IngestionBytes, DocumentBytes, BytesOfJobs
<1>3. BytesOfJobs(DocumentsOf(s), input) \in [DocumentsOf(s) -> Nat]
  BY <1>1 DEF BytesOfJobs
<1>4. IsFiniteSet(DocumentsOf(s))
  BY DocumentsAreFinite DEF QueueInv
<1> QED
  BY <1>1, <1>2, <1>3, <1>4, TotalIsNat

LEMMA EnqueueKeepsBytesWithinLimit ==
  ASSUME QueueInv, QueueInv', WorkspaceWithinLimits,
         NEW s \in Scopes, NEW k \in Keys, NEW c \in Contents, EnqueueDocument(s, k, c),
         NEW t \in Scopes
  PROVE  IngestionBytes(t)' <= MaxIngestionBytes
<1> DEFINE j == accepted + 1
           f == BytesOfJobs(DocumentsOf(t), input)
           g == BytesOfJobs(DocumentsOf(t)', input')
<1>1. /\ j \in JobIds /\ j \notin Created /\ Created' = Created \cup {j}
      /\ input'[j] = <<s, c>>
      /\ \A i \in Created : input'[i] = input[i]
  BY QueueAssumption DEF QueueAssumption, QueueInv, TypeOK, EnqueueDocument
<1>2. CASE t = s
  <2>1. DocumentsOf(t)' = DocumentsOf(t) \cup {j} /\ j \notin DocumentsOf(t)
    BY <1>1, <1>2 DEF DocumentsOf
  <2>2. f \in [DocumentsOf(t) -> Nat]
    BY BytesAreNatural DEF BytesOfJobs
  <2>3. g \in [DocumentsOf(t) \cup {j} -> Nat] /\ g[j] = Bytes[c]
    <3>1. \A i \in DocumentsOf(t) \cup {j} : Bytes[input'[i][2]] \in Nat
      <4>1. Bytes[c] \in Nat
        BY QueueAssumption DEF QueueAssumption
      <4>2. \A i \in DocumentsOf(t) : input'[i] = input[i]
        BY <1>1 DEF DocumentsOf
      <4> QED
        BY <1>1, <4>1, <4>2, BytesAreNatural
    <3> QED
      BY <3>1, <2>1, <1>1 DEF BytesOfJobs
  <2>4. \A i \in DocumentsOf(t) : g[i] = f[i]
    BY <1>1, <2>1 DEF BytesOfJobs, DocumentsOf
  <2>5. IsFiniteSet(DocumentsOf(t))
    BY DocumentsAreFinite DEF QueueInv
  <2>6. SumFunction(g) = SumFunction(f) + g[j]
    <3> HIDE DEF f, g, j
    <3> QED
      BY <2>1, <2>2, <2>3, <2>4, <2>5, TotalOfOneMore
  <2>7. IngestionBytes(t) + Bytes[c] <= MaxIngestionBytes
    BY <1>2 DEF EnqueueDocument, AdmitsDocument
  <2>8. IngestionBytes(t)' = SumFunction(g) /\ IngestionBytes(t) = SumFunction(f)
    BY DEF IngestionBytes, DocumentBytes, BytesOfJobs
  <2> QED
    BY <2>3, <2>6, <2>7, <2>8
<1>3. CASE t # s
  <2>1. DocumentsOf(t)' = DocumentsOf(t)
    BY <1>1, <1>3 DEF DocumentsOf
  <2>2. g = f
    BY <1>1, <2>1 DEF BytesOfJobs, DocumentsOf
  <2>3. IngestionBytes(t)' = IngestionBytes(t)
    BY <2>2 DEF IngestionBytes, DocumentBytes, BytesOfJobs
  <2> QED
    BY <2>3 DEF WorkspaceWithinLimits
<1> QED
  BY <1>2, <1>3

\* Neither the documents nor the bytes of a workspace exceed its limits,
\* however uploads, the worker and crashes interleave.
THEOREM LimitsSafety == Spec => []WorkspaceWithinLimits
<1>1. Init => WorkspaceWithinLimits
  <2> SUFFICES ASSUME Init, NEW s \in Scopes
               PROVE  /\ Cardinality(DocumentsOf(s)) <= MaxDocuments
                      /\ IngestionBytes(s) <= MaxIngestionBytes
    BY DEF WorkspaceWithinLimits, DocumentsWithinLimit
  <2>1. DocumentsOf(s) = {}
    BY DEF Init, DocumentsOf
  <2>2. IngestionBytes(s) = 0
    BY <2>1, TotalOfNone DEF IngestionBytes
  <2> QED
    BY <2>1, <2>2, FS_EmptySet, QueueAssumption DEF QueueAssumption
<1>2. ASSUME QueueInv, QueueInv', WorkspaceWithinLimits, DocumentsWithinLimit', [Next]_vars
      PROVE  WorkspaceWithinLimits'
  <2> SUFFICES ASSUME NEW t \in Scopes PROVE IngestionBytes(t)' <= MaxIngestionBytes
    BY <1>2 DEF WorkspaceWithinLimits
  <2>1. CASE \E s \in Scopes, k \in Keys, c \in Contents : EnqueueDocument(s, k, c)
    BY <1>2, <2>1, EnqueueKeepsBytesWithinLimit
  <2>2. CASE ~\E s \in Scopes, k \in Keys, c \in Contents : EnqueueDocument(s, k, c)
    <3>1. IngestionBytes(t)' = IngestionBytes(t)
      BY <1>2, <2>2, OtherStepsKeepDocuments DEF DocumentsOf, IngestionBytes, DocumentBytes
    <3> QED
      BY <1>2, <3>1 DEF WorkspaceWithinLimits
  <2> QED
    BY <2>1, <2>2
<1>3. QueueInv /\ QueueInv' /\ WorkspaceWithinLimits /\ DocumentsWithinLimit' /\ [Next]_vars
        => WorkspaceWithinLimits'
  BY <1>2
<1> QED
  BY <1>1, <1>3, QueueInvariance, AdmissionSafety, PTL DEF Spec

-----------------------------------------------------------------------------
\* A key or a content that leads to a job leads to the same job after a step.
LEMMA StepKeepsKeys ==
  ASSUME QueueInv, [Next]_vars
  PROVE  /\ \A x \in Names \X Contents : dedup[x] # NoJob => dedup'[x] = dedup[x]
         /\ \A x \in Names \X IdemKeys : idem[x] # NoJob => idem'[x] = idem[x]
<1>1. ASSUME NEW t \in Scopes, NEW k \in Keys, NEW d \in Contents, EnqueueDocument(t, k, d)
      PROVE  /\ \A x \in Names \X Contents : dedup[x] # NoJob => dedup'[x] = dedup[x]
             /\ \A x \in Names \X IdemKeys : idem[x] # NoJob => idem'[x] = idem[x]
  <2>1. dedup[<<Joined[t], d>>] = NoJob
    BY <1>1 DEF EnqueueDocument, ExistingJob, ByContent, ByKey
  <2>2. k # NoKey => idem[<<Joined[t], k>>] = NoJob
    BY <1>1 DEF EnqueueDocument, ExistingJob, ByContent, ByKey
  <2>3. \A x \in Names \X Contents : x # <<Joined[t], d>> => dedup'[x] = dedup[x]
    BY <1>1 DEF EnqueueDocument, QueueInv, TypeOK
  <2>4. \A x \in Names \X IdemKeys : ~(k # NoKey /\ x = <<Joined[t], k>>) => idem'[x] = idem[x]
    BY <1>1 DEF EnqueueDocument, QueueInv, TypeOK
  <2> QED
    BY <2>1, <2>2, <2>3, <2>4
<1>2. CASE UNCHANGED keyVars
  BY <1>2 DEF keyVars
<1>3. ~(\E t \in Scopes, k \in Keys, d \in Contents : EnqueueDocument(t, k, d)) => UNCHANGED keyVars
  BY DEF Next, vars, keyVars, jobVars, workerVars, ClaimNextJob, CompleteJob, ProcessingFails,
         RecordFailure, FailureNotRecorded, BackoffElapses, RetryDeadLetter, Crash,
         RecoverIncompleteJobs
<1> QED
  BY <1>1, <1>2, <1>3

\* Once an upload is answered with a job, the same upload always is.
THEOREM ReceiptsSafety == Spec => ReceiptsAreStable
<1>1. QueueInv /\ [Next]_vars =>
        [\A s \in Scopes, k \in Keys, c \in Contents :
           (k # NoKey => ByKey(s, k) # NoJob) /\ ExistingJob(s, k, c) # NoJob
             => ExistingJob(s, k, c)' = ExistingJob(s, k, c)]_vars
  <2>1. \A s \in Scopes : Joined[s] \in Names
    BY DEF Names
  <2> QED
    BY <2>1, StepKeepsKeys DEF ExistingJob, ByContent, ByKey
<1> QED
  BY <1>1, QueueInvariance, PTL DEF Spec, ReceiptsAreStable
=============================================================================
