------------------------- MODULE MediaPipelineProofs -------------------------
(***************************************************************************)
(* Proofs about MediaPipeline for any number of uploads, callbacks,        *)
(* attempts, and any quota and batch limit.                                *)
(***************************************************************************)
EXTENDS MediaPipeline, FiniteSetTheorems, TLAPS

(***************************************************************************)
(* The strengthening.  The safety properties relate the upload row to the  *)
(* origin; neither is inductive without saying where the handler, the      *)
(* callbacks and the cleanup runs may be at that moment.                   *)
(***************************************************************************)

\* Bytes exist only after a handler sent them, and the handler owns the row
\* until it has recorded them or given up.
TransferInv ==
    \A r \in Requests :
        /\ ingest[r] \in {"none", "reserved"} => transfer[r] = "none"
        /\ transfer[r] \in {"none", "receiving"} => r \notin puts \cup object
        /\ transfer[r] \in {"receiving", "putting", "stored"}
               => ingest[r] = "uploading"
        /\ transfer[r] = "stored" => r \in object

\* The processing row exists exactly from quarantine on, and is open exactly
\* while the upload is quarantined.
JobInv ==
    \A r \in Requests :
        /\ ingest[r] \in {"none", "reserved", "uploading"} => job[r] = NoRow
        /\ ingest[r] = "quarantined" => job[r].status # "none"
        /\ job[r].status = "none" => job[r] = NoRow
        /\ job[r].status \in {"queued", "leased"} => ingest[r] = "quarantined"

\* Bytes of a live upload are in place and have never been fenced.
OriginInv ==
    \A r \in Requests :
        /\ ingest[r] \in {"quarantined", "ready"} => r \in object
        /\ r \in fenced => ingest[r] = "rejected" /\ r \notin object

\* Asset rows are the ready uploads, published from verified bytes.
AssetInv ==
    \A r \in Requests :
        /\ r \in asset <=> ingest[r] = "ready"
        /\ r \in asset => job[r].status = "done" /\ r \in output

CallInv ==
    \A c \in Calls : call[c].stage = "verified" => call[c].req \in output

\* A cleanup run touches only rejected uploads; an acknowledged run, and a
\* job that is done, stand for a fence at the origin.
CleanupInv ==
    \A r \in Requests :
        /\ cleanup[r].status # "none" => ingest[r] = "rejected"
        /\ cleanup[r].status = "none" => cleanup[r] = NoRow
        /\ cleanup[r].status = "done" => r \in fenced
        /\ \A n \in Attempts :
            /\ cleaner[r][n] # "none" => cleanup[r].status # "none"
            /\ cleaner[r][n] = "acked" => r \in fenced

IInv ==
    /\ TypeOK
    /\ TransferInv
    /\ JobInv
    /\ OriginInv
    /\ AssetInv
    /\ CallInv
    /\ CleanupInv

(***************************************************************************)
(* The value sets are plain abbreviations and are expanded throughout.     *)
(***************************************************************************)
USE DEF Attempts, IngestStatus, PlanStatus, TransferStage, CleanerStage,
        QueueRow, JobRow, CleanupRow, NoRow, NewRow, NoCall, CallState, Callback,
        course, origin

\* What the queue operators return is again a row of the same queue.
LEMMA RowStep ==
    ASSUME NEW statuses, NEW row \in QueueRow(statuses), NEW waiting \in statuses,
           {"leased", "done", "dead"} \subseteq statuses
    PROVE  /\ RetryOrDie(row, waiting) \in QueueRow(statuses)
           /\ Done(row) \in QueueRow(statuses)
           /\ Dead(row) \in QueueRow(statuses)
           /\ Elapsed(row) \in QueueRow(statuses)
           /\ row.attempts < MaxAttempts => Leased(row) \in QueueRow(statuses)
           /\ NewRow(waiting) \in QueueRow(statuses)
  BY MaxAttemptsAssumption DEF RetryOrDie, Leased, Done, Dead, Elapsed

LEMMA RejectedCount == Cardinality(Rejected) \in Nat
<1>1. IsFiniteSet(Rejected)
  BY RequestsAssumption, FS_Subset DEF Rejected
<1>2. QED
  BY <1>1, FS_CardinalityType

LEMMA ClaimJobsType ==
    ASSUME TypeOK, NEW S \in SUBSET Requests, ClaimJobs(S) PROVE TypeOK'
<1> HIDE DEF QueueRow
<1>1. ASSUME NEW r \in Requests PROVE job'[r] \in JobRow
  <2>1. job[r] \in JobRow
    BY DEF TypeOK
  <2>2. CASE r \in S
    <3>1. job'[r] = Leased(job[r]) /\ job[r].attempts < MaxAttempts
      BY <2>2 DEF ClaimJobs, Claimable
    <3>2. QED
      BY <2>1, <3>1, RowStep
  <2>3. CASE r \notin S /\ Exhausted(job[r])
    BY <2>1, <2>3, RowStep DEF ClaimJobs
  <2>4. CASE r \notin S /\ ~Exhausted(job[r])
    BY <2>1, <2>4 DEF ClaimJobs
  <2>5. QED
    BY <2>2, <2>3, <2>4
<1>2. job' \in [Requests -> JobRow]
  BY <1>1 DEF ClaimJobs
<1>3. QED
  BY <1>2 DEF TypeOK, ClaimJobs

LEMMA ClaimCleanupJobsType ==
    ASSUME TypeOK, NEW S \in SUBSET Requests, ClaimCleanupJobs(S) PROVE TypeOK'
<1> HIDE DEF QueueRow
<1>1. ASSUME NEW r \in Requests
      PROVE  /\ cleanup'[r] \in CleanupRow
             /\ cleaner'[r] \in [Attempts -> CleanerStage]
  <2>1. cleanup[r] \in CleanupRow
    BY DEF TypeOK
  <2>0. cleaner[r] \in [Attempts -> CleanerStage]
    BY DEF TypeOK
  <2>2. CASE r \in S
    <3>1. cleanup'[r] = Leased(cleanup[r]) /\ cleanup[r].attempts < MaxAttempts
      BY <2>2 DEF ClaimCleanupJobs, Claimable
    <3>2. cleanup'[r] \in CleanupRow
      BY <2>1, <3>1, RowStep
    <3>3. cleaner'[r] \in [Attempts -> CleanerStage]
      BY <2>0, <2>2 DEF ClaimCleanupJobs
    <3>4. QED
      BY <3>2, <3>3
  <2>3. CASE r \notin S /\ Exhausted(cleanup[r])
    BY <2>0, <2>1, <2>3, RowStep DEF ClaimCleanupJobs
  <2>4. CASE r \notin S /\ ~Exhausted(cleanup[r])
    BY <2>0, <2>1, <2>4 DEF ClaimCleanupJobs
  <2>5. QED
    BY <2>2, <2>3, <2>4
<1>2. /\ cleanup' \in [Requests -> CleanupRow]
      /\ cleaner' \in [Requests -> [Attempts -> CleanerStage]]
  BY <1>1 DEF ClaimCleanupJobs
<1>3. QED
  BY <1>2 DEF TypeOK, ClaimCleanupJobs

LEMMA FinishCleanupJobType ==
    ASSUME TypeOK, NEW r \in Requests, NEW n \in Attempts, FinishCleanupJob(r, n)
    PROVE TypeOK'
<1> HIDE DEF QueueRow
<1>1. cleanup[r] \in CleanupRow /\ cleaner[r] \in [Attempts -> CleanerStage]
  BY DEF TypeOK
<1>2. /\ Done(cleanup[r]) \in CleanupRow
      /\ RetryOrDie(cleanup[r], "pending") \in CleanupRow
  BY <1>1, RowStep
<1>3. cleanup' \in [Requests -> CleanupRow]
  BY <1>1, <1>2 DEF TypeOK, FinishCleanupJob
<1>4. cleaner' \in [Requests -> [Attempts -> CleanerStage]]
  BY <1>1 DEF TypeOK, FinishCleanupJob
<1>5. QED
  BY <1>3, <1>4 DEF TypeOK, FinishCleanupJob

LEMMA CompleteAttestedIngestType ==
    ASSUME TypeOK, NEW c \in Calls, CompleteAttestedIngest(c) PROVE TypeOK'
<1> HIDE DEF QueueRow
<1> DEFINE r == call[c].req
<1>1. r \in Requests
  <2>1. call[c] \in CallState /\ call[c] # NoCall
    BY DEF TypeOK, CompleteAttestedIngest
  <2>2. QED
    BY <2>1
<1>2. job[r] \in JobRow
  BY <1>1 DEF TypeOK
<1>3. Done(job[r]) \in JobRow
  BY <1>2, RowStep
<1>4. job' \in [Requests -> JobRow]
  BY <1>3 DEF TypeOK, CompleteAttestedIngest
<1>5. QED
  BY <1>1, <1>4 DEF TypeOK, CompleteAttestedIngest

LEMMA VerifyOriginBytesType ==
    ASSUME IInv, NEW c \in Calls, VerifyOriginBytes(c) PROVE TypeOK'
<1>1. call[c] \in CallState /\ call[c] # NoCall
  BY DEF IInv, TypeOK, VerifyOriginBytes
<1>2. call[c].req \in Requests /\ call[c].token \in Attempts
  BY <1>1
<1>3. Callback("verified", call[c].req, call[c].token) \in CallState
  BY <1>2
<1>4. QED
  BY <1>3 DEF IInv, TypeOK, VerifyOriginBytes

LEMMA RejectFailedIngestType ==
    ASSUME IInv, NEW r \in Requests, RejectFailedIngest(r) PROVE TypeOK'
<1>1. CASE ingest[r] = "uploading"
  <2>1. 1 + Cardinality(Rejected) \in Nat
    BY RejectedCount
  <2>2. rejectedAt' \in [Requests -> Nat]
    <3>1. PICK rank \in Nat : rejectedAt' = [rejectedAt EXCEPT ![r] = rank]
      BY <2>1, <1>1 DEF RejectFailedIngest
    <3>2. QED
      BY <3>1 DEF IInv, TypeOK
  <2>3. ingest' \in [Requests -> IngestStatus] /\ aged' \in [Requests -> BOOLEAN]
    BY <1>1 DEF IInv, TypeOK, RejectFailedIngest
  <2>4. transfer' \in [Requests -> TransferStage]
    BY DEF IInv, TypeOK, RejectFailedIngest
  <2>5. UNCHANGED <<course, plan, origin, job, asset, call, cleanup, cleaner>>
    BY DEF RejectFailedIngest
  <2>6. QED
    BY <2>2, <2>3, <2>4, <2>5 DEF IInv, TypeOK
<1>2. CASE ingest[r] # "uploading"
  BY <1>2 DEF IInv, TypeOK, RejectFailedIngest
<1>3. QED
  BY <1>1, <1>2

LEMMA EnqueueCleanupCandidatesType ==
    ASSUME TypeOK, EnqueueCleanupCandidates PROVE TypeOK'
<1> HIDE DEF QueueRow
<1>1. PICK stale \in FullBatches(StaleReservations),
           dead \in FullBatches(DeadLetters),
           picked \in OldestFirst(CleanupCandidates) :
        LET rejects == stale \cup dead IN
        /\ ingest' = [r \in Requests |->
                         IF r \in rejects THEN "rejected" ELSE ingest[r]]
        /\ rejectedAt' = [r \in Requests |->
                             IF r \in rejects THEN 1 + Cardinality(Rejected)
                             ELSE rejectedAt[r]]
        /\ aged' = [r \in Requests |-> IF r \in rejects THEN FALSE ELSE aged[r]]
        /\ cleanup' = [r \in Requests |->
                          IF r \in picked /\ cleanup[r] = NoRow
                          THEN NewRow("pending")
                          ELSE cleanup[r]]
        /\ UNCHANGED <<course, plan, transfer, origin, job, asset, call,
                       cleaner>>
  BY DEF EnqueueCleanupCandidates
<1>2. rejectedAt' \in [Requests -> Nat]
  <2>1. PICK rank \in Nat :
            rejectedAt' = [r \in Requests |->
                              IF r \in stale \cup dead THEN rank
                              ELSE rejectedAt[r]]
    BY <1>1, RejectedCount
  <2>2. QED
    BY <2>1 DEF TypeOK
<1>3. cleanup' \in [Requests -> CleanupRow]
  <2>1. NewRow("pending") \in CleanupRow
    BY MaxAttemptsAssumption DEF QueueRow
  <2>2. QED
    BY <1>1, <2>1 DEF TypeOK
<1>4. aged' \in [Requests -> BOOLEAN] /\ ingest' \in [Requests -> IngestStatus]
  BY <1>1 DEF TypeOK
<1>5. UNCHANGED <<course, plan, transfer, origin, job, asset, call, cleaner>>
  BY <1>1
<1>6. QED
  BY <1>2, <1>3, <1>4, <1>5 DEF TypeOK

LEMMA RecordQuarantinedTypeJob ==
    ASSUME IInv, NEW r \in Requests, RecordQuarantined(r) PROVE TypeOK' /\ JobInv'
<1>1. ingest[r] = "uploading" /\ job[r] = NoRow
  BY DEF IInv, TransferInv, JobInv, RecordQuarantined, Recordable
<1>2. /\ ingest' = [ingest EXCEPT ![r] = "quarantined"]
      /\ job' = [job EXCEPT ![r] = NewRow("queued")]
  BY <1>1 DEF RecordQuarantined
<1>3. TypeOK'
  BY <1>2 DEF IInv, TypeOK, RecordQuarantined
<1>4. JobInv'
  BY <1>2 DEF IInv, TypeOK, JobInv, RecordQuarantined
<1>5. QED
  BY <1>3, <1>4

(***************************************************************************)
(* One lemma per action: first the conjuncts it can disturb, then the rest.*)
(***************************************************************************)
LEMMA ReserveStep ==
    ASSUME IInv, NEW r \in Requests, Reserve(r)
    PROVE  IInv'
<1>1. TypeOK'
  BY DEF IInv, TypeOK, Reserve, ExpiredPlans
<1>2. TransferInv'
  BY DEF IInv, TransferInv, Reserve, ExpiredPlans
<1>3. JobInv'
  BY DEF IInv, JobInv, Reserve, ExpiredPlans
<1>4. OriginInv'
  BY DEF IInv, OriginInv, Reserve, ExpiredPlans
<1>5. AssetInv'
  BY DEF IInv, AssetInv, Reserve, ExpiredPlans
<1>6. CleanupInv'
  BY DEF IInv, CleanupInv, Reserve, ExpiredPlans
<1>7. CallInv'
  BY DEF IInv, CallInv, Reserve
<1>8. QED
  BY <1>1, <1>2, <1>3, <1>4, <1>5, <1>6, <1>7 DEF IInv

LEMMA ReservePlanStep ==
    ASSUME IInv, NEW r \in Requests, ReservePlan(r)
    PROVE  IInv'
<1>1. TypeOK'
  <2>1. ExpiredPlans \in [Requests -> PlanStatus]
    BY DEF IInv, TypeOK, ExpiredPlans
  <2>2. plan' \in [Requests -> PlanStatus]
    BY <2>1 DEF ReservePlan
  <2>3. QED
    BY <2>2 DEF IInv, TypeOK, ReservePlan
<1>2. TransferInv' /\ JobInv' /\ OriginInv' /\ AssetInv' /\ CallInv' /\ CleanupInv'
  BY DEF IInv, TransferInv, JobInv, OriginInv, AssetInv, CallInv,
     CleanupInv, ReservePlan
<1>3. QED
  BY <1>1, <1>2 DEF IInv

LEMMA CancelPlanStep ==
    ASSUME IInv, NEW r \in Requests, CancelPlan(r)
    PROVE  IInv'
<1>1. TypeOK'
  BY DEF IInv, TypeOK, CancelPlan
<1>2. TransferInv' /\ JobInv' /\ OriginInv' /\ AssetInv' /\ CallInv' /\ CleanupInv'
  BY DEF IInv, TransferInv, JobInv, OriginInv, AssetInv, CallInv,
     CleanupInv, CancelPlan
<1>3. QED
  BY <1>1, <1>2 DEF IInv

LEMMA BeginUploadStep ==
    ASSUME IInv, NEW r \in Requests, BeginUpload(r)
    PROVE  IInv'
<1>1. TypeOK'
  BY DEF IInv, TypeOK, BeginUpload
<1>2. TransferInv'
  BY DEF IInv, TypeOK, TransferInv, BeginUpload
<1>3. JobInv'
  BY DEF IInv, JobInv, BeginUpload
<1>4. OriginInv'
  BY DEF IInv, OriginInv, BeginUpload
<1>5. AssetInv'
  BY DEF IInv, AssetInv, BeginUpload
<1>6. CleanupInv'
  BY DEF IInv, CleanupInv, BeginUpload
<1>7. CallInv'
  BY DEF IInv, CallInv, BeginUpload
<1>8. QED
  BY <1>1, <1>2, <1>3, <1>4, <1>5, <1>6, <1>7 DEF IInv

LEMMA ReceiveBodyStep ==
    ASSUME IInv, NEW r \in Requests, ReceiveBody(r)
    PROVE  IInv'
<1>1. TypeOK'
  BY DEF IInv, TypeOK, ReceiveBody
<1>2. TransferInv'
  BY DEF IInv, TypeOK, TransferInv, ReceiveBody
<1>3. JobInv' /\ OriginInv' /\ AssetInv' /\ CallInv' /\ CleanupInv'
  BY DEF IInv, JobInv, OriginInv, AssetInv, CallInv, CleanupInv,
     ReceiveBody
<1>4. QED
  BY <1>1, <1>2, <1>3 DEF IInv

LEMMA PutFailsStep ==
    ASSUME IInv, NEW r \in Requests, PutFails(r)
    PROVE  IInv'
<1>1. TypeOK'
  BY DEF IInv, TypeOK, PutFails
<1>2. TransferInv'
  BY DEF IInv, TransferInv, PutFails
<1>3. JobInv' /\ OriginInv' /\ AssetInv' /\ CallInv' /\ CleanupInv'
  BY DEF IInv, JobInv, OriginInv, AssetInv, CallInv, CleanupInv, PutFails
<1>4. QED
  BY <1>1, <1>2, <1>3 DEF IInv

LEMMA RecordQuarantinedStep ==
    ASSUME IInv, NEW r \in Requests, RecordQuarantined(r)
    PROVE  IInv'
<1>1. TypeOK'
  BY RecordQuarantinedTypeJob
<1>2. TransferInv'
  BY DEF IInv, TypeOK, TransferInv, RecordQuarantined, Recordable
<1>3. JobInv'
  BY RecordQuarantinedTypeJob
<1>4. OriginInv'
  BY DEF IInv, TypeOK, OriginInv, TransferInv, RecordQuarantined,
     Recordable
<1>5. AssetInv'
  BY DEF IInv, TypeOK, AssetInv, RecordQuarantined, Recordable
<1>6. CleanupInv'
  BY DEF IInv, TypeOK, CleanupInv, RecordQuarantined, Recordable
<1>7. CallInv'
  BY DEF IInv, CallInv, RecordQuarantined
<1>8. QED
  BY <1>1, <1>2, <1>3, <1>4, <1>5, <1>6, <1>7 DEF IInv

LEMMA RecordFailsStep ==
    ASSUME IInv, NEW r \in Requests, RecordFails(r)
    PROVE  IInv'
<1>1. TypeOK'
  BY DEF IInv, TypeOK, RecordFails
<1>2. TransferInv'
  BY DEF IInv, TransferInv, RecordFails
<1>3. JobInv' /\ OriginInv' /\ AssetInv' /\ CallInv' /\ CleanupInv'
  BY DEF IInv, JobInv, OriginInv, AssetInv, CallInv, CleanupInv,
     RecordFails
<1>4. QED
  BY <1>1, <1>2, <1>3 DEF IInv

LEMMA RejectFailedIngestStep ==
    ASSUME IInv, NEW r \in Requests, RejectFailedIngest(r)
    PROVE  IInv'
<1>1. TypeOK'
  BY RejectFailedIngestType
<1>2. TransferInv'
  BY DEF IInv, TypeOK, TransferInv, RejectFailedIngest
<1>3. JobInv'
  BY DEF IInv, TypeOK, JobInv, RejectFailedIngest
<1>4. OriginInv'
  BY DEF IInv, TypeOK, OriginInv, RejectFailedIngest
<1>5. AssetInv'
  BY DEF IInv, TypeOK, AssetInv, RejectFailedIngest
<1>6. CleanupInv'
  BY DEF IInv, TypeOK, CleanupInv, RejectFailedIngest
<1>7. CallInv'
  BY DEF IInv, CallInv, RejectFailedIngest
<1>8. QED
  BY <1>1, <1>2, <1>3, <1>4, <1>5, <1>6, <1>7 DEF IInv

LEMMA UploadCrashesStep ==
    ASSUME IInv, NEW r \in Requests, UploadCrashes(r)
    PROVE  IInv'
<1>1. TypeOK'
  BY DEF IInv, TypeOK, UploadCrashes
<1>2. TransferInv'
  BY DEF IInv, TransferInv, UploadCrashes
<1>3. JobInv' /\ OriginInv' /\ AssetInv' /\ CallInv' /\ CleanupInv'
  BY DEF IInv, JobInv, OriginInv, AssetInv, CallInv, CleanupInv,
     UploadCrashes
<1>4. QED
  BY <1>1, <1>2, <1>3 DEF IInv

LEMMA ClaimJobsStep ==
    ASSUME IInv, NEW S \in SUBSET Requests, ClaimJobs(S)
    PROVE  IInv'
<1>1. TypeOK'
  BY ClaimJobsType DEF IInv
<1>2. JobInv'
  BY DEF IInv, JobInv, ClaimJobs, Claimable, Exhausted, Leased, Dead
<1>3. AssetInv'
  BY DEF IInv, AssetInv, ClaimJobs, Claimable, Exhausted, Leased, Dead
<1>4. TransferInv' /\ OriginInv' /\ CallInv' /\ CleanupInv'
  BY DEF IInv, TransferInv, OriginInv, CallInv, CleanupInv, ClaimJobs
<1>5. QED
  BY <1>1, <1>2, <1>3, <1>4 DEF IInv

LEMMA FailProcessingJobStep ==
    ASSUME IInv, NEW r \in Requests, NEW n \in Attempts, FailProcessingJob(r, n)
    PROVE  IInv'
<1>1. TypeOK'
  BY RowStep DEF IInv, TypeOK, FailProcessingJob, HeldBy, RetryOrDie, Done
<1>2. JobInv'
  BY DEF IInv, JobInv, FailProcessingJob, HeldBy, RetryOrDie, Done
<1>3. AssetInv'
  BY DEF IInv, AssetInv, FailProcessingJob, HeldBy, RetryOrDie, Done
<1>4. TransferInv' /\ OriginInv' /\ CallInv' /\ CleanupInv'
  BY DEF IInv, TransferInv, OriginInv, CallInv, CleanupInv,
     FailProcessingJob
<1>5. QED
  BY <1>1, <1>2, <1>3, <1>4 DEF IInv

LEMMA PreflightStep ==
    ASSUME IInv, NEW c \in Calls, NEW r \in Requests, NEW n \in Attempts, Preflight(c, r, n)
    PROVE  IInv'
<1>1. TypeOK'
  BY DEF IInv, TypeOK, Preflight
<1>2. CallInv'
  BY DEF IInv, CallInv, Preflight
<1>3. TransferInv' /\ JobInv' /\ OriginInv' /\ AssetInv' /\ CleanupInv'
  BY DEF IInv, TransferInv, JobInv, OriginInv, AssetInv, CleanupInv,
     Preflight
<1>4. QED
  BY <1>1, <1>2, <1>3 DEF IInv

LEMMA VerifyOriginBytesStep ==
    ASSUME IInv, NEW c \in Calls, VerifyOriginBytes(c)
    PROVE  IInv'
<1>1. TypeOK'
  BY VerifyOriginBytesType
<1>2. CallInv'
  BY DEF IInv, CallInv, VerifyOriginBytes, BytesVerified
<1>3. TransferInv' /\ JobInv' /\ OriginInv' /\ AssetInv' /\ CleanupInv'
  BY DEF IInv, TransferInv, JobInv, OriginInv, AssetInv, CleanupInv,
     VerifyOriginBytes
<1>4. QED
  BY <1>1, <1>2, <1>3 DEF IInv

LEMMA CompleteAttestedIngestStep ==
    ASSUME IInv, NEW c \in Calls, CompleteAttestedIngest(c)
    PROVE  IInv'
<1>1. TypeOK'
  BY CompleteAttestedIngestType DEF IInv
<1>2. TransferInv'
  BY DEF IInv, TransferInv, CompleteAttestedIngest, Committable, HeldBy,
     Done
<1>3. JobInv'
  BY DEF IInv, TypeOK, JobInv, CompleteAttestedIngest, Committable, HeldBy,
     Done
<1>4. OriginInv'
  BY DEF IInv, OriginInv, CompleteAttestedIngest, Committable, HeldBy, Done
<1>5. AssetInv'
  BY DEF IInv, TypeOK, AssetInv, CallInv, CompleteAttestedIngest,
     Committable, HeldBy, Done
<1>6. CallInv'
  BY DEF IInv, CallInv, CompleteAttestedIngest, Committable, HeldBy, Done
<1>7. CleanupInv'
  BY DEF IInv, CleanupInv, CompleteAttestedIngest, Committable, HeldBy,
     Done
<1>8. QED
  BY <1>1, <1>2, <1>3, <1>4, <1>5, <1>6, <1>7 DEF IInv

LEMMA AbandonCallStep ==
    ASSUME IInv, NEW c \in Calls, AbandonCall(c)
    PROVE  IInv'
<1>1. TypeOK'
  BY DEF IInv, TypeOK, AbandonCall
<1>2. CallInv'
  BY DEF IInv, CallInv, AbandonCall
<1>3. TransferInv' /\ JobInv' /\ OriginInv' /\ AssetInv' /\ CleanupInv'
  BY DEF IInv, TransferInv, JobInv, OriginInv, AssetInv, CleanupInv,
     AbandonCall
<1>4. QED
  BY <1>1, <1>2, <1>3 DEF IInv

LEMMA EnqueueCleanupCandidatesStep ==
    ASSUME IInv, EnqueueCleanupCandidates
    PROVE  IInv'
<1>1. TypeOK'
  BY EnqueueCleanupCandidatesType DEF IInv
<1>2. TransferInv'
  BY DEF IInv, TransferInv, EnqueueCleanupCandidates, FullBatches,
     OldestFirst, StaleReservations, DeadLetters, CleanupCandidates
<1>3. JobInv'
  BY DEF IInv, JobInv, EnqueueCleanupCandidates, FullBatches, OldestFirst,
     StaleReservations, DeadLetters, CleanupCandidates
<1>4. OriginInv'
  BY DEF IInv, OriginInv, EnqueueCleanupCandidates, FullBatches,
     OldestFirst, StaleReservations, DeadLetters, CleanupCandidates
<1>5. AssetInv'
  BY DEF IInv, AssetInv, EnqueueCleanupCandidates, FullBatches,
     OldestFirst, StaleReservations, DeadLetters, CleanupCandidates
<1>6. CleanupInv'
  BY DEF IInv, CleanupInv, EnqueueCleanupCandidates, FullBatches,
     OldestFirst, StaleReservations, DeadLetters, CleanupCandidates
<1>7. CallInv'
  BY DEF IInv, CallInv, EnqueueCleanupCandidates
<1>8. QED
  BY <1>1, <1>2, <1>3, <1>4, <1>5, <1>6, <1>7 DEF IInv

LEMMA ClaimCleanupJobsStep ==
    ASSUME IInv, NEW S \in SUBSET Requests, ClaimCleanupJobs(S)
    PROVE  IInv'
<1>1. TypeOK'
  BY ClaimCleanupJobsType DEF IInv
<1>2. CleanupInv'
  BY DEF IInv, CleanupInv, ClaimCleanupJobs, Claimable, Exhausted, Leased,
     Dead
<1>3. TransferInv' /\ JobInv' /\ OriginInv' /\ AssetInv' /\ CallInv'
  BY DEF IInv, TransferInv, JobInv, OriginInv, AssetInv, CallInv,
     ClaimCleanupJobs
<1>4. QED
  BY <1>1, <1>2, <1>3 DEF IInv

LEMMA DeleteQuarantinedStep ==
    ASSUME IInv, NEW r \in Requests, NEW n \in Attempts, DeleteQuarantined(r, n)
    PROVE  IInv'
<1>1. TypeOK'
  BY DEF IInv, TypeOK, DeleteQuarantined, FenceAcked
<1>2. TransferInv'
  BY DEF IInv, TypeOK, TransferInv, CleanupInv, DeleteQuarantined,
     FenceAcked
<1>3. OriginInv'
  BY DEF IInv, TypeOK, OriginInv, CleanupInv, DeleteQuarantined, FenceAcked
<1>4. CleanupInv'
  BY DEF IInv, CleanupInv, DeleteQuarantined, FenceAcked
<1>5. JobInv' /\ AssetInv' /\ CallInv'
  BY DEF IInv, JobInv, AssetInv, CallInv, DeleteQuarantined
<1>6. QED
  BY <1>1, <1>2, <1>3, <1>4, <1>5 DEF IInv

LEMMA FinishCleanupJobStep ==
    ASSUME IInv, NEW r \in Requests, NEW n \in Attempts, FinishCleanupJob(r, n)
    PROVE  IInv'
<1>1. TypeOK'
  BY FinishCleanupJobType DEF IInv
<1>2. CleanupInv'
  BY DEF IInv, CleanupInv, FinishCleanupJob, HeldBy, RetryOrDie, Done
<1>3. TransferInv' /\ JobInv' /\ OriginInv' /\ AssetInv' /\ CallInv'
  BY DEF IInv, TransferInv, JobInv, OriginInv, AssetInv, CallInv,
     FinishCleanupJob
<1>4. QED
  BY <1>1, <1>2, <1>3 DEF IInv

LEMMA CourseChangesStep ==
    ASSUME IInv, CourseChanges
    PROVE  IInv'
<1>1. TypeOK'
  BY DEF IInv, TypeOK, CourseChanges
<1>2. TransferInv' /\ JobInv' /\ OriginInv' /\ AssetInv' /\ CallInv' /\ CleanupInv'
  BY DEF IInv, TransferInv, JobInv, OriginInv, AssetInv, CallInv,
     CleanupInv, CourseChanges
<1>3. QED
  BY <1>1, <1>2 DEF IInv

LEMMA PublishStep ==
    ASSUME IInv, Publish
    PROVE  IInv'
<1>1. TypeOK'
  BY DEF IInv, TypeOK, Publish
<1>2. TransferInv' /\ JobInv' /\ OriginInv' /\ AssetInv' /\ CallInv' /\ CleanupInv'
  BY DEF IInv, TransferInv, JobInv, OriginInv, AssetInv, CallInv,
     CleanupInv, Publish
<1>3. QED
  BY <1>1, <1>2 DEF IInv

LEMMA OriginStoresStep ==
    ASSUME IInv, NEW r \in Requests, OriginStores(r)
    PROVE  IInv'
<1>1. TypeOK'
  BY DEF IInv, TypeOK, OriginStores
<1>2. TransferInv'
  BY DEF IInv, TransferInv, OriginStores
<1>3. OriginInv'
  BY DEF IInv, OriginInv, OriginStores
<1>4. JobInv' /\ AssetInv' /\ CallInv' /\ CleanupInv'
  BY DEF IInv, JobInv, AssetInv, CallInv, CleanupInv, OriginStores
<1>5. QED
  BY <1>1, <1>2, <1>3, <1>4 DEF IInv

LEMMA ScannerDeliversStep ==
    ASSUME IInv, NEW r \in Requests, ScannerDelivers(r)
    PROVE  IInv'
<1>1. TypeOK'
  BY DEF IInv, TypeOK, ScannerDelivers
<1>2. AssetInv'
  BY DEF IInv, AssetInv, ScannerDelivers
<1>3. CallInv'
  BY DEF IInv, CallInv, ScannerDelivers
<1>4. TransferInv' /\ JobInv' /\ OriginInv' /\ CleanupInv'
  BY DEF IInv, TransferInv, JobInv, OriginInv, CleanupInv, ScannerDelivers
<1>5. QED
  BY <1>1, <1>2, <1>3, <1>4 DEF IInv

LEMMA AgesStep ==
    ASSUME IInv, NEW r \in Requests, Ages(r)
    PROVE  IInv'
<1>1. TypeOK'
  BY DEF IInv, TypeOK, Ages
<1>2. TransferInv' /\ JobInv' /\ OriginInv' /\ AssetInv' /\ CallInv' /\ CleanupInv'
  BY DEF IInv, TransferInv, JobInv, OriginInv, AssetInv, CallInv,
     CleanupInv, Ages
<1>3. QED
  BY <1>1, <1>2 DEF IInv

LEMMA JobDeadlineStep ==
    ASSUME IInv, NEW r \in Requests, JobDeadline(r)
    PROVE  IInv'
<1>1. TypeOK'
  BY DEF IInv, TypeOK, JobDeadline, Elapsed
<1>2. JobInv'
  BY DEF IInv, JobInv, JobDeadline, Elapsed
<1>3. AssetInv'
  BY DEF IInv, AssetInv, JobDeadline, Elapsed
<1>4. TransferInv' /\ OriginInv' /\ CallInv' /\ CleanupInv'
  BY DEF IInv, TransferInv, OriginInv, CallInv, CleanupInv, JobDeadline
<1>5. QED
  BY <1>1, <1>2, <1>3, <1>4 DEF IInv

LEMMA CleanupDeadlineStep ==
    ASSUME IInv, NEW r \in Requests, CleanupDeadline(r)
    PROVE  IInv'
<1>1. TypeOK'
  BY DEF IInv, TypeOK, CleanupDeadline, Elapsed
<1>2. CleanupInv'
  BY DEF IInv, CleanupInv, CleanupDeadline, Elapsed
<1>3. TransferInv' /\ JobInv' /\ OriginInv' /\ AssetInv' /\ CallInv'
  BY DEF IInv, TransferInv, JobInv, OriginInv, AssetInv, CallInv,
     CleanupDeadline
<1>4. QED
  BY <1>1, <1>2, <1>3 DEF IInv

LEMMA StutterStep == ASSUME IInv, UNCHANGED vars PROVE IInv'
<1>1. TypeOK' /\ TransferInv' /\ JobInv' /\ OriginInv'
  BY DEF IInv, TypeOK, TransferInv, JobInv, OriginInv, vars
<1>2. AssetInv' /\ CallInv' /\ CleanupInv'
  BY DEF IInv, AssetInv, CallInv, CleanupInv, vars
<1>3. QED
  BY <1>1, <1>2 DEF IInv

LEMMA InitStep == Init => IInv
<1> SUFFICES ASSUME Init PROVE IInv
  OBVIOUS
<1>1. TypeOK
  BY MaxAttemptsAssumption DEF Init, TypeOK
<1>2. TransferInv /\ JobInv /\ OriginInv
  BY DEF Init, TransferInv, JobInv, OriginInv
<1>3. AssetInv /\ CallInv /\ CleanupInv
  BY DEF Init, AssetInv, CallInv, CleanupInv
<1>4. QED
  BY <1>1, <1>2, <1>3 DEF IInv

LEMMA NextStep == ASSUME IInv, Next PROVE IInv'
<1>1. ASSUME NEW r \in Requests, Intake(r) PROVE IInv'
  BY <1>1, ReserveStep, ReservePlanStep, CancelPlanStep DEF Intake
<1>2. ASSUME NEW r \in Requests, Transfer(r) PROVE IInv'
  BY <1>2, BeginUploadStep, ReceiveBodyStep, PutFailsStep,
     RecordQuarantinedStep, RecordFailsStep, RejectFailedIngestStep,
     UploadCrashesStep DEF Transfer
<1>3. ASSUME NEW r \in Requests, Environment(r) PROVE IInv'
  BY <1>3, OriginStoresStep, ScannerDeliversStep, AgesStep, JobDeadlineStep,
     CleanupDeadlineStep DEF Environment
<1>4. ASSUME NEW r \in Requests, NEW n \in Attempts,
             FailProcessingJob(r, n) \/ DeleteQuarantined(r, n)
             \/ FinishCleanupJob(r, n)
      PROVE  IInv'
  BY <1>4, FailProcessingJobStep, DeleteQuarantinedStep, FinishCleanupJobStep
<1>5. ASSUME NEW c \in Calls, NEW r \in Requests, NEW n \in Attempts,
             Preflight(c, r, n)
      PROVE  IInv'
  BY <1>5, PreflightStep
<1>6. ASSUME NEW c \in Calls,
             VerifyOriginBytes(c) \/ CompleteAttestedIngest(c) \/ AbandonCall(c)
      PROVE  IInv'
  BY <1>6, VerifyOriginBytesStep, CompleteAttestedIngestStep, AbandonCallStep
<1>7. ASSUME NEW S \in SUBSET Requests, ClaimJobs(S) \/ ClaimCleanupJobs(S)
      PROVE  IInv'
  BY <1>7, ClaimJobsStep, ClaimCleanupJobsStep
<1>8. CASE EnqueueCleanupCandidates \/ CourseChanges \/ Publish
  BY <1>8, EnqueueCleanupCandidatesStep, CourseChangesStep, PublishStep
<1>9. QED
  BY <1>1, <1>2, <1>3, <1>4, <1>5, <1>6, <1>7, <1>8 DEF Next

(***************************************************************************)
(* The theorems.                                                           *)
(***************************************************************************)
\* The strengthened invariant holds in every reachable state.
THEOREM Inductive == Spec => []IInv
<1>1. Init => IInv
  BY InitStep
<1>2. IInv /\ [Next]_vars => IInv'
  BY NextStep, StutterStep
<1>3. QED
  BY <1>1, <1>2, PTL DEF Spec

\* Rows, handlers, callbacks and cleanup runs only ever hold values the schema
\* and the code allow; in particular no row is leased past its attempts.
THEOREM TypeCorrect == Spec => []TypeOK
<1>1. IInv => TypeOK
  BY DEF IInv
<1>2. QED
  BY <1>1, Inductive, PTL

\* Students are only ever served finished, processed, unfenced uploads.
THEOREM ServesProcessedOnly == Spec => []ReadyIsProcessed
<1>1. IInv => ReadyIsProcessed
  BY DEF IInv, TypeOK, AssetInv, OriginInv, ReadyIsProcessed
<1>2. QED
  BY <1>1, Inductive, PTL

\* The cleanup queue never names an upload that is or could become visible.
THEOREM CleanupIsSafe == Spec => []CleanupOnlyRejected
<1>1. IInv => CleanupOnlyRejected
  BY DEF IInv, AssetInv, CleanupInv, CleanupOnlyRejected
<1>2. QED
  BY <1>1, Inductive, PTL

\* A successful cleanup has erased the bytes for good.
THEOREM ErasureIsFenced == Spec => []DoneIsFenced
<1>1. IInv => DoneIsFenced
  BY DEF IInv, OriginInv, CleanupInv, DoneIsFenced
<1>2. QED
  BY <1>1, Inductive, PTL

\* Processing only ever works on bytes the origin really holds.
THEOREM ProcessingIsBacked == Spec => []QuarantineIsBacked
<1>1. IInv => QuarantineIsBacked
  BY DEF IInv, JobInv, OriginInv, QuarantineIsBacked
<1>2. QED
  BY <1>1, Inductive, PTL

(***************************************************************************)
(* Action properties.                                                      *)
(***************************************************************************)
\* Only a completion that finds the course approved makes a video visible.
THEOREM AuthorizedAtPublication == Spec => PublishesOnlyAuthorized
<1>1. [Next]_vars => [asset' # asset => Authorized]_vars
  <2> SUFFICES ASSUME Next, asset' # asset PROVE Authorized
    BY DEF vars
  <2>1. PICK c \in Calls : CompleteAttestedIngest(c)
    BY DEF Next, Intake, Transfer, Environment, Reserve, ReservePlan,
       CancelPlan, BeginUpload, ReceiveBody, PutFails, RecordQuarantined,
       RecordFails, RejectFailedIngest, UploadCrashes, OriginStores,
       ScannerDelivers, Ages, JobDeadline, CleanupDeadline, FailProcessingJob,
       DeleteQuarantined, FinishCleanupJob, Preflight, VerifyOriginBytes,
       AbandonCall, ClaimJobs, ClaimCleanupJobs, EnqueueCleanupCandidates,
       CourseChanges, Publish
  <2>2. QED
    BY <2>1 DEF CompleteAttestedIngest, Committable
<1>2. QED
  BY <1>1, PTL DEF Spec, PublishesOnlyAuthorized

\* No step of any actor changes an upload that is ready or rejected.
THEOREM ReadyAndRejectedAreFinal == Spec => OutcomeIsFinal
<1> DEFINE Final == \A r \in Requests :
        ingest[r] \in {"ready", "rejected"} => ingest'[r] = ingest[r]
<1>1. IInv /\ Next => Final
  <2> SUFFICES ASSUME IInv, Next, ingest' # ingest PROVE Final
    OBVIOUS
  <2>1. \/ \E r \in Requests : Reserve(r) \/ BeginUpload(r)
               \/ RecordQuarantined(r) \/ RejectFailedIngest(r)
        \/ \E c \in Calls : CompleteAttestedIngest(c)
        \/ EnqueueCleanupCandidates
    BY DEF Next, Intake, Transfer, Environment, ReservePlan, CancelPlan,
       ReceiveBody, PutFails, RecordFails, UploadCrashes, OriginStores,
       ScannerDelivers, Ages, JobDeadline, CleanupDeadline, FailProcessingJob,
       DeleteQuarantined, FinishCleanupJob, Preflight, VerifyOriginBytes,
       AbandonCall, ClaimJobs, ClaimCleanupJobs, CourseChanges, Publish
  <2>2. CASE \E r \in Requests : Reserve(r) \/ BeginUpload(r)
    BY <2>2 DEF IInv, TypeOK, Reserve, BeginUpload
  <2>3. CASE \E r \in Requests : RecordQuarantined(r) \/ RejectFailedIngest(r)
    BY <2>3 DEF IInv, TypeOK, RecordQuarantined, RejectFailedIngest
  <2>4. CASE \E c \in Calls : CompleteAttestedIngest(c)
    BY <2>4 DEF IInv, TypeOK, CompleteAttestedIngest, Committable
  <2>5. CASE EnqueueCleanupCandidates
    BY <2>5 DEF IInv, TypeOK, EnqueueCleanupCandidates, FullBatches,
       StaleReservations, DeadLetters
  <2>6. QED
    BY <2>1, <2>2, <2>3, <2>4, <2>5
<1>2. IInv /\ [Next]_vars => [Final]_vars
  BY <1>1
<1>3. QED
  BY <1>2, Inductive, PTL DEF Spec, OutcomeIsFinal

(***************************************************************************)
(* Refinement.  Most steps leave every outcome and the stored bytes alone; *)
(* the others map to one step of UploadOutcome.                            *)
(***************************************************************************)
\* An outcome is a function of the statuses of the upload and its cleanup job.
LEMMA OutcomeDepends ==
    ASSUME NEW r \in Requests, ingest'[r] = ingest[r],
           cleanup'[r].status = "done" <=> cleanup[r].status = "done"
    PROVE  OutcomeOf(r)' = OutcomeOf(r)
  BY DEF OutcomeOf

LEMMA NoOutcomeChange ==
    ASSUME \A r \in Requests : OutcomeOf(r)' = OutcomeOf(r), object' = object
    PROVE  UNCHANGED Promise!outcomeVars
  BY DEF Promise!outcomeVars

\* Steps that move an upload before its outcome is decided.
LEMMA OpenStaysOpen ==
    ASSUME IInv, NEW r \in Requests,
           Reserve(r) \/ BeginUpload(r) \/ RecordQuarantined(r)
    PROVE  UNCHANGED Promise!outcomeVars
<1>1. object' = object /\ cleanup' = cleanup
  BY DEF Reserve, BeginUpload, RecordQuarantined
<1>2. ASSUME NEW q \in Requests PROVE OutcomeOf(q)' = OutcomeOf(q)
  <2>1. CASE q = r /\ ingest' # ingest
    BY <1>1, <2>1 DEF IInv, TypeOK, Reserve, BeginUpload, RecordQuarantined,
       OutcomeOf
  <2>2. CASE q # r \/ ingest' = ingest
    BY <1>1, <2>2, OutcomeDepends DEF IInv, TypeOK, Reserve, BeginUpload,
       RecordQuarantined
  <2>3. QED
    BY <2>1, <2>2
<1>3. QED
  BY <1>1, <1>2, NoOutcomeChange

LEMMA RejectionDiscards ==
    ASSUME IInv, NEW r \in Requests, RejectFailedIngest(r)
    PROVE  [Promise!Next]_(Promise!outcomeVars)
<1>1. object' = object /\ cleanup' = cleanup
  BY DEF RejectFailedIngest
<1>2. CASE ingest[r] = "uploading"
  <2>1. cleanup[r].status = "none"
    BY <1>2 DEF IInv, CleanupInv
  <2>2. OutcomeOf(r) = "open" /\ OutcomeOf(r)' = "discarded"
    BY <1>1, <1>2, <2>1 DEF OutcomeOf, RejectFailedIngest, IInv, TypeOK
  <2>3. \A q \in Requests \ {r} : OutcomeOf(q)' = OutcomeOf(q)
    BY <1>1, <1>2, OutcomeDepends DEF RejectFailedIngest, IInv, TypeOK
  <2>4. Promise!Discard({r})
    BY <1>1, <2>2, <2>3 DEF Promise!Discard
  <2>5. QED
    BY <2>4 DEF Promise!Next
<1>3. CASE ingest[r] # "uploading"
  BY <1>1, <1>3, OutcomeDepends, NoOutcomeChange DEF RejectFailedIngest
<1>4. QED
  BY <1>2, <1>3

LEMMA SweepDiscards ==
    ASSUME IInv, EnqueueCleanupCandidates
    PROVE  Promise!Next
<1>1. PICK S \in SUBSET (StaleReservations \cup DeadLetters) :
        /\ ingest' = [r \in Requests |->
                         IF r \in S THEN "rejected" ELSE ingest[r]]
        /\ \A r \in Requests :
              cleanup'[r].status = "done" <=> cleanup[r].status = "done"
        /\ object' = object
  <2>1. PICK stale \in FullBatches(StaleReservations),
             dead \in FullBatches(DeadLetters) :
          ingest' = [r \in Requests |->
                       IF r \in stale \cup dead THEN "rejected" ELSE ingest[r]]
    BY DEF EnqueueCleanupCandidates
  <2>2. stale \cup dead \in SUBSET (StaleReservations \cup DeadLetters)
    BY DEF FullBatches
  <2>3. object' = object
    BY DEF EnqueueCleanupCandidates
  <2>4. ASSUME NEW r \in Requests
        PROVE  cleanup'[r].status = "done" <=> cleanup[r].status = "done"
    <3>1. \/ cleanup'[r] = cleanup[r]
          \/ cleanup[r] = NoRow /\ cleanup'[r] = NewRow("pending")
      BY DEF EnqueueCleanupCandidates
    <3>2. QED
      BY <3>1
  <2> DEFINE S == stale \cup dead
  <2>5. /\ S \in SUBSET (StaleReservations \cup DeadLetters)
        /\ ingest' = [r \in Requests |->
                         IF r \in S THEN "rejected" ELSE ingest[r]]
    BY <2>1, <2>2
  <2> HIDE DEF S
  <2>6. QED
    BY <2>3, <2>4, <2>5
<1>2. \A r \in S : r \in Requests /\ ingest[r] \in {"reserved", "quarantined"}
  BY DEF StaleReservations, DeadLetters
<1>3. \A r \in S : OutcomeOf(r) = "open" /\ OutcomeOf(r)' = "discarded"
  <2>1. \A r \in S : cleanup[r].status = "none"
    BY <1>2 DEF IInv, CleanupInv
  <2>2. QED
    BY <1>1, <1>2, <2>1 DEF OutcomeOf
<1>4. \A r \in Requests \ S : OutcomeOf(r)' = OutcomeOf(r)
  BY <1>1, OutcomeDepends
<1>5. Promise!Discard(S) /\ S \in SUBSET Requests
  BY <1>1, <1>2, <1>3, <1>4 DEF Promise!Discard
<1>6. QED
  BY <1>5 DEF Promise!Next

LEMMA CompletionPublishes ==
    ASSUME IInv, NEW c \in Calls, CompleteAttestedIngest(c)
    PROVE  Promise!Next
<1>1. PICK r \in Requests :
        /\ ingest[r] = "quarantined"
        /\ ingest' = [ingest EXCEPT ![r] = "ready"]
  <2>1. call[c] \in CallState /\ call[c] # NoCall
    BY DEF IInv, TypeOK, CompleteAttestedIngest
  <2>2. call[c].req \in Requests
    BY <2>1
  <2>3. QED
    BY <2>2 DEF CompleteAttestedIngest, Committable
<1>2. object' = object /\ cleanup' = cleanup
  BY DEF CompleteAttestedIngest
<1>3. cleanup[r].status = "none" /\ r \in object
  BY <1>1 DEF IInv, CleanupInv, OriginInv
<1>4. OutcomeOf(r) = "open" /\ OutcomeOf(r)' = "published"
  BY <1>1, <1>2, <1>3 DEF IInv, TypeOK, OutcomeOf
<1>5. \A q \in Requests \ {r} : OutcomeOf(q)' = OutcomeOf(q)
  BY <1>1, <1>2, OutcomeDepends DEF IInv, TypeOK
<1>6. Promise!Publish(r)
  BY <1>2, <1>3, <1>4, <1>5 DEF Promise!Publish
<1>7. QED
  BY <1>6 DEF Promise!Next

LEMMA FinishErases ==
    ASSUME IInv, NEW r \in Requests, NEW n \in Attempts, FinishCleanupJob(r, n)
    PROVE  [Promise!Next]_(Promise!outcomeVars)
<1>1. object' = object /\ ingest' = ingest
  BY DEF FinishCleanupJob
<1>2. \A q \in Requests \ {r} : cleanup'[q] = cleanup[q]
  BY DEF FinishCleanupJob, IInv, TypeOK
<1>3. CASE HeldBy(cleanup[r], n) /\ cleaner[r][n] = "acked"
  <2>1. cleanup[r].status = "leased" /\ cleanup'[r].status = "done"
    BY <1>3 DEF FinishCleanupJob, IInv, TypeOK, HeldBy, Done
  <2>2. ingest[r] = "rejected" /\ r \notin object
    BY <1>3, <2>1 DEF IInv, CleanupInv, OriginInv
  <2>3. OutcomeOf(r) = "discarded" /\ OutcomeOf(r)' = "erased"
    BY <2>1, <2>2 DEF OutcomeOf
  <2>4. \A q \in Requests \ {r} : OutcomeOf(q)' = OutcomeOf(q)
    BY <1>1, <1>2, OutcomeDepends
  <2>5. Promise!Erase(r)
    BY <1>1, <2>2, <2>3, <2>4 DEF Promise!Erase
  <2>6. QED
    BY <2>5 DEF Promise!Next
<1>4. CASE ~(HeldBy(cleanup[r], n) /\ cleaner[r][n] = "acked")
  <2>1. cleanup'[r].status = "done" <=> cleanup[r].status = "done"
    BY <1>4 DEF FinishCleanupJob, IInv, TypeOK, HeldBy, RetryOrDie
  <2>2. QED
    BY <1>1, <1>2, <2>1, OutcomeDepends, NoOutcomeChange
<1>5. QED
  BY <1>3, <1>4

LEMMA ArrivalStores ==
    ASSUME IInv, NEW r \in Requests, OriginStores(r)
    PROVE  [Promise!Next]_(Promise!outcomeVars)
<1>1. \A q \in Requests : OutcomeOf(q)' = OutcomeOf(q)
  BY OutcomeDepends DEF OriginStores
<1>2. CASE r \in fenced \/ r \in object
  BY <1>1, <1>2, NoOutcomeChange DEF OriginStores
<1>3. CASE r \notin fenced /\ r \notin object
  <2>1. OutcomeOf(r) \in {"open", "discarded"}
    BY <1>3 DEF IInv, OriginInv, CleanupInv, OutcomeOf
  <2>2. Promise!Store(r)
    BY <1>1, <1>3, <2>1 DEF Promise!Store, OriginStores
  <2>3. QED
    BY <2>2 DEF Promise!Next
<1>4. QED
  BY <1>2, <1>3

LEMMA DeleteRemoves ==
    ASSUME IInv, NEW r \in Requests, NEW n \in Attempts, DeleteQuarantined(r, n)
    PROVE  [Promise!Next]_(Promise!outcomeVars)
<1>1. \A q \in Requests : OutcomeOf(q)' = OutcomeOf(q)
  BY OutcomeDepends DEF DeleteQuarantined
<1>2. object' = object \/ (r \in object /\ object' = object \ {r})
  BY DEF DeleteQuarantined
<1>3. CASE object' = object
  BY <1>1, <1>3, NoOutcomeChange
<1>4. CASE r \in object /\ object' = object \ {r}
  <2>1. ingest[r] = "rejected" /\ r \notin fenced
    BY <1>4 DEF DeleteQuarantined, IInv, CleanupInv, OriginInv
  <2>2. OutcomeOf(r) = "discarded"
    BY <2>1 DEF IInv, CleanupInv, OutcomeOf
  <2>3. Promise!Remove(r)
    BY <1>1, <1>4, <2>2 DEF Promise!Remove
  <2>4. QED
    BY <2>3 DEF Promise!Next
<1>5. QED
  BY <1>2, <1>3, <1>4

\* Leases and deadlines of the cleanup queue never make a row done.
LEMMA CleanupQueueStutters ==
    ASSUME IInv,
           \/ \E S \in SUBSET Requests : ClaimCleanupJobs(S)
           \/ \E r \in Requests : CleanupDeadline(r)
    PROVE  UNCHANGED Promise!outcomeVars
<1>1. ingest' = ingest /\ object' = object
  BY DEF ClaimCleanupJobs, CleanupDeadline
<1>2. ASSUME NEW q \in Requests
      PROVE  cleanup'[q].status = "done" <=> cleanup[q].status = "done"
  <2>1. CASE \E S \in SUBSET Requests : ClaimCleanupJobs(S)
    BY <2>1 DEF ClaimCleanupJobs, Claimable, Exhausted, Leased, Dead
  <2>2. CASE \E r \in Requests : CleanupDeadline(r)
    BY <2>2 DEF IInv, TypeOK, CleanupDeadline, Elapsed
  <2>3. QED
    BY <2>1, <2>2
<1>3. QED
  BY <1>1, <1>2, OutcomeDepends, NoOutcomeChange

\* Every other step leaves the upload rows, the cleanup jobs and the stored
\* bytes alone.
LEMMA StepImplements ==
    ASSUME IInv, Next PROVE [Promise!Next]_(Promise!outcomeVars)
<1>1. ASSUME ingest' = ingest, cleanup' = cleanup, object' = object
      PROVE  UNCHANGED Promise!outcomeVars
  BY <1>1, OutcomeDepends, NoOutcomeChange
<1>2. ASSUME NEW r \in Requests, Intake(r) PROVE UNCHANGED Promise!outcomeVars
  BY <1>1, <1>2, OpenStaysOpen DEF Intake, ReservePlan, CancelPlan
<1>3. ASSUME NEW r \in Requests, Transfer(r)
      PROVE  [Promise!Next]_(Promise!outcomeVars)
  BY <1>1, <1>3, OpenStaysOpen, RejectionDiscards
     DEF Transfer, ReceiveBody, PutFails, RecordFails, UploadCrashes
<1>4. ASSUME NEW r \in Requests, Environment(r)
      PROVE  [Promise!Next]_(Promise!outcomeVars)
  BY <1>1, <1>4, ArrivalStores, CleanupQueueStutters
     DEF Environment, ScannerDelivers, Ages, JobDeadline
<1>5. ASSUME NEW r \in Requests, NEW n \in Attempts,
             FailProcessingJob(r, n) \/ DeleteQuarantined(r, n)
             \/ FinishCleanupJob(r, n)
      PROVE  [Promise!Next]_(Promise!outcomeVars)
  BY <1>1, <1>5, DeleteRemoves, FinishErases DEF FailProcessingJob
<1>6. ASSUME NEW c \in Calls,
             \/ \E r \in Requests, n \in Attempts : Preflight(c, r, n)
             \/ VerifyOriginBytes(c) \/ CompleteAttestedIngest(c) \/ AbandonCall(c)
      PROVE  [Promise!Next]_(Promise!outcomeVars)
  BY <1>1, <1>6, CompletionPublishes
     DEF Preflight, VerifyOriginBytes, AbandonCall
<1>7. ASSUME NEW S \in SUBSET Requests, ClaimJobs(S) \/ ClaimCleanupJobs(S)
      PROVE  [Promise!Next]_(Promise!outcomeVars)
  BY <1>1, <1>7, CleanupQueueStutters DEF ClaimJobs
<1>8. CASE EnqueueCleanupCandidates \/ CourseChanges \/ Publish
  BY <1>1, <1>8, SweepDiscards DEF CourseChanges, Publish
<1>9. QED
  BY <1>2, <1>3, <1>4, <1>5, <1>6, <1>7, <1>8 DEF Next

\* The pipeline, with its queues, leases, late messages and crashes, keeps the
\* promise UploadOutcome makes about every upload.
THEOREM PipelineKeepsPromise == Spec => KeepsPromise
<1>1. Init => Promise!Init
  BY DEF Init, Promise!Init, OutcomeOf
<1>2. IInv /\ [Next]_vars => [Promise!Next]_(Promise!outcomeVars)
  <2>1. UNCHANGED vars => UNCHANGED Promise!outcomeVars
    BY OutcomeDepends, NoOutcomeChange DEF vars
  <2>2. QED
    BY <2>1, StepImplements
<1>3. QED
  BY <1>1, <1>2, Inductive, PTL DEF Spec, KeepsPromise, Promise!Spec

\* Only the callback with the latest lease of an upload publishes it.
THEOREM HolderPublishes == Spec => OnlyHolderPublishes
<1> DEFINE Holder == \A r \in asset' \ asset :
        \E c \in Calls : /\ call[c].stage = "verified"
                         /\ call[c].req = r
                         /\ call[c].token = job[r].attempts
<1>1. [Next]_vars => [Holder]_vars
  <2> SUFFICES ASSUME Next, asset' # asset PROVE Holder
    BY DEF vars
  <2>1. PICK c \in Calls : CompleteAttestedIngest(c)
    BY DEF Next, Intake, Transfer, Environment, Reserve, ReservePlan,
       CancelPlan, BeginUpload, ReceiveBody, PutFails, RecordQuarantined,
       RecordFails, RejectFailedIngest, UploadCrashes, OriginStores,
       ScannerDelivers, Ages, JobDeadline, CleanupDeadline, FailProcessingJob,
       DeleteQuarantined, FinishCleanupJob, Preflight, VerifyOriginBytes,
       AbandonCall, ClaimJobs, ClaimCleanupJobs, EnqueueCleanupCandidates,
       CourseChanges, Publish
  <2>2. QED
    BY <2>1 DEF CompleteAttestedIngest, Committable, HeldBy
<1>2. QED
  BY <1>1, PTL DEF Spec, OnlyHolderPublishes

\* A publication is authorized at its step and made by the latest lease.
THEOREM PublicationsAreSafe == Spec => PublicationIsSafe
  BY AuthorizedAtPublication, HolderPublishes, PTL DEF PublicationIsSafe


(***************************************************************************)
(* Leases.                                                                 *)
(***************************************************************************)
\* A claim leaves every live lease alone.
LEMMA ClaimSparesLive ==
    ASSUME NEW row, NEW waiting, row.status = "leased", row.ahead
    PROVE  ~Claimable(row, waiting) /\ ~Exhausted(row)
  BY DEF Claimable, Exhausted

LEMMA JobLeaseStep ==
    ASSUME IInv, Next, NEW r \in Requests, job[r].status = "leased", job[r].ahead
    PROVE  job'[r].attempts = job[r].attempts
<1>1. CASE job' = job
  BY <1>1
<1>2. ASSUME NEW q \in Requests,
             RecordQuarantined(q) \/ JobDeadline(q)
             \/ \E n \in Attempts : FailProcessingJob(q, n)
      PROVE  job'[r].attempts = job[r].attempts
  BY <1>2 DEF IInv, TypeOK, RecordQuarantined, JobDeadline, Elapsed,
     FailProcessingJob, RetryOrDie
<1>3. ASSUME NEW c \in Calls, CompleteAttestedIngest(c)
      PROVE  job'[r].attempts = job[r].attempts
  BY <1>3 DEF IInv, TypeOK, CompleteAttestedIngest, Done
<1>4. ASSUME NEW S \in SUBSET Requests, ClaimJobs(S)
      PROVE  job'[r].attempts = job[r].attempts
  BY <1>4, ClaimSparesLive DEF ClaimJobs
<1>5. QED
  BY <1>1, <1>2, <1>3, <1>4 DEF Next, Intake, Transfer, Environment, Reserve,
     ReservePlan, CancelPlan, BeginUpload, ReceiveBody, PutFails, RecordFails,
     RejectFailedIngest, UploadCrashes, OriginStores, ScannerDelivers, Ages,
     CleanupDeadline, DeleteQuarantined, FinishCleanupJob, Preflight,
     VerifyOriginBytes, AbandonCall, ClaimCleanupJobs,
     EnqueueCleanupCandidates, CourseChanges, Publish

LEMMA CleanupLeaseStep ==
    ASSUME IInv, Next, NEW r \in Requests,
           cleanup[r].status = "leased", cleanup[r].ahead
    PROVE  cleanup'[r].attempts = cleanup[r].attempts
<1>1. CASE cleanup' = cleanup
  BY <1>1
<1>2. ASSUME NEW q \in Requests,
             CleanupDeadline(q) \/ \E n \in Attempts : FinishCleanupJob(q, n)
      PROVE  cleanup'[r].attempts = cleanup[r].attempts
  <2>1. cleanup \in [Requests -> CleanupRow]
    BY DEF IInv, TypeOK
  <2>2. cleanup'[r] \in {cleanup[r], Elapsed(cleanup[r]), Done(cleanup[r]),
                         RetryOrDie(cleanup[r], "pending")}
    BY <1>2, <2>1 DEF CleanupDeadline, FinishCleanupJob
  <2>3. QED
    BY <2>2 DEF Elapsed, Done, RetryOrDie
<1>3. ASSUME NEW S \in SUBSET Requests, ClaimCleanupJobs(S)
      PROVE  cleanup'[r].attempts = cleanup[r].attempts
  BY <1>3, ClaimSparesLive DEF ClaimCleanupJobs
<1>4. CASE EnqueueCleanupCandidates
  BY <1>4 DEF EnqueueCleanupCandidates
<1>5. QED
  BY <1>1, <1>2, <1>3, <1>4 DEF Next, Intake, Transfer, Environment, Reserve,
     ReservePlan, CancelPlan, BeginUpload, ReceiveBody, PutFails,
     RecordQuarantined, RecordFails, RejectFailedIngest, UploadCrashes,
     OriginStores, ScannerDelivers, Ages, JobDeadline, DeleteQuarantined,
     FailProcessingJob, Preflight, VerifyOriginBytes, CompleteAttestedIngest,
     AbandonCall, ClaimJobs, CourseChanges, Publish

\* While a lease is live nobody else is given a token for its row.
THEOREM LeasesAreExclusive == Spec => LiveLeaseIsExclusive
<1> DEFINE Exclusive == \A r \in Requests :
        /\ job[r].status = "leased" /\ job[r].ahead
              => job'[r].attempts = job[r].attempts
        /\ cleanup[r].status = "leased" /\ cleanup[r].ahead
              => cleanup'[r].attempts = cleanup[r].attempts
<1>1. IInv /\ [Next]_vars => [Exclusive]_vars
  <2>1. IInv /\ Next => Exclusive
    BY JobLeaseStep, CleanupLeaseStep
  <2>2. QED
    BY <2>1
<1>2. QED
  BY <1>1, Inductive, PTL DEF Spec, LiveLeaseIsExclusive

(***************************************************************************)
(* The shared quota.                                                       *)
(***************************************************************************)
LEMMA Finite ==
    ASSUME NEW S \in SUBSET Requests
    PROVE  IsFiniteSet(S) /\ Cardinality(S) \in Nat
  BY RequestsAssumption, FS_Subset, FS_CardinalityType

LEMMA Monotone ==
    ASSUME NEW T \in SUBSET Requests, NEW S \in SUBSET T
    PROVE  Cardinality(S) <= Cardinality(T)
  BY Finite, FS_Subset

LEMMA OneMore ==
    ASSUME NEW T \in SUBSET Requests, NEW r \in Requests, NEW S,
           S = T \cup {r}, r \notin T
    PROVE  Cardinality(S) = Cardinality(T) + 1
  BY Finite, FS_AddElement

\* Expiry only closes plans.
LEMMA ExpiryCloses == OpenPlans(ExpiredPlans) \subseteq OpenPlans(plan)
  BY DEF OpenPlans, ExpiredPlans

LEMMA ReserveQuota ==
    ASSUME TypeOK, SharedQuota, NEW r \in Requests, Reserve(r)
    PROVE  SharedQuota'
<1>1. Uploads' = Uploads \cup {r} /\ r \notin Uploads
  BY DEF TypeOK, Reserve, Uploads
<1>2. OpenPlans(plan)' = OpenPlans(ExpiredPlans)
  BY DEF Reserve, OpenPlans
<1>3. Cardinality(Uploads') = Cardinality(Uploads) + 1
  BY <1>1, OneMore DEF Uploads
<1>4. Cardinality(Uploads) + Cardinality(OpenPlans(ExpiredPlans)) < MaxIntents
  BY DEF Reserve, WithinQuota
<1>5. Cardinality(Uploads) \in Nat /\ Cardinality(OpenPlans(ExpiredPlans)) \in Nat
  BY Finite DEF Uploads, OpenPlans
<1>6. Cardinality(Uploads') + Cardinality(OpenPlans(plan)') <= MaxIntents
  BY <1>2, <1>3, <1>4, <1>5, MaxIntentsAssumption
<1>7. \A q \in Requests : ingest'[q] # "none" => plan'[q] = "none"
  BY DEF SharedQuota, TypeOK, Reserve, ExpiredPlans
<1>8. QED
  BY <1>6, <1>7 DEF SharedQuota

LEMMA ReservePlanQuota ==
    ASSUME TypeOK, SharedQuota, NEW r \in Requests, ReservePlan(r)
    PROVE  SharedQuota'
<1>1. Uploads' = Uploads
  BY DEF ReservePlan, Uploads
<1>2. /\ Cardinality(Uploads) \in Nat
      /\ Cardinality(OpenPlans(ExpiredPlans)) \in Nat
      /\ Cardinality(OpenPlans(plan)) \in Nat
  BY Finite DEF Uploads, OpenPlans
<1>3. \A q \in Requests : ingest'[q] # "none" => plan'[q] = "none"
  <2>1. \A q \in Requests : ingest[q] # "none" => plan[q] = "none"
    BY DEF SharedQuota
  <2>2. ingest' = ingest
    BY DEF ReservePlan
  <2>3. CASE plan' = ExpiredPlans
    BY <2>1, <2>2, <2>3 DEF ExpiredPlans
  <2>4. CASE ingest[r] = "none" /\ plan' = [ExpiredPlans EXCEPT ![r] = "planned"]
    BY <2>1, <2>2, <2>4 DEF ExpiredPlans
  <2>5. QED
    BY <2>3, <2>4 DEF ReservePlan
<1>4. CASE plan' = ExpiredPlans
  <2>1. Cardinality(OpenPlans(plan)') <= Cardinality(OpenPlans(plan))
    BY <1>4, ExpiryCloses, Monotone DEF OpenPlans
  <2>2. Cardinality(OpenPlans(plan)') \in Nat
    BY Finite DEF OpenPlans
  <2>3. Cardinality(Uploads') + Cardinality(OpenPlans(plan)') <= MaxIntents
    BY <1>1, <1>2, <2>1, <2>2, MaxIntentsAssumption DEF SharedQuota
  <2>4. QED
    BY <1>3, <2>3 DEF SharedQuota
<1>5. CASE /\ plan[r] = "none"
           /\ WithinQuota(ExpiredPlans)
           /\ plan' = [ExpiredPlans EXCEPT ![r] = "planned"]
  <2>1. OpenPlans(plan)' = OpenPlans(ExpiredPlans) \cup {r}
    BY <1>5 DEF OpenPlans, ExpiredPlans
  <2>2. r \notin OpenPlans(ExpiredPlans)
    BY <1>5 DEF OpenPlans, ExpiredPlans
  <2>3. Cardinality(OpenPlans(plan)') = Cardinality(OpenPlans(ExpiredPlans)) + 1
    BY <2>1, <2>2, OneMore DEF OpenPlans
  <2>4. Cardinality(Uploads') + Cardinality(OpenPlans(plan)') <= MaxIntents
    BY <1>1, <1>2, <1>5, <2>3, MaxIntentsAssumption DEF WithinQuota
  <2>5. QED
    BY <1>3, <2>4 DEF SharedQuota
<1>6. QED
  BY <1>4, <1>5 DEF ReservePlan

LEMMA CancelPlanQuota ==
    ASSUME TypeOK, SharedQuota, NEW r \in Requests, CancelPlan(r)
    PROVE  SharedQuota'
<1>1. Uploads' = Uploads
  BY DEF CancelPlan, Uploads
<1>2. OpenPlans(plan)' \in SUBSET OpenPlans(plan)
  BY DEF TypeOK, CancelPlan, OpenPlans
<1>3. Cardinality(OpenPlans(plan)') <= Cardinality(OpenPlans(plan))
  BY <1>2, Monotone DEF OpenPlans
<1>4. /\ Cardinality(Uploads) \in Nat
      /\ Cardinality(OpenPlans(plan)) \in Nat
      /\ Cardinality(OpenPlans(plan)') \in Nat
  BY Finite DEF Uploads, OpenPlans
<1>5. Cardinality(Uploads') + Cardinality(OpenPlans(plan)') <= MaxIntents
  BY <1>1, <1>3, <1>4, MaxIntentsAssumption DEF SharedQuota
<1>6. \A q \in Requests : ingest'[q] # "none" => plan'[q] = "none"
  BY DEF SharedQuota, TypeOK, CancelPlan
<1>7. QED
  BY <1>5, <1>6 DEF SharedQuota

\* Every other step keeps the plans, and keeps each upload an upload.
LEMMA NoNewIntent ==
    ASSUME SharedQuota, plan' = plan,
           \A r \in Requests : ingest'[r] = "none" <=> ingest[r] = "none"
    PROVE  SharedQuota'
<1>1. Uploads' = Uploads
  BY DEF Uploads
<1>2. OpenPlans(plan)' = OpenPlans(plan)
  BY DEF OpenPlans
<1>3. QED
  BY <1>1, <1>2 DEF SharedQuota

LEMMA QuotaStep == ASSUME IInv, SharedQuota, Next PROVE SharedQuota'
<1>1. ASSUME NEW r \in Requests, Intake(r) PROVE SharedQuota'
  BY <1>1, ReserveQuota, ReservePlanQuota, CancelPlanQuota DEF Intake, IInv
<1>2. CASE plan' = plan /\ ingest' = ingest
  BY <1>2, NoNewIntent
<1>3. ASSUME NEW r \in Requests,
             BeginUpload(r) \/ RecordQuarantined(r) \/ RejectFailedIngest(r)
      PROVE  SharedQuota'
  <2>1. plan' = plan
    BY <1>3 DEF BeginUpload, RecordQuarantined, RejectFailedIngest
  <2>2. \A q \in Requests : ingest'[q] = "none" <=> ingest[q] = "none"
    BY <1>3 DEF IInv, TypeOK, BeginUpload, RecordQuarantined,
       RejectFailedIngest
  <2>3. QED
    BY <2>1, <2>2, NoNewIntent
<1>4. ASSUME NEW c \in Calls, CompleteAttestedIngest(c) PROVE SharedQuota'
  <2>1. plan' = plan
    BY <1>4 DEF CompleteAttestedIngest
  <2>2. \A q \in Requests : ingest'[q] = "none" <=> ingest[q] = "none"
    BY <1>4 DEF IInv, TypeOK, CompleteAttestedIngest, Committable
  <2>3. QED
    BY <2>1, <2>2, NoNewIntent
<1>5. CASE EnqueueCleanupCandidates
  <2>1. plan' = plan
    BY <1>5 DEF EnqueueCleanupCandidates
  <2>2. \A q \in Requests : ingest'[q] = "none" <=> ingest[q] = "none"
    BY <1>5 DEF EnqueueCleanupCandidates, FullBatches, StaleReservations,
       DeadLetters
  <2>3. QED
    BY <2>1, <2>2, NoNewIntent
<1>6. QED
  BY <1>1, <1>2, <1>3, <1>4, <1>5 DEF Next, Transfer, Environment, ReceiveBody,
     PutFails, RecordFails, UploadCrashes, OriginStores, ScannerDelivers, Ages,
     JobDeadline, CleanupDeadline, FailProcessingJob, DeleteQuarantined,
     FinishCleanupJob, Preflight, VerifyOriginBytes, AbandonCall, ClaimJobs,
     ClaimCleanupJobs, CourseChanges, Publish

\* Uploads and multipart plans never take more than the course's quota.
THEOREM QuotaIsShared == Spec => []SharedQuota
<1>1. Init => SharedQuota
  <2> SUFFICES ASSUME Init PROVE SharedQuota
    OBVIOUS
  <2>1. Uploads = {} /\ OpenPlans(plan) = {}
    BY DEF Init, Uploads, OpenPlans
  <2>2. Cardinality({}) = 0
    BY FS_EmptySet
  <2>3. \A r \in Requests : ingest[r] # "none" => plan[r] = "none"
    BY DEF Init
  <2>4. QED
    BY <2>1, <2>2, <2>3, MaxIntentsAssumption DEF SharedQuota
<1>2. IInv /\ SharedQuota /\ [Next]_vars => SharedQuota'
  <2>1. SharedQuota /\ UNCHANGED vars => SharedQuota'
    BY NoNewIntent DEF vars
  <2>2. QED
    BY <2>1, QuotaStep
<1>3. QED
  BY <1>1, <1>2, Inductive, PTL DEF Spec
==============================================================================
