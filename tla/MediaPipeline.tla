---------------------------- MODULE MediaPipeline ----------------------------
(***************************************************************************)
(* The video pipeline of one course: reservation of an upload, transfer    *)
(* into quarantine, leased processing, attested completion, and the sweep  *)
(* that deletes rejected bytes behind a fence.                             *)
(*                                                                         *)
(* Every database transaction of the code takes the row locks it relies on *)
(* and is one action here.  Everything the code does between transactions  *)
(* (reading a body, a PUT, a GET, a DELETE, a crash) is a step of its own. *)
(* Time is not counted: the rows only ever ask "has this instant passed?", *)
(* so each row carries a flag that an action of the environment flips.     *)
(***************************************************************************)
EXTENDS Naturals, FiniteSets

CONSTANTS
    Requests,      \* client request ids; each names one upload or one plan
    Calls,         \* completion callbacks the server may be running at once
    MaxAttempts,   \* leases a queue row may be given (5 in both queues)
    MaxIntents,    \* uploads plus open plans a course may hold (20)
    BatchLimit     \* rows one claim or one sweep may take (1..10)

ASSUME RequestsAssumption == IsFiniteSet(Requests)
ASSUME MaxAttemptsAssumption == MaxAttempts \in Nat \ {0}
ASSUME MaxIntentsAssumption == MaxIntents \in Nat
ASSUME BatchLimitAssumption == BatchLimit \in Nat \ {0}

VARIABLES
    draft,       \* the course is still a draft
    member,      \* the uploader's own standing (active provider or educator)
    approved,    \* supervision grant approved by a still active approver
    ingest,      \* status of the upload row, "none" before it is reserved
    plan,        \* status of the multipart plan row with that request id
    aged,        \* the age the next sweep or expiry of the row waits for is over
    rejectedAt,  \* rank of the rejection (order of completed_at), 0 before it
    transfer,    \* where the request handler that receives the bytes is
    puts,        \* PUTs on their way to the origin
    object,      \* uploads whose bytes the origin holds in quarantine
    fenced,      \* uploads whose quarantine key the origin refuses for ever
    output,      \* uploads with a signed clean report and a private output
    job,         \* the processing queue row
    asset,       \* uploads with a row in the table students read from
    call,        \* the completion callbacks in progress
    cleanup,     \* the cleanup queue row
    cleaner      \* what the cleanup run holding a given lease has done

course == <<draft, member, approved>>
origin == <<puts, object, fenced, output>>
vars == <<draft, member, approved, ingest, plan, aged, rejectedAt, transfer,
          puts, object, fenced, output, job, asset, call, cleanup, cleaner>>

Attempts == 1..MaxAttempts
IngestStatus == {"none", "reserved", "uploading", "quarantined", "ready",
                 "rejected"}
PlanStatus == {"none", "planned", "expired", "cancelled"}
TransferStage == {"none", "receiving", "putting", "stored", "failing", "over"}
CleanerStage == {"none", "claimed", "acked", "refused", "over"}

(***************************************************************************)
(* Queue rows.  A lease token is a fresh random UUID per lease, and every  *)
(* lease increments attempts, so the attempt number identifies the token.  *)
(* "ahead" says that the instant the row waits for (lease_until of a       *)
(* leased row, next_attempt_at of a waiting one) has not been reached.     *)
(***************************************************************************)
QueueRow(statuses) ==
    [status : statuses, attempts : 0..MaxAttempts, ahead : BOOLEAN]
JobRow == QueueRow({"none", "queued", "leased", "done", "dead"})
CleanupRow == QueueRow({"none", "pending", "leased", "done", "dead"})
NoRow == [status |-> "none", attempts |-> 0, ahead |-> FALSE]
NewRow(waiting) == [status |-> waiting, attempts |-> 0, ahead |-> FALSE]
NoCall == [stage |-> "idle"]
Callback(stage, r, n) == [stage |-> stage, req |-> r, token |-> n]
CallState == {NoCall} \cup
    [stage : {"reading", "verified"}, req : Requests, token : Attempts]

\* Fault: a row is claimable for ever.
ClaimableForever(row, waiting) ==
    row.status \in {waiting, "leased"} /\ ~row.ahead

\* A waiting row whose time has come, or a lease that has run out.
Claimable(row, waiting) ==
    /\ row.status \in {waiting, "leased"}
    /\ ~row.ahead
    /\ row.attempts < MaxAttempts

\* A lease that ran out on the last attempt.
Exhausted(row) ==
    /\ row.status = "leased"
    /\ ~row.ahead
    /\ row.attempts >= MaxAttempts

Leased(row) == [status |-> "leased", attempts |-> row.attempts + 1,
                ahead |-> TRUE]

Done(row) == [status |-> "done", attempts |-> row.attempts, ahead |-> FALSE]
Dead(row) == [status |-> "dead", attempts |-> row.attempts, ahead |-> FALSE]
Elapsed(row) ==
    [status |-> row.status, attempts |-> row.attempts, ahead |-> FALSE]

\* The caller presents the token of the lease, and the lease is live.
HeldBy(row, token) ==
    /\ row.status = "leased"
    /\ row.attempts = token
    /\ row.ahead

\* Fault: a failed job goes back to the queue whatever its attempts.
RetryForever(row, waiting) ==
    [status |-> waiting, attempts |-> row.attempts, ahead |-> TRUE]

\* A failed attempt goes back to the queue with a delay, or is dead.
RetryOrDie(row, waiting) ==
    [status |-> IF row.attempts >= MaxAttempts THEN "dead" ELSE waiting,
     attempts |-> row.attempts,
     ahead |-> row.attempts < MaxAttempts]

\* As many of the eligible rows as the LIMIT allows.
FullBatches(eligible) ==
    {S \in SUBSET eligible :
        /\ Cardinality(S) <= BatchLimit
        /\ S = eligible \/ Cardinality(S) = BatchLimit}

(***************************************************************************)
(* Initial state: an approved draft course without uploads.                *)
(***************************************************************************)
Init ==
    /\ draft = TRUE
    /\ member = TRUE
    /\ approved = TRUE
    /\ ingest = [r \in Requests |-> "none"]
    /\ plan = [r \in Requests |-> "none"]
    /\ aged = [r \in Requests |-> FALSE]
    /\ rejectedAt = [r \in Requests |-> 0]
    /\ transfer = [r \in Requests |-> "none"]
    /\ puts = {}
    /\ object = {}
    /\ fenced = {}
    /\ output = {}
    /\ job = [r \in Requests |-> NoRow]
    /\ asset = {}
    /\ call = [c \in Calls |-> NoCall]
    /\ cleanup = [r \in Requests |-> NoRow]
    /\ cleaner = [r \in Requests |-> [n \in Attempts |-> "none"]]

(***************************************************************************)
(* Reservations and multipart plans share one quota and one id space.      *)
(***************************************************************************)
Authorized == draft /\ member /\ approved

ExpiredPlans ==
    [r \in Requests |->
        IF plan[r] = "planned" /\ aged[r] THEN "expired" ELSE plan[r]]

Uploads == {r \in Requests : ingest[r] # "none"}
OpenPlans(p) == {r \in Requests : p[r] = "planned"}

\* Fault: the check leaves room for one intent too many.
QuotaOffByOne(p) == Cardinality(Uploads) + Cardinality(OpenPlans(p)) <= MaxIntents

WithinQuota(p) == Cardinality(Uploads) + Cardinality(OpenPlans(p)) < MaxIntents

Reserve(r) ==
    /\ Authorized
    /\ ingest[r] = "none"
    /\ plan[r] = "none"
    /\ WithinQuota(ExpiredPlans)
    /\ ingest' = [ingest EXCEPT ![r] = "reserved"]
    /\ plan' = ExpiredPlans
    /\ UNCHANGED <<course, aged, rejectedAt, transfer, origin, job, asset,
                   call, cleanup, cleaner>>

\* A replay of a known plan still commits the expiry of the stale ones.
ReservePlan(r) ==
    /\ Authorized
    /\ \/ /\ plan[r] # "none"
          /\ plan' = ExpiredPlans
       \/ /\ plan[r] = "none"
          /\ ingest[r] = "none"
          /\ WithinQuota(ExpiredPlans)
          /\ plan' = [ExpiredPlans EXCEPT ![r] = "planned"]
    /\ UNCHANGED <<course, ingest, aged, rejectedAt, transfer, origin, job,
                   asset, call, cleanup, cleaner>>

\* Cancelling needs no approval: a revoked course can still drop its plans.
CancelPlan(r) ==
    /\ member
    /\ plan[r] = "planned"
    /\ plan' = [plan EXCEPT ![r] = IF aged[r] THEN "expired" ELSE "cancelled"]
    /\ UNCHANGED <<course, ingest, aged, rejectedAt, transfer, origin, job,
                   asset, call, cleanup, cleaner>>

(***************************************************************************)
(* The transfer of the bytes: claim, read the body, PUT, record.           *)
(***************************************************************************)
BeginUpload(r) ==
    /\ Authorized
    /\ ingest[r] = "reserved"
    /\ ingest' = [ingest EXCEPT ![r] = "uploading"]
    /\ transfer' = [transfer EXCEPT ![r] = "receiving"]
    /\ aged' = [aged EXCEPT ![r] = FALSE]
    /\ UNCHANGED <<course, plan, rejectedAt, origin, job, asset, call, cleanup,
                   cleaner>>

\* The body is short, long, no MP4 or has another digest: give up; else PUT.
ReceiveBody(r) ==
    /\ transfer[r] = "receiving"
    /\ \/ /\ transfer' = [transfer EXCEPT ![r] = "failing"]
          /\ UNCHANGED puts
       \/ /\ transfer' = [transfer EXCEPT ![r] = "putting"]
          /\ puts' = puts \cup {r}
    /\ UNCHANGED <<course, ingest, plan, aged, rejectedAt, object, fenced,
                   output, job, asset, call, cleanup, cleaner>>

\* The handler stops waiting (20 s timeout, lost answer, not a 201).  The PUT
\* it sent may still reach the origin.
PutFails(r) ==
    /\ transfer[r] = "putting"
    /\ transfer' = [transfer EXCEPT ![r] = "failing"]
    /\ UNCHANGED <<course, ingest, plan, aged, rejectedAt, origin, job, asset,
                   call, cleanup, cleaner>>

\* Fault: the row is moved on although no byte was acknowledged.
RecordsUnstored(r) == transfer[r] \in {"putting", "stored"}

Recordable(r) == transfer[r] = "stored"

\* Second transaction of the handler; its `finally` then finds nothing to do.
RecordQuarantined(r) ==
    /\ Recordable(r)
    /\ IF ingest[r] = "uploading"
       THEN /\ ingest' = [ingest EXCEPT ![r] = "quarantined"]
            /\ job' = [job EXCEPT ![r] = IF @ = NoRow THEN NewRow("queued")
                                         ELSE @]
       ELSE UNCHANGED <<ingest, job>>
    /\ transfer' = [transfer EXCEPT ![r] = "over"]
    /\ UNCHANGED <<course, plan, aged, rejectedAt, origin, asset, call,
                   cleanup, cleaner>>

\* The second transaction throws: the handler falls through to its `finally`.
RecordFails(r) ==
    /\ transfer[r] = "stored"
    /\ transfer' = [transfer EXCEPT ![r] = "failing"]
    /\ UNCHANGED <<course, ingest, plan, aged, rejectedAt, origin, job, asset,
                   call, cleanup, cleaner>>

Rejected == {r \in Requests : ingest[r] = "rejected"}

RejectFailedIngest(r) ==
    /\ transfer[r] = "failing"
    /\ transfer' = [transfer EXCEPT ![r] = "over"]
    /\ IF ingest[r] = "uploading"
       THEN /\ ingest' = [ingest EXCEPT ![r] = "rejected"]
            /\ rejectedAt' = [rejectedAt EXCEPT ![r] = 1 + Cardinality(Rejected)]
            /\ aged' = [aged EXCEPT ![r] = FALSE]
       ELSE UNCHANGED <<ingest, rejectedAt, aged>>
    /\ UNCHANGED <<course, plan, origin, job, asset, call, cleanup, cleaner>>

\* The server dies with the request: no `finally`, the row stays uploading.
UploadCrashes(r) ==
    /\ transfer[r] \in {"receiving", "putting", "stored", "failing"}
    /\ transfer' = [transfer EXCEPT ![r] = "over"]
    /\ UNCHANGED <<course, ingest, plan, aged, rejectedAt, origin, job, asset,
                   call, cleanup, cleaner>>

(***************************************************************************)
(* The processing queue.                                                   *)
(***************************************************************************)
\* The claim route first dead-letters exhausted leases, then leases a batch;
\* the two statements touch disjoint rows.  SKIP LOCKED may leave rows out.
ClaimJobs(S) ==
    LET buried == [r \in Requests |->
                      IF Exhausted(job[r])
                      THEN Dead(job[r]) ELSE job[r]]
    IN /\ S \subseteq {r \in Requests : Claimable(job[r], "queued")}
       /\ Cardinality(S) <= BatchLimit
       /\ job' = [r \in Requests |->
                     IF r \in S THEN Leased(job[r]) ELSE buried[r]]
       /\ UNCHANGED <<course, ingest, plan, aged, rejectedAt, transfer, origin,
                      asset, call, cleanup, cleaner>>

FailProcessingJob(r, n) ==
    /\ HeldBy(job[r], n)
    /\ job' = [job EXCEPT ![r] = RetryOrDie(@, "queued")]
    /\ UNCHANGED <<course, ingest, plan, aged, rejectedAt, transfer, origin,
                   asset, call, cleanup, cleaner>>

(***************************************************************************)
(* Attested completion.  A worker that was ever given a lease may call     *)
(* back with its token at any time and any number of times.                *)
(***************************************************************************)
\* Reads without locks; a call that fails this test returns at once.
Preflight(c, r, n) ==
    /\ call[c] = NoCall
    /\ ingest[r] = "quarantined"
    /\ HeldBy(job[r], n)
    /\ call' = [call EXCEPT ![c] = Callback("reading", r, n)]
    /\ UNCHANGED <<course, ingest, plan, aged, rejectedAt, transfer, origin,
                   job, asset, cleanup, cleaner>>

\* Fault: a valid report is believed although the output cannot be read.
TrustsTheWorker(r) == r \in object

\* Report signed for this source, source and output bytes both re-read.
BytesVerified(r) == r \in object /\ r \in output

VerifyOriginBytes(c) ==
    /\ call[c].stage = "reading"
    /\ BytesVerified(call[c].req)
    /\ call' = [call EXCEPT ![c] = Callback("verified", @.req, @.token)]
    /\ UNCHANGED <<course, ingest, plan, aged, rejectedAt, transfer, origin,
                   job, asset, cleanup, cleaner>>

\* Fault: the course is not looked at again after the private reads.
CommitsOnPreflight(r, n) == ingest[r] = "quarantined" /\ HeldBy(job[r], n)

\* What the final transaction checks again under its locks.
Committable(r, n) ==
    /\ Authorized
    /\ ingest[r] = "quarantined"
    /\ HeldBy(job[r], n)

CompleteAttestedIngest(c) ==
    /\ call[c].stage = "verified"
    /\ LET r == call[c].req IN
       /\ Committable(r, call[c].token)
       /\ asset' = asset \cup {r}
       /\ ingest' = [ingest EXCEPT ![r] = "ready"]
       /\ job' = [job EXCEPT ![r] = Done(@)]
    /\ call' = [call EXCEPT ![c] = NoCall]
    /\ UNCHANGED <<course, plan, aged, rejectedAt, transfer, origin, cleanup,
                   cleaner>>

\* Any check fails, the origin does not answer, the report is stale by now,
\* or the server dies: nothing was written.
AbandonCall(c) ==
    /\ call[c] # NoCall
    /\ call' = [call EXCEPT ![c] = NoCall]
    /\ UNCHANGED <<course, ingest, plan, aged, rejectedAt, transfer, origin,
                   job, asset, cleanup, cleaner>>

(***************************************************************************)
(* The cleanup run: sweep, claim, DELETE, record.                          *)
(***************************************************************************)

StaleReservations == {r \in Requests : ingest[r] = "reserved" /\ aged[r]}

DeadLetters ==
    {r \in Requests : ingest[r] = "quarantined" /\ job[r].status = "dead"
                      /\ aged[r]}

CleanupCandidates ==
    {r \in Requests : ingest[r] = "rejected" /\ aged[r] /\ r \notin asset}

\* ORDER BY completed_at LIMIT n.
OldestFirst(eligible) ==
    {S \in FullBatches(eligible) :
        \A s \in S, t \in eligible \ S : rejectedAt[s] <= rejectedAt[t]}

EnqueueCleanupCandidates ==
    \E stale \in FullBatches(StaleReservations),
       dead \in FullBatches(DeadLetters),
       picked \in OldestFirst(CleanupCandidates) :
        LET rejects == stale \cup dead IN
        /\ ingest' = [r \in Requests |->
                         IF r \in rejects THEN "rejected" ELSE ingest[r]]
        /\ rejectedAt' = [r \in Requests |->
                             IF r \in rejects THEN 1 + Cardinality(Rejected)
                             ELSE rejectedAt[r]]
        /\ aged' = [r \in Requests |-> IF r \in rejects THEN FALSE ELSE aged[r]]
        /\ cleanup' = [r \in Requests |->
                          IF r \in picked /\ cleanup[r] = NoRow
                          THEN NewRow("pending")
                          ELSE cleanup[r]]
        /\ UNCHANGED <<course, plan, transfer, origin, job, asset, call,
                       cleaner>>

ClaimCleanupJobs(S) ==
    LET buried == [r \in Requests |->
                      IF Exhausted(cleanup[r])
                      THEN Dead(cleanup[r]) ELSE cleanup[r]]
    IN /\ S \subseteq {r \in Requests : Claimable(cleanup[r], "pending")}
       /\ Cardinality(S) <= BatchLimit
       /\ cleanup' = [r \in Requests |->
                         IF r \in S THEN Leased(cleanup[r]) ELSE buried[r]]
       /\ cleaner' = [r \in Requests |->
                         IF r \in S
                         THEN [cleaner[r] EXCEPT ![cleanup[r].attempts + 1] =
                                                     "claimed"]
                         ELSE cleaner[r]]
       /\ UNCHANGED <<course, ingest, plan, aged, rejectedAt, transfer, origin,
                      job, asset, call>>

\* Fault: a 204 or 404 without the fence header counts as success.
AcksWithoutFence(tombstone) == TRUE

\* Success needs the header X-Dena-Fenced: 1.
FenceAcked(tombstone) == tombstone

\* The DELETE, as late as the run likes.  The origin may fence and delete,
\* delete without a fence, or do either without the answer arriving.
DeleteQuarantined(r, n) ==
    /\ cleaner[r][n] = "claimed"
    /\ \E deleted, tombstone, answered \in BOOLEAN :
        /\ tombstone => deleted
        /\ object' = IF deleted THEN object \ {r} ELSE object
        /\ fenced' = IF tombstone THEN fenced \cup {r} ELSE fenced
        /\ cleaner' = [cleaner EXCEPT ![r][n] =
               IF answered /\ deleted /\ FenceAcked(tombstone)
               THEN "acked" ELSE "refused"]
    /\ UNCHANGED <<course, ingest, plan, aged, rejectedAt, transfer, puts,
                   output, job, asset, call, cleanup>>

FinishCleanupJob(r, n) ==
    /\ cleaner[r][n] \in {"acked", "refused"}
    /\ cleaner' = [cleaner EXCEPT ![r][n] = "over"]
    /\ cleanup' = [cleanup EXCEPT ![r] =
           IF ~HeldBy(@, n) THEN @
           ELSE IF cleaner[r][n] = "acked"
                THEN Done(@)
                ELSE RetryOrDie(@, "pending")]
    /\ UNCHANGED <<course, ingest, plan, aged, rejectedAt, transfer, origin,
                   job, asset, call>>

(***************************************************************************)
(* The environment: supervision and publication of the course, the origin, *)
(* the scanner, and time.                                                  *)
(***************************************************************************)
\* Memberships are suspended and restored, supervision is revoked and granted.
CourseChanges ==
    /\ \/ member' = ~member /\ UNCHANGED approved
       \/ approved' = ~approved /\ UNCHANGED member
    /\ UNCHANGED <<draft, ingest, plan, aged, rejectedAt, transfer, origin, job,
                   asset, call, cleanup, cleaner>>

\* Publication needs a ready video and is never undone.
Publish ==
    /\ Authorized
    /\ asset # {}
    /\ draft' = FALSE
    /\ UNCHANGED <<member, approved, ingest, plan, aged, rejectedAt, transfer,
                   origin, job, asset, call, cleanup, cleaner>>

\* A PUT arrives: a fenced key answers 410, any other stores the bytes; the
\* handler learns of it only if it is still waiting.
OriginStores(r) ==
    /\ r \in puts
    /\ puts' = puts \ {r}
    /\ object' = IF r \in fenced THEN object ELSE object \cup {r}
    /\ transfer' = IF transfer[r] = "putting"
                   THEN [transfer EXCEPT ![r] =
                            IF r \in fenced THEN "failing" ELSE "stored"]
                   ELSE transfer
    /\ UNCHANGED <<course, ingest, plan, aged, rejectedAt, fenced, output, job,
                   asset, call, cleanup, cleaner>>

\* A worker that leased the upload scans and transcodes the bytes it reads.
ScannerDelivers(r) ==
    /\ r \in object \ output
    /\ job[r].attempts > 0
    /\ output' = output \cup {r}
    /\ UNCHANGED <<course, ingest, plan, aged, rejectedAt, transfer, puts,
                   object, fenced, job, asset, call, cleanup, cleaner>>

\* 24 h since a reservation, a plan's expiry, 1 h since a dead letter or a
\* rejection; an earlier rejection is old enough no later than a later one.
Ages(r) ==
    /\ ~aged[r]
    /\ \/ ingest[r] = "reserved"
       \/ plan[r] = "planned"
       \/ ingest[r] = "quarantined" /\ job[r].status = "dead"
       \/ /\ ingest[r] = "rejected"
          /\ \A q \in Rejected : rejectedAt[q] < rejectedAt[r] => aged[q]
    /\ aged' = [aged EXCEPT ![r] = TRUE]
    /\ UNCHANGED <<course, ingest, plan, rejectedAt, transfer, origin, job,
                   asset, call, cleanup, cleaner>>

JobDeadline(r) ==
    /\ job[r].ahead
    /\ job' = [job EXCEPT ![r] = Elapsed(@)]
    /\ UNCHANGED <<course, ingest, plan, aged, rejectedAt, transfer, origin,
                   asset, call, cleanup, cleaner>>

CleanupDeadline(r) ==
    /\ cleanup[r].ahead
    /\ cleanup' = [cleanup EXCEPT ![r] = Elapsed(@)]
    /\ UNCHANGED <<course, ingest, plan, aged, rejectedAt, transfer, origin,
                   job, asset, call, cleaner>>

Intake(r) == Reserve(r) \/ ReservePlan(r) \/ CancelPlan(r)

Transfer(r) ==
    \/ BeginUpload(r) \/ ReceiveBody(r) \/ PutFails(r) \/ RecordQuarantined(r)
    \/ RecordFails(r) \/ RejectFailedIngest(r) \/ UploadCrashes(r)

Environment(r) ==
    \/ OriginStores(r) \/ ScannerDelivers(r)
    \/ Ages(r) \/ JobDeadline(r) \/ CleanupDeadline(r)

Next ==
    \/ \E r \in Requests : Intake(r) \/ Transfer(r) \/ Environment(r)
    \/ \E r \in Requests, n \in Attempts :
           FailProcessingJob(r, n) \/ DeleteQuarantined(r, n)
           \/ FinishCleanupJob(r, n)
    \/ \E c \in Calls, r \in Requests, n \in Attempts : Preflight(c, r, n)
    \/ \E c \in Calls :
           VerifyOriginBytes(c) \/ CompleteAttestedIngest(c) \/ AbandonCall(c)
    \/ \E S \in SUBSET Requests : ClaimJobs(S) \/ ClaimCleanupJobs(S)
    \/ EnqueueCleanupCandidates
    \/ CourseChanges
    \/ Publish

Spec == Init /\ [][Next]_vars

(***************************************************************************)
(* Fairness.  Time passes; the processing workers and the cleanup trigger  *)
(* keep polling.  Claims take the oldest rows first and every failure      *)
(* moves a row back, so each claimable row is eventually in a batch.       *)
(* Nothing is assumed of uploaders, workers, the scanner or the origin.    *)
(***************************************************************************)
Fairness ==
    /\ \A r \in Requests :
        /\ WF_vars(Ages(r))
        /\ WF_vars(JobDeadline(r))
        /\ WF_vars(CleanupDeadline(r))
        /\ WF_vars(\E S \in SUBSET Requests : r \in S /\ ClaimJobs(S))
        /\ WF_vars(\E S \in SUBSET Requests : r \in S /\ ClaimCleanupJobs(S))
    /\ WF_vars(ClaimJobs({}))
    /\ WF_vars(ClaimCleanupJobs({}))
    /\ WF_vars(EnqueueCleanupCandidates)

FairSpec == Spec /\ Fairness
------------------------------------------------------------------------------
(***************************************************************************)
(* Properties.                                                             *)
(***************************************************************************)
TypeOK ==
    /\ draft \in BOOLEAN /\ member \in BOOLEAN /\ approved \in BOOLEAN
    /\ ingest \in [Requests -> IngestStatus]
    /\ plan \in [Requests -> PlanStatus]
    /\ aged \in [Requests -> BOOLEAN]
    /\ rejectedAt \in [Requests -> Nat]
    /\ transfer \in [Requests -> TransferStage]
    /\ puts \subseteq Requests
    /\ object \subseteq Requests
    /\ fenced \subseteq Requests
    /\ output \subseteq Requests
    /\ job \in [Requests -> JobRow]
    /\ asset \subseteq Requests
    /\ call \in [Calls -> CallState]
    /\ cleanup \in [Requests -> CleanupRow]
    /\ cleaner \in [Requests -> [Attempts -> CleanerStage]]

\* What a student may be served is a finished upload: its processing job is
\* done, its output exists, and its source was never fenced or deleted.
ReadyIsProcessed ==
    \A r \in asset :
        /\ ingest[r] = "ready"
        /\ job[r].status = "done"
        /\ r \in output
        /\ r \in object
        /\ r \notin fenced

\* Cleanup only ever targets rejected uploads that students cannot see.
CleanupOnlyRejected ==
    \A r \in Requests :
        cleanup[r].status # "none" => ingest[r] = "rejected" /\ r \notin asset

\* A cleanup job that reports success means the bytes are gone and cannot come
\* back, not even through a PUT that is still on its way.
DoneIsFenced ==
    \A r \in Requests :
        cleanup[r].status = "done" => r \in fenced /\ r \notin object

\* The row says quarantined only when the origin holds the bytes, and only
\* then does a processing job work on it.
QuarantineIsBacked ==
    \A r \in Requests :
        /\ ingest[r] = "quarantined" => r \in object /\ job[r] # NoRow
        /\ job[r].status \in {"queued", "leased"} => ingest[r] = "quarantined"

\* Uploads and open plans together never exceed the course's quota, and one
\* request id never names both.
SharedQuota ==
    /\ Cardinality(Uploads) + Cardinality(OpenPlans(plan)) <= MaxIntents
    /\ \A r \in Requests : ingest[r] # "none" => plan[r] = "none"

\* Nothing becomes visible to students unless, at that very step, the course
\* is an approved draft, however long ago the bytes were checked.
PublishesOnlyAuthorized == [][asset' # asset => Authorized]_vars

\* Of the callbacks in progress, only the one holding the latest lease of an
\* upload publishes it: late retries cannot publish an orphaned output.
OnlyHolderPublishes ==
    [][\A r \in asset' \ asset :
          \E c \in Calls : /\ call[c].stage = "verified"
                           /\ call[c].req = r
                           /\ call[c].token = job[r].attempts]_vars

\* While a lease is live no other claim takes its row: the token of the row
\* changes only after the lease has run out or its holder has given it up.
LiveLeaseIsExclusive ==
    [][\A r \in Requests :
          /\ job[r].status = "leased" /\ job[r].ahead
                => job'[r].attempts = job[r].attempts
          /\ cleanup[r].status = "leased" /\ cleanup[r].ahead
                => cleanup'[r].attempts = cleanup[r].attempts]_vars

\* Ready and rejected are final: no late PUT, callback or sweep revives or
\* withdraws an upload.
OutcomeIsFinal ==
    [][\A r \in Requests :
          ingest[r] \in {"ready", "rejected"} => ingest'[r] = ingest[r]]_vars

OutcomeOf(r) ==
    CASE cleanup[r].status = "done" -> "erased"
      [] cleanup[r].status # "done" /\ ingest[r] = "rejected" -> "discarded"
      [] cleanup[r].status # "done" /\ ingest[r] = "ready" -> "published"
      [] OTHER -> "open"

Promise == INSTANCE UploadOutcome WITH
    outcome <- [r \in Requests |-> OutcomeOf(r)],
    bytes <- object

\* A publication is authorized at that very step, and the work of the lease that
\* counts: both of the above.
PublicationIsSafe == PublishesOnlyAuthorized /\ OnlyHolderPublishes

\* The pipeline implements its promise: see UploadOutcome.
KeepsPromise == Promise!Spec

\* The uploads the sweep looks at before r: rejected no later, and never left out.
RejectedBefore(r) ==
    {s \in Requests \ {r} : ingest[s] = "rejected" /\ rejectedAt[s] <= rejectedAt[r]}

\* Nothing waits for ever, whatever the workers do: a reservation nobody uses is
\* released, quarantined bytes become an asset or are rejected, and a cleanup job
\* reaches an end.  A rejected upload gets such a job if it is among the oldest that
\* fit into one batch; of the others see RejectedIsQueued.
UploadsResolve ==
    \A r \in Requests :
        /\ ingest[r] = "reserved" ~> ingest[r] # "reserved"
        /\ ingest[r] = "quarantined" ~> ingest[r] \in {"ready", "rejected"}
        /\ ingest[r] = "rejected" /\ Cardinality(RejectedBefore(r)) < BatchLimit
              ~> cleanup[r] # NoRow
        /\ cleanup[r] # NoRow ~> cleanup[r].status \in {"done", "dead"}

\* The sweep puts rejected uploads older than an hour into the cleanup queue.
RejectedIsQueued ==
    \A r \in Requests : ingest[r] = "rejected" ~> cleanup[r] # NoRow
==============================================================================
